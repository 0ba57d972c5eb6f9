------------------------------ MODULE MCSlots ------------------------------
(***************************************************************************)
(* Checks the two algorithms behind a slot map on every small request:     *)
(* Apportion against the definition of the largest-remainder method on the *)
(* raw weights, then Rebalance against all maps with the same counts.      *)
(***************************************************************************)
EXTENDS Apportionment, Rebalance

CONSTANTS
  Member,       \* identities
  MaxWeight,    \* bound: the largest weight of a request
  MaxSpace,     \* bound: the largest selection space of a request
  MaxScale,     \* bound: the largest factor the weights are scaled by
  Owner,        \* bound: the members of requests whose map is built
  MaxMapped     \* bound: the largest space a map is built for

ASSUME SlotsAssumption ==
  /\ IsFiniteSet(Member) /\ Member \subseteq Nat \ {Unowned}
  /\ IsFiniteSet(Owner) /\ Owner \subseteq Nat \ {Unowned}
  /\ MaxSpace \in Nat /\ MaxScale \in Nat

VARIABLES space, weights, seats, current, new

vars == <<space, weights, seats, current, new>>

NoSeats == [m \in {} |-> 0]
Answered == seats # NoSeats

Init ==
  /\ space \in 1..MaxSpace
  /\ \E used \in SUBSET Member : weights \in [used -> 0..MaxWeight]
  /\ ~AllZero(weights)
  /\ seats = NoSeats /\ current = NoSlots /\ new = NoSlots

Apportioned ==
  /\ ~Answered
  /\ seats' = Apportion(space, weights)
  /\ UNCHANGED <<space, weights, current, new>>

\* The maps a set can hold: owners that are members, or nobody's, in a map of the
\* same size, or a map of another size.
Maps(size) ==
  {NoSlots, Unassigned(size + 1)} \cup [1..size -> Owner \cup {Unowned}]
    \cup {[s \in 1..(size - 1) |-> m] : m \in Owner}

Targets == [m \in {x \in DOMAIN seats : seats[x] > 0} |-> seats[m]]

\* The map is built for the requests whose weights add up to the space: they
\* have every possible vector of seats already, and the smallest of weights.
Mapped ==
  /\ Answered /\ new = NoSlots
  /\ DOMAIN weights \subseteq Owner /\ space <= MaxMapped /\ SumFunction(weights) = space
  /\ current' \in Maps(space)
  /\ new' = Rebalance(current', space, Targets)
  /\ UNCHANGED <<space, weights, seats>>

Spec == Init /\ [][Apportioned \/ Mapped]_vars

Total == SumFunction(weights)

\* Every slot is seated, each member has the floor or the ceiling of its exact
\* share, and a member with no weight has no seat: the seats of apportion() are
\* complete and stay within the quota, whatever divisor was taken out.
ExactQuota ==
  Answered =>
    /\ SumFunction(seats) = space
    /\ \A m \in DOMAIN weights :
         /\ seats[m] * Total < space * weights[m] + Total
         /\ space * weights[m] < seats[m] * Total + Total

\* A seat above the floor goes to the members with the largest remainders, and to
\* the smaller identity of two equal ones: no other choice of members is answered.
LargestRemainderFirst ==
  LET Floor(m) == (space * weights[m]) \div Total
      Rest(m)  == (space * weights[m]) % Total
  IN  Answered =>
        \A m, n \in DOMAIN weights :
          seats[m] > Floor(m) /\ seats[n] = Floor(n) =>
            Rest(m) > Rest(n) \/ (Rest(m) = Rest(n) /\ m < n)

\* "Scale carries no semantics": the same ratio in another scale is answered with
\* the same seats and has the same canonical weights.
ScaleFree ==
  \A k \in 2..MaxScale :
    LET scaled == [m \in DOMAIN weights |-> k * weights[m]] IN
    /\ Canonical(scaled) = Canonical(weights)
    /\ Answered => Apportion(space, scaled) = seats

\* The maps that give every member its count.
Fitting ==
  {f \in [1..space -> DOMAIN Targets] :
     \A m \in DOMAIN Targets : Cardinality(OwnedBy(f, m)) = Targets[m]}

\* The slot-to-owner vector of f comes before that of g.
Precedes(f, g) ==
  \E s \in 1..space : f[s] < g[s] /\ \A r \in 1..(s - 1) : f[r] = g[r]

\* "The fewest ownership changes; among those, the lexicographically smallest
\* slot-to-owner vector" (README): the greedy construction of rebalance_slots
\* finds exactly that map, from any map the set may hold.
LeastChurnFirst ==
  new # NoSlots =>
    /\ new \in Fitting
    /\ \A f \in Fitting \ {new} :
         \/ Churn(current, f) > Churn(current, new)
         \/ Churn(current, f) = Churn(current, new) /\ Precedes(new, f)

\* "The required number of changes is exactly computable from the old and target
\* quotas, and the runtime achieves it" (README): it is the seats members gain.
ChurnIsGain ==
  LET Held(m) == IF DOMAIN current = 1..space THEN Cardinality(OwnedBy(current, m)) ELSE 0
      Gain(m) == IF Targets[m] > Held(m) THEN Targets[m] - Held(m) ELSE 0
  IN  new # NoSlots => Churn(current, new) = SumFunction([m \in DOMAIN Targets |-> Gain(m)])
=============================================================================
