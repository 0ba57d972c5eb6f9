--------------------------- MODULE MCSlotsProofs ---------------------------
(***************************************************************************)
(* For any members, weights and selection spaces: the seats of apportion   *)
(* are those of the largest-remainder method, whatever the scale of the    *)
(* weights, and the map of rebalance_slots is the least of all maps with   *)
(* those seats. The invariants of MCSlots say so of the request in hand;   *)
(* they follow from the theorems on the two algorithms in SlotTheorems.    *)
(***************************************************************************)
EXTENDS MCSlots, SlotTheorems

\* A request is one the set can make, and its answers are those of the algorithms.
IInv ==
  /\ IsRequest(space, weights) /\ DOMAIN weights \subseteq Member
  /\ Answered => seats = Apportion(space, weights)
  /\ new # NoSlots =>
       Answered /\ current \in Maps(space) /\ new = Rebalance(current, space, Targets)

\* The first request is one the set can make.
LEMMA InitIInv == Init => IInv
<1> SUFFICES ASSUME Init PROVE IInv
  OBVIOUS
<1>1. PICK used \in SUBSET Member : weights \in [used -> 0..MaxWeight]
  BY DEF Init
<1>2. IsFiniteSet(DOMAIN weights) /\ DOMAIN weights \subseteq Nat /\ DOMAIN weights \subseteq Member
  BY <1>1, SlotsAssumption, FS_Subset
<1>3. IsWeights(weights) /\ space \in Nat
  BY <1>1, SlotsAssumption DEF Init, IsWeights
<1> QED
  BY <1>2, <1>3 DEF Init, IInv, IsRequest, Answered

\* Seats are answered once, and a map is built for seats that were.
LEMMA NextIInv == IInv /\ [Apportioned \/ Mapped]_vars => IInv'
<1> SUFFICES ASSUME IInv, [Apportioned \/ Mapped]_vars PROVE IInv'
  OBVIOUS
<1>1. CASE Apportioned
  BY <1>1 DEF IInv, Apportioned, Answered
<1>2. CASE Mapped
  BY <1>2 DEF IInv, Mapped, Answered, Targets
<1>3. CASE UNCHANGED vars
  BY <1>3 DEF IInv, vars, Answered, Targets
<1> QED
  BY <1>1, <1>2, <1>3

\* The invariant that the theorems below rest on.
THEOREM Invariant == Spec => []IInv
  BY InitIInv, NextIInv, PTL DEF Spec

----------------------------------------------------------------------------

\* apportion() seats the whole space, each member within the quota of its share.
THEOREM SeatsAreExact == Spec => []ExactQuota
<1>1. IInv => ExactQuota
  <2> SUFFICES ASSUME IInv, Answered PROVE ExactQuota
    BY DEF ExactQuota
  <2>1. IsRequest(space, weights) /\ seats = Apportion(space, weights)
    BY DEF IInv
  <2> QED
    BY <2>1, SeatsFillSpace, SeatsWithinQuota DEF ExactQuota, Total
<1> QED
  BY <1>1, Invariant, PTL

\* The leftover seats are given out by the order of the remainders, and of identities.
THEOREM SeatsGoByRemainder == Spec => []LargestRemainderFirst
<1>1. IInv => LargestRemainderFirst
  <2> SUFFICES ASSUME IInv, Answered PROVE LargestRemainderFirst
    BY DEF LargestRemainderFirst
  <2>1. IsRequest(space, weights) /\ seats = Apportion(space, weights)
    BY DEF IInv
  <2> QED
    BY <2>1, SeatsByRemainder DEF LargestRemainderFirst, Total
<1> QED
  BY <1>1, Invariant, PTL

\* The same ratio in another scale has the same canonical weights and the same seats.
THEOREM ScaleIsIgnored == Spec => []ScaleFree
<1>1. IInv => ScaleFree
  <2> SUFFICES ASSUME IInv, NEW k \in 2..MaxScale, NEW v, v = [m \in DOMAIN weights |-> k * weights[m]]
               PROVE  Canonical(v) = Canonical(weights) /\ (Answered => Apportion(space, v) = seats)
    BY DEF ScaleFree
  <2>1. IsWeights(weights) /\ (Answered => seats = Apportion(space, weights)) /\ k \in Nat \ {0}
    BY SlotsAssumption DEF IInv, IsRequest
  <2> QED
    BY <2>1, SeatsIgnoreScale
<1> QED
  BY <1>1, Invariant, PTL

----------------------------------------------------------------------------

\* The request for a map that the seats make.
LEMMA AsksForMap == ASSUME IInv, new # NoSlots
                    PROVE  IsRebalance(current, space, Targets) /\ new = Rebalance(current, space, Targets)
<1>1. /\ IsRequest(space, weights) /\ seats = Apportion(space, weights) /\ current \in Maps(space)
      /\ new = Rebalance(current, space, Targets)
  BY DEF IInv
<1>2. DOMAIN weights \subseteq Nat \ {0}
  BY SlotsAssumption DEF IInv, Unowned
<1>3. current = [s \in DOMAIN current |-> current[s]] /\ Range(current) \in SUBSET (Owner \cup {Unowned})
  BY <1>1 DEF Maps, NoSlots, Unassigned, Range
<1>4. IsFiniteSet(Range(current)) /\ Range(current) \subseteq Nat
  <2>1. IsFiniteSet(Owner \cup {Unowned})
    BY SlotsAssumption, FS_AddElement
  <2>2. IsFiniteSet(Range(current))
    BY <1>3, <2>1, FS_Subset
  <2> QED
    BY <1>3, <2>2, SlotsAssumption DEF Unowned
<1>5. Targets = SeatedOf(Apportion(space, weights))
  BY <1>1 DEF Targets, SeatedOf
<1> QED
  BY <1>1, <1>2, <1>3, <1>4, <1>5, SeatsAskForMap

\* The map built is the least of the maps with the seats: it moves the fewest slots,
\* and of the maps that move as few it is the lexicographically smallest.
THEOREM MapIsLeast == Spec => []LeastChurnFirst
<1>1. IInv => LeastChurnFirst
  <2> SUFFICES ASSUME IInv, new # NoSlots
               PROVE  /\ new \in Fitting
                      /\ \A f \in Fitting \ {new} :
                           \/ Churn(current, f) > Churn(current, new)
                           \/ Churn(current, f) = Churn(current, new) /\ Precedes(new, f)
    BY DEF LeastChurnFirst
  <2>1. IsRebalance(current, space, Targets) /\ new = Rebalance(current, space, Targets)
    BY AsksForMap
  <2>2. \A f : f \in Fitting <=> Fits(f, space, Targets)
    BY DEF Fitting, Fits
  <2>3. Fits(new, space, Targets)
    BY <2>1, RebalanceFits
  <2>4. \A f : Fits(f, space, Targets) /\ f # new =>
                 \/ Churn(current, f) > Churn(current, new)
                 \/ Churn(current, f) = Churn(current, new) /\ Before(new, f, space)
    BY <2>1, RebalanceIsLeast
  <2>5. \A f : Before(new, f, space) <=> Precedes(new, f)
    BY DEF Before, Precedes
  <2> QED
    BY <2>2, <2>3, <2>4, <2>5
<1> QED
  BY <1>1, Invariant, PTL

\* The slots that move are exactly the seats that members gain.
THEOREM MovesAreGains == Spec => []ChurnIsGain
<1>1. IInv => ChurnIsGain
  <2> SUFFICES ASSUME IInv, new # NoSlots PROVE ChurnIsGain
    BY DEF ChurnIsGain
  <2>1. Churn(current, new) = SumFunction(GainOf(current, space, Targets))
    BY AsksForMap, RebalanceMovesGain
  <2> QED
    BY <2>1 DEF ChurnIsGain, GainOf
<1> QED
  BY <1>1, Invariant, PTL
=============================================================================
