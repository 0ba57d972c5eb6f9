----------------------------- MODULE Rebalance -----------------------------
(***************************************************************************)
(* rebalance_slots: the minimum-churn reassignment of selection slots. A   *)
(* slot map is a function from 1..space to members (natural numbers) or    *)
(* Unowned; the empty function is a map that was never initialised. The    *)
(* target counts are a function from members to positive seat counts.      *)
(***************************************************************************)
EXTENDS Naturals, FiniteSets, Functions

Unowned == 0
NoSlots == [s \in {} |-> Unowned]
Unassigned(space) == [s \in 1..space |-> Unowned]

Least(a, b) == IF a < b THEN a ELSE b

\* Faulty: a slot, or a seat, is given away as if its member lost nothing by it.
DropsNothing(p, r) == 0
NeedsNothing(p, r) == 0

\* How much min(pending, remaining) falls when either is taken down by one.
DropPending(p, r) == Least(p, r) - Least(p - 1, r)
DropRemaining(p, r) == Least(p, r) - Least(p, r - 1)

\* The slots of a map that a member owns.
OwnedBy(slots, m) == {s \in DOMAIN slots : slots[s] = m}

\* One slot of the greedy construction, whose owner was o. In the construction b,
\* "pending" counts the undecided slots a member still owns, "remaining" its
\* capacity not yet granted, "achievable" how many undecided slots can still keep
\* their owner. The slot goes to the smallest member that keeps the budget in reach.
Decide(b, o, table, budget) ==
  LET pending     == IF o = Unowned THEN b.pending ELSE [b.pending EXCEPT ![o] = @ - 1]
      drop        == IF o = Unowned THEN 0 ELSE DropPending(b.pending[o], b.remaining[o])
      Kept(m)     == b.kept + IF m = o THEN 1 ELSE 0
      After(m)    == b.achievable - drop - DropRemaining(pending[m], b.remaining[m])
      Feasible(m) == b.remaining[m] # 0 /\ Kept(m) + After(m) >= budget
      Grant(m)    == [owner |-> m, pending |-> pending, kept |-> Kept(m),
                      remaining |-> [b.remaining EXCEPT ![m] = @ - 1], achievable |-> After(m)]
  IN  Grant(CHOOSE m \in table : Feasible(m) /\ \A n \in table : Feasible(n) => m <= n)

\* All slots in ascending order: "held" are the slots that each member owns in the
\* old map, "quota" those it is to own, "budget" those that can keep their owner.
Construct(old, held, quota, budget) ==
  LET table == DOMAIN quota
      decided[s \in 0..Cardinality(DOMAIN old)] ==
        IF s = 0
        THEN [owner |-> Unowned, pending |-> held, remaining |-> quota,
              achievable |-> budget, kept |-> 0]
        ELSE Decide(decided[s - 1], old[s], table, budget)
  IN  [s \in DOMAIN old |-> decided[s].owner]

\* rebalance_slots: a map of another size counts as unowned.
Rebalance(current, space, target) ==
  LET old   == IF DOMAIN current = 1..space THEN current ELSE Unassigned(space)
      table == DOMAIN target \cup (Range(old) \ {Unowned})
      quota == [m \in table |-> IF m \in DOMAIN target THEN target[m] ELSE 0]
      held  == [m \in table |-> Cardinality(OwnedBy(old, m))]
  IN  Construct(old, held, quota, SumFunction([m \in table |-> Least(held[m], quota[m])]))

\* The moves a new map needs: the slots that do not keep their owner. A map of
\* another size, or none, has no owner to keep.
Churn(current, new) ==
  IF DOMAIN current = DOMAIN new
  THEN Cardinality({s \in DOMAIN new : current[s] # new[s]})
  ELSE Cardinality(DOMAIN new)
=============================================================================
