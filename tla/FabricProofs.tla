---------------------------- MODULE FabricProofs ----------------------------
(***************************************************************************)
(* For any number of sets, paths, multipath sets and members: the reverse  *)
(* indexes name what they should, no member is bound ahead of the views,   *)
(* a closed set carries nothing and stays closed until a restart, every    *)
(* state can be recovered, and no commit moves a slot without need. As     *)
(* long as no commit is refused, the slots and the lifecycle of every set  *)
(* are those that the views of the moment justify. The argument is about   *)
(* what a commit makes of any working copy (Sound, Fresh), and what it may *)
(* never touch: the members of the copy and what they are bound to.        *)
(***************************************************************************)
EXTENDS Fabric, SlotTheorems

\* The records the engine keeps, and those of the working copies it edits.
States == {"Current", "ZeroWeight", "AdminDisabled", "StalePathAuthority", "StaleMultipath",
           "RevalidationRequired", "Revoked", "Retired"}
AnyMember ==
  [bound : ViewGen, w : Weights, on : BOOLEAN, mp : Bindings, canonical : Nat, state : States \cup {"New"}]
Members == UNION {[used -> AnyMember] : used \in (SUBSET Path) \ {{}}}
SlotMaps == UNION {[1..n -> Path \cup {Unowned}] : n \in Nat}
SetRecord ==
  [life : Lifecycles, space : Spaces, min : 1..Cardinality(Path), mem : Members, slots : SlotMaps,
   auth : BOOLEAN, gen : [Kinds -> 1..MaxGen]]

\* The members of a set are some of the paths, each with its record.
LEMMA MembersAre ==
  ASSUME NEW mem
  PROVE  mem \in Members <=> mem \in [DOMAIN mem -> AnyMember] /\ DOMAIN mem \subseteq Path /\ DOMAIN mem # {}
<1>1. ASSUME mem \in [DOMAIN mem -> AnyMember], DOMAIN mem \subseteq Path, DOMAIN mem # {}
      PROVE  mem \in Members
  <2>1. DOMAIN mem \in (SUBSET Path) \ {{}}
    BY <1>1
  <2> QED
    BY <1>1, <2>1, Zenon DEF Members
<1>2. ASSUME mem \in Members
      PROVE  mem \in [DOMAIN mem -> AnyMember] /\ DOMAIN mem \subseteq Path /\ DOMAIN mem # {}
  <2>1. PICK used \in (SUBSET Path) \ {{}} : mem \in [used -> AnyMember]
    BY <1>2, Zenon DEF Members
  <2> QED
    BY <2>1
<1> QED
  BY <1>1, <1>2

\* A slot map has finitely many owners, which are members or nobody.
LEMMA SlotMapsAre ==
  ASSUME NEW slots \in SlotMaps
  PROVE  /\ slots = [s \in DOMAIN slots |-> slots[s]] /\ DOMAIN slots \subseteq Nat
         /\ IsFiniteSet(Range(slots)) /\ Range(slots) \subseteq Nat /\ Range(slots) \subseteq Path \cup {Unowned}
<1>1. PICK n \in Nat : slots \in [1..n -> Path \cup {Unowned}]
  BY DEF SlotMaps
<1>2. Range(slots) \in SUBSET (Path \cup {Unowned})
  BY <1>1 DEF Range
<1>3. IsFiniteSet(Path \cup {Unowned}) /\ Path \cup {Unowned} \subseteq Nat
  BY FabricAssumption, FS_AddElement DEF Unowned
<1>4. IsFiniteSet(Range(slots))
  BY <1>2, <1>3, FS_Subset
<1> QED
  BY <1>1, <1>2, <1>3, <1>4

----------------------------------------------------------------------------
(* Members.                                                                 *)

\* Two records of a member are of the same declaration.
Agree(m, n) == n.bound = m.bound /\ n.w = m.w /\ n.on = m.on /\ n.mp = m.mp
SameMembers(s, t) == DOMAIN t.mem = DOMAIN s.mem /\ \A x \in DOMAIN s.mem : Agree(s.mem[x], t.mem[x])

\* What evaluation does to a lifecycle: it leaves Closed and RevalidationRequired alone.
InService == {"Active", "Degraded"}
Evaluated(life, new) ==
  IF life \in Closed \cup {"RevalidationRequired"} THEN new = life ELSE new \in InService

\* The states of the members are what the views p and q make of them.
Fresh(s, p, q) == \A x \in DOMAIN s.mem : s.mem[x].state = DeriveState(s.life, x, s.mem[x], p, q)

\* The state is one that the store can hold, and a member that is current has a weight.
LEMMA DerivedState ==
  ASSUME NEW life \in Lifecycles, NEW x, NEW m, NEW p, NEW q
  PROVE  /\ DeriveState(life, x, m, p, q) \in States
         /\ DeriveState(life, x, m, p, q) = "Current" => m.w # 0 /\ life \in InService \cup {"Declared"}
BY DEF DeriveState, States, Lifecycles, Mutable, Closed, InService

\* The state is one of the declaration and the views, and evaluating the lifecycle does not change it.
LEMMA DerivedSame ==
  ASSUME NEW life \in Lifecycles, NEW new, Evaluated(life, new), NEW x, NEW m, NEW n, Agree(m, n), NEW p, NEW q
  PROVE  DeriveState(new, x, n, p, q) = DeriveState(life, x, m, p, q)
<1>1. PathCurrent(x, n, p) = PathCurrent(x, m, p) /\ n.on = m.on /\ n.w = m.w /\ n.mp = m.mp
  BY DEF Agree, PathCurrent
<1> QED
  BY <1>1 DEF DeriveState, Evaluated, Lifecycles, Mutable, Closed, InService

\* It is told from the member's own path and multipath set only.
LEMMA DerivedFromOwn ==
  ASSUME NEW life \in Lifecycles, NEW x, NEW m, NEW p, NEW q, NEW r, NEW t,
         PathCurrent(x, m, r) <=> PathCurrent(x, m, p),
         m.mp # NoBinding => (MultipathCurrent(m.mp, t) <=> MultipathCurrent(m.mp, q))
  PROVE  DeriveState(life, x, m, r, t) = DeriveState(life, x, m, p, q)
BY DEF DeriveState, Lifecycles, Mutable, Closed

\* evaluate_members keeps the set and what its members declare.
LEMMA EvaluateKeeps ==
  ASSUME NEW s \in SetRecord, ~AllZero(DeclaredWeights(s)), NEW p, NEW q, NEW e, e = Evaluate(s, p, q)
  PROVE  /\ e \in SetRecord /\ SameMembers(s, e)
         /\ e.life = s.life /\ e.space = s.space /\ e.min = s.min /\ e.slots = s.slots
         /\ e.auth = s.auth /\ e.gen = s.gen
         /\ \A x \in DOMAIN s.mem : /\ e.mem[x].canonical = Canonical(DeclaredWeights(s))[x]
                                    /\ e.mem[x].state = DeriveState(s.life, x, s.mem[x], p, q)
<1> DEFINE w == DeclaredWeights(s)
           c == Canonical(w)
           state(x) == DeriveState(s.life, x, s.mem[x], p, q)
           new(x) == [s.mem[x] EXCEPT !.canonical = c[x], !.state = state(x)]
           mem == [x \in DOMAIN s.mem |-> new(x)]
<1>1. e = [s EXCEPT !.mem = mem]
  BY Zenon DEF Evaluate
<1>2. s.mem \in [DOMAIN s.mem -> AnyMember] /\ DOMAIN s.mem \subseteq Path /\ DOMAIN s.mem # {} /\ s.life \in Lifecycles
  BY MembersAre DEF SetRecord
<1>3. \A x \in DOMAIN s.mem : c[x] \in Nat
  <2>1. IsWeights(w) /\ DOMAIN w = DOMAIN s.mem
    BY <1>2, FabricAssumption DEF DeclaredWeights, IsWeights, AnyMember
  <2>2. IsFiniteSet(DOMAIN w)
    BY <1>2, <2>1, FabricAssumption, FS_Subset
  <2> HIDE DEF w
  <2> QED
    BY <2>1, <2>2, CanonicalWeights
<1>4. \A x \in DOMAIN s.mem : state(x) \in States
  BY <1>2, DerivedState
<1> HIDE DEF state, c
<1>5. ASSUME NEW x \in DOMAIN s.mem
      PROVE  /\ new(x) \in AnyMember /\ Agree(s.mem[x], new(x))
             /\ new(x).canonical = c[x] /\ new(x).state = state(x)
  <2>1. s.mem[x] \in AnyMember /\ c[x] \in Nat /\ state(x) \in States
    BY <1>2, <1>3, <1>4
  <2> QED
    BY <2>1 DEF AnyMember, Agree
<1> HIDE DEF new
<1>6. DOMAIN mem = DOMAIN s.mem /\ \A x \in DOMAIN s.mem : mem[x] = new(x)
  OBVIOUS
<1>7. mem \in [DOMAIN mem -> AnyMember]
  BY <1>5
<1> HIDE DEF mem
<1>8. mem \in Members
  BY <1>2, <1>6, <1>7, MembersAre
<1>9. /\ e \in SetRecord /\ e.mem = mem /\ e.life = s.life /\ e.space = s.space /\ e.min = s.min
      /\ e.slots = s.slots /\ e.auth = s.auth /\ e.gen = s.gen
  BY <1>1, <1>8 DEF SetRecord
<1> QED
  BY <1>5, <1>6, <1>9 DEF SameMembers, c, state

----------------------------------------------------------------------------
(* Evaluation and commits.                                                  *)

\* What a committed set is, whatever the views were: its map and its lifecycle are
\* those of the states its members were given.
Sound(s) ==
  /\ ~AllZero(DeclaredWeights(s)) /\ s.life # "Declared" /\ Fitting(s)
  /\ Range(s.slots) \subseteq DOMAIN s.mem \cup {Unowned}
  /\ \A x \in DOMAIN s.mem :
       /\ s.mem[x].state \in States /\ s.mem[x].canonical = Canonical(DeclaredWeights(s))[x]
       /\ s.mem[x].state = "Current" => s.mem[x].w # 0
  /\ s.auth <=> s.life \in InService /\ Contributing(s) # {}
  /\ s.auth => Fits(s.slots, s.space, Targets(s))
  /\ s.life \in InService => (s.life = "Active" <=> Cardinality(Contributing(s)) >= s.min)
  /\ s.life \in Closed => Range(s.slots) \subseteq {Unowned}

\* Of a set that serves the seats ask for a map, whatever map it had.
LEMMA SeatsAsk ==
  ASSUME NEW s \in SetRecord, Contributing(s) # {}, \A x \in Contributing(s) : s.mem[x].w # 0,
         NEW slots \in SlotMaps
  PROVE  /\ IsRebalance(slots, s.space, Targets(s))
         /\ DOMAIN Seats(s) = DOMAIN s.mem /\ \A x \in DOMAIN s.mem : Seats(s)[x] \in Nat
<1> DEFINE w == [x \in DOMAIN s.mem |-> IF x \in Contributing(s) THEN s.mem[x].w ELSE 0]
<1>1. s.mem \in [DOMAIN s.mem -> AnyMember] /\ DOMAIN s.mem \subseteq Path /\ s.space \in Spaces
  BY MembersAre DEF SetRecord
<1>2. \A x \in DOMAIN s.mem : s.mem[x].w \in Nat
  BY <1>1, FabricAssumption DEF AnyMember
<1>3. DOMAIN w = DOMAIN s.mem /\ \A x \in DOMAIN w : w[x] \in Nat
  BY <1>2
<1>4. \E x \in DOMAIN w : w[x] # 0
  BY <1>2 DEF Contributing
<1>5. IsFiniteSet(DOMAIN w) /\ DOMAIN w \subseteq Nat \ {0} /\ s.space \in Nat
  BY <1>1, <1>3, FabricAssumption, FS_Subset
<1>6. Seats(s) = Apportion(s.space, w)
  BY DEF Seats
<1> HIDE DEF w
<1>7. IsRequest(s.space, w)
  BY <1>3, <1>4, <1>5 DEF IsRequest, IsWeights, AllZero
<1>8. Targets(s) = SeatedOf(Apportion(s.space, w))
  BY <1>6 DEF Targets, SeatedOf
<1>9. /\ IsFiniteSet(Range(slots)) /\ Range(slots) \subseteq Nat
      /\ slots = [i \in DOMAIN slots |-> slots[i]]
  BY SlotMapsAre
<1>10. /\ IsRebalance(slots, s.space, SeatedOf(Apportion(s.space, w)))
       /\ DOMAIN Apportion(s.space, w) = DOMAIN w
       /\ \A x \in DOMAIN w : Apportion(s.space, w)[x] \in Nat
  BY <1>5, <1>7, <1>9, SeatsAskForMap
<1> QED
  BY <1>3, <1>6, <1>8, <1>10

\* A map in force has an owner for every slot, and every member the seats it has.
LEMMA ServedSeats ==
  ASSUME NEW s \in SetRecord, Sound(s), s.auth
  PROVE  /\ DOMAIN s.slots = 1..s.space /\ Unowned \notin Range(s.slots)
         /\ Range(s.slots) \subseteq DOMAIN Targets(s)
         /\ \A x \in DOMAIN s.mem : Cardinality(OwnedBy(s.slots, x)) = Seats(s)[x]
<1>1. Fits(s.slots, s.space, Targets(s)) /\ Contributing(s) # {} /\ s.slots \in SlotMaps
      /\ \A x \in Contributing(s) : s.mem[x].w # 0
  BY DEF Sound, SetRecord, Contributing
<1>2. DOMAIN Seats(s) = DOMAIN s.mem /\ \A x \in DOMAIN s.mem : Seats(s)[x] \in Nat
  BY <1>1, SeatsAsk
<1>3. /\ DOMAIN Targets(s) = {x \in DOMAIN s.mem : Seats(s)[x] > 0}
      /\ \A x \in DOMAIN Targets(s) : Targets(s)[x] = Seats(s)[x]
  BY <1>2 DEF Targets
<1>4. s.slots \in [1..s.space -> DOMAIN Targets(s)]
      /\ \A x \in DOMAIN Targets(s) : Cardinality(OwnedBy(s.slots, x)) = Seats(s)[x]
  BY <1>1, <1>3 DEF Fits
<1>5. Range(s.slots) \subseteq DOMAIN Targets(s)
  BY <1>4 DEF Range
<1>6. Unowned \notin DOMAIN s.mem
  BY MembersAre, FabricAssumption DEF SetRecord, Unowned
<1>7. ASSUME NEW x \in DOMAIN s.mem, x \notin DOMAIN Targets(s)
      PROVE  Cardinality(OwnedBy(s.slots, x)) = Seats(s)[x]
  <2>1. OwnedBy(s.slots, x) = {}
    BY <1>5, <1>7 DEF OwnedBy, Range
  <2> QED
    BY <1>2, <1>3, <1>7, <2>1, FS_EmptySet
<1> QED
  BY <1>3, <1>4, <1>5, <1>6, <1>7

\* Evaluating a lifecycle counts the members that contribute.
LEMMA EvaluatedLife ==
  ASSUME NEW s \in SetRecord, NEW life, life = EvaluateLifecycle(s)
  PROVE  /\ life \in Lifecycles /\ life # "Declared" /\ Evaluated(s.life, life)
         /\ life \in InService => (life = "Active" <=> Cardinality(Contributing(s)) >= s.min)
<1>1. DOMAIN s.mem \subseteq Path /\ s.life \in Lifecycles /\ s.min \in 1..Cardinality(Path)
  BY MembersAre DEF SetRecord
<1>2. Contributing(s) \in SUBSET Path
  BY <1>1 DEF Contributing
<1>3. IsFiniteSet(Contributing(s))
  BY <1>2, FabricAssumption, FS_Subset
<1>4. Cardinality(Contributing(s)) \in Nat /\ (Contributing(s) = {} => Cardinality(Contributing(s)) = 0)
  BY <1>3, FS_CardinalityType, FS_EmptySet
<1>5. s.min \in Nat /\ s.min > 0
  BY <1>1, FabricAssumption, FS_CardinalityType
<1> QED
  BY <1>1, <1>4, <1>5 DEF EvaluateLifecycle, Evaluated, Lifecycles, Mutable, Closed, InService

\* Of two records of a set that differ in their generations only both are sound, or neither is.
LEMMA SoundBut ==
  ASSUME NEW s, NEW t, t.life = s.life, t.space = s.space, t.min = s.min, t.mem = s.mem,
         t.slots = s.slots, t.auth = s.auth
  PROVE  Sound(s) => Sound(t)
<1>1. Contributing(t) = Contributing(s) /\ DeclaredWeights(t) = DeclaredWeights(s) /\ Seats(t) = Seats(s)
  BY Zenon DEF Contributing, DeclaredWeights, Seats
<1>2. Targets(t) = Targets(s) /\ Fitting(t) = Fitting(s)
  BY <1>1, Zenon DEF Targets, Fitting
<1> QED
  BY <1>1, <1>2 DEF Sound

\* The evaluation of a working copy: what it keeps, and what it makes of the states,
\* the lifecycle, the slot map and its authority.
LEMMA SettledMakes ==
  ASSUME NEW w \in SetRecord, ~AllZero(DeclaredWeights(w)), NEW p, NEW q,
         NEW g, g = Settled(Evaluate(w, p, q))
  PROVE  /\ g \in SetRecord /\ SameMembers(w, g) /\ Evaluated(w.life, g.life)
         /\ Sound(g) /\ Fresh(g, p, q) /\ g.space = w.space /\ g.min = w.min /\ g.gen = w.gen
         /\ g.auth => /\ IsRebalance(w.slots, g.space, Targets(g))
                      /\ g.slots = Rebalance(w.slots, g.space, Targets(g))
<1> DEFINE e == Evaluate(w, p, q)
           life == EvaluateLifecycle(e)
           f == [e EXCEPT !.life = life]
           serves == f.life \in {"Active", "Degraded"} /\ Contributing(f) # {}
           slots == IF serves THEN ServedSlots(f) ELSE UnservedSlots(f)
<1>1. g = [f EXCEPT !.auth = serves, !.slots = slots]
  BY Zenon DEF Settled, Served
<1>2. /\ e \in SetRecord /\ SameMembers(w, e)
      /\ e.life = w.life /\ e.space = w.space /\ e.min = w.min /\ e.slots = w.slots
      /\ e.auth = w.auth /\ e.gen = w.gen
      /\ \A x \in DOMAIN w.mem : /\ e.mem[x].canonical = Canonical(DeclaredWeights(w))[x]
                                 /\ e.mem[x].state = DeriveState(w.life, x, w.mem[x], p, q)
  BY EvaluateKeeps
<1>3. /\ life \in Lifecycles /\ life # "Declared" /\ Evaluated(w.life, life)
      /\ life \in InService => (life = "Active" <=> Cardinality(Contributing(e)) >= e.min)
  BY <1>2, EvaluatedLife
<1> HIDE DEF e, life
<1>4. /\ f \in SetRecord /\ f.life = life /\ f.mem = e.mem /\ f.space = e.space /\ f.min = e.min
      /\ f.slots = e.slots /\ f.auth = e.auth /\ f.gen = e.gen
  BY <1>2, <1>3 DEF SetRecord
<1> HIDE DEF f
<1>5. Contributing(f) = Contributing(e)
  BY <1>4 DEF Contributing
<1>6. /\ DOMAIN f.mem = DOMAIN w.mem
      /\ \A x \in DOMAIN w.mem : /\ Agree(w.mem[x], f.mem[x])
                                 /\ f.mem[x].canonical = Canonical(DeclaredWeights(w))[x]
                                 /\ f.mem[x].state = DeriveState(w.life, x, w.mem[x], p, q)
  BY <1>2, <1>4 DEF SameMembers
<1>7. w.life \in Lifecycles /\ w.slots \in SlotMaps /\ f.space \in Nat /\ f.space \in Spaces
  BY <1>4, FabricAssumption DEF SetRecord
<1>8. \A x \in DOMAIN w.mem : /\ f.mem[x].state \in States
                              /\ f.mem[x].state = "Current" => f.mem[x].w # 0
  BY <1>6, <1>7, DerivedState DEF Agree
<1>9. \A x \in Contributing(f) : f.mem[x].w # 0
  BY <1>6, <1>8 DEF Contributing
<1>10. ASSUME serves
       PROVE  /\ IsRebalance(w.slots, f.space, Targets(f)) /\ slots = Rebalance(w.slots, f.space, Targets(f))
              /\ Fits(slots, f.space, Targets(f)) /\ slots \in SlotMaps /\ DOMAIN slots = 1..f.space
              /\ Range(slots) \subseteq DOMAIN f.mem
  <2>1. IsRebalance(w.slots, f.space, Targets(f)) /\ DOMAIN Seats(f) = DOMAIN f.mem
    BY <1>4, <1>7, <1>9, <1>10, SeatsAsk
  <2>2. slots = Rebalance(w.slots, f.space, Targets(f))
    BY <1>2, <1>4, <1>10, Zenon DEF ServedSlots
  <2>3. Fits(slots, f.space, Targets(f))
    BY <2>1, <2>2, RebalanceFits
  <2>4. DOMAIN Targets(f) \subseteq DOMAIN f.mem /\ DOMAIN f.mem \subseteq Path
    BY <1>4, <2>1, MembersAre DEF Targets, SetRecord
  <2>5. slots \in [1..f.space -> DOMAIN Targets(f)]
    BY <2>3 DEF Fits
  <2> HIDE DEF slots
  <2>6. slots \in [1..f.space -> Path \cup {Unowned}]
    BY <2>4, <2>5
  <2>7. slots \in SlotMaps
    BY <1>7, <2>6, Zenon DEF SlotMaps
  <2> QED
    BY <2>1, <2>2, <2>3, <2>4, <2>5, <2>7 DEF Range
<1>11. ASSUME ~serves
       PROVE  slots \in SlotMaps /\ DOMAIN slots \in {{}, 1..f.space} /\ Range(slots) \subseteq {Unowned}
  <2>1. slots = UnservedSlots(f)
    BY <1>11, Zenon
  <2>2. CASE f.auth \/ DOMAIN f.slots # {}
    <3>1. slots = Unassigned(f.space)
      BY <2>1, <2>2 DEF UnservedSlots
    <3>2. slots \in [1..f.space -> Path \cup {Unowned}]
      BY <3>1 DEF Unassigned
    <3>3. slots \in SlotMaps
      BY <1>7, <3>2, Zenon DEF SlotMaps
    <3> HIDE DEF slots
    <3> QED
      BY <3>1, <3>3 DEF Unassigned, Range
  <2>3. CASE ~(f.auth \/ DOMAIN f.slots # {})
    <3>1. slots = f.slots /\ DOMAIN f.slots = {}
      BY <2>1, <2>3 DEF UnservedSlots
    <3> HIDE DEF slots
    <3> QED
      BY <1>4, <3>1 DEF Range, SetRecord
  <2> QED
    BY <2>2, <2>3
<1>12. serves \in BOOLEAN /\ (serves <=> life \in InService /\ Contributing(f) # {})
  BY <1>4 DEF InService
<1> HIDE DEF serves, slots
<1>13. /\ g \in SetRecord /\ g.life = f.life /\ g.mem = f.mem /\ g.space = f.space /\ g.min = f.min
       /\ g.gen = f.gen /\ g.auth = serves /\ g.slots = slots
  BY <1>1, <1>4, <1>10, <1>11, <1>12 DEF SetRecord
<1>14. Contributing(g) = Contributing(f) /\ Seats(g) = Seats(f) /\ Targets(g) = Targets(f)
  BY <1>13, Zenon DEF Contributing, Seats, Targets
<1>15. SameMembers(w, g)
  BY <1>6, <1>13 DEF SameMembers
<1>16. DeclaredWeights(g) = DeclaredWeights(w)
  BY <1>15 DEF SameMembers, Agree, DeclaredWeights
<1>17. Fresh(g, p, q)
  <2>1. ASSUME NEW x \in DOMAIN w.mem
        PROVE  DeriveState(g.life, x, g.mem[x], p, q) = DeriveState(w.life, x, w.mem[x], p, q)
    BY <1>3, <1>4, <1>6, <1>7, <1>13, DerivedSame
  <2> QED
    BY <1>6, <1>13, <2>1 DEF Fresh
<1>18. Sound(g)
  <2>1. ~AllZero(DeclaredWeights(g)) /\ g.life # "Declared"
    BY <1>3, <1>4, <1>13, <1>16
  <2>2. Fitting(g) /\ Range(g.slots) \subseteq DOMAIN g.mem \cup {Unowned}
    BY <1>10, <1>11, <1>13 DEF Fitting
  <2>3. \A x \in DOMAIN g.mem :
          /\ g.mem[x].state \in States /\ g.mem[x].canonical = Canonical(DeclaredWeights(g))[x]
          /\ g.mem[x].state = "Current" => g.mem[x].w # 0
    BY <1>6, <1>8, <1>13, <1>16
  <2>4. /\ g.auth <=> g.life \in InService /\ Contributing(g) # {}
        /\ g.auth => Fits(g.slots, g.space, Targets(g))
    BY <1>4, <1>10, <1>12, <1>13, <1>14
  <2>5. g.life \in InService => (g.life = "Active" <=> Cardinality(Contributing(g)) >= g.min)
    BY <1>3, <1>4, <1>5, <1>13, <1>14
  <2>6. g.life \in Closed => Range(g.slots) \subseteq {Unowned}
    BY <1>4, <1>11, <1>12, <1>13 DEF InService, Closed
  <2> QED
    BY <2>1, <2>2, <2>3, <2>4, <2>5, <2>6 DEF Sound
<1> QED
  BY <1>2, <1>3, <1>4, <1>10, <1>13, <1>14, <1>15, <1>17, <1>18

\* commit_evaluation: any commit of a working copy is one of its evaluation, which a
\* commit with new generations does not change.
LEMMA CommitMakes ==
  ASSUME NEW w \in SetRecord, NEW p, NEW q, NEW s \in Commits(w, p, q)
  PROVE  /\ s \in SetRecord /\ SameMembers(w, s) /\ Evaluated(w.life, s.life)
         /\ Sound(s) /\ Fresh(s, p, q) /\ s.space = w.space /\ s.min = w.min
         /\ s.auth => /\ IsRebalance(w.slots, s.space, Targets(s))
                      /\ s.slots = Rebalance(w.slots, s.space, Targets(s))
<1> DEFINE g == Settled(Evaluate(w, p, q))
           gen == Advance(g.gen, Changed(w, g))
<1>1. ~AllZero(DeclaredWeights(w)) /\ s = [g EXCEPT !.gen = gen] /\ \A k \in Kinds : s.gen[k] <= MaxGen
  BY DEF Commits, Advanced, Acceptable
<1>2. /\ g \in SetRecord /\ SameMembers(w, g) /\ Evaluated(w.life, g.life)
      /\ Sound(g) /\ Fresh(g, p, q) /\ g.space = w.space /\ g.min = w.min
      /\ g.auth => /\ IsRebalance(w.slots, g.space, Targets(g))
                   /\ g.slots = Rebalance(w.slots, g.space, Targets(g))
  BY <1>1, SettledMakes
<1> HIDE DEF g
<1>3. /\ s.life = g.life /\ s.space = g.space /\ s.min = g.min /\ s.mem = g.mem
      /\ s.slots = g.slots /\ s.auth = g.auth /\ s.gen = gen
  BY <1>1, <1>2 DEF SetRecord
<1>4. gen \in [Kinds -> Nat \ {0}]
  BY <1>2, FabricAssumption DEF Advance, SetRecord
<1> HIDE DEF gen
<1>5. gen \in [Kinds -> 1..MaxGen]
  BY <1>1, <1>3, <1>4, FabricAssumption
<1>6. s \in SetRecord
  BY <1>1, <1>2, <1>5 DEF SetRecord
<1>7. Targets(s) = Targets(g) /\ Fresh(s, p, q)
  BY <1>2, <1>3, Zenon DEF Contributing, Seats, Targets, Fresh
<1>8. Sound(s) /\ SameMembers(w, s)
  BY <1>2, <1>3, SoundBut DEF SameMembers
<1> QED
  BY <1>2, <1>3, <1>6, <1>7, <1>8

----------------------------------------------------------------------------
(* What a commit keeps of the set it replaces.                              *)

\* Each member is bound to a generation that the views p and q have reached.
Heard(m, x, p, q) ==
  /\ x \in DOMAIN p /\ m.bound \in Nat /\ m.bound <= p[x].gen
  /\ m.mp # NoBinding => m.mp.set \in DOMAIN q /\ m.mp.gen \in Nat /\ m.mp.gen <= q[m.mp.set].gen
Bound(s, p, q) == \A x \in DOMAIN s.mem : Heard(s.mem[x], x, p, q)

\* No slot moves from the map of s to that of t without need (MovesOnlyWhatMust).
Moves(s, t) ==
  t.auth /\ DOMAIN s.slots = DOMAIN t.slots =>
    \A x \in DOMAIN t.mem :
      LET held == Cardinality(OwnedBy(s.slots, x)) now == Cardinality(OwnedBy(t.slots, x)) IN
      Cardinality(OwnedBy(s.slots, x) \cap KeptSlots(s.slots, t.slots)) = IF held < now THEN held ELSE now

\* A commit moves the map of its working copy as little as the new shares admit.
LEMMA CommitMoves ==
  ASSUME NEW w \in SetRecord, NEW p, NEW q, NEW t \in Commits(w, p, q)
  PROVE  Moves(w, t)
<1> SUFFICES ASSUME t.auth, DOMAIN w.slots = DOMAIN t.slots, NEW x \in DOMAIN t.mem
             PROVE  Cardinality(OwnedBy(w.slots, x) \cap KeptSlots(w.slots, t.slots))
                      = Least(Cardinality(OwnedBy(w.slots, x)), Cardinality(OwnedBy(t.slots, x)))
  BY Zenon DEF Moves, Least
<1>1. /\ t \in SetRecord /\ Sound(t) /\ IsRebalance(w.slots, t.space, Targets(t))
      /\ t.slots = Rebalance(w.slots, t.space, Targets(t))
  BY CommitMakes
<1>2. DOMAIN t.slots = 1..t.space
  BY <1>1, ServedSeats
<1>3. x # Unowned
  BY <1>1, MembersAre, FabricAssumption DEF SetRecord, Unowned
<1>4. Cardinality(SlotsOf(OwnedBy(w.slots, x), t.slots, x))
        = Least(Cardinality(OwnedBy(w.slots, x)), Cardinality(OwnedBy(t.slots, x)))
  BY <1>1, <1>2, <1>3, RebalanceKeepsMost
<1>5. OwnedBy(w.slots, x) \cap KeptSlots(w.slots, t.slots) = SlotsOf(OwnedBy(w.slots, x), t.slots, x)
  BY <1>3 DEF OwnedBy, KeptSlots, SlotsOf
<1> QED
  BY <1>4, <1>5

\* A map that stays is moved not at all.
LEMMA StaysPut == ASSUME NEW s \in SetRecord PROVE Moves(s, s)
<1> SUFFICES ASSUME NEW x \in DOMAIN s.mem
             PROVE  Cardinality(OwnedBy(s.slots, x) \cap KeptSlots(s.slots, s.slots))
                      = Cardinality(OwnedBy(s.slots, x))
  BY Zenon DEF Moves
<1>1. x # Unowned
  BY MembersAre, FabricAssumption DEF SetRecord, Unowned
<1>2. OwnedBy(s.slots, x) \cap KeptSlots(s.slots, s.slots) = OwnedBy(s.slots, x)
  BY <1>1 DEF OwnedBy, KeptSlots
<1> QED
  BY <1>2

\* The states of the members stay right while their own views stay as they are.
LEMMA FreshSame ==
  ASSUME NEW s \in SetRecord, NEW p, NEW q, NEW r, NEW t, Fresh(s, p, q),
         \A x \in DOMAIN s.mem :
           /\ PathCurrent(x, s.mem[x], r) <=> PathCurrent(x, s.mem[x], p)
           /\ s.mem[x].mp # NoBinding => (MultipathCurrent(s.mem[x].mp, t) <=> MultipathCurrent(s.mem[x].mp, q))
  PROVE  Fresh(s, r, t)
<1>1. s.life \in Lifecycles
  BY DEF SetRecord
<1>2. ASSUME NEW x \in DOMAIN s.mem
      PROVE  DeriveState(s.life, x, s.mem[x], r, t) = DeriveState(s.life, x, s.mem[x], p, q)
  BY <1>1, DerivedFromOwn
<1> QED
  BY <1>2 DEF Fresh

\* Every map fits in one commit, and no generation counter reaches its end.
NoRefusal == Counted = {} /\ \A space \in Spaces : space <= MaxMoves

\* Then no commit of a set that exists is refused.
LEMMA NothingRefused ==
  ASSUME NoRefusal, NEW s \in SetRecord, ~AllZero(DeclaredWeights(s)), NEW p, NEW q
  PROVE  Commits(s, p, q) # {}
<1> DEFINE g == Settled(Evaluate(s, p, q))
           t == Advanced(s, g)
<1>1. /\ g \in SetRecord /\ Sound(g)
      /\ g.auth => IsRebalance(s.slots, g.space, Targets(g))
  BY SettledMakes
<1> HIDE DEF g
<1>2. /\ t.auth = g.auth /\ t.slots = g.slots /\ t.gen = Advance(g.gen, Changed(s, g))
  BY <1>1 DEF Advanced, SetRecord
<1>3. \A k \in Kinds : t.gen[k] <= MaxGen
  BY <1>1, <1>2, FabricAssumption DEF NoRefusal, Advance, SetRecord
<1>4. ASSUME g.auth PROVE Churn(s.slots, g.slots) <= MaxMoves
  <2>1. Fits(g.slots, g.space, Targets(g)) /\ g.space \in Spaces /\ g.space \in Nat
    BY <1>1, <1>4, FabricAssumption DEF Sound, SetRecord
  <2>2. /\ Churn(s.slots, g.slots) = g.space - Cardinality(SameUpTo(g.slots, OldOf(s.slots, g.space), g.space))
        /\ Cardinality(SameUpTo(g.slots, OldOf(s.slots, g.space), g.space)) \in Nat
    BY <1>1, <1>4, <2>1, ChurnIsRest
  <2> QED
    BY <2>1, <2>2, FabricAssumption DEF NoRefusal
<1>5. Acceptable(s, t)
  BY <1>2, <1>3, <1>4 DEF Acceptable
<1>6. t \in Commits(s, p, q)
  BY <1>5, Zenon DEF Commits, g, t
<1> QED
  BY <1>6

----------------------------------------------------------------------------
(* The invariant, and the sets that a step installs.                        *)

\* Two records of a set use the same paths and multipath sets.
SameUse(s, t) ==
  /\ DOMAIN t.mem = DOMAIN s.mem
  /\ \A x \in DOMAIN s.mem : t.mem[x].mp.set = s.mem[x].mp.set

\* The upstream views are of known paths and multipath sets.
Viewed(p, q) ==
  /\ DOMAIN p \subseteq Path /\ \A x \in DOMAIN p : p[x] \in [gen : ViewGen, legality : Reported \cup {"Legal"}]
  /\ DOMAIN q \subseteq Mp /\ \A r \in DOMAIN q : q[r] \in [gen : ViewGen, members : SUBSET MpMember]

IInv ==
  /\ DOMAIN sets \subseteq SetId
  /\ \A id \in DOMAIN sets : sets[id] \in SetRecord /\ Sound(sets[id]) /\ Bound(sets[id], paths, mps)
  /\ Viewed(paths, mps)
  /\ byPath \in [Path -> SUBSET SetId] /\ byMp \in [Mp -> SUBSET SetId]
  /\ IndexesSound

\* Every set that reports can reach holds what an evaluation would find now.
UpToDate == \A id \in DOMAIN sets : MpIndexed(id) => Fresh(sets[id], paths, mps)

\* What a step may make of a set: it stays closed, or to be proved again.
Reopening(s, t) ==
  /\ s.life \in Closed => t.life \in Closed \cup {"RevalidationRequired"} /\ ~t.auth
  /\ s.life = "RevalidationRequired" /\ t.life \in {"Active", "Degraded"} =>
       \A x \in DOMAIN t.mem : paths[x].legality = "Legal" => t.mem[x].bound = paths[x].gen

\* What is proved of every step besides the invariant.
ReopenStep == \A id \in DOMAIN sets : Reopening(sets[id], sets'[id])
MoveStep == \A id \in DOMAIN sets : Moves(sets[id], sets'[id])
FreshStep == NoRefusal /\ UpToDate => UpToDate'
Steps == ReopenStep /\ MoveStep /\ FreshStep

\* What a step may install in place of a set without entering it in an index.
Installable(s, t) ==
  /\ t \in SetRecord /\ Sound(t) /\ SameUse(s, t) /\ Bound(t, paths, mps)
  /\ Reopening(s, t) /\ Moves(s, t)

\* The set that is installed is no less up to date than the one before.
Renews(id) == MpIndexed(id) /\ Fresh(sets[id], paths, mps) => Fresh(sets'[id], paths', mps')

\* What a call may hand to a commit in place of a set.
Working(s, w) ==
  /\ w \in SetRecord /\ SameUse(s, w) /\ Bound(w, paths, mps) /\ w.slots = s.slots
  /\ s.life \in Closed => w.life \in Closed
  /\ s.life = "RevalidationRequired" =>
       \/ w.life \in Closed \cup {"RevalidationRequired"}
       \/ \A x \in DOMAIN w.mem : paths[x].legality = "Legal" => w.mem[x].bound = paths[x].gen

\* A later view: no path or multipath set is forgotten, no generation goes back.
Later(p, q) == \A x \in DOMAIN p : x \in DOMAIN q /\ p[x].gen <= q[x].gen

\* Generations of views are numbers.
LEMMA Counting ==
  ASSUME NEW p, NEW q, Viewed(p, q)
  PROVE  (\A x \in DOMAIN p : p[x].gen \in Nat) /\ (\A r \in DOMAIN q : q[r].gen \in Nat)
BY FabricAssumption DEF Viewed, ViewGen

\* The commit of a working copy is installable.
LEMMA CommitInstalls ==
  ASSUME NEW s, NEW w, Working(s, w), NEW p, NEW q, NEW t \in Commits(w, p, q)
  PROVE  Installable(s, t)
<1>1. /\ t \in SetRecord /\ Sound(t) /\ Evaluated(w.life, t.life) /\ SameMembers(w, t) /\ Moves(w, t)
      /\ w.slots = s.slots
  BY CommitMakes, CommitMoves DEF Working
<1>2. DOMAIN t.mem = DOMAIN w.mem
      /\ \A x \in DOMAIN w.mem : t.mem[x].bound = w.mem[x].bound /\ t.mem[x].mp = w.mem[x].mp
  BY <1>1 DEF SameMembers, Agree
<1>3. SameUse(s, t) /\ Bound(t, paths, mps)
  BY <1>2 DEF Working, SameUse, Bound, Heard
<1>4. t.life \in Closed => ~t.auth
  BY <1>1 DEF Sound, InService, Closed
<1>5. Reopening(s, t)
  BY <1>1, <1>2, <1>4 DEF Working, Reopening, Evaluated, Closed
<1>6. Moves(s, t)
  BY <1>1 DEF Moves
<1> QED
  BY <1>1, <1>3, <1>5, <1>6 DEF Installable

\* A set that a step leaves alone is one that it may install.
LEMMA Untouched == ASSUME IInv, NEW id \in DOMAIN sets PROVE Installable(sets[id], sets[id])
<1>1. sets[id] \in SetRecord /\ Sound(sets[id]) /\ Bound(sets[id], paths, mps)
  BY DEF IInv
<1>2. Moves(sets[id], sets[id])
  BY <1>1, StaysPut
<1>3. Reopening(sets[id], sets[id]) /\ SameUse(sets[id], sets[id])
  BY <1>1 DEF Reopening, Sound, SameUse, InService, Closed
<1> QED
  BY <1>1, <1>2, <1>3 DEF Installable

\* Bindings stay behind views that move on.
LEMMA BoundLater ==
  ASSUME NEW t, Bound(t, paths, mps), Viewed(paths, mps), Viewed(paths', mps'),
         Later(paths, paths'), Later(mps, mps')
  PROVE  Bound(t, paths', mps')
<1>1. /\ \A x \in DOMAIN paths : paths[x].gen \in Nat
      /\ \A x \in DOMAIN paths' : paths'[x].gen \in Nat
      /\ \A r \in DOMAIN mps : mps[r].gen \in Nat
      /\ \A r \in DOMAIN mps' : mps'[r].gen \in Nat
  BY Counting
<1> QED
  BY <1>1 DEF Bound, Heard, Later

\* Installing sets that use what they used, under views that may move on.
LEMMA InstallInv ==
  ASSUME IInv, DOMAIN sets' = DOMAIN sets,
         \A id \in DOMAIN sets : Installable(sets[id], sets'[id]),
         NoRefusal => \A id \in DOMAIN sets : Renews(id),
         Viewed(paths', mps'), Later(paths, paths'), Later(mps, mps'),
         UNCHANGED <<byPath, byMp>>
  PROVE  IInv' /\ Steps
<1>1. \A id \in DOMAIN sets' : Bound(sets'[id], paths', mps')
  BY BoundLater DEF IInv, Installable
<1>2. ASSUME NEW id \in DOMAIN sets
      PROVE  IndexedMp(sets'[id].mem) = IndexedMp(sets[id].mem)
  BY DEF Installable, SameUse, IndexedMp
<1>3. IndexesSound'
  BY <1>2 DEF IInv, IndexesSound, Installable, SameUse
<1>4. IInv'
  BY <1>1, <1>3 DEF IInv, Installable
<1>5. \A id \in DOMAIN sets : MpIndexed(id)' => MpIndexed(id)
  BY <1>2 DEF MpIndexed
<1>6. FreshStep
  BY <1>5 DEF FreshStep, UpToDate, Renews
<1> QED
  BY <1>4, <1>6 DEF Steps, ReopenStep, MoveStep, Installable

\* Publishing the commit of a working copy.
LEMMA PublishInv ==
  ASSUME IInv, NEW id \in DOMAIN sets, NEW w, Working(sets[id], w), Publish(id, w, paths),
         UNCHANGED <<paths, mps, byPath, byMp>>
  PROVE  IInv' /\ Steps
<1>1. PICK t \in Commits(w, paths, mps) : sets' = [sets EXCEPT ![id] = t]
  BY DEF Publish
<1>2. \A i \in DOMAIN sets : Installable(sets[i], sets'[i])
  BY <1>1, CommitInstalls, Untouched
<1>3. Later(paths, paths') /\ Later(mps, mps') /\ Viewed(paths', mps')
  <2>1. (\A x \in DOMAIN paths : paths[x].gen \in Nat) /\ (\A r \in DOMAIN mps : mps[r].gen \in Nat)
    BY Counting DEF IInv
  <2> QED
    BY <2>1 DEF IInv, Viewed, Later
<1>4. Fresh(t, paths, mps)
  BY CommitMakes DEF Working
<1>5. \A i \in DOMAIN sets : Renews(i)
  BY <1>1, <1>4 DEF Renews
<1> QED
  BY <1>1, <1>2, <1>3, <1>5, InstallInv

----------------------------------------------------------------------------
(* The requests of publishers.                                              *)

\* A working copy with the members of the set, each bound as it was.
LEMMA EditWorks ==
  ASSUME IInv, NEW id \in DOMAIN sets, NEW w \in SetRecord,
         DOMAIN w.mem = DOMAIN sets[id].mem,
         \A x \in DOMAIN w.mem : w.mem[x].bound = sets[id].mem[x].bound /\ w.mem[x].mp = sets[id].mem[x].mp,
         w.slots = sets[id].slots, w.life = sets[id].life \/ w.life \in Closed
  PROVE  Working(sets[id], w)
BY DEF IInv, Working, SameUse, Bound, Heard

\* update_weights edits weights, the space and the minimum of the working copy.
LEMMA UpdateWeightsInv ==
  ASSUME IInv, NEW id \in DOMAIN sets, NEW weights \in [DOMAIN sets[id].mem -> Weights],
         NEW space \in Spaces \cup {sets[id].space},
         NEW min \in 1..Cardinality(DOMAIN sets[id].mem) \cup {sets[id].min},
         UpdateWeights(id, weights, space, min)
  PROVE  IInv' /\ Steps
<1> DEFINE s == sets[id]
           mem == Reweighed(s.mem, weights)
           w == [s EXCEPT !.mem = mem, !.space = space, !.min = min]
<1>1. s \in SetRecord
  BY DEF IInv
<1>2. s.mem \in [DOMAIN s.mem -> AnyMember] /\ DOMAIN s.mem \subseteq Path /\ DOMAIN s.mem # {}
  BY <1>1, MembersAre DEF SetRecord
<1>3. DOMAIN mem = DOMAIN s.mem
      /\ \A x \in DOMAIN s.mem : /\ mem[x] \in AnyMember /\ mem[x].bound = s.mem[x].bound
                                 /\ mem[x].mp = s.mem[x].mp
  <2> DEFINE new(x) == [s.mem[x] EXCEPT !.w = weights[x]]
  <2>1. ASSUME NEW x \in DOMAIN s.mem
        PROVE  new(x) \in AnyMember /\ new(x).bound = s.mem[x].bound /\ new(x).mp = s.mem[x].mp
    <3>1. s.mem[x] \in AnyMember /\ weights[x] \in Weights
      BY <1>2
    <3> QED
      BY <3>1 DEF AnyMember
  <2>2. mem = [x \in DOMAIN s.mem |-> new(x)]
    BY DEF Reweighed
  <2> HIDE DEF new, mem
  <2> QED
    BY <2>1, <2>2
<1>4. Publish(id, w, paths) /\ UNCHANGED <<paths, mps, byPath, byMp>>
  BY DEF UpdateWeights
<1>5. mem \in [DOMAIN mem -> AnyMember]
  BY <1>3 DEF Reweighed
<1> HIDE DEF mem
<1>6. mem \in Members
  BY <1>2, <1>3, <1>5, MembersAre
<1>7. min \in 1..Cardinality(Path)
  <2>1. IsFiniteSet(DOMAIN s.mem) /\ Cardinality(DOMAIN s.mem) <= Cardinality(Path)
    BY <1>2, FabricAssumption, FS_Subset
  <2>2. Cardinality(DOMAIN s.mem) \in Nat /\ Cardinality(Path) \in Nat
    BY <2>1, FabricAssumption, FS_CardinalityType
  <2>3. s.min \in 1..Cardinality(Path)
    BY <1>1 DEF SetRecord
  <2> QED
    BY <2>1, <2>2, <2>3
<1>8. w \in SetRecord /\ w.mem = mem /\ w.life = s.life /\ w.slots = s.slots
  BY <1>1, <1>6, <1>7 DEF SetRecord
<1> HIDE DEF w
<1>9. Working(s, w)
  BY <1>3, <1>8, EditWorks
<1> QED
  BY <1>4, <1>9, PublishInv

\* set_member_enabled switches one member of the working copy on or off.
LEMMA EnableInv ==
  ASSUME IInv, NEW id \in DOMAIN sets, NEW x, NEW on \in BOOLEAN, SetMemberEnabled(id, x, on)
  PROVE  IInv' /\ Steps
<1> DEFINE s == sets[id]
           m == [s.mem[x] EXCEPT !.on = on]
           mem == [s.mem EXCEPT ![x] = m]
           w == [s EXCEPT !.mem = mem]
<1>1. s \in SetRecord
  BY DEF IInv
<1>2. s.mem \in [DOMAIN s.mem -> AnyMember] /\ DOMAIN s.mem \subseteq Path /\ DOMAIN s.mem # {}
  BY <1>1, MembersAre DEF SetRecord
<1>3. x \in DOMAIN s.mem /\ Publish(id, [sets[id] EXCEPT !.mem[x].on = on], paths)
      /\ UNCHANGED <<paths, mps, byPath, byMp>>
  BY DEF SetMemberEnabled
<1>4. Publish(id, w, paths)
  BY <1>3, Zenon
<1>5. m \in AnyMember /\ m.bound = s.mem[x].bound /\ m.mp = s.mem[x].mp
  BY <1>2, <1>3 DEF AnyMember
<1> HIDE DEF m
<1>6. DOMAIN mem = DOMAIN s.mem /\ mem \in [DOMAIN mem -> AnyMember]
      /\ \A y \in DOMAIN s.mem : mem[y].bound = s.mem[y].bound /\ mem[y].mp = s.mem[y].mp
  BY <1>2, <1>5
<1> HIDE DEF mem
<1>7. mem \in Members
  BY <1>2, <1>6, MembersAre
<1>8. w \in SetRecord /\ w.mem = mem /\ w.life = s.life /\ w.slots = s.slots
  BY <1>1, <1>7 DEF SetRecord
<1> HIDE DEF w
<1>9. Working(s, w)
  BY <1>6, <1>8, EditWorks
<1> QED
  BY <1>3, <1>4, <1>9, PublishInv

\* A rebalance commits the set as it is.
LEMMA RebalanceInv == ASSUME IInv, NEW id \in DOMAIN sets, RebalanceSet(id) PROVE IInv' /\ Steps
<1>1. sets[id] \in SetRecord
  BY DEF IInv
<1>2. Working(sets[id], sets[id])
  BY <1>1, EditWorks
<1> QED
  BY <1>2, PublishInv DEF RebalanceSet

\* A lifecycle request, of which the table sends a closed set to a closed state.
LEMMA LifecycleInv ==
  ASSUME IInv, NEW id \in DOMAIN sets, NEW event \in Events \ {"Activate", "Degrade", "RequireRevalidation"},
         ApplyLifecycle(id, event)
  PROVE  IInv' /\ Steps
<1> DEFINE s == sets[id]
           life == Transition(s.life, event)
           w == [s EXCEPT !.life = life]
<1>1. Publish(id, w, paths) /\ UNCHANGED <<paths, mps, byPath, byMp>>
  BY Zenon DEF ApplyLifecycle
<1>2. life \in Closed
  BY DEF Transition, EventTarget, Events, Closed
<1>3. s \in SetRecord
  BY DEF IInv
<1> HIDE DEF life
<1>4. w \in SetRecord /\ w.mem = s.mem /\ w.life = life /\ w.slots = s.slots
  BY <1>2, <1>3 DEF SetRecord, Lifecycles
<1> HIDE DEF w
<1>5. Working(s, w)
  BY <1>2, <1>4, EditWorks
<1> QED
  BY <1>1, <1>5, PublishInv

\* A revalidation binds members to views of this moment.
LEMMA RevalidateInv ==
  ASSUME IInv, NEW id \in DOMAIN sets, NEW rebind, \A x \in DOMAIN rebind : rebind[x] \in MpMember,
         Revalidate(id, rebind)
  PROVE  IInv' /\ Steps
<1> DEFINE s == sets[id]
           w == Reproved(s, rebind)
           bound(x) == IF LegalPath(x) THEN paths[x].gen ELSE s.mem[x].bound
           mp(x) == IF x \in DOMAIN rebind THEN Rebound(s.mem[x], rebind[x]) ELSE s.mem[x].mp
           new(x) == [s.mem[x] EXCEPT !.bound = bound(x), !.mp = mp(x)]
           mem == [x \in DOMAIN s.mem |-> new(x)]
           life == IF s.life = "RevalidationRequired" THEN "Declared" ELSE s.life
<1>1. s \in SetRecord /\ Bound(s, paths, mps) /\ Viewed(paths, mps)
  BY DEF IInv
<1>2. s.mem \in [DOMAIN s.mem -> AnyMember] /\ DOMAIN s.mem \subseteq Path /\ DOMAIN s.mem # {}
  BY <1>1, MembersAre DEF SetRecord
<1>3. w = [s EXCEPT !.mem = mem, !.life = life]
  BY Zenon DEF Reproved
<1>4. Publish(id, w, paths) /\ UNCHANGED <<paths, mps, byPath, byMp>> /\ s.life \notin Closed
  BY DEF Revalidate, IsMutable, Mutable, Closed
<1>5. ASSUME NEW x \in DOMAIN s.mem
      PROVE  /\ x \in DOMAIN paths /\ bound(x) \in ViewGen /\ bound(x) \in Nat /\ bound(x) <= paths[x].gen
             /\ paths[x].legality = "Legal" => bound(x) = paths[x].gen
  <2>1. Heard(s.mem[x], x, paths, mps) /\ s.mem[x] \in AnyMember
    BY <1>1, <1>2 DEF Bound
  <2>2. x \in DOMAIN paths /\ paths[x].gen \in ViewGen /\ paths[x].gen \in Nat
    BY <1>1, <2>1, FabricAssumption DEF Heard, Viewed, ViewGen
  <2> QED
    BY <2>1, <2>2 DEF Heard, AnyMember, LegalPath
<1>6. ASSUME NEW x \in DOMAIN s.mem
      PROVE  /\ mp(x) \in Bindings /\ mp(x).set = s.mem[x].mp.set
             /\ mp(x) # NoBinding =>
                  mp(x).set \in DOMAIN mps /\ mp(x).gen \in Nat /\ mp(x).gen <= mps[mp(x).set].gen
  <2>1. Heard(s.mem[x], x, paths, mps) /\ s.mem[x] \in AnyMember
    BY <1>1, <1>2 DEF Bound
  <2>2. CASE x \in DOMAIN rebind
    <3>1. s.mem[x].mp.set \in DOMAIN mps /\ rebind[x] \in MpMember
      BY <2>2 DEF Revalidate
    <3>2. s.mem[x].mp.set \in Mp /\ mps[s.mem[x].mp.set].gen \in ViewGen /\ mps[s.mem[x].mp.set].gen \in Nat
      BY <1>1, <3>1, FabricAssumption DEF Viewed, ViewGen
    <3>3. mp(x) = [set |-> s.mem[x].mp.set, gen |-> mps[s.mem[x].mp.set].gen, member |-> rebind[x]]
      BY <2>2 DEF Rebound
    <3> HIDE DEF mp
    <3>4. mp(x) \in Bindings
      BY <3>1, <3>2, <3>3 DEF Bindings
    <3> QED
      BY <3>1, <3>2, <3>3, <3>4
  <2>3. CASE x \notin DOMAIN rebind
    <3>1. mp(x) = s.mem[x].mp
      BY <2>3
    <3> HIDE DEF mp
    <3> QED
      BY <2>1, <3>1 DEF Heard, AnyMember
  <2> QED
    BY <2>2, <2>3
<1> HIDE DEF w, bound, mp
<1>7. ASSUME NEW x \in DOMAIN s.mem
      PROVE  new(x) \in AnyMember /\ new(x).bound = bound(x) /\ new(x).mp = mp(x)
  <2>1. s.mem[x] \in AnyMember /\ bound(x) \in ViewGen /\ mp(x) \in Bindings
    BY <1>2, <1>5, <1>6
  <2> QED
    BY <2>1 DEF AnyMember
<1> HIDE DEF new
<1>8. DOMAIN mem = DOMAIN s.mem /\ \A x \in DOMAIN s.mem : mem[x] = new(x)
  OBVIOUS
<1>9. mem \in [DOMAIN mem -> AnyMember]
  BY <1>7
<1> HIDE DEF mem
<1>10. mem \in Members
  BY <1>2, <1>8, <1>9, MembersAre
<1>11. life \in Lifecycles /\ life \notin Closed
  BY <1>1, <1>4 DEF SetRecord, Lifecycles, Mutable, Closed
<1> HIDE DEF life
<1>12. w \in SetRecord /\ w.mem = mem /\ w.life = life /\ w.slots = s.slots
  BY <1>1, <1>3, <1>10, <1>11 DEF SetRecord
<1>13. Working(s, w)
  <2>1. \A x \in DOMAIN s.mem : mem[x].bound = bound(x) /\ mem[x].mp = mp(x)
    BY <1>7, <1>8
  <2>2. SameUse(s, w) /\ Bound(w, paths, mps)
    BY <1>5, <1>6, <1>8, <1>12, <2>1 DEF SameUse, Bound, Heard
  <2>3. \A x \in DOMAIN w.mem : paths[x].legality = "Legal" => w.mem[x].bound = paths[x].gen
    BY <1>5, <1>8, <1>12, <2>1
  <2> QED
    BY <1>4, <1>12, <2>2, <2>3 DEF Working
<1> QED
  BY <1>4, <1>13, PublishInv

\* Staging a member's path: the view that exists afterwards is the one it names, and
\* no other view changes.
LEMMA StagedViews ==
  ASSUME IInv, NEW spec, DOMAIN spec \subseteq Path,
         \A x \in DOMAIN spec : spec[x] \in MemberSpec /\ Stageable(x, spec[x].bound)
  PROVE  /\ Later(paths, Staged(spec)) /\ Viewed(Staged(spec), mps)
         /\ \A x \in DOMAIN spec : x \in DOMAIN Staged(spec) /\ Staged(spec)[x].gen = spec[x].bound
         /\ \A x \in DOMAIN paths : x \in DOMAIN Staged(spec) /\ Staged(spec)[x] = paths[x]
<1>1. \A x \in DOMAIN spec : spec[x].bound \in ViewGen
  BY DEF MemberSpec
<1>2. Viewed(paths, mps) /\ \A x \in DOMAIN paths : paths[x].gen \in Nat
  BY Counting DEF IInv
<1>3. Viewed(Staged(spec), mps)
  BY <1>1, <1>2 DEF Staged, Viewed
<1> QED
  BY <1>1, <1>2, <1>3 DEF Staged, Stageable, Later

\* A set that is left alone stays up to date when views are added and none changes.
LEMMA FreshWhenAdded ==
  ASSUME IInv, NEW i \in DOMAIN sets, Fresh(sets[i], paths, mps), NEW p,
         \A x \in DOMAIN paths : x \in DOMAIN p /\ p[x] = paths[x]
  PROVE  Fresh(sets[i], p, mps)
<1>1. sets[i] \in SetRecord /\ \A x \in DOMAIN sets[i].mem : x \in DOMAIN paths
  BY DEF IInv, Bound, Heard
<1>2. \A x \in DOMAIN sets[i].mem :
        PathCurrent(x, sets[i].mem[x], p) <=> PathCurrent(x, sets[i].mem[x], paths)
  BY <1>1 DEF PathCurrent
<1> QED
  BY <1>1, <1>2, FreshSame

\* A member that a request describes is behind no view.
LEMMA NewMemberHeard ==
  ASSUME NEW d \in MemberSpec, Bindable(d.mp), NEW x, NEW p,
         x \in DOMAIN p, p[x].gen = d.bound, Viewed(paths, mps)
  PROVE  /\ NewMember(d) \in AnyMember /\ NewMember(d).mp = d.mp
         /\ Heard(NewMember(d), x, p, mps)
<1>1. d.bound \in ViewGen /\ d.bound \in Nat
  BY FabricAssumption DEF MemberSpec, ViewGen
<1>2. /\ NewMember(d) \in AnyMember /\ NewMember(d).mp = d.mp /\ NewMember(d).bound = d.bound
  BY DEF NewMember, AnyMember, MemberSpec
<1>3. d.mp # NoBinding =>
        d.mp.set \in DOMAIN mps /\ d.mp.gen = mps[d.mp.set].gen /\ d.mp.gen \in Nat
  BY Counting DEF Bindable, MultipathCurrent
<1> HIDE DEF NewMember
<1> QED
  BY <1>1, <1>2, <1>3 DEF Heard

\* The working copy of a set that is created.
LEMMA CreatedRecord ==
  ASSUME NEW mem \in Members, NEW space \in Spaces, NEW min \in 1..Cardinality(DOMAIN mem),
         NEW w, w = [life |-> "Declared", space |-> space, min |-> min, mem |-> mem,
                     slots |-> NoSlots, auth |-> FALSE, gen |-> InitialGen]
  PROVE  w \in SetRecord /\ w.mem = mem
<1>1. min \in 1..Cardinality(Path)
  <2>1. DOMAIN mem \subseteq Path
    BY MembersAre
  <2>2. IsFiniteSet(DOMAIN mem) /\ Cardinality(DOMAIN mem) <= Cardinality(Path)
    BY <2>1, FabricAssumption, FS_Subset
  <2>3. Cardinality(DOMAIN mem) \in Nat /\ Cardinality(Path) \in Nat
    BY <2>2, FabricAssumption, FS_CardinalityType
  <2> QED
    BY <2>2, <2>3
<1>2. NoSlots \in SlotMaps
  <2>1. 1..0 = {}
    OBVIOUS
  <2>2. NoSlots \in [1..0 -> Path \cup {Unowned}]
    BY <2>1 DEF NoSlots
  <2> QED
    BY <2>2 DEF SlotMaps
<1>3. InitialGen \in [Kinds -> 1..MaxGen]
  BY FabricAssumption DEF InitialGen
<1> QED
  BY <1>1, <1>2, <1>3 DEF SetRecord, Lifecycles, Mutable

\* create_set: the new set is entered in the indexes of what it uses.
LEMMA CreateInv ==
  ASSUME IInv, NEW id \in SetId, NEW used \in (SUBSET Path) \ {{}}, NEW spec \in [used -> Specs],
         NEW space \in Spaces, NEW min \in 1..Cardinality(used), CreateSet(id, spec, space, min)
  PROVE  IInv' /\ Steps
<1> DEFINE mem == [x \in DOMAIN spec |-> NewMember(spec[x])]
           w == [life |-> "Declared", space |-> space, min |-> min, mem |-> mem,
                 slots |-> NoSlots, auth |-> FALSE, gen |-> InitialGen]
<1>1. PICK s \in Commits(w, Staged(spec), mps) :
        sets' = [i \in DOMAIN sets \cup {id} |-> IF i = id THEN [s EXCEPT !.gen = InitialGen] ELSE sets[i]]
  BY DEF CreateSet
<1>2. /\ id \notin DOMAIN sets /\ paths' = Staged(spec) /\ mps' = mps
      /\ byPath' = [x \in Path |-> byPath[x] \cup IF x \in DOMAIN spec THEN {id} ELSE {}]
      /\ byMp' = [q \in Mp |-> byMp[q] \cup IF q \in IndexedMp(spec) THEN {id} ELSE {}]
      /\ \A x \in DOMAIN spec : spec[x] \in MemberSpec /\ Bindable(spec[x].mp) /\ Stageable(x, spec[x].bound)
  BY DEF CreateSet, EnterIndexes, Specs
<1>3. DOMAIN spec = used /\ used \subseteq Path /\ used # {}
  OBVIOUS
<1>4. /\ Later(paths, paths') /\ Viewed(paths', mps')
      /\ \A x \in DOMAIN spec : x \in DOMAIN paths' /\ paths'[x].gen = spec[x].bound
      /\ \A x \in DOMAIN paths : x \in DOMAIN paths' /\ paths'[x] = paths[x]
  BY <1>2, <1>3, StagedViews
<1>5. Viewed(paths, mps) /\ \A x \in DOMAIN spec : mem[x] = NewMember(spec[x])
  BY DEF IInv
<1>6. \A x \in DOMAIN spec :
        mem[x] \in AnyMember /\ mem[x].mp = spec[x].mp /\ Heard(mem[x], x, paths', mps')
  BY <1>2, <1>4, <1>5, NewMemberHeard
<1>7. DOMAIN mem = DOMAIN spec /\ mem \in [DOMAIN mem -> AnyMember]
  BY <1>6
<1> HIDE DEF mem
<1>8. mem \in Members /\ min \in 1..Cardinality(DOMAIN mem)
  BY <1>3, <1>7, MembersAre
<1>9. w \in SetRecord /\ w.mem = mem
  BY <1>8, CreatedRecord
<1> HIDE DEF w
<1> DEFINE t == [s EXCEPT !.gen = InitialGen]
<1>10. s \in SetRecord /\ Sound(s) /\ SameMembers(w, s) /\ Fresh(s, paths', mps')
  BY <1>2, <1>9, CommitMakes
<1>11. InitialGen \in [Kinds -> 1..MaxGen]
  BY FabricAssumption DEF InitialGen
<1>12. /\ t \in SetRecord /\ t.mem = s.mem /\ t.life = s.life /\ t.space = s.space /\ t.min = s.min
       /\ t.auth = s.auth /\ t.slots = s.slots
  BY <1>10, <1>11 DEF SetRecord
<1>13. /\ DOMAIN sets' = DOMAIN sets \cup {id} /\ sets'[id] = t
       /\ \A i \in DOMAIN sets : sets'[i] = sets[i]
  BY <1>1, <1>2
<1> HIDE DEF t
<1>14. DOMAIN t.mem = DOMAIN spec
       /\ \A x \in DOMAIN spec : t.mem[x].bound = mem[x].bound /\ t.mem[x].mp = mem[x].mp
  BY <1>7, <1>9, <1>10, <1>12 DEF SameMembers, Agree
<1>15. Sound(t) /\ Fresh(t, paths', mps')
  BY <1>10, <1>12, SoundBut DEF Fresh
<1>16. Bound(t, paths', mps')
  BY <1>6, <1>14 DEF Bound, Heard
<1>17. Later(mps, mps')
  BY <1>2, Counting DEF IInv, Later
<1>18. \A i \in DOMAIN sets : Bound(sets'[i], paths', mps')
  BY <1>4, <1>13, <1>17, BoundLater DEF IInv
<1>19. IndexedMp(t.mem) = IndexedMp(spec)
  BY <1>6, <1>14 DEF IndexedMp
<1>20. IndexesSound'
  <2>1. \A x \in Path : byPath'[x] = {i \in DOMAIN sets' : x \in DOMAIN sets'[i].mem}
    BY <1>2, <1>13, <1>14 DEF IInv, IndexesSound
  <2>2. \A q \in Mp : byMp'[q] \subseteq {i \in DOMAIN sets' : q \in IndexedMp(sets'[i].mem)}
    BY <1>2, <1>13, <1>19 DEF IInv, IndexesSound
  <2> QED
    BY <2>1, <2>2 DEF IndexesSound
<1>21. byPath' \in [Path -> SUBSET SetId] /\ byMp' \in [Mp -> SUBSET SetId]
  BY <1>2 DEF IInv
<1>22. IInv'
  BY <1>4, <1>12, <1>13, <1>15, <1>16, <1>18, <1>20, <1>21 DEF IInv
<1>23. ReopenStep /\ MoveStep
  BY <1>13, Untouched DEF ReopenStep, MoveStep, Installable
<1>24. FreshStep
  <2>1. ASSUME NEW i \in DOMAIN sets, MpIndexed(i)' PROVE MpIndexed(i)
    BY <1>2, <1>13, <2>1 DEF MpIndexed, IndexedMp
  <2>2. ASSUME NEW i \in DOMAIN sets, Fresh(sets[i], paths, mps)
        PROVE  Fresh(sets'[i], paths', mps')
    BY <1>2, <1>4, <1>13, <2>2, FreshWhenAdded
  <2> QED
    BY <1>13, <1>15, <2>1, <2>2 DEF FreshStep, UpToDate
<1> QED
  BY <1>22, <1>23, <1>24 DEF Steps

\* add_member: the set is entered in the indexes of what the new member uses.
LEMMA AddInv ==
  ASSUME IInv, NEW id \in DOMAIN sets, NEW x \in Path \ DOMAIN sets[id].mem, NEW d \in Specs,
         AddMember(id, x, d)
  PROVE  IInv' /\ Steps
<1> DEFINE s == sets[id]
           added == [y \in {x} |-> d]
           mem == [y \in DOMAIN s.mem \cup {x} |-> IF y = x THEN NewMember(d) ELSE s.mem[y]]
           w == [s EXCEPT !.mem = mem]
<1>1. PICK t \in Commits(w, Staged(added), mps) : sets' = [sets EXCEPT ![id] = t]
  BY DEF AddMember, Publish
<1>2. /\ x \notin DOMAIN s.mem /\ paths' = Staged(added) /\ mps' = mps /\ s.life \notin Closed
      /\ byPath' = [y \in Path |-> byPath[y] \cup IF y \in {x} THEN {id} ELSE {}]
      /\ byMp' = [q \in Mp |-> byMp[q] \cup IF q \in IndexedMp(added) THEN {id} ELSE {}]
      /\ d \in MemberSpec /\ Bindable(d.mp) /\ Stageable(x, d.bound)
  BY DEF AddMember, EnterIndexes, Specs, IsMutable, Mutable, Closed
<1>3. /\ Later(paths, paths') /\ Viewed(paths', mps')
      /\ x \in DOMAIN paths' /\ paths'[x].gen = d.bound
      /\ \A y \in DOMAIN paths : y \in DOMAIN paths' /\ paths'[y] = paths[y]
  <2>1. \A y \in DOMAIN added : added[y] \in MemberSpec /\ Stageable(y, added[y].bound)
    BY <1>2
  <2>2. DOMAIN added = {x} /\ added[x] = d
    OBVIOUS
  <2> HIDE DEF added
  <2> QED
    BY <1>2, <2>1, <2>2, StagedViews
<1>4. s \in SetRecord /\ Viewed(paths, mps)
  BY DEF IInv
<1>5. NewMember(d) \in AnyMember /\ NewMember(d).mp = d.mp /\ Heard(NewMember(d), x, paths', mps')
  BY <1>2, <1>3, <1>4, NewMemberHeard
<1>6. \A q \in Mp : q \in IndexedMp(added) <=> d.mp.set = q
  BY DEF IndexedMp
<1>7. /\ DOMAIN mem = DOMAIN s.mem \cup {x} /\ mem[x] = NewMember(d)
      /\ \A y \in DOMAIN s.mem : mem[y] = s.mem[y]
      /\ mem = [y \in DOMAIN mem |-> mem[y]]
  BY <1>2
<1> HIDE DEF mem, added
<1>8. mem \in Members
  <2>1. s.mem \in [DOMAIN s.mem -> AnyMember] /\ DOMAIN s.mem \subseteq Path
    BY <1>4, MembersAre DEF SetRecord
  <2>2. DOMAIN mem \subseteq Path /\ DOMAIN mem # {} /\ \A y \in DOMAIN mem : mem[y] \in AnyMember
    BY <1>5, <1>7, <2>1
  <2>3. mem \in [DOMAIN mem -> AnyMember]
    BY <1>7, <2>2
  <2> QED
    BY <2>2, <2>3, MembersAre
<1>9. w \in SetRecord /\ w.mem = mem /\ w.life = s.life /\ w.slots = s.slots
  BY <1>4, <1>8 DEF SetRecord
<1> HIDE DEF w
<1>10. Later(mps, mps') /\ \A i \in DOMAIN sets : Bound(sets[i], paths', mps')
  <2>1. Later(mps, mps')
    BY <1>2, <1>4, Counting DEF Later
  <2> QED
    BY <1>3, <2>1, BoundLater DEF IInv
<1>11. /\ t \in SetRecord /\ Sound(t) /\ Fresh(t, paths', mps') /\ Evaluated(w.life, t.life) /\ Moves(w, t)
       /\ SameMembers(w, t)
  BY <1>2, <1>9, CommitMakes, CommitMoves
<1>12. /\ DOMAIN t.mem = DOMAIN mem
       /\ \A y \in DOMAIN mem : t.mem[y].bound = mem[y].bound /\ t.mem[y].mp = mem[y].mp
  BY <1>9, <1>11 DEF SameMembers, Agree
<1>13. /\ DOMAIN sets' = DOMAIN sets /\ sets'[id] = t
       /\ \A i \in DOMAIN sets \ {id} : sets'[i] = sets[i]
  BY <1>1
<1>14. Bound(t, paths', mps')
  BY <1>5, <1>7, <1>10, <1>12 DEF Bound, Heard
<1>15. /\ \A q \in Mp : q \in IndexedMp(s.mem) => q \in IndexedMp(t.mem)
       /\ \A q \in Mp : d.mp.set = q => q \in IndexedMp(t.mem)
  BY <1>5, <1>7, <1>12 DEF IndexedMp
<1>16. IndexesSound'
  <2>1. \A y \in Path : byPath'[y] = {i \in DOMAIN sets' : y \in DOMAIN sets'[i].mem}
    BY <1>2, <1>7, <1>12, <1>13 DEF IInv, IndexesSound
  <2>2. \A q \in Mp : byMp'[q] \subseteq {i \in DOMAIN sets' : q \in IndexedMp(sets'[i].mem)}
    BY <1>2, <1>6, <1>13, <1>15 DEF IInv, IndexesSound
  <2> QED
    BY <2>1, <2>2 DEF IndexesSound
<1>17. byPath' \in [Path -> SUBSET SetId] /\ byMp' \in [Mp -> SUBSET SetId]
  BY <1>2 DEF IInv
<1>18. IInv'
  <2>1. \A i \in DOMAIN sets' : sets'[i] \in SetRecord /\ Sound(sets'[i]) /\ Bound(sets'[i], paths', mps')
    BY <1>10, <1>11, <1>13, <1>14 DEF IInv
  <2> QED
    BY <1>3, <1>13, <1>16, <1>17, <2>1 DEF IInv
<1>19. Reopening(s, t) /\ Moves(s, t)
  BY <1>2, <1>9, <1>11 DEF Reopening, Evaluated, Moves
<1>20. ReopenStep /\ MoveStep
  BY <1>13, <1>19, Untouched DEF ReopenStep, MoveStep, Installable
<1>21. FreshStep
  <2>1. ASSUME NEW i \in DOMAIN sets, i # id, MpIndexed(i)' PROVE MpIndexed(i)
    BY <1>2, <1>13, <2>1 DEF MpIndexed, IndexedMp
  <2>2. ASSUME NEW i \in DOMAIN sets, i # id, Fresh(sets[i], paths, mps)
        PROVE  Fresh(sets'[i], paths', mps')
    BY <1>2, <1>3, <1>13, <2>2, FreshWhenAdded
  <2> QED
    BY <1>11, <1>13, <2>1, <2>2 DEF FreshStep, UpToDate
<1> QED
  BY <1>18, <1>20, <1>21 DEF Steps

\* remove_member: the set leaves the indexes of the removed member, which may take
\* too much out of the multipath index and never too little.
LEMMA RemoveInv ==
  ASSUME IInv, NEW id \in DOMAIN sets, NEW x, RemoveMember(id, x)
  PROVE  IInv' /\ Steps
<1> DEFINE s == sets[id]
           mem == [y \in DOMAIN s.mem \ {x} |-> s.mem[y]]
           w == [s EXCEPT !.mem = mem]
<1>1. PICK t \in Commits(w, paths, mps) : sets' = [sets EXCEPT ![id] = t]
  BY DEF RemoveMember, Publish
<1>2. /\ paths' = paths /\ mps' = mps /\ s.life \notin Closed /\ x \in DOMAIN s.mem
      /\ Cardinality(DOMAIN s.mem) > 1
      /\ byPath' = [byPath EXCEPT ![x] = byPath[x] \ {id}]
      /\ byMp' \in [Mp -> SUBSET SetId]
      /\ \A q \in Mp : byMp'[q] = IF q = s.mem[x].mp.set THEN byMp[q] \ {id} ELSE byMp[q]
  BY DEF RemoveMember, LeaveIndexes, IsMutable, Mutable, Closed, IInv
<1>3. s \in SetRecord /\ Bound(s, paths, mps) /\ Viewed(paths, mps)
  BY DEF IInv
<1>4. /\ DOMAIN mem = DOMAIN s.mem \ {x} /\ \A y \in DOMAIN mem : mem[y] = s.mem[y]
      /\ mem = [y \in DOMAIN mem |-> mem[y]]
  OBVIOUS
<1> HIDE DEF mem
<1>5. mem \in Members
  <2>1. s.mem \in [DOMAIN s.mem -> AnyMember] /\ DOMAIN s.mem \subseteq Path
    BY <1>3, MembersAre DEF SetRecord
  <2>2. DOMAIN mem # {}
    <3>1. ASSUME DOMAIN s.mem \subseteq {x} PROVE FALSE
      <4>1. DOMAIN s.mem = {x}
        BY <1>2, <3>1
      <4> QED
        BY <1>2, <4>1, FS_Singleton
    <3> QED
      BY <1>4, <3>1
  <2>3. DOMAIN mem \subseteq Path /\ mem \in [DOMAIN mem -> AnyMember]
    BY <1>4, <2>1
  <2> QED
    BY <2>2, <2>3, MembersAre
<1>6. w \in SetRecord /\ w.mem = mem /\ w.life = s.life /\ w.slots = s.slots
  BY <1>3, <1>5 DEF SetRecord
<1> HIDE DEF w
<1>7. /\ t \in SetRecord /\ Sound(t) /\ Fresh(t, paths, mps) /\ Evaluated(w.life, t.life) /\ Moves(w, t)
      /\ SameMembers(w, t)
  BY <1>6, CommitMakes, CommitMoves
<1>8. /\ DOMAIN t.mem = DOMAIN mem
      /\ \A y \in DOMAIN mem : t.mem[y].bound = mem[y].bound /\ t.mem[y].mp = mem[y].mp
  BY <1>6, <1>7 DEF SameMembers, Agree
<1>9. /\ DOMAIN sets' = DOMAIN sets /\ sets'[id] = t
      /\ \A i \in DOMAIN sets \ {id} : sets'[i] = sets[i]
  BY <1>1
<1>10. Bound(t, paths, mps)
  BY <1>3, <1>4, <1>8 DEF Bound, Heard
<1>11. \A q \in Mp : q \in IndexedMp(s.mem) /\ q # s.mem[x].mp.set => q \in IndexedMp(t.mem)
  BY <1>4, <1>8 DEF IndexedMp
<1>12. IndexesSound'
  <2>1. \A y \in Path : byPath'[y] = {i \in DOMAIN sets' : y \in DOMAIN sets'[i].mem}
    BY <1>2, <1>4, <1>8, <1>9 DEF IInv, IndexesSound
  <2>2. \A q \in Mp : byMp'[q] \subseteq {i \in DOMAIN sets' : q \in IndexedMp(sets'[i].mem)}
    BY <1>2, <1>9, <1>11 DEF IInv, IndexesSound
  <2> QED
    BY <2>1, <2>2 DEF IndexesSound
<1>13. byPath' \in [Path -> SUBSET SetId]
  BY <1>2 DEF IInv
<1>14. IInv'
  <2>1. \A i \in DOMAIN sets' : sets'[i] \in SetRecord /\ Sound(sets'[i]) /\ Bound(sets'[i], paths', mps')
    BY <1>2, <1>7, <1>9, <1>10 DEF IInv
  <2> QED
    BY <1>2, <1>3, <1>9, <1>12, <1>13, <2>1 DEF IInv
<1>15. Reopening(s, t) /\ Moves(s, t)
  BY <1>2, <1>6, <1>7 DEF Reopening, Evaluated, Moves
<1>16. ReopenStep /\ MoveStep
  BY <1>9, <1>15, Untouched DEF ReopenStep, MoveStep, Installable
<1>17. FreshStep
  <2>1. ASSUME NEW i \in DOMAIN sets, i # id, MpIndexed(i)' PROVE MpIndexed(i)
    BY <1>2, <1>9, <2>1 DEF MpIndexed, IndexedMp
  <2> QED
    BY <1>2, <1>7, <1>9, <2>1 DEF FreshStep, UpToDate
<1> QED
  BY <1>14, <1>16, <1>17 DEF Steps

----------------------------------------------------------------------------
(* Upstream reports and restarts.                                           *)

\* The views of the members of a set are what they were, so far as its indexes tell.
SameViews(id) ==
  \A x \in DOMAIN sets[id].mem : LET m == sets[id].mem[x] IN
    /\ PathCurrent(x, m, paths') <=> PathCurrent(x, m, paths)
    /\ m.mp # NoBinding => (MultipathCurrent(m.mp, mps') <=> MultipathCurrent(m.mp, mps))

\* A report installs the commits of some of the sets that use what it is about, of
\* all of them when none is refused; what the others use it does not change.
LEMMA PropagateInv ==
  ASSUME IInv, NEW users \in SUBSET DOMAIN sets, Propagate(users, paths', mps'),
         \A id \in DOMAIN sets \ users : MpIndexed(id) => SameViews(id),
         Viewed(paths', mps'), Later(paths, paths'), Later(mps, mps'),
         UNCHANGED <<byPath, byMp>>
  PROVE  IInv' /\ Steps
<1> DEFINE failing == {id \in users : Commits(sets[id], paths', mps') = {}}
           reached == {id \in users : \A f \in failing : id < f}
<1>1. sets' = [id \in DOMAIN sets |->
                 IF id \in reached THEN CHOOSE s \in Commits(sets[id], paths', mps') : TRUE ELSE sets[id]]
  BY Zenon DEF Propagate, Committed
<1>2. \A id \in DOMAIN sets : id \in Nat
  BY FabricAssumption DEF IInv
<1>3. \A id \in reached : Commits(sets[id], paths', mps') # {}
  BY <1>2
<1>4. NoRefusal => reached = users
  <2>1. ASSUME NoRefusal, NEW id \in users PROVE Commits(sets[id], paths', mps') # {}
    <3>1. sets[id] \in SetRecord /\ ~AllZero(DeclaredWeights(sets[id]))
      BY DEF IInv, Sound
    <3> QED
      BY <2>1, <3>1, NothingRefused
  <2> QED
    BY <2>1
<1> HIDE DEF reached
<1>5. \A id \in DOMAIN sets : \/ id \notin reached /\ sets'[id] = sets[id]
                              \/ sets'[id] \in Commits(sets[id], paths', mps')
  BY <1>1, <1>3
<1>6. \A id \in DOMAIN sets : sets[id] \in SetRecord /\ Working(sets[id], sets[id])
  BY EditWorks DEF IInv
<1>7. \A id \in DOMAIN sets : Installable(sets[id], sets'[id])
  BY <1>5, <1>6, CommitInstalls, Untouched
<1>8. DOMAIN sets' = DOMAIN sets
  BY <1>1
<1>9. ASSUME NoRefusal, NEW id \in DOMAIN sets PROVE Renews(id)
  <2>1. CASE sets'[id] \in Commits(sets[id], paths', mps')
    <3>1. Fresh(sets'[id], paths', mps')
      BY <1>6, <2>1, CommitMakes
    <3> QED
      BY <3>1 DEF Renews
  <2>2. CASE id \notin reached /\ sets'[id] = sets[id]
    <3>1. MpIndexed(id) => SameViews(id)
      BY <1>4, <1>9, <2>2
    <3>2. ASSUME SameViews(id), Fresh(sets[id], paths, mps) PROVE Fresh(sets[id], paths', mps')
      BY <1>6, <3>2, FreshSame DEF SameViews
    <3> QED
      BY <2>2, <3>1, <3>2 DEF Renews
  <2> QED
    BY <1>5, <2>1, <2>2
<1> QED
  BY <1>7, <1>8, <1>9, InstallInv

\* A report about a path is of a view that is no older than the one known.
LEMMA ObservePathInv ==
  ASSUME IInv, NEW x \in Path, NEW gen \in ViewGen, NEW legality \in Reported,
         ObservePathAuthority(x, gen, legality)
  PROVE  IInv' /\ Steps
<1>1. byPath[x] \in SUBSET DOMAIN sets
  BY DEF IInv, IndexesSound
<1>2. Viewed(paths, mps) /\ (\A y \in DOMAIN paths : paths[y].gen \in Nat)
      /\ (\A r \in DOMAIN mps : mps[r].gen \in Nat) /\ gen \in Nat
  BY Counting, FabricAssumption DEF IInv, ViewGen
<1>3. /\ paths' = [y \in DOMAIN paths \cup {x} |->
                     IF y = x THEN [gen |-> gen, legality |-> legality] ELSE paths[y]]
      /\ x \in DOMAIN paths => gen >= paths[x].gen
      /\ mps' = mps /\ Propagate(byPath[x], paths', mps) /\ UNCHANGED <<byPath, byMp>>
  BY <1>2 DEF ObservePathAuthority
<1>4. Later(paths, paths') /\ Later(mps, mps') /\ Viewed(paths', mps')
  BY <1>2, <1>3 DEF Later, Viewed
<1>5. ASSUME NEW id \in DOMAIN sets \ byPath[x] PROVE SameViews(id)
  <2>1. x \notin DOMAIN sets[id].mem
    BY <1>5 DEF IInv, IndexesSound
  <2> QED
    BY <1>3, <2>1 DEF SameViews, PathCurrent
<1> QED
  BY <1>1, <1>3, <1>4, <1>5, PropagateInv

\* A report about a multipath set is of a view that is no older than the one known.
LEMMA ObserveMultipathInv ==
  ASSUME IInv, NEW q \in Mp, NEW gen \in ViewGen, NEW members \in SUBSET MpMember,
         ObserveMultipathSet(q, gen, members)
  PROVE  IInv' /\ Steps
<1>1. byMp[q] \in SUBSET DOMAIN sets
  BY DEF IInv, IndexesSound
<1>2. Viewed(paths, mps) /\ (\A y \in DOMAIN paths : paths[y].gen \in Nat)
      /\ (\A r \in DOMAIN mps : mps[r].gen \in Nat) /\ gen \in Nat
  BY Counting, FabricAssumption DEF IInv, ViewGen
<1>3. /\ mps' = [r \in DOMAIN mps \cup {q} |->
                   IF r = q THEN [gen |-> gen, members |-> members] ELSE mps[r]]
      /\ q \in DOMAIN mps => gen >= mps[q].gen
      /\ paths' = paths /\ Propagate(byMp[q], paths, mps') /\ UNCHANGED <<byPath, byMp>>
  BY DEF ObserveMultipathSet
<1>4. Later(paths, paths') /\ Later(mps, mps') /\ Viewed(paths', mps')
  BY <1>2, <1>3 DEF Later, Viewed
<1>5. ASSUME NEW id \in DOMAIN sets \ byMp[q], MpIndexed(id) PROVE SameViews(id)
  <2>1. \A x \in DOMAIN sets[id].mem : sets[id].mem[x].mp.set # q
    BY <1>5 DEF MpIndexed, IndexedMp
  <2> QED
    BY <1>3, <2>1 DEF SameViews, MultipathCurrent
<1> QED
  BY <1>1, <1>3, <1>4, <1>5, PropagateInv

\* Recovery keeps the members, their bindings and the slots, and withdraws authority.
LEMMA RecoveredMakes ==
  ASSUME NEW s \in SetRecord, Sound(s), NEW r, r = Recovered(s)
  PROVE  /\ r \in SetRecord /\ Sound(r) /\ SameMembers(s, r) /\ Fresh(r, paths, mps)
         /\ r.life = "RevalidationRequired" /\ ~r.auth
         /\ r.space = s.space /\ r.min = s.min /\ r.slots = s.slots /\ r.gen = s.gen
         /\ \A x \in DOMAIN s.mem : r.mem[x].canonical = s.mem[x].canonical
<1> DEFINE w == [s EXCEPT !.life = "RevalidationRequired", !.auth = FALSE]
<1>1. /\ w \in SetRecord /\ w.mem = s.mem /\ w.life = "RevalidationRequired" /\ w.auth = FALSE
      /\ w.space = s.space /\ w.min = s.min /\ w.slots = s.slots /\ w.gen = s.gen
  BY DEF SetRecord, Lifecycles, Mutable
<1>2. r = Evaluate(w, paths, mps)
  BY DEF Recovered
<1> HIDE DEF w
<1>3. DeclaredWeights(w) = DeclaredWeights(s) /\ ~AllZero(DeclaredWeights(w))
  BY <1>1 DEF DeclaredWeights, Sound
<1>4. /\ r \in SetRecord /\ SameMembers(w, r)
      /\ r.life = w.life /\ r.space = w.space /\ r.min = w.min /\ r.slots = w.slots
      /\ r.auth = w.auth /\ r.gen = w.gen
      /\ \A x \in DOMAIN w.mem : /\ r.mem[x].canonical = Canonical(DeclaredWeights(w))[x]
                                 /\ r.mem[x].state = DeriveState(w.life, x, w.mem[x], paths, mps)
  BY <1>1, <1>2, <1>3, EvaluateKeeps
<1>5. SameMembers(s, r) /\ DeclaredWeights(r) = DeclaredWeights(s)
  BY <1>1, <1>4 DEF SameMembers, Agree, DeclaredWeights
<1>6. Fresh(r, paths, mps)
  <2>1. \A x \in DOMAIN w.mem :
          DeriveState(r.life, x, r.mem[x], paths, mps) = DeriveState(w.life, x, w.mem[x], paths, mps)
    BY <1>1, <1>4, DerivedSame DEF SameMembers, Evaluated, Lifecycles, Mutable
  <2> QED
    BY <1>4, <2>1 DEF Fresh, SameMembers
<1>7. \A x \in DOMAIN s.mem : r.mem[x].state = "RevalidationRequired"
  BY <1>1, <1>4 DEF DeriveState, Closed
<1>8. \A x \in DOMAIN s.mem : r.mem[x].canonical = s.mem[x].canonical
  BY <1>1, <1>3, <1>4 DEF Sound
<1>9. Sound(r)
  BY <1>1, <1>4, <1>5, <1>7, <1>8 DEF Sound, SameMembers, Fitting, InService, Closed, States
<1> QED
  BY <1>1, <1>4, <1>5, <1>6, <1>8, <1>9

\* Recovery keeps the bindings and rebuilds the indexes from them.
LEMMA RestartInv == ASSUME IInv, Restart PROVE IInv' /\ Steps
<1>1. /\ sets' = [id \in DOMAIN sets |-> Recovered(sets[id])]
      /\ byPath' = [x \in Path |-> {id \in DOMAIN sets : x \in DOMAIN sets[id].mem}]
      /\ byMp' = [q \in Mp |-> {id \in DOMAIN sets : q \in IndexedMp(sets[id].mem)}]
      /\ paths' = paths /\ mps' = mps
  BY DEF Restart
<1>2. ASSUME NEW id \in DOMAIN sets
      PROVE  LET s == sets[id] r == sets'[id] IN
             /\ r \in SetRecord /\ Sound(r) /\ SameMembers(s, r) /\ Fresh(r, paths', mps')
             /\ r.life = "RevalidationRequired" /\ ~r.auth
  <2>1. sets[id] \in SetRecord /\ Sound(sets[id]) /\ sets'[id] = Recovered(sets[id])
    BY <1>1 DEF IInv
  <2> QED
    BY <1>1, <2>1, RecoveredMakes
<1>3. DOMAIN sets' = DOMAIN sets /\ DOMAIN sets \subseteq SetId
  BY <1>1 DEF IInv
<1>4. \A id \in DOMAIN sets : Bound(sets'[id], paths', mps')
  BY <1>1, <1>2 DEF IInv, Bound, Heard, SameMembers, Agree
<1>5. \A id \in DOMAIN sets : IndexedMp(sets'[id].mem) = IndexedMp(sets[id].mem)
  BY <1>2 DEF IndexedMp, SameMembers, Agree
<1>6. IndexesSound'
  BY <1>1, <1>2, <1>3, <1>5 DEF IndexesSound, SameMembers
<1>7. byPath' \in [Path -> SUBSET SetId] /\ byMp' \in [Mp -> SUBSET SetId]
  BY <1>1, <1>3
<1>8. IInv'
  BY <1>1, <1>2, <1>3, <1>4, <1>6, <1>7 DEF IInv
<1>9. ReopenStep /\ MoveStep
  BY <1>2 DEF ReopenStep, Reopening, MoveStep, Moves, Closed
<1>10. FreshStep
  BY <1>2, <1>3 DEF FreshStep, UpToDate
<1> QED
  BY <1>8, <1>9, <1>10 DEF Steps

----------------------------------------------------------------------------

\* Before the first call there is nothing to index.
LEMMA InitInv == Init => IInv /\ UpToDate
BY DEF Init, IInv, Viewed, IndexesSound, UpToDate

\* Every call keeps the invariant, reopens no set without proof, moves no slot without
\* need and, when no commit is refused, keeps every set up to date.
LEMMA NextInv == ASSUME IInv, Next PROVE IInv' /\ Steps
<1>1. CASE Create
  BY <1>1, CreateInv DEF Create
<1>2. ASSUME NEW id \in DOMAIN sets, Policy(id) PROVE IInv' /\ Steps
  <2>1. CASE \E x \in Path \ DOMAIN sets[id].mem, d \in Specs : AddMember(id, x, d)
    BY <2>1, AddInv
  <2>2. CASE \E x : RemoveMember(id, x)
    BY <2>2, RemoveInv
  <2>3. ASSUME NEW bound, NEW rebind \in [bound -> MpMember], Revalidate(id, rebind)
        PROVE  IInv' /\ Steps
    <3>1. \A x \in DOMAIN rebind : rebind[x] \in MpMember
      OBVIOUS
    <3> QED
      BY <2>3, <3>1, RevalidateInv
  <2>4. CASE \E weights \in [DOMAIN sets[id].mem -> Weights], space \in Spaces \cup {sets[id].space},
                min \in 1..Cardinality(DOMAIN sets[id].mem) \cup {sets[id].min} :
                  UpdateWeights(id, weights, space, min)
    BY <2>4, UpdateWeightsInv
  <2>5. CASE \E x \in DOMAIN sets[id].mem, on \in BOOLEAN : SetMemberEnabled(id, x, on)
    BY <2>5, EnableInv
  <2>6. CASE RebalanceSet(id)
    BY <2>6, RebalanceInv
  <2> QED
    BY <1>2, <2>1, <2>2, <2>3, <2>4, <2>5, <2>6, Zenon DEF Policy
<1>3. ASSUME NEW id \in DOMAIN sets, LifecycleRequest(id) PROVE IInv' /\ Steps
  BY <1>3, LifecycleInv
     DEF LifecycleRequest, WithdrawSet, CompleteWithdrawal, RevokeSet, RetireSet, SupersedeSet, Events
<1>4. CASE Upstream
  BY <1>4, ObservePathInv, ObserveMultipathInv DEF Upstream
<1>5. CASE Restart
  BY <1>5, RestartInv
<1> QED
  BY <1>1, <1>2, <1>3, <1>4, <1>5 DEF Next

\* A step in which nothing happens.
LEMMA StutterInv == ASSUME UNCHANGED vars PROVE (IInv => IInv') /\ (UpToDate => UpToDate')
<1>1. sets' = sets /\ paths' = paths /\ mps' = mps /\ byPath' = byPath /\ byMp' = byMp
  BY DEF vars
<1> QED
  BY <1>1 DEF IInv, IndexesSound, UpToDate, MpIndexed

\* The invariant that the theorems below are read from.
THEOREM Invariant == Spec => []IInv
<1>1. IInv /\ [Next]_vars => IInv'
  BY NextInv, StutterInv
<1> QED
  BY <1>1, InitInv, PTL DEF Spec

\* As long as no commit is refused, every set that reports can reach is up to date.
LEMMA StaysUpToDate == ASSUME NoRefusal PROVE Spec => []UpToDate
<1>1. IInv /\ UpToDate /\ [Next]_vars => UpToDate'
  BY NextInv, StutterInv DEF Steps, FreshStep
<1> QED
  BY <1>1, Invariant, InitInv, PTL DEF Spec

\* A set that is up to date is what an evaluation makes of it.
LEMMA FreshIsNow ==
  ASSUME NEW s \in SetRecord, Sound(s), NEW p, NEW q, Fresh(s, p, q)
  PROVE  Evaluate(s, p, q) = s
<1> DEFINE c == Canonical(DeclaredWeights(s))
           state(x) == DeriveState(s.life, x, s.mem[x], p, q)
           new(x) == [s.mem[x] EXCEPT !.canonical = c[x], !.state = state(x)]
           mem == [x \in DOMAIN s.mem |-> new(x)]
<1>1. Evaluate(s, p, q) = [s EXCEPT !.mem = mem]
  BY Zenon DEF Evaluate
<1>2. s.mem \in [DOMAIN s.mem -> AnyMember]
  BY MembersAre DEF SetRecord
<1>3. \A x \in DOMAIN s.mem : c[x] = s.mem[x].canonical /\ state(x) = s.mem[x].state
  BY DEF Sound, Fresh
<1> HIDE DEF c, state
<1>4. ASSUME NEW x \in DOMAIN s.mem PROVE new(x) = s.mem[x]
  <2>1. s.mem[x] \in AnyMember /\ c[x] = s.mem[x].canonical /\ state(x) = s.mem[x].state
    BY <1>2, <1>3
  <2> QED
    BY <2>1 DEF AnyMember
<1> HIDE DEF new
<1>5. mem = [x \in DOMAIN s.mem |-> s.mem[x]]
  BY <1>4
<1>6. mem = s.mem
  BY <1>2, <1>5
<1> HIDE DEF mem
<1> QED
  BY <1>1, <1>6 DEF SetRecord

\* The path index names exactly the sets that use a path, the multipath index no
\* set that does not use the multipath set: for every number of sets and members.
THEOREM IndexesAreSound == Spec => []IndexesSound
<1>1. IInv => IndexesSound
  BY DEF IInv
<1> QED
  BY <1>1, Invariant, PTL

\* No member is bound to a generation that the coordinator has not heard of.
THEOREM BindingsAreHeard == Spec => []BindingsNotAhead
<1>1. IInv => BindingsNotAhead
  BY DEF IInv, BindingsNotAhead, Bound, Heard
<1> QED
  BY <1>1, Invariant, PTL

\* A withdrawn, revoked, superseded or retired set holds no slot for any member.
THEOREM ClosedSetsAreEmpty == Spec => []ClosedCarriesNothing
<1>1. IInv => ClosedCarriesNothing
  BY DEF IInv, ClosedCarriesNothing, Sound
<1> QED
  BY <1>1, Invariant, PTL

\* Every record, view and index has its type.
THEOREM Typed == Spec => []TypeOK
<1>1. ASSUME IInv, NEW id \in DOMAIN sets
      PROVE  LET s == sets[id] IN
             /\ s.life \in Lifecycles \ {"Declared"} /\ s.auth \in BOOLEAN
             /\ s.space \in Spaces /\ s.min \in 1..Cardinality(Path)
             /\ DOMAIN s.mem \subseteq Path /\ \A x \in DOMAIN s.mem : s.mem[x] \in Member
             /\ DOMAIN s.slots \subseteq Nat /\ Range(s.slots) \subseteq Path \cup {Unowned}
             /\ s.gen \in [Kinds -> 1..MaxGen]
  <2> DEFINE s == sets[id]
  <2>1. s \in SetRecord /\ Sound(s)
    BY <1>1 DEF IInv
  <2> HIDE DEF s
  <2>2. s.mem \in [DOMAIN s.mem -> AnyMember] /\ DOMAIN s.mem \subseteq Path
    BY <2>1, MembersAre DEF SetRecord
  <2>3. ASSUME NEW x \in DOMAIN s.mem PROVE s.mem[x] \in Member
    <3>1. s.mem[x] \in AnyMember /\ s.mem[x].state \in States
      BY <2>1, <2>2 DEF Sound
    <3> QED
      BY <3>1 DEF AnyMember, Member, States
  <2>4. DOMAIN s.slots \subseteq Nat /\ Range(s.slots) \subseteq Path \cup {Unowned}
    BY <2>1, SlotMapsAre DEF SetRecord
  <2>5. /\ s.life \in Lifecycles \ {"Declared"} /\ s.auth \in BOOLEAN /\ s.space \in Spaces
        /\ s.min \in 1..Cardinality(Path) /\ s.gen \in [Kinds -> 1..MaxGen]
    BY <2>1 DEF SetRecord, Sound
  <2> QED
    BY <2>2, <2>3, <2>4, <2>5 DEF s
<1>2. IInv => TypeOK
  BY <1>1 DEF IInv, TypeOK, Viewed
<1> QED
  BY <1>2, Invariant, PTL

\* Whatever calls were committed, no check between the store and service refuses
\* what the engine holds.
THEOREM AlwaysRecoverable == Spec => []Recoverable
<1>1. ASSUME IInv, NEW id \in DOMAIN sets PROVE Restorable(sets[id]) /\ Verified(sets[id])
  <2> DEFINE s == sets[id]
             r == Recovered(s)
  <2>1. s \in SetRecord /\ Sound(s)
    BY <1>1 DEF IInv
  <2>2. Verified(r)
    <3>1. Sound(r) /\ ~r.auth
      BY <2>1, RecoveredMakes
    <3> HIDE DEF r
    <3> QED
      BY <3>1 DEF Verified, Sound
  <2> HIDE DEF s
  <2>3. DOMAIN s.mem # {} /\ s.min > 0
    <3>1. s.mem \in Members /\ s.min \in 1..Cardinality(Path) /\ Cardinality(Path) \in Nat
      BY <2>1, FabricAssumption, FS_CardinalityType DEF SetRecord
    <3> QED
      BY <3>1, MembersAre
  <2>4. ASSUME s.auth
        PROVE  /\ DOMAIN s.slots # {} /\ Unowned \notin Range(s.slots) /\ s.life \in InService
               /\ \A x \in DOMAIN s.mem : Cardinality(OwnedBy(s.slots, x)) = Seats(s)[x]
    <3>1. s.space \in Nat \ {0}
      BY <2>1, FabricAssumption DEF SetRecord
    <3>2. DOMAIN s.slots = 1..s.space
      BY <2>1, <2>4, ServedSeats
    <3>3. DOMAIN s.slots # {}
      BY <3>1, <3>2
    <3> QED
      BY <2>1, <2>4, <3>3, ServedSeats DEF Sound
  <2>5. Fitting(s) /\ Range(s.slots) \subseteq DOMAIN s.mem \cup {Unowned} /\ ~AllZero(DeclaredWeights(s))
    BY <2>1 DEF Sound
  <2>6. Storable(s) /\ Importable(s) /\ Verified(s)
    BY <2>3, <2>4, <2>5 DEF Storable, Importable, Verified, InService
  <2> QED
    BY <2>2, <2>6 DEF s, r, Restorable
<1>2. IInv => Recoverable
  BY <1>1 DEF Recoverable
<1> QED
  BY <1>2, Invariant, PTL

\* As long as no commit is refused, the map in force is the one that the views of the
\* moment justify.
THEOREM AssignmentMatches == ASSUME NoRefusal PROVE Spec => []AssignmentMatchesUpstream
<1>1. ASSUME IInv, UpToDate, NEW id \in DOMAIN sets
      PROVE  LET s == sets[id] IN
             IF s.life \in {"Active", "Degraded"}
             THEN MpIndexed(id) =>
                    /\ s.auth <=> Contributing(Now(id)) # {}
                    /\ s.auth => \A x \in DOMAIN s.mem : Cardinality(OwnedBy(s.slots, x)) = Seats(Now(id))[x]
             ELSE ~s.auth
  <2>1. sets[id] \in SetRecord /\ Sound(sets[id])
    BY <1>1 DEF IInv
  <2>2. MpIndexed(id) => Now(id) = sets[id]
    BY <1>1, <2>1, FreshIsNow DEF UpToDate, Now
  <2>3. sets[id].auth <=> sets[id].life \in InService /\ Contributing(sets[id]) # {}
    BY <2>1 DEF Sound
  <2>4. sets[id].auth =>
          \A x \in DOMAIN sets[id].mem : Cardinality(OwnedBy(sets[id].slots, x)) = Seats(sets[id])[x]
    BY <2>1, ServedSeats
  <2> QED
    BY <2>2, <2>3, <2>4 DEF InService
<1>2. IInv /\ UpToDate => AssignmentMatchesUpstream
  BY <1>1 DEF AssignmentMatchesUpstream
<1> QED
  BY <1>2, Invariant, StaysUpToDate, PTL

\* As long as no commit is refused, ACTIVE means that enough members are eligible now.
THEOREM ActiveIsEnough == ASSUME NoRefusal PROVE Spec => []ActiveMeansEnough
<1>1. ASSUME IInv, UpToDate, NEW id \in DOMAIN sets, MpIndexed(id), sets[id].life \in InService
      PROVE  sets[id].life = "Active" <=> Cardinality(Contributing(Now(id))) >= sets[id].min
  <2>1. sets[id] \in SetRecord /\ Sound(sets[id]) /\ Fresh(sets[id], paths, mps)
    BY <1>1 DEF IInv, UpToDate
  <2>2. Now(id) = sets[id]
    BY <2>1, FreshIsNow DEF Now
  <2> QED
    BY <1>1, <2>1, <2>2 DEF Sound
<1>2. IInv /\ UpToDate => ActiveMeansEnough
  BY <1>1 DEF ActiveMeansEnough, InService
<1> QED
  BY <1>2, Invariant, StaysUpToDate, PTL

\* No commit moves a slot that could have stayed with its owner.
THEOREM MovesAreNeeded == Spec => MovesOnlyWhatMust
<1>1. IInv /\ [Next]_vars => [MoveStep]_vars
  BY NextInv DEF Steps
<1> QED
  BY <1>1, Invariant, PTL DEF Spec, MovesOnlyWhatMust, MoveStep, Moves

\* A closed set is reopened by a restart only, to be proved again, and a set that
\* must be proved serves again only with every legal path at its generation.
THEOREM ReopeningIsProved == Spec => ReopensOnlyByProof
<1>1. IInv /\ [Next]_vars => [ReopenStep]_vars
  BY NextInv DEF Steps
<1> QED
  BY <1>1, Invariant, PTL DEF Spec, ReopensOnlyByProof, ReopenStep, Reopening

----------------------------------------------------------------------------
(* A restart and the revalidation that follows.                             *)

\* The working copy of a revalidation right after a recovery, when every legal path
\* is at the generation its member is bound to: the set before, to be declared again.
LEMMA ReprovedMakes ==
  ASSUME NEW s \in SetRecord, Sound(s), \A x \in DOMAIN s.mem : LegalPath(x) => s.mem[x].bound = paths[x].gen,
         NEW w, w = Reproved(Recovered(s), <<>>)
  PROVE  /\ w \in SetRecord /\ SameMembers(s, w) /\ w.life = "Declared"
         /\ w.space = s.space /\ w.min = s.min /\ w.slots = s.slots /\ w.gen = s.gen
<1> DEFINE r == Recovered(s)
           bound(x) == IF LegalPath(x) THEN paths[x].gen ELSE r.mem[x].bound
           mp(x) == IF x \in DOMAIN <<>> THEN Rebound(r.mem[x], <<>>[x]) ELSE r.mem[x].mp
           new(x) == [r.mem[x] EXCEPT !.bound = bound(x), !.mp = mp(x)]
           mem == [x \in DOMAIN r.mem |-> new(x)]
           life == IF r.life = "RevalidationRequired" THEN "Declared" ELSE r.life
<1>1. w = [r EXCEPT !.mem = mem, !.life = life]
  BY Zenon DEF Reproved
<1>2. /\ r \in SetRecord /\ SameMembers(s, r) /\ r.life = "RevalidationRequired"
      /\ r.space = s.space /\ r.min = s.min /\ r.slots = s.slots /\ r.gen = s.gen
  BY RecoveredMakes
<1> HIDE DEF r
<1>3. r.mem \in [DOMAIN r.mem -> AnyMember] /\ DOMAIN r.mem = DOMAIN s.mem /\ r.mem \in Members
  BY <1>2, MembersAre DEF SetRecord, SameMembers
<1>4. ASSUME NEW x \in DOMAIN r.mem PROVE new(x) = r.mem[x]
  <2>1. r.mem[x] \in AnyMember /\ bound(x) = r.mem[x].bound
    BY <1>2, <1>3 DEF SameMembers, Agree
  <2>2. mp(x) = r.mem[x].mp
    OBVIOUS
  <2> HIDE DEF bound, mp
  <2> QED
    BY <2>1, <2>2 DEF AnyMember
<1> HIDE DEF new
<1>5. mem = [x \in DOMAIN r.mem |-> r.mem[x]]
  BY <1>4
<1>6. mem = r.mem
  BY <1>3, <1>5
<1> HIDE DEF mem
<1>7. life = "Declared" /\ "Declared" \in Lifecycles
  BY <1>2 DEF Lifecycles, Mutable
<1> HIDE DEF life
<1>8. /\ w \in SetRecord /\ w.mem = r.mem /\ w.life = "Declared" /\ w.space = r.space /\ w.min = r.min
      /\ w.slots = r.slots /\ w.gen = r.gen
  BY <1>1, <1>2, <1>6, <1>7 DEF SetRecord
<1> QED
  BY <1>2, <1>8 DEF SameMembers

\* Its commit gives the set back as it was.
LEMMA ReprovedRestores ==
  ASSUME NEW s \in SetRecord, Sound(s), s.auth, Fresh(s, paths, mps),
         NEW w \in SetRecord, SameMembers(s, w), w.life = "Declared",
         w.space = s.space, w.min = s.min, w.slots = s.slots, w.gen = s.gen,
         NEW g, g = Settled(Evaluate(w, paths, mps))
  PROVE  g = s
<1>1. DeclaredWeights(w) = DeclaredWeights(s) /\ ~AllZero(DeclaredWeights(w))
  BY DEF DeclaredWeights, SameMembers, Agree, Sound
<1>2. /\ g \in SetRecord /\ SameMembers(w, g) /\ Evaluated(w.life, g.life)
      /\ Sound(g) /\ Fresh(g, paths, mps) /\ g.space = w.space /\ g.min = w.min /\ g.gen = w.gen
      /\ g.auth => /\ IsRebalance(w.slots, g.space, Targets(g))
                   /\ g.slots = Rebalance(w.slots, g.space, Targets(g))
  BY <1>1, SettledMakes
<1>3. SameMembers(s, g) /\ DeclaredWeights(g) = DeclaredWeights(s)
  BY <1>2 DEF SameMembers, Agree, DeclaredWeights
<1>4. s.life \in InService /\ g.life \in InService /\ s.life \in Lifecycles /\ Contributing(s) # {}
  BY <1>2 DEF Evaluated, Sound, Closed, SetRecord
<1>5. ASSUME NEW x \in DOMAIN s.mem PROVE g.mem[x] = s.mem[x]
  <2>1. s.mem[x] \in AnyMember /\ g.mem[x] \in AnyMember /\ Agree(s.mem[x], g.mem[x])
    BY <1>2, <1>3, MembersAre DEF SetRecord, SameMembers
  <2>2. g.mem[x].canonical = s.mem[x].canonical
    BY <1>2, <1>3 DEF Sound, SameMembers
  <2>3. DeriveState(g.life, x, g.mem[x], paths, mps) = DeriveState(s.life, x, s.mem[x], paths, mps)
    BY <1>4, <2>1, DerivedSame DEF Evaluated, InService, Closed
  <2>4. g.mem[x].state = s.mem[x].state
    BY <1>2, <1>3, <2>3 DEF Fresh, SameMembers
  <2> QED
    BY <2>1, <2>2, <2>4 DEF AnyMember, Agree
<1>6. g.mem = s.mem
  <2>1. DOMAIN g.mem = DOMAIN s.mem
    BY <1>3 DEF SameMembers
  <2>2. /\ g.mem = [x \in DOMAIN g.mem |-> g.mem[x]]
        /\ s.mem = [x \in DOMAIN s.mem |-> s.mem[x]]
    BY <1>2, MembersAre DEF SetRecord
  <2>3. [x \in DOMAIN g.mem |-> g.mem[x]] = [x \in DOMAIN s.mem |-> s.mem[x]]
    BY <1>5, <2>1
  <2> QED
    BY <2>2, <2>3, Zenon
<1>7. Contributing(g) = Contributing(s) /\ Seats(g) = Seats(s) /\ Targets(g) = Targets(s)
  <2>1. g.mem = s.mem /\ g.space = s.space
    BY <1>2, <1>6
  <2>2. Contributing(g) = Contributing(s)
    BY <2>1, Zenon DEF Contributing
  <2>3. Seats(g) = Seats(s)
    BY <2>1, <2>2, Zenon DEF Seats
  <2> QED
    BY <2>2, <2>3, Zenon DEF Targets
<1>8. g.auth
  BY <1>2, <1>4, <1>7 DEF Sound
<1>9. g.life = s.life
  BY <1>2, <1>4, <1>7 DEF Sound, InService
<1>10. g.slots = s.slots
  <2>1. /\ IsRebalance(s.slots, s.space, Targets(s)) /\ g.slots = Rebalance(s.slots, s.space, Targets(s))
        /\ Fits(s.slots, s.space, Targets(s))
    BY <1>2, <1>7, <1>8 DEF Sound
  <2> QED
    BY <2>1, RebalanceKeepsFitting
<1> QED
  BY <1>2, <1>6, <1>8, <1>9, <1>10 DEF SetRecord

\* As long as no commit is refused, a set that served, recovered and revalidated before
\* anything else is committed, is what it was.
THEOREM RestartsRestore == ASSUME NoRefusal PROVE Spec => []RestartRestoresMap
<1>1. ASSUME IInv, UpToDate, NEW id \in DOMAIN sets, sets[id].auth, MpIndexed(id),
             \A x \in DOMAIN sets[id].mem : LegalPath(x) => sets[id].mem[x].bound = paths[x].gen
      PROVE  \E t \in Commits(Reproved(Recovered(sets[id]), <<>>), paths, mps) :
               [t EXCEPT !.gen = sets[id].gen] = sets[id]
  <2> DEFINE s == sets[id]
             w == Reproved(Recovered(s), <<>>)
  <2>1. s \in SetRecord /\ Sound(s) /\ Fresh(s, paths, mps)
    BY <1>1 DEF IInv, UpToDate
  <2>2. /\ w \in SetRecord /\ SameMembers(s, w) /\ w.life = "Declared"
        /\ w.space = s.space /\ w.min = s.min /\ w.slots = s.slots /\ w.gen = s.gen
    BY <1>1, <2>1, ReprovedMakes
  <2> HIDE DEF w
  <2>3. Settled(Evaluate(w, paths, mps)) = s
    BY <1>1, <2>1, <2>2, ReprovedRestores
  <2>4. ~AllZero(DeclaredWeights(w))
    BY <2>1, <2>2 DEF DeclaredWeights, SameMembers, Agree, Sound
  <2>5. PICK t \in Commits(w, paths, mps) : TRUE
    BY <2>2, <2>4, NothingRefused
  <2>6. t = Advanced(w, s)
    BY <2>3, <2>5 DEF Commits
  <2>7. [t EXCEPT !.gen = s.gen] = s
    BY <2>1, <2>6 DEF Advanced, SetRecord
  <2> QED
    BY <2>5, <2>7 DEF w
<1>2. IInv /\ UpToDate => RestartRestoresMap
  BY <1>1 DEF RestartRestoresMap
<1> QED
  BY <1>2, Invariant, StaysUpToDate, PTL

=============================================================================
