------------------------------- MODULE Fabric -------------------------------
(***************************************************************************)
(* The engine's weighted path sets: what every mutation, upstream report   *)
(* and recovery does to the sets, the upstream views and the reverse       *)
(* indexes. The engine runs every call under the registry lock and the     *)
(* lock of the set, so a call is one action; a rejected call changes       *)
(* nothing and is no step. Calls here passed the authority check (module   *)
(* Authority) and are not replays of an earlier attempt.                   *)
(*                                                                         *)
(* A member is named by its path: its identity is derived from the set's   *)
(* key and the path, and a path is in a set once. Identities are naturals, *)
(* whose order is the canonical order. The set's key, weight bounds,       *)
(* publisher stamp, history and shares are left out.                       *)
(***************************************************************************)
EXTENDS Lifecycle, Apportionment, Rebalance

CONSTANTS
  SetId,         \* weighted sets, as many as max_weighted_sets
  Path,          \* paths
  Mp,            \* multipath sets
  MpMember,      \* members of multipath sets
  Weights,       \* declared weights within the bounds
  Spaces,        \* selection space sizes requested
  Reported,      \* the legalities that path reports carry
  MaxViewGen,    \* bound: the last generation of an upstream view
  MaxMoves,      \* max_rebalance_moves
  MaxGen,        \* the last generation of a set, where the counters would wrap
  Counted        \* the set generations this instance counts; the others stay at 1

ASSUME FabricAssumption ==
  /\ SetId \subseteq Nat \ {0} /\ Path \subseteq Nat \ {0} /\ IsFiniteSet(Path)
  /\ Weights \subseteq Nat /\ Spaces \subseteq Nat \ {0}
  /\ MaxViewGen \in Nat \ {0} /\ MaxMoves \in Nat /\ MaxGen \in Nat \ {0, 1}
  /\ Counted \subseteq {"set", "policy", "assignment"}
  /\ Reported \subseteq {"Legal", "Suspended", "Revoked"}

VARIABLES
  sets,     \* the weighted sets that exist, by identity
  paths,    \* the Path Authority view of each known path
  mps,      \* the Multipath Core view of each known multipath set
  byPath,   \* reverse index: the sets that use a path
  byMp      \* reverse index: the sets that use a multipath set

vars == <<sets, paths, mps, byPath, byMp>>

ViewGen == 1..MaxViewGen
NoBinding == [set |-> 0, gen |-> 0, member |-> 0]
Kinds == {"set", "policy", "assignment"}
InitialGen == [k \in Kinds |-> 1]

----------------------------------------------------------------------------
(* Evaluation: what a member, a set and a lifecycle are worth, given the    *)
(* upstream views p (paths) and q (multipath sets).                         *)

\* The path is known, legal and at the generation the member is bound to.
PathCurrent(x, m, p) ==
  x \in DOMAIN p /\ p[x].legality = "Legal" /\ p[x].gen = m.bound

\* The binding names the current generation of its set and a member of it.
MultipathCurrent(b, q) ==
  b.set \in DOMAIN q /\ q[b.set].gen = b.gen /\ b.member \in q[b.set].members

\* derive_state: the first reason the member may not carry traffic.
DeriveState(life, x, m, p, q) ==
  CASE life = "Revoked" -> "Revoked"
    [] life = "Retired" -> "Retired"
    [] life \in {"Withdrawing", "Withdrawn", "Superseded"} -> "AdminDisabled"
    [] life = "RevalidationRequired" -> "RevalidationRequired"
    [] life \in {"Declared", "Active", "Degraded"} ->
         IF ~m.on THEN "AdminDisabled"
         ELSE IF m.w = 0 THEN "ZeroWeight"
         ELSE IF ~PathCurrent(x, m, p) THEN "StalePathAuthority"
         ELSE IF m.mp # NoBinding /\ ~MultipathCurrent(m.mp, q) THEN "StaleMultipath"
         ELSE "Current"

DeclaredWeights(s) == [x \in DOMAIN s.mem |-> s.mem[x].w]
Contributing(s) == {x \in DOMAIN s.mem : s.mem[x].state = "Current"}

\* evaluate_members: the canonical weight and the state of every member.
Evaluate(s, p, q) ==
  LET canonical == Canonical(DeclaredWeights(s))
  IN  [s EXCEPT !.mem = [x \in DOMAIN @ |->
         [@[x] EXCEPT !.canonical = canonical[x],
                      !.state = DeriveState(s.life, x, s.mem[x], p, q)]]]

\* The seats of the members that contribute, when some member does.
Seats(s) ==
  Apportion(s.space, [x \in DOMAIN s.mem |-> IF x \in Contributing(s) THEN s.mem[x].w ELSE 0])

\* The members that own slots, with their counts.
Targets(s) ==
  LET seats == Seats(s) IN [x \in {y \in DOMAIN seats : seats[y] > 0} |-> seats[x]]

\* Faulty: a set without an eligible member stays as it was.
KeepsLifecycle(s) ==
  IF s.life \in Closed \cup {"RevalidationRequired"} \/ Contributing(s) = {} THEN s.life
  ELSE IF Cardinality(Contributing(s)) < s.min THEN "Degraded" ELSE "Active"

\* Faulty: one eligible member is enough.
AnyMemberActivates(s) ==
  IF s.life \in Closed \cup {"RevalidationRequired"} THEN s.life
  ELSE IF Contributing(s) = {} THEN "Degraded" ELSE "Active"

\* Faulty: the closed states are evaluated like the others.
ReopensClosed(s) ==
  IF s.life = "RevalidationRequired" THEN s.life
  ELSE IF Cardinality(Contributing(s)) < s.min THEN "Degraded" ELSE "Active"

\* evaluate_lifecycle: a set is active when enough members contribute.
EvaluateLifecycle(s) ==
  IF s.life \in Closed \cup {"RevalidationRequired"} THEN s.life
  ELSE IF Contributing(s) = {} \/ Cardinality(Contributing(s)) < s.min THEN "Degraded"
  ELSE "Active"

\* Faulty: the slots are dealt out anew, as if nobody owned them.
DealtAnew(s) == Rebalance(NoSlots, s.space, Targets(s))

\* The slot map of a set that serves: the old map, moved as little as possible.
ServedSlots(s) == Rebalance(s.slots, s.space, Targets(s))

\* Faulty: a map that is not in force is not cleared, or no map is.
RetainedSlots(s) == IF s.auth THEN Unassigned(s.space) ELSE s.slots
SlotsLeft(s) == s.slots

\* The slot map of a set that does not serve: nobody owns any slot of it.
UnservedSlots(s) == IF s.auth \/ DOMAIN s.slots # {} THEN Unassigned(s.space) ELSE s.slots

\* The lifecycle, then the slot map, of an evaluated set.
Served(s) ==
  LET serves == s.life \in {"Active", "Degraded"} /\ Contributing(s) # {}
  IN  [s EXCEPT !.auth = serves, !.slots = IF serves THEN ServedSlots(s) ELSE UnservedSlots(s)]
Settled(s) == Served([s EXCEPT !.life = EvaluateLifecycle(s)])

\* What a commit changed. It is told from the working copy, which already holds
\* the caller's edits.
Changed(working, s) ==
  LET policy      == \E x \in DOMAIN s.mem : s.mem[x].canonical # working.mem[x].canonical
      eligibility == \E x \in DOMAIN s.mem : s.mem[x].state # working.mem[x].state
      assignment  == s.slots # working.slots \/ s.auth # working.auth
  IN  {k \in Kinds : CASE k = "policy"     -> policy
                       [] k = "assignment" -> assignment
                       [] k = "set"        -> policy \/ eligibility \/ assignment
                                                \/ s.life # working.life}

\* The generations after a commit that changed the kinds in "changed".
Advance(gen, changed) == [k \in Kinds |-> IF k \in changed \cap Counted THEN gen[k] + 1 ELSE gen[k]]
Advanced(working, s) == [s EXCEPT !.gen = Advance(@, Changed(working, s))]

\* The slot map does not move too much and no generation wraps.
Acceptable(working, s) ==
  /\ s.auth => Churn(working.slots, s.slots) <= MaxMoves
  /\ \A k \in Kinds : s.gen[k] <= MaxGen

\* commit_evaluation: the set that a working copy becomes, or none when the commit
\* is refused, as it is when every declared weight is zero.
Commits(working, p, q) ==
  IF AllZero(DeclaredWeights(working)) THEN {}
  ELSE {s \in {Advanced(working, Settled(Evaluate(working, p, q)))} : Acceptable(working, s)}

----------------------------------------------------------------------------
(* Mutations requested by publishers.                                       *)

\* Publish a commit of the working copy of a set that exists.
Publish(id, working, p) == \E s \in Commits(working, p, mps) : sets' = [sets EXCEPT ![id] = s]

IsMutable(id) == id \in DOMAIN sets /\ sets[id].life \in Mutable

\* Faulty: the generation that the member is bound to is not compared.
StageableByLegality(x, bound) == x \in DOMAIN paths => paths[x].legality = "Legal"

\* stage_path: a known path must be legal and at the generation named; a path
\* never heard of is taken to be legal there.
Stageable(x, bound) == x \in DOMAIN paths => paths[x].legality = "Legal" /\ paths[x].gen = bound
Staged(spec) ==
  [x \in DOMAIN paths \cup DOMAIN spec |->
     IF x \in DOMAIN paths THEN paths[x] ELSE [gen |-> spec[x].bound, legality |-> "Legal"]]

\* validate_multipath_binding, for a member that has a binding.
Bindable(b) == b = NoBinding \/ MultipathCurrent(b, mps)

Bindings == {NoBinding} \cup [set : Mp, gen : ViewGen, member : MpMember]
MemberSpec == [bound : ViewGen, w : Weights, on : BOOLEAN, mp : Bindings]

\* apply_member_spec: the new member, which contributes nothing until evaluated.
NewMember(spec) ==
  [bound |-> spec.bound, w |-> spec.w, on |-> spec.on, mp |-> spec.mp,
   canonical |-> 0, state |-> "New"]

IndexedMp(spec) == {q \in Mp : \E x \in DOMAIN spec : spec[x].mp.set = q}

\* Faulty: the set takes the place of the other users of its paths.
EnterAlone(spec, id) ==
  /\ byPath' = [x \in Path |-> IF x \in DOMAIN spec THEN {id} ELSE byPath[x]]
  /\ byMp' = [q \in Mp |-> byMp[q] \cup IF q \in IndexedMp(spec) THEN {id} ELSE {}]

\* Both reverse indexes with the members of "spec" entered for the set.
EnterIndexes(spec, id) ==
  /\ byPath' = [x \in Path |-> byPath[x] \cup IF x \in DOMAIN spec THEN {id} ELSE {}]
  /\ byMp' = [q \in Mp |-> byMp[q] \cup IF q \in IndexedMp(spec) THEN {id} ELSE {}]

\* The indexes without the removed member's path and its multipath set, whatever
\* the other members of the set are bound to.
LeaveIndexes(id, x, q) ==
  /\ byPath' = [byPath EXCEPT ![x] = @ \ {id}]
  /\ byMp' = IF q \in Mp THEN [byMp EXCEPT ![q] = @ \ {id}] ELSE byMp

\* validate_min_effective: so many members can be effective.
Attainable(min, members) == min \in 1..Cardinality(members)

\* create_set: identities are handed out in order; a key is used once.
CreateSet(id, spec, space, min) ==
  /\ id \notin DOMAIN sets /\ \A earlier \in SetId : earlier < id => earlier \in DOMAIN sets
  /\ Attainable(min, DOMAIN spec)
  /\ \A x \in DOMAIN spec : Stageable(x, spec[x].bound) /\ Bindable(spec[x].mp)
  /\ LET working == [life |-> "Declared", space |-> space, min |-> min,
                     mem |-> [x \in DOMAIN spec |-> NewMember(spec[x])],
                     slots |-> NoSlots, auth |-> FALSE, gen |-> InitialGen]
     IN  \E s \in Commits(working, Staged(spec), mps) :
           sets' = [i \in DOMAIN sets \cup {id} |->
                      IF i = id THEN [s EXCEPT !.gen = InitialGen] ELSE sets[i]]
  /\ paths' = Staged(spec)
  /\ EnterIndexes(spec, id)
  /\ UNCHANGED mps

\* apply_weight_updates: the members with the weights declared for them.
Reweighed(mem, weights) == [x \in DOMAIN mem |-> [mem[x] EXCEPT !.w = weights[x]]]

\* update_weights: new weights for some members, another space, another minimum.
UpdateWeights(id, weights, space, min) ==
  /\ IsMutable(id)
  /\ DOMAIN weights = DOMAIN sets[id].mem
  /\ space # sets[id].space => space \in Spaces
  /\ min # sets[id].min => Attainable(min, DOMAIN sets[id].mem)
  /\ Publish(id, [sets[id] EXCEPT !.mem = Reweighed(@, weights), !.space = space, !.min = min],
             paths)
  /\ UNCHANGED <<paths, mps, byPath, byMp>>

AddMember(id, x, spec) ==
  /\ IsMutable(id) /\ x \notin DOMAIN sets[id].mem
  /\ Stageable(x, spec.bound) /\ Bindable(spec.mp)
  /\ LET added == [y \in {x} |-> spec]
         mem   == sets[id].mem
     IN  /\ Publish(id, [sets[id] EXCEPT !.mem = [y \in DOMAIN mem \cup {x} |->
                           IF y = x THEN NewMember(spec) ELSE mem[y]]], Staged(added))
         /\ paths' = Staged(added)
         /\ EnterIndexes(added, id)
  /\ UNCHANGED mps

\* remove_member: never the last one.
RemoveMember(id, x) ==
  /\ IsMutable(id) /\ x \in DOMAIN sets[id].mem
  /\ Cardinality(DOMAIN sets[id].mem) > 1
  /\ LET mem == sets[id].mem
     IN  /\ Publish(id, [sets[id] EXCEPT !.mem = [y \in DOMAIN mem \ {x} |-> mem[y]]], paths)
         /\ LeaveIndexes(id, x, mem[x].mp.set)
  /\ UNCHANGED <<paths, mps>>

\* set_member_enabled; a request for the state in force re-evaluates as well.
SetMemberEnabled(id, x, on) ==
  /\ IsMutable(id) /\ x \in DOMAIN sets[id].mem
  /\ Publish(id, [sets[id] EXCEPT !.mem[x].on = on], paths)
  /\ UNCHANGED <<paths, mps, byPath, byMp>>

RebalanceSet(id) ==
  /\ IsMutable(id)
  /\ Publish(id, sets[id], paths)
  /\ UNCHANGED <<paths, mps, byPath, byMp>>

\* revalidate_set: members whose path is legal are bound to its generation; the
\* request rebinds the members in the domain of "rebind" to a current member of
\* their multipath set. The set leaves RevalidationRequired through Declared.
LegalPath(x) == x \in DOMAIN paths /\ paths[x].legality = "Legal"
Rebound(m, member) == [set |-> m.mp.set, gen |-> mps[m.mp.set].gen, member |-> member]
Reproved(s, rebind) ==
  [s EXCEPT !.mem = [x \in DOMAIN s.mem |-> LET m == s.mem[x] IN
              [m EXCEPT !.bound = IF LegalPath(x) THEN paths[x].gen ELSE m.bound,
                        !.mp = IF x \in DOMAIN rebind THEN Rebound(m, rebind[x]) ELSE m.mp]],
            !.life = IF s.life = "RevalidationRequired" THEN "Declared" ELSE s.life]

Revalidate(id, rebind) ==
  /\ IsMutable(id) /\ DOMAIN rebind \subseteq DOMAIN sets[id].mem
  /\ \A x \in DOMAIN rebind : LET m == sets[id].mem[x] IN
       LegalPath(x) /\ m.mp.set \in DOMAIN mps /\ MultipathCurrent(Rebound(m, rebind[x]), mps)
  /\ Publish(id, Reproved(sets[id], rebind), paths)
  /\ UNCHANGED <<paths, mps, byPath, byMp>>

\* apply_lifecycle and supersede_set: the transition and the commit that follows.
\* A request whose result is in force already changes nothing.
ApplyLifecycle(id, event) ==
  /\ id \in DOMAIN sets
  /\ Allowed(sets[id].life, event) /\ Transition(sets[id].life, event) # sets[id].life
  /\ Publish(id, [sets[id] EXCEPT !.life = Transition(@, event)], paths)
  /\ UNCHANGED <<paths, mps, byPath, byMp>>

WithdrawSet(id)        == ApplyLifecycle(id, "BeginWithdraw")
CompleteWithdrawal(id) == ApplyLifecycle(id, "CompleteWithdraw")
RevokeSet(id)          == ApplyLifecycle(id, "Revoke")
RetireSet(id)          == ApplyLifecycle(id, "Retire")
SupersedeSet(id, successor) ==
  /\ successor \in DOMAIN sets /\ successor # id
  /\ ApplyLifecycle(id, "Supersede")

----------------------------------------------------------------------------
(* Upstream reports and recovery.                                           *)

\* The sets with the commits of those in "reached".
Committed(reached, p, q) ==
  sets' = [id \in DOMAIN sets |->
             IF id \in reached THEN CHOOSE s \in Commits(sets[id], p, q) : TRUE ELSE sets[id]]

\* Faulty: only active sets, or only the first user, are evaluated again.
PropagateToActive(users, p, q) ==
  Committed({id \in users : sets[id].life = "Active" /\ Commits(sets[id], p, q) # {}}, p, q)
PropagateToFirst(users, p, q) ==
  Committed({id \in users : Commits(sets[id], p, q) # {} /\ \A i \in users : id <= i}, p, q)

\* Re-evaluate the users of a view in ascending order, up to the first whose
\* commit is rejected. The report is answered with that rejection, but the view
\* stays installed and the sets before it stay committed.
Propagate(users, p, q) ==
  LET failing == {id \in users : Commits(sets[id], p, q) = {}}
  IN  Committed({id \in users : \A f \in failing : id < f}, p, q)

\* observe_path_authority: an older generation is refused, a repeated view is
\* no change.
ObservePathAuthority(x, gen, legality) ==
  /\ x \in DOMAIN paths => \/ gen > paths[x].gen
                           \/ gen = paths[x].gen /\ legality # paths[x].legality
  /\ paths' = [y \in DOMAIN paths \cup {x} |->
                 IF y = x THEN [gen |-> gen, legality |-> legality] ELSE paths[y]]
  /\ Propagate(byPath[x], paths', mps)
  /\ UNCHANGED <<mps, byPath, byMp>>

\* observe_multipath_set: a repeated view is evaluated again, and the same
\* generation may name other members.
ObserveMultipathSet(q, gen, members) ==
  /\ q \in DOMAIN mps => gen >= mps[q].gen
  /\ mps' = [r \in DOMAIN mps \cup {q} |->
               IF r = q THEN [gen |-> gen, members |-> members] ELSE mps[r]]
  /\ Propagate(byMp[q], paths, mps')
  /\ UNCHANGED <<paths, byPath, byMp>>

\* Faulty: the slot map is cleared with its authority.
RecoveredEmpty(s) ==
  Evaluate([s EXCEPT !.life = "RevalidationRequired", !.auth = FALSE, !.slots = Unassigned(s.space)],
           paths, mps)

\* import_state of a set: nothing recovered is authoritative, whatever it was.
Recovered(s) ==
  Evaluate([s EXCEPT !.life = "RevalidationRequired", !.auth = FALSE], paths, mps)

\* The slot map covers the space, if it is there.
Fitting(s) == DOMAIN s.slots \in {{}, 1..s.space}

\* validate_set of persistence.cpp: what the store may hold of a set.
Storable(s) ==
  /\ DOMAIN s.mem # {} /\ s.min > 0
  /\ Fitting(s) /\ Range(s.slots) \subseteq DOMAIN s.mem \cup {Unowned}
  /\ s.auth => DOMAIN s.slots # {}

\* validate_recovered_set: what import_state accepts.
Importable(s) ==
  /\ DOMAIN s.mem # {} /\ s.min > 0 /\ ~AllZero(DeclaredWeights(s))
  /\ Fitting(s)

\* validate_indexes_locked, of one set: a map in force has an owner for each slot,
\* and each member owns the seats that its last evaluation gave it.
Verified(s) ==
  /\ Fitting(s)
  /\ s.auth => /\ s.life \in {"Active", "Degraded"}
               /\ Unowned \notin Range(s.slots)
               /\ \A x \in DOMAIN s.mem : Cardinality(OwnedBy(s.slots, x)) = Seats(s)[x]

\* The stored set passes every check between the store and service.
Restorable(s) == Storable(s) /\ Importable(s) /\ Verified(Recovered(s))

\* A restart: the state exported last is imported into a fresh engine, which
\* builds the reverse indexes from the sets. One set that is refused keeps the
\* coordinator from starting.
Restart ==
  /\ \A id \in DOMAIN sets : Restorable(sets[id])
  /\ sets' = [id \in DOMAIN sets |-> Recovered(sets[id])]
  /\ byPath' = [x \in Path |-> {id \in DOMAIN sets : x \in DOMAIN sets[id].mem}]
  /\ byMp' = [q \in Mp |-> {id \in DOMAIN sets : q \in IndexedMp(sets[id].mem)}]
  /\ UNCHANGED <<paths, mps>>

----------------------------------------------------------------------------

Init ==
  /\ sets = [id \in {} |-> 0] /\ paths = [x \in {} |-> 0] /\ mps = [q \in {} |-> 0]
  /\ byPath = [x \in Path |-> {}] /\ byMp = [q \in Mp |-> {}]

\* The members a request may describe: those whose binding names a current view.
Specs == {spec \in MemberSpec : Bindable(spec.mp)}

Create ==
  \E id \in SetId, used \in (SUBSET Path) \ {{}} :
    \E spec \in [used -> Specs], space \in Spaces, min \in 1..Cardinality(used) :
      CreateSet(id, spec, space, min)

Policy(id) ==
  LET used == DOMAIN sets[id].mem IN
  \/ \E weights \in [used -> Weights], space \in Spaces \cup {sets[id].space},
        min \in 1..Cardinality(used) \cup {sets[id].min} : UpdateWeights(id, weights, space, min)
  \/ \E x \in Path \ used, spec \in Specs : AddMember(id, x, spec)
  \/ \E x \in used : RemoveMember(id, x)
  \/ \E x \in used, on \in BOOLEAN : SetMemberEnabled(id, x, on)
  \/ RebalanceSet(id)
  \/ \E bound \in SUBSET {x \in used : sets[id].mem[x].mp # NoBinding} :
       \E rebind \in [bound -> MpMember] : Revalidate(id, rebind)

LifecycleRequest(id) ==
  \/ WithdrawSet(id)
  \/ CompleteWithdrawal(id)
  \/ RevokeSet(id)
  \/ RetireSet(id)
  \/ \E successor \in SetId : SupersedeSet(id, successor)

Upstream ==
  \/ \E x \in Path, gen \in ViewGen, legality \in Reported : ObservePathAuthority(x, gen, legality)
  \/ \E q \in Mp, gen \in ViewGen, members \in SUBSET MpMember : ObserveMultipathSet(q, gen, members)

Next ==
  \/ Create
  \/ \E id \in DOMAIN sets : Policy(id) \/ LifecycleRequest(id)
  \/ Upstream
  \/ Restart

Spec == Init /\ [][Next]_vars

----------------------------------------------------------------------------
(* What the engine keeps.                                                   *)

Member ==
  [bound : ViewGen, w : Weights, on : BOOLEAN, mp : Bindings, canonical : Nat,
   state : {"Current", "ZeroWeight", "AdminDisabled", "StalePathAuthority", "StaleMultipath",
            "RevalidationRequired", "Revoked", "Retired"}]

\* Every variable has its type: the records the engine stores, the views and the
\* indexes.
TypeOK ==
  /\ DOMAIN sets \subseteq SetId
  /\ \A id \in DOMAIN sets : LET s == sets[id] IN
       /\ s.life \in Lifecycles \ {"Declared"} /\ s.auth \in BOOLEAN
       /\ s.space \in Spaces /\ s.min \in 1..Cardinality(Path)
       /\ DOMAIN s.mem \subseteq Path /\ \A x \in DOMAIN s.mem : s.mem[x] \in Member
       /\ DOMAIN s.slots \subseteq Nat /\ Range(s.slots) \subseteq Path \cup {Unowned}
       /\ s.gen \in [Kinds -> 1..MaxGen]
  /\ DOMAIN paths \subseteq Path
  /\ \A x \in DOMAIN paths : paths[x] \in [gen : ViewGen, legality : Reported \cup {"Legal"}]
  /\ DOMAIN mps \subseteq Mp
  /\ \A q \in DOMAIN mps : mps[q] \in [gen : ViewGen, members : SUBSET MpMember]
  /\ byPath \in [Path -> SUBSET SetId] /\ byMp \in [Mp -> SUBSET SetId]

\* Whatever sequence of calls is committed, the coordinator can start again: no
\* set it holds is refused on loading or on import (validate_set,
\* validate_recovered_set), and each passes validate_indexes as it is.
Recoverable ==
  \A id \in DOMAIN sets : Restorable(sets[id]) /\ Verified(sets[id])

\* The set as an evaluation against the views of this moment would find it.
Now(id) == Evaluate(sets[id], paths, mps)

\* Reports about the multipath sets of its members reach the set.
MpIndexed(id) == \A q \in IndexedMp(sets[id].mem) : id \in byMp[q]

\* The slot map in force is the one the views of this moment justify: however
\* reports and mutations interleave, an active or degraded set owns slots exactly
\* when a member is eligible now, and each member owns its apportioned seats. It
\* needs a MaxMoves that admits every map; OnlyCurrentServes shows why.
AssignmentMatchesUpstream ==
  \A id \in DOMAIN sets : LET s == sets[id] IN
    IF s.life \in {"Active", "Degraded"}
    THEN MpIndexed(id) =>
           /\ s.auth <=> Contributing(Now(id)) # {}
           /\ s.auth => \A x \in DOMAIN s.mem : Cardinality(OwnedBy(s.slots, x)) = Seats(Now(id))[x]
    ELSE ~s.auth

\* ACTIVE means that enough members are eligible now, DEGRADED that they are not.
ActiveMeansEnough ==
  \A id \in DOMAIN sets : LET s == sets[id] IN
    MpIndexed(id) /\ s.life \in {"Active", "Degraded"} =>
      (s.life = "Active" <=> Cardinality(Contributing(Now(id))) >= s.min)

\* "If the eligibility proof is unchanged the assignment digest and the slot map are
\* restored exactly" (README): a set that serves, recovered and then revalidated
\* before anything else is committed, is what it was, unless one of its members is
\* proved anew because it was bound to an older generation of a legal path.
RestartRestoresMap ==
  \A id \in DOMAIN sets : LET s == sets[id] IN
    /\ s.auth /\ MpIndexed(id)
    /\ \A x \in DOMAIN s.mem : LegalPath(x) => s.mem[x].bound = paths[x].gen
    => \E t \in Commits(Reproved(Recovered(s), <<>>), paths, mps) : [t EXCEPT !.gen = s.gen] = s

\* A withdrawn, revoked, superseded or retired set holds no slot for any member.
ClosedCarriesNothing ==
  \A id \in DOMAIN sets : sets[id].life \in Closed => Range(sets[id].slots) \subseteq {Unowned}

\* The path index names exactly the sets that use a path; the multipath index
\* names no set that does not use the multipath set (validate_indexes_locked).
IndexesSound ==
  /\ \A x \in Path : byPath[x] = {id \in DOMAIN sets : x \in DOMAIN sets[id].mem}
  /\ \A q \in Mp : byMp[q] \subseteq {id \in DOMAIN sets : q \in IndexedMp(sets[id].mem)}

\* No member is ever bound to a generation the coordinator has not heard of: an
\* upstream view exists for it and is at that generation or a later one.
BindingsNotAhead ==
  \A id \in DOMAIN sets : \A x \in DOMAIN sets[id].mem : LET m == sets[id].mem[x] IN
    /\ x \in DOMAIN paths /\ m.bound <= paths[x].gen
    /\ m.mp # NoBinding => m.mp.set \in DOMAIN mps /\ m.mp.gen <= mps[m.mp.set].gen

\* The slots of the old map that keep their owner in the new one.
KeptSlots(old, new) == {s \in DOMAIN old \cap DOMAIN new : old[s] # Unowned /\ old[s] = new[s]}

\* No commit moves a slot without need: of the slots each member owned, as many
\* as its new share admits stay with it. A restart retains the map, so a set that
\* is revalidated next, with the shares it had, gets back the very map it had.
MovesOnlyWhatMust ==
  [][\A id \in DOMAIN sets : LET old == sets[id].slots new == sets'[id].slots IN
       sets'[id].auth /\ DOMAIN old = DOMAIN new =>
         \A x \in DOMAIN sets'[id].mem :
           LET held == Cardinality(OwnedBy(old, x)) now == Cardinality(OwnedBy(new, x)) IN
           Cardinality(OwnedBy(old, x) \cap KeptSlots(old, new)) = IF held < now THEN held ELSE now
    ]_vars

\* A set leaves a closed state only by the coordinator's recovery, to be proved
\* again, and it leaves RevalidationRequired for service only when every member
\* with a legal path is bound to the generation in force.
ReopensOnlyByProof ==
  [][\A id \in DOMAIN sets : LET s == sets[id] t == sets'[id] IN
       /\ s.life \in Closed => t.life \in Closed \cup {"RevalidationRequired"} /\ ~t.auth
       /\ s.life = "RevalidationRequired" /\ t.life \in {"Active", "Degraded"} =>
            \A x \in DOMAIN t.mem : paths[x].legality = "Legal" => t.mem[x].bound = paths[x].gen
    ]_vars

----------------------------------------------------------------------------
(* What the documents say and the code does not do: each is refuted by a run. *)

\* "A member contributes only in CURRENT" (README): whoever owns a slot of a map in
\* force is eligible now. When the commit of one set is refused, a report is not
\* carried to the sets after it, which keep serving members it has taken away.
OnlyCurrentServes ==
  \A id \in DOMAIN sets :
    MpIndexed(id) /\ sets[id].auth => Range(sets[id].slots) \subseteq Contributing(Now(id))

\* "Verifies every derived index against the authoritative set records"
\* (validate_indexes): every set with a member bound to a multipath set is in the
\* index of that multipath set. remove_member takes it out too early.
MpIndexComplete == \A id \in DOMAIN sets : MpIndexed(id)
=============================================================================
