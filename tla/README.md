# Weighted Path Fabric in TLA+

A model-checked and partly proved specification of the coordinator of this
repository: the engine that holds weighted path sets (`src/engine*.cpp`,
`model.cpp`, `assignment.cpp`, `apportion.cpp`, `weight.cpp`, `lifecycle.cpp`), the
authority of its publishers, and the server and store around it (`net.cpp`,
`persistence.cpp`, `tools/wpf_coordinator.cpp`). Paths below are relative to the
repository; definitions are TLA+ names. `PROJECT.json` gives for each
definition the lines it translates.

## The system

| Part | State | Operations | What makes it correct |
| --- | --- | --- | --- |
| Weights, apportionment | none | canonical ratio; seats of each member in a selection space | exactly the largest-remainder method, independent of scale |
| Slot assignment | a slot map | `rebalance_slots` | fewest changes; of those the smallest vector |
| Lifecycle | the set's lifecycle | the transition table | closed states stay closed; service only after proof |
| Weighted sets | sets, upstream views, reverse indexes, generations | create, update weights, add/remove/enable member, revalidate, rebalance, lifecycle requests, path and multipath reports, import | the slot map in force is what members and views justify; the state can be stored and recovered; indexes agree with the sets |
| Authority | epoch, publisher records, fenced boots | register, unregister, fence, advance the epoch, the two authority checks | no stale worker ever writes |
| Attempt ledger | attempts with payload and outcome, in order | look up, record, evict, rebuild | a retry is applied once and answered as before, as long as it is remembered |
| Client library | a socket | connect, send, receive, call, close | a call returns the answer to its own request |
| Coordinator server | sessions and their threads, `running`, the acceptor | accept, serve, retire, start, stop | an answer means durable; a stop ends |
| Session framing | a buffer, an assembly clock | receive, cut a frame from the buffer, time out | sound frames are handled however they arrive; a stalled peer holds nothing |
| Store | one file | export, encode, replace atomically, load, decode, import | a crash loses nothing that was answered; what was saved loads, as one encoding only |
| Payload codecs, digests, identities, snapshots, CLI | little or none | codecs, rendering, calls | pure conversions |

How they meet. A session thread decodes a frame, calls the engine under the
registry lock (shared for most mutations, exclusive for structural ones and
reports) and the lock of the set, then calls `options.persist`, which exports the
engine (registry shared, one set lock after another, the ledger last) and
replaces the file, then answers. Ending sessions fence the boot of their worker and
save. Reports walk a reverse index and commit each dependent set. Recovery
imports the stored state into a fresh engine at the next epoch.

What is hard. Session threads save concurrently and nothing orders their saves;
the exported sets and ledger are of different moments; a save may fail after the
engine has applied the mutation; the process may end between any two of these
steps; `stop()` joins threads that may be blocked. Requests of workers that lost
their authority arrive late. A report changes many sets and may be refused
half-way. The slot map carries history over every mutation and restart. The
hazards, each at its line and with the properties aimed at it, are in
`PROJECT.json`.

## The modules

| Module | Models | Used by |
| --- | --- | --- |
| `Lifecycle` | `lifecycle.cpp`: which events a lifecycle accepts and where they lead | `Fabric` |
| `Apportionment` | `weight.cpp`, `apportion.cpp` | `Fabric`, `MCSlots`, `SlotTheorems` |
| `Rebalance` | `assignment.cpp`: `rebalance_slots` and its churn | `Fabric`, `MCSlots`, `SlotTheorems` |
| `SlotTheorems` | theorems: what the two algorithms compute, for every input | `MCSlotsProofs`, `FabricProofs` |
| `Fabric` | `engine_mutations.cpp`, `commit_evaluation`, `evaluate_members`, the upstream reports, `import_state` of the sets | `MCFabric`, `FabricProofs` |
| `Authority` | the authority checks of `engine.cpp`, publishers, fences and epochs of `engine_api.cpp`, and what the store keeps of them | `MCAuthority`, `Sessions`, `SessionsProofs` |
| `Coordinator` | the threads of `net.cpp`, saves, shutdown, crash and restart | `MCCoordinator`, `CoordinatorProofs` |
| `Stream` | the receive loop of `serve` in `net.cpp` with `decode_frame_prefix` of `wire.cpp` | `MCStream`, `StreamProofs` |
| `Sessions` | the worker a session of `net.cpp` is bound to, and whom its end fences; the engine's calls are `Authority`'s | `MCSessions`, `SessionsProofs` |
| `Once` | abstract: what an attempt ledger promises | `Calls` |
| `Calls` | the client of `net.cpp`, the sessions that serve it, and `lookup_attempt`, `record_attempt` and the ledger's rebuild in `import_state` | `MCCalls`, `CallsProofs` |
| `Store` | `persistence.cpp`: every record of the store, written and read field by field | `MCStore`, `StoreProofs` |
| `MC*` | instances for TLC; `MCSlots` also holds the reference definitions | |
| `*Proofs` | the theorems about each specification, checked by TLAPS | |

### Correspondence

`Fabric`. `sets[id]` is a `WeightedPathSet` with the fields that decide
anything: lifecycle, space, minimum, members (binding generation, declared weight,
enabled, multipath binding, canonical weight, state), slot map, whether that map is
authoritative, three generations. `paths`, `mps`, `byPath` and `byMp` are
`impl.paths`, `impl.multipath`, `by_path` and `by_multipath`. `Commits` is
`commit_evaluation`: evaluation, lifecycle, slot map and generations, or the empty set
when it refuses. Every mutation builds the working copy of the code and publishes
a commit of it; its guards are the early returns of the code. A mutation is one
step because the code holds the registry lock, and the lock of the set, across it.
`Propagate` walks a reverse index in ascending order and stops at the first refused
commit, as the code does. A member is keyed by its path: the code derives its
identity from the set's key and the path, and refuses the same path twice. Members
are then ordered as their paths, which only decides ties.

`Authority`. `pubs`, `fenced` and `epoch` are the engine's; `stamp` is the
epoch, publisher and boot that `commit_evaluation` writes into a set; `store` is what
`export_state` keeps of all this. `past` is history, read by properties only. Requests carry any publisher, boot and epoch, because a worker may
send what it learned at any earlier time. The two authority checks differ as in the
code: `MayMutate` compares the epoch of the registration, `MayReport` does not.

`Coordinator`. `at[t]` is where a thread is in `serve`, `retire`, `persist` or
`stop`; a save is three steps (`SaveSets`, `SaveLedger`, `Replace`), because
`export_state` releases each set's lock before it reads the ledger, and the file is
replaced after that. `copy[t]` is what the thread has exported. A mutation is
represented by its attempt: `applied` says that its effect is in the sets, `ledger`
that it is recorded. `Apply` makes both in one step, and a new record may evict one (`Record`);
the NO_OP of `set_member_enabled` publishes without a record (`NoRecord`); `unkept` is history,
the attempts that were carried out and lost or never had their record. The requests of other sets evict too (`HandleOther`).
A send is a step of its own, of the answer (`Answer`) or of a failure (`Refuse`): after a failed save
`running` is cleared only when that send has returned. `Down` is the end of the process at any moment.

`Stream`. The bytes of the peer are counted, not looked at: `arrived` minus `consumed`
is the size of the buffer, and a frame is known by its kind. `Decode` gives the
rejections of `decode_frame_prefix` in the order of the code, `Verdict` is what `serve` does
about them. `Handle` cuts the frame off and ends in a send, of the answer or of a failure, which returns
in a step of its own (`SendReturns`) or never. `age` counts from `assembly_started`, `quiet` is the time in the present
receive; time passes in receives and sends. `waited` is history: how long the first
frame in the buffer has really been there. `Coordinator` sees all this as its step `Receive`.

`Sessions` composes the sessions with `Authority`, whose variables it keeps. `bound[s]` is what
`Session::bind` sets. A registration or mutation binds after the engine has accepted it
(`Register` or `MutateSet`, then `BindAccepted`), a report before it is judged (`BindReport`,
then `Observe`): in between, other sessions run. `Retire` fences the worker that is bound. A
frame may name any worker, and two sessions may name the same. `abandoned` is history: boots
whose session went on to name another boot.

`Calls`. A request is its attempt, its payload, which stands for the digest, the
locks it takes, and its kind: an enablement or a lifecycle request may find what it asks for in
force already, and then publishes what there is without a record (`NoChange`) or is recorded without
being published (`InForce`). `Commit` is every other success. A connection has frames under way in both directions, the client's
socket, and a session thread, which is idle, waits for the locks, has them (`"locked"`), has
missed the lookup (`"missed"`) or is answering. `Lookup` and `Record` are separate steps because
`aux_mutex` is released between them. `order` is `ledger_order`; after a restart it is that of
the attempt identities, as the store lists them. The client's calls of `connect`, `call`
(`Call`, then `Receive` or `Fail`) and `close` are those of one thread; the session may end at
any step. `count`, `settled`, `heard`, `failed`, `since` and `imported` are history.

`Store`. A file is a sequence of fields, each with its width and value, below a header; the
digest behind it is the content it covers (`Sealed`). Each layout (`SetFields`,
`MemberFields`, ...) is the encoder's order; the readers (`ReadSetHead`, `ReadMember`, ...) list
the decoder's order, its checks and its limits for themselves, as in the code, so that the two
can disagree. `EntriesFit` is the check of a count against the bytes that are left. `Rewrite`
is anybody who changes a field, cuts fields off, or adds some, with or without a fresh digest.

Operators introduced by "Faulty:" are not used by any specification. Each is the
neighbour of a definition, with a plausible error in it; put in its place, the
property named with it in `PROJECT.json` fails, which shows that the property can
see that error.

## What is checked

Runs that pass:

| Run | Question | States |
| --- | --- | --- |
| `slots` | `ExactQuota`, `LargestRemainderFirst`: are the seats the largest-remainder apportionment of the raw weights? `ScaleFree`: does scale carry no meaning? `LeastChurnFirst`: is the greedy map the least-churn map and the smallest of those? `ChurnIsGain`: is the churn computable from the quotas? | 127 thousand |
| `fabric_one` | one set of up to three members, weights 0 and 1, spaces of 3 and 4 slots, through every mutation, path report, lifecycle request and restart | 67 thousand |
| `fabric_two` | two sets on one path and one multipath set, two generations of both views: reports, rebinding, both indexes | 213 thousand |
| `authority` | two publishers, three boots, three epochs, restarts | 302 thousand (with symmetry) |
| `sessions` | one publisher, three boots, two epochs, two sessions that register, report, reconnect and end, restarts | 738 thousand (with symmetry) |
| `coordinator` | two sessions, one attempt among other requests, eviction, failing saves, peers that do not read, crashes, stops | 273 thousand |
| `stream` | three frames of five kinds, in any pieces and at any pace, from a peer that may not read | 100 thousand |
| `store` | states with every kind of record, up to and beyond each limit, saved, changed anywhere and loaded | 9 thousand |
| `calls` | three calls over two connections, three attempts, a ledger of two, requests that find themselves in force, two restarts | 2.21 million |

- `Recoverable`, `ClosedCarriesNothing`: every state that calls can reach passes the checks
  of the store (`validate_set`), of the import (`validate_recovered_set`) and of the
  recovered engine (`validate_indexes`, without the indexes themselves, which are rebuilt).
  It holds because the slot map of a set that stops serving is cleared and resized.
- `AssignmentMatchesUpstream`, `ActiveMeansEnough`: the evaluation of the set against
  the views of this moment agrees with the map and the lifecycle in force. The
  restriction `MpIndexed` excludes what `mp_index` refutes, and `MaxMoves` admits
  every map, which excludes what `refused_report` refutes.
- `MovesOnlyWhatMust`, `ReopensOnlyByProof` (action properties): slots move only when
  shares do; a closed set reopens only by recovery and serves only after revalidation.
- `RestartRestoresMap`: a set that was recovered and not committed since has the map it was
  stored with, and revalidating its members as they were serves that very map again.
- `IndexesSound`, `BindingsNotAhead`: indexes name only users; no member is bound to a
  generation that was never reported.
- `LiveAtCurrentEpoch`, `ReplacedStaysOut`, `MarkedIsFenced`, `NoStaleWriter`: why a
  late request of a stale worker is refused, although reports skip one comparison.
- `WritersAreAttended`: whoever may write or report has a session that will fence its boot,
  in whatever order registrations, reports, reconnections and ends of sessions come. The
  exception in it is listed below.
- `SavedIsLoaded`: what is saved within the limits loads as it was, so encoder and decoder
  agree on every field, limit and least size. It is so under two conditions that the engine
  does not ensure, `RoomForPublishers` and `MembersAreNamed`, described below; the instance has
  states that violate each of them, so that the run fails without it. `OneEncoding`: a file that loads, whoever wrote
  it, is the file that saving the loaded state writes.
- `RepliesAreOwn`: while no call has failed on a connection, a call returns the answer to its
  own request. `RetryWindow`: a new attempt is remembered until `Bound` others followed.
  `OnceOnly`: `Calls` implements `Once`: no request is carried out while it is remembered,
  and who hears of success can rely on an effect, of the request or in force before it.
- `EffectIsRecorded`, `UndisturbedIsDurable`, `CleanStopIsComplete`: an effect is in engine or
  store without its ledger entry only if that entry was evicted or, for a NO_OP, never made,
  although saves read sets and ledger at different moments; answered means durable as long as saves
  and mutations do not overlap; a clean stop leaves the last state in the store.
- `OnlySoundFrames`, `CutForCause`: a session handles sound frames only, in
  order; it is ended for a reason a peer could answer for, with two exceptions stated in
  the property. `AssemblyIsBounded`: the thread waits for the rest of a frame no longer than the
  assembly timeout and one receive, however the pieces are spread. `NothingPins` (liveness): a frame
  that was begun is handled or the session ends, whatever the peer does, unless the thread is
  still in the send of the answer before it.
- `StoppedServerDrains`, `StopReturns` (liveness): after a stop every thread ends or is in a send that
  its peer holds up, and `stop()` returns, since it closes the sockets first.

Runs that refute what the repository says of itself:

| Run | Claim | What happens |
| --- | --- | --- |
| `acked_lost` | "acknowledged only after it is durable" (README) | session 1 exports, session 2 mutates, exports and replaces the file, session 1 replaces it with its older state, session 2 answers success |
| `mp_index` | `validate_indexes` verifies every index | removing one of two members of a multipath set removes the weighted set from the index; reports no longer reach the other member |
| `refused_report` | "A member contributes only in CURRENT" (README) | a report makes a set eligible whose map exceeds `max_rebalance_moves`; its commit is refused and the loop returns; the next set keeps the slots of a member the report took away |

Observed while modelling, without a refuting run of their own:

- A handled frame that leaves bytes in the buffer does not reset the assembly clock, so a peer
  that always begins its next frame early is cut off as stalled (the last case of `CutForCause`).
- A receive may end inside the trailer of a sound frame. `decode_frame_prefix` reports that as an
  integrity failure, not as the `FrameTruncated` after which a reader calls it again
  (`wire.hpp:141`), and `serve` ends the session, whose worker is then fenced (`CutForCause`
  names the case).
- No send has a timeout. A peer that does not read its answer holds the thread in `::send`
  (`net.cpp:690`) for as long as it likes, with the next frame half in the buffer: "a partial frame
  can never pin a session" (README:245) is so only while the thread is not in a send. The
  exception in `NothingPins`.
- After a failed save the refusal is sent (`net.cpp:673`) before `running` is cleared (676): a peer that
  does not read it keeps a server that cannot save serving the others, against
  "fail-stop for the whole server" (`net.cpp:656`). `StoppedServerDrains` speaks of what follows that send.
- A NO_OP of `set_member_enabled` is answered without a record (`engine_mutations.cpp:867`), and a
  record may be evicted while its effect stays: a retry of either may be carried out. `unkept` in `EffectIsRecorded`.
- `observe_multipath_set` (`engine_api.cpp:388`) and its decoder accept a report that lists
  member 0, which is saved and which `validate_multipath` (`persistence.cpp:614`) refuses at load: the
  store is lost to every later start. `persistence.hpp:53` promises an exact inverse "for every state
  this runtime produces". `MembersAreNamed` in `SavedIsLoaded`, the state `Unnamed` of `MCStore`.
- Recovery makes withdrawn, revoked and retired sets REVALIDATION_REQUIRED, from which they can
  serve again: the README documents this for every set, while `lifecycle.hpp:32` says that a
  withdrawn set cannot be reactivated; `ReopensOnlyByProof` allows this way only.
- The policy generation does not advance with the selection space and the minimum alone
  (README:153): the digest it is compared with is taken after the edit.
- The store has only the last boot of each publisher, so a boot that was replaced or fenced
  before registers again after a restart (README:172 says that it never does).
- A session that names a second boot, in a registration, a mutation or a report, fences only the
  one named last when it ends; the README (246) has the one that registered. `abandoned` in
  `WritersAreAttended`.
- The record of a publisher with no scope and no detail takes 47 bytes with its length, and
  `entries_fit` expects 48 (`kMinimumPublisherBytes`): a store whose last records are five such
  publishers, with an empty ledger, is written and then refused as truncated.
  `persistence.hpp:53` promises an exact inverse. `RoomForPublishers` in `SavedIsLoaded`.
- One attempt used for two sets at the same time is carried out for both and the later
  record replaces the earlier one; used one after the other it is ATTEMPT_CONFLICT. The
  locks of the two sets are different and the lookup is not part of the record.
- After a restart the ledger evicts in the order of attempt identities, so an attempt can be
  forgotten before older ones (README:414: "older entries are evicted"). `imported` in `RetryWindow`.
- A refused connection is drained on the acceptor's own thread (`net.cpp:835`) for as long as its
  peer keeps sending: nobody else is accepted meanwhile.

### Bounds

- `MaxViewGen` = 2 in `fabric_two` and `mp_index`: a binding is at the
  generation in force or before it; a third generation behaves as the second.
  `fabric_one` has one generation, whose path becomes legal and illegal again.
- `Reported`: one legal value, and one or two that are not. `Spaces` up to 4 slots with
  weights 0 and 1 and three members: shares that divide evenly and not, ties, zero
  weights and empty vectors. `slots` covers larger requests: 4 members, weights up to 6 (`MaxWeight`),
  spaces up to 9 (`MaxSpace`), scales up to 3 (`MaxScale`), maps up to 5 slots and 3
  owners (`MaxMapped`, `Owner`), with owners that left and maps of another size.
- `Counted` = {}: the generations only grow and nothing else reads them in the
  runs that pass; `mp_index` counts all three up to `MaxGen`.
- `MaxMoves` covers the largest space, except in `refused_report`.
- `MaxEpoch` = 3: an epoch before the last one, and two changes of it. Two publishers
  compete for one boot; three boots let one be replaced twice.
- `stream`: header, payload and trailer are 2 units long, so that a receive can end
  inside each part and between them; 3 frames, a `Chunk` longer than one frame, a
  `MaxFrame` that more than one buffered frame exceeds; timeouts of 2 and 3 ticks, so that
  a peer can keep each receive short and still exceed the assembly timeout. `MaxClock` is the
  first tick that no property tells from a later one.
- `sessions`: one publisher, because workers of different publishers meet only in boots, and any
  two boots of one publisher already replace each other; three boots for one that is
  replaced twice; two sessions that name the same worker or not; `MaxEpoch` = 2 for one change
  of epoch or restart. With two publishers and two boots it also holds (3.1 million states).
- `calls`: `Bound` = 2 and three attempts, so that one is evicted; two requests that share an
  attempt and differ in payload and set; `MaxConns` = 2 for a retry beside its first try,
  `MaxCalls` = 3, `MaxRestarts` = 2.
- `store`: each limit is 2 or 3 and the states reach and exceed it; each field of a record has a
  value of its own, so that two fields exchanged are seen; `Plain` is the number of
  publishers with the shortest record, `Noise` the values a changed field may get.
- `coordinator`: two sessions are enough for overlapping saves and for one thread to save while
  another stops. One attempt: what the properties say, they say of each attempt by itself, and
  `HandleOther` stands for the other ones, with their saves, answers and evictions. With two attempts the
  safety properties hold as well (19 million states), and the proofs are for any number.
  `acked_lost` has one attempt for each of its two sessions.

### Fairness

`FairSpec` assumes weak fairness of what a session's thread does by itself: threads
are scheduled, and `accept_loop` sets `SO_RCVTIMEO`, so a receive ends. No send timeout is
set, so a peer that does not read may hold a send: `Answer` and `Refuse` are fair only once
`stop()` resets the socket of that session (`Sent`). The acceptor ends once its listener is closed. The main
thread proceeds in `stop()`. There is no fairness for connections, requests to
stop, crashes, or starts. Whether a save works is nondeterministic each time.

In `Stream` the thread is scheduled (`Serve`) and time passes in a receive until its timeout
(`Tick`). Nothing is asked of the peer: it may send, pause or close whenever it likes, and it may
stop reading, so `SendReturns` has no fairness.

## What is proved

`SessionsProofs` is about `Authority` first, from `AuthorityAssumption` (`None` is neither a
publisher nor a boot; the limits are naturals), for any publishers, boots and number of epochs:
`TypeCorrect`, `LiveIsCurrent`, `ReplacedIsOut`, `MarksAreFences` and `StaleWriterRefused`.
The invariant `IInv` is the conjunction of the type and the three state invariants,
which need each other: that a replaced boot stays out needs that it is fenced,
which registration asks; the action property follows because the authority checks
ask whether the boot is fenced, replaced boots are fenced, and a live record was
registered in the epoch in force. One lemma per action.

`CoordinatorProofs`, from `CoordinatorAssumption`, for any number of sessions and attempts:
`TypeCorrect` and `EffectsAreRecorded`. The property alone is not inductive: a copy
that a thread has exported reaches the store later. `IInv` adds `CopiesRecorded` (the
effects a thread has read are among the engine's, which only grow, until it reads the ledger, and
from then on those without a record in its copy are in `unkept`), `QuietWhenDown` (no thread
is in a save while the process is down, so the engine is not emptied under
one) and `OwnPurpose` (a session never ends in a place of the main thread).
`CleanStops` adds `StopInv`: nobody is accepted once `stop()` closes sessions, so once every
session is joined the last save reads a state that nobody changes (`LastSaveIsCurrent`).
`UndisturbedSaves` adds `Durable`, which says what holds while no attempt is applied during
another thread's save: the engine is ahead of the store and its ledger is its effects, every
copy under way is the engine's state, and a request about to be answered is in the store.

`SlotTheorems` holds what `Apportionment` and `Rebalance` compute, for every input; it assumes
nothing. `MCSlotsProofs`, from `SlotsAssumption` (finite sets of members and owners, which are
numbers other than `Unowned`; limits are naturals), reads the five properties of the run `slots`
from it: `SeatsAreExact`, `SeatsGoByRemainder`, `ScaleIsIgnored`, `MapIsLeast`, `MovesAreGains`.
Both algorithms are sums over members and a greedy choice slot by slot, whose theory is induction.
The library's induction theorems cannot be used (they take an operator as parameter), its
theorem that a well-founded relation has minimal elements can, because it is about sets:
`EveryNatural` and `EverySubset` take the set of arguments for which a claim holds, and look at a
least one outside it. `SumIsFixpoint` and `StepsFixpoint` unfold the recursive functions.
The seats: the floors of the shares add up to at most the space and fall short of it by less than
the number of members with a remainder, so there is a set of that size which the largest
remainders come first in, and it is the only one; the greatest common divisor cancels in every
quotient and comparison (`ScaleIsIgnored`). The map: before each slot the budget of kept slots
is what is decided plus what is still achievable (`BuiltUpTo`), so some member is
feasible, the map ends with exactly the quotas (`RebalanceFits`) and with the largest number of
kept slots any map with these quotas can have; a map that is smaller at the first difference and
moves as little would have been feasible there (`RebalanceIsLeast`). `RebalanceKeepsMost` and
`RebalanceKeepsFitting` say what this means for one member and for a map that already fits.

`FabricProofs`, from `FabricAssumption` (identities and weights are naturals, paths are finitely
many, spaces are not empty, limits are as the code's), for any number of sets, paths, multipath sets,
members, any weights, spaces and limits: `Typed`, `IndexesAreSound`, `BindingsAreHeard`,
`ClosedSetsAreEmpty`, `AlwaysRecoverable`, and the action properties `MovesAreNeeded` and
`ReopeningIsProved`. The invariant `IInv` asks of every set that it is a record of the right type
whose map, authority and lifecycle are those of the states its members were last given
(`Sound`), that its bindings are behind the views (`Bound`), and of the views and indexes what
they are. The argument is `CommitMakes`: whatever the views are, the commit of any working copy is
sound, keeps what the members declare and are bound to, and has the map that `Rebalance` makes
of the old one, of which `SlotTheorems` says that it gives every member its seats and moves nothing
without need. A request or a report hands a working copy to a commit (`Working`), which makes it
`Installable`; one lemma per call shows that its working copy is one. `Recoverable` follows from
`Sound`, since no check of the store or of the import asks more than it says.

`AssignmentMatches`, `ActiveIsEnough` and `RestartsRestore` have a hypothesis, `NoRefusal`:
`MaxMoves` is at least every space, and no generation counter ends. The default limits are so
(`limits.hpp:23` and `25`: spaces up to 4096, 2^20 moves, and counters have 64 bits); without it the
run `refused_report` refutes what the first of them says. From it `NothingRefused` concludes
that no commit of a set that exists is refused, so a report reaches every user of its view, and
`UpToDate` is invariant with `IInv`: the states of the members of every set that reports reach are
those the views of this moment give (`Fresh`). With `Sound` that makes the set what an evaluation would
find now (`FreshIsNow`). For `RestartsRestore`, the working copy of a revalidation right after a
recovery differs from the set before in its lifecycle and authority only (`ReprovedMakes`); both
are evaluated back, and a map that fits is kept (`ReprovedRestores`).

`StreamProofs`, from `StreamAssumption` (header and trailer are not empty, a frame fits the
limit, there are five kinds of frames), for any lengths, limits, timeouts and number of
frames: `TypeCorrect`, `HandlesOnlySound`, `CutsForCause`, `BoundsAssembly`. `DecodesSound` says that
a frame that decodes is the next one of the peer, and rests on two facts of arithmetic
about multiples of a frame's length (`Borders`, `Numbered`). `CutForCause` is inductive only
together with `ClocksAgree`: until a frame is handled the assembly clock is not ahead of the
time that the frame really took. `AssemblyIsBounded` needs `ClocksBound`: a frame has been first in the
buffer no longer than the assembly clock says, and that clock was within its bound when the present
receive began.

`CallsProofs`, from `RequestsAssumption` (attempts are numbers, every request takes a lock),
`BoundAssumption` and `CapsAssumption`, for any requests, ledger size and number of
connections, calls and restarts: `TypeCorrect`, `RepliesOwn`, `Window`, and the refinement
`Implements` (`Spec => OnceOnly`, which is `Once` with `Remembered` as its memory). The invariant
has five parts besides the type: `LocksApart` (threads inside a mutation hold different
locks), from which `MissedIsUnknown` follows (between lookup and record nobody else records the
request), `RecordsAreTrue` (whatever says success is of a request in `Served`, carried out or in force already),
`OneAtATime` (on a sound connection there is one request or its answer, somewhere), and
`OrderIsLedger` (the order lists the ledger once, and says how many came after each attempt).

Then `SessionsProofs` is about `Sessions`, for any workers, epochs and number of sessions:
`WritersAttended`, the refinement `AuthorityKept` (`SessionsSpec => Spec`), and with it
`NoStaleWriterServed`. `SInv` adds the types of the sessions: a session that has answered
names a worker, one that reports is bound. `SpeaksBefore` says which engine calls can let
somebody speak: only a registration, and only its own boot.

`StoreProofs`, from `StoreAssumption` (what the engine exports has the fields of its structures,
with numbers in them, and so do rewritten fields), for any states, limits and rewritten values:
`OneEncodingHolds`. The loops of the reader are folds; `FieldTurns`, `EntryTurns` and `RecordTurns`
give their readers turn by turn, by the same induction over sets as above. `Reads` says of two
readers that the tokens between them are those the writer would append of what was read, and that
nothing read before was touched; `ReadThen` joins two of them. So `FieldsRead` for a layout
(`Matches` compares the layouts of both sides, kind by kind), then lists, records, collections and
the body (`DecodedIsEncoded`): whatever file loads is the encoding of what was loaded. The
invariant `FileIsRead` is that the file has the shape of fields in records in a body, which saving
gives it (`EncodedIsFile`) and every rewriting keeps (`BodyRewritten`).

`SavedIsLoadedHolds` is the other direction, and needs two more assumptions. `ExportAssumption`: an
exported state has the fields of its types with values of these types, no two entries share an
identity, a slot map is as long as the selection space, and every entry is one that the engine
accepts (`IsAccepted`). For a multipath view that is what `observe_multipath_set` checks, an identity and a
generation, and nothing of its members; for the others the engine checks what the store
validates ("Every rule here is a property this runtime guarantees for a committed set",
`persistence.cpp:473`; of sets, `AlwaysRecoverable` shows it). What the store asks beyond that,
`MembersAreNamed`, is a condition of the property, and in the proof the hypothesis `HasNames`.
`LimitsAssumption`: the limits are naturals. `Ready` is a reader that has rejected nothing; each part
of the reader is shown to go on behind what was written, with that under its name: `FieldsGiven` for a
layout, `ListGiven`, `OwnersGiven`, `SetGiven`, `RecordsGiven`, `CollectionGiven`, up to
`EncodedIsDecoded`. The reader also asks, before each list and collection, whether what remains has
room for as many entries of a least size; so the sizes are added up on both sides. `Total` is shown
to be a sum (`TotalTurns`), the size of a sequence that of its parts (`SizeJoin`), and the six least
sizes that are constants of the code at most what the layouts really take (`LeastSizes`,
`RecordsHaveLeast`); for lists without a limit of their own this also shows that what remains is a
limit (`RemainderBounds`). For publishers the constant is one too large, and `RoomForPublishers` is
the hypothesis that the proof needs there and nowhere else (`PublishersFit`). The invariant
`SavedFile` is that a file nobody rewrote is the encoding of the state, which was within the limits.

The properties were checked by TLC before. Only model-checked: the liveness of `Coordinator`
(`StoppedServerDrains`, `StopReturns`) and `Stream` (`NothingPins`), which is out of the prover's
reach, as is ENABLED. The runs that refute a claim prove nothing beyond their counterexample.

## What is not modelled

- Payload codecs of `wire.cpp`, digests, rendering, the CLI: conversions of data
  without control. What recovery demands of a set is in `Storable`, `Importable` and `Verified`.
- Widths of integers: the code computes sums and products in checked 128 bits, and
  the limits keep them far below that. Generations are refused at their end
  (`MaxGen`), which no instance reaches.
- Set keys, weight bounds, total-member and batch limits, publisher scopes, normalised
  shares, history, supersession links, plans: they refuse a request or are output.
  Expected generations refuse a request that the model could always make.
- The session limit, except as the answer a client may get (`Refusal`), and queries. Two
  threads on one `Client`: `net.hpp` says that it is not thread-safe. Its typed calls, which
  encode and decode.
- In `Calls` saving is left to `Coordinator`: a restart finds everything stored. In `Store` bytes
  are fields of a width, a path to the file is the file, and a failure of the machine below
  the file system (nothing is flushed) is left out.
- Snapshots, diffs and explanations: read-only views; the bounded snapshot store is state, but
  only queries read it.

## Plan

1. Done: the core (`Fabric` with its algorithms), `Authority`, `Coordinator` and `Stream`;
   then the ledger and the client (`Calls`, `Once`), the store (`Store`), sessions and
   authority together (`Sessions`), the map before a restart (`RestartRestoresMap`).
2. Abstract specifications left: a durable log that `Coordinator` implements while saves do
   not overlap; a lease that `Authority` implements.
3. Proofs done: every safety property that a passing run checks, and both algorithms. Left: the
   abstract specifications of 2.
4. The bounded snapshot store, and the end of a server that stopped by itself.
