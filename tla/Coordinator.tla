---------------------------- MODULE Coordinator ----------------------------
(***************************************************************************)
(* The coordinator process: one thread per session that reads a request,   *)
(* has the engine apply it, writes the whole state to the store and only   *)
(* then answers; the acceptor; the main thread that starts from the store  *)
(* and stops the server; and the store file, which alone survives.         *)
(*                                                                         *)
(* A mutation is its attempt: the engine applies it and records it in the  *)
(* bounded attempt ledger in one step, under the lock of its set, and a    *)
(* recorded attempt is answered again without being applied. Sending the   *)
(* same attempt twice is a retry. A save reads the sets one lock at a time *)
(* and the ledger last, then replaces the file; nothing orders two saves.  *)
(* Frames, timeouts, queries and the session limit are left out, and so is *)
(* the fence of an ended session (module Authority). The attempts stand    *)
(* for those of one set: a save reads that set in one step. The ledger is  *)
(* of all sets: a new record of any set may evict one of these. Which is   *)
(* the oldest is in module Calls; here it may be any.                      *)
(***************************************************************************)
EXTENDS Naturals, FiniteSets

CONSTANTS
  Session,     \* sessions that can be open at the same time
  Attempt,     \* mutation attempts
  Main,        \* the main thread
  None         \* no attempt

ASSUME CoordinatorAssumption == Main \notin Session /\ None \notin Attempt

Thread == Session \cup {Main}

VARIABLES
  applied,     \* the attempts whose effect is in the engine's sets
  ledger,      \* the attempts in the engine's ledger
  store,       \* both, as the store file has them
  copy,        \* both, as each thread has read them for the save it is in
  at,          \* where each thread is
  goal,        \* what the save of each thread is for
  request,     \* the attempt each session is serving
  running,     \* the server's flag that every loop reads
  accepting,   \* the acceptor has not ended
  drain,       \* the sessions stop() has still to release
  acked,       \* history: the attempts some session answered with success
  unkept,      \* history: attempts carried out of which no record was made or kept
  undisturbed, \* history: nothing was applied while another thread saved
  clean        \* history: stop() joined every session and the last save worked

vars == <<applied, ledger, store, copy, at, goal, request, running, accepting, drain,
          acked, unkept, undisturbed, clean>>
engine  == <<applied, ledger>>
history == <<acked, unkept, undisturbed, clean>>
server  == <<running, accepting, drain>>

State == [applied : SUBSET Attempt, ledger : SUBSET Attempt]
Nothing == [applied |-> {}, ledger |-> {}]

\* In a send, which has no timeout: of the answer, of a failure, and of a failure
\* to save, after which the server stops.
Sends == {"answer", "failure", "refusal"}

SessionPlaces == {"none", "idle", "ready", "sets", "ledger", "write", "leaving"} \cup Sends
MainPlaces == {"down", "up", "joining", "draining", "sets", "ledger", "write", "stopped"}
Goals == {"answer", "retire", "release", "final"}

\* A thread goes to a place and stays what it was otherwise.
Go(t, place) == at' = [at EXCEPT ![t] = place]

\* It begins a save: options.persist, of which each step is an action below.
BeginSave(t, purpose) == Go(t, "sets") /\ goal' = [goal EXCEPT ![t] = purpose]

\* Some thread has begun to read the engine and has not replaced the file yet.
Saving(t) == at[t] \in {"ledger", "write"}

Init ==
  /\ applied = {} /\ ledger = {} /\ store = Nothing
  /\ copy = [t \in Thread |-> Nothing]
  /\ at = [t \in Thread |-> IF t = Main THEN "down" ELSE "none"]
  /\ goal = [t \in Thread |-> "answer"] /\ request = [s \in Session |-> None]
  /\ running = FALSE /\ accepting = FALSE /\ drain = {}
  /\ acked = {} /\ unkept = {} /\ undisturbed = TRUE /\ clean = FALSE

----------------------------------------------------------------------------
(* Saving: export_state, then save_engine_state.                            *)

SaveSets(t) ==
  /\ at[t] = "sets"
  /\ copy' = [copy EXCEPT ![t].applied = applied]
  /\ Go(t, "ledger")
  /\ UNCHANGED <<engine, store, goal, request, server, history>>

\* Faulty: the ledger is not part of what is saved.
SaveNoLedger(t) ==
  /\ at[t] = "ledger"
  /\ Go(t, "write")
  /\ UNCHANGED <<engine, store, copy, goal, request, server, history>>

SaveLedger(t) ==
  /\ at[t] = "ledger"
  /\ copy' = [copy EXCEPT ![t].ledger = ledger]
  /\ Go(t, "write")
  /\ UNCHANGED <<engine, store, goal, request, server, history>>

\* Faulty: the main thread ends with the session it releases.
ReleaseEnds(t, done) ==
  CASE goal[t] = "answer"  -> IF done THEN "answer" ELSE "refusal"
    [] goal[t] \in {"retire", "release"} -> "none"
    [] goal[t] = "final"   -> "stopped"

\* Faulty: a failed save is answered like any other.
AnswersAnyway(t, done) ==
  CASE goal[t] = "answer"  -> "answer"
    [] goal[t] = "retire"  -> "none"
    [] goal[t] = "release" -> "draining"
    [] goal[t] = "final"   -> "stopped"

\* Where a thread goes when its save is over.
AfterSave(t, done) ==
  CASE goal[t] = "answer"  -> IF done THEN "answer" ELSE "refusal"
    [] goal[t] = "retire"  -> "none"
    [] goal[t] = "release" -> "draining"
    [] goal[t] = "final"   -> "stopped"

\* The file is replaced in one step, or left as it was. A failure before an answer
\* is sent to the peer; one of another save is ignored.
Replace(t) ==
  /\ at[t] = "write"
  /\ \E done \in BOOLEAN :
       /\ store' = IF done THEN copy[t] ELSE store
       /\ Go(t, AfterSave(t, done))
       /\ clean' = (clean /\ (goal[t] = "final" => done))
  /\ copy' = [copy EXCEPT ![t] = Nothing] /\ goal' = [goal EXCEPT ![t] = "answer"]
  /\ UNCHANGED <<engine, request, server, acked, unkept, undisturbed>>

Save(t) == SaveSets(t) \/ SaveLedger(t) \/ Replace(t)

----------------------------------------------------------------------------
(* A session: serve, then retire.                                           *)

\* accept_loop: a connection is served by a thread of its own. The acceptor reads
\* the flag only between connections, so one may still come after the stop.
Accept(s) ==
  /\ accepting /\ at[s] = "none"
  /\ Go(s, "idle")
  /\ accepting' = running
  /\ UNCHANGED <<engine, store, copy, goal, request, running, drain, history>>

\* Faulty: the flag is not read.
LookAway(s) ==
  /\ at[s] = "idle"
  /\ Go(s, "ready")
  /\ UNCHANGED <<engine, store, copy, goal, request, server, history>>

\* The head of serve's loop.
Look(s) ==
  /\ at[s] = "idle"
  /\ Go(s, IF running THEN "ready" ELSE "leaving")
  /\ UNCHANGED <<engine, store, copy, goal, request, server, history>>

\* No complete frame is buffered: receive, and look again or end the session.
Receive(s) ==
  /\ at[s] = "ready"
  /\ Go(s, "idle") \/ Go(s, "leaving")
  /\ UNCHANGED <<engine, store, copy, goal, request, server, history>>

\* lookup_attempt: a recorded attempt is a replay.
Replayed(a) == a \in ledger

\* record_attempt: a new record, of this set or of another, comes last, and the
\* oldest goes if there are then too many.
Record(new) ==
  \E gone \in {{}} \cup {{old} : old \in ledger} :
    ledger' = (ledger \ gone) \cup new /\ unkept' = unkept \cup gone

\* Enabling a member that is enabled, or disabling one that is not: the set is
\* evaluated and published, and answered with NO_OP, but no record is made.
NoRecord(a) == UNCHANGED ledger /\ unkept' = unkept \cup {a}

\* The effect of an attempt is in force, published now or found so, and record_attempt
\* enters it in the same step.
Apply(a) == applied' = applied \cup {a} /\ (Record({a}) \/ NoRecord(a))

\* handle_frame ends with a reply, which is sent once the state is saved, or with a
\* failure to encode it, which is sent at once.
Handled(s) ==
  \/ BeginSave(s, "answer")
  \/ Go(s, "failure") /\ UNCHANGED goal

\* handle_frame of a mutation: a new attempt is applied and recorded, a recorded
\* one is answered with success and nothing is done. Both are saved.
Mutate(s, a) ==
  /\ at[s] = "ready"
  /\ IF Replayed(a)
     THEN UNCHANGED <<engine, unkept, undisturbed>>
     ELSE Apply(a) /\ undisturbed' = (undisturbed /\ \A t \in Thread \ {s} : ~Saving(t))
  /\ request' = [request EXCEPT ![s] = a]
  /\ Handled(s)
  /\ UNCHANGED <<store, copy, server, acked, clean>>

\* handle_frame of a mutation of another set, whose attempt may be recorded, or of a
\* request without an attempt, such as a report: it is saved and answered as well.
HandleOther(s) ==
  /\ at[s] = "ready"
  /\ Record({})
  /\ request' = [request EXCEPT ![s] = None]
  /\ Handled(s)
  /\ UNCHANGED <<applied, store, copy, server, acked, undisturbed, clean>>

\* The answer is sent, or the peer is gone.
Answer(s) ==
  /\ at[s] = "answer"
  /\ \/ Go(s, "idle") /\ acked' = acked \cup ({request[s]} \ {None})
     \/ Go(s, "leaving") /\ UNCHANGED acked
  /\ request' = [request EXCEPT ![s] = None]
  /\ UNCHANGED <<engine, store, copy, goal, server, unkept, undisturbed, clean>>

\* The failure is sent, or the peer is gone: the session ends, and with it the whole
\* server if the failure was to save.
Refuse(s) ==
  /\ at[s] \in {"failure", "refusal"}
  /\ running' = (running /\ at[s] # "refusal")
  /\ Go(s, "leaving")
  /\ UNCHANGED <<engine, store, copy, goal, request, accepting, drain, history>>

\* retire, on the session's own thread: the session is erased, and what it leaves
\* is saved. A failure of this save is ignored.
Retire(s) ==
  /\ at[s] = "leaving"
  /\ BeginSave(s, "retire")
  /\ request' = [request EXCEPT ![s] = None]
  /\ UNCHANGED <<engine, store, copy, server, history>>

----------------------------------------------------------------------------
(* The main thread and the process.                                         *)

\* load_engine_state: what the file holds, or nothing when there is none.
Load == applied' = store.applied /\ ledger' = store.ledger

\* CoordinatorServer::start: the flag is set before the acceptor's thread begins.
Launch == running' = TRUE /\ accepting' = TRUE

\* main: the store is loaded into a fresh engine, then the server starts.
Start ==
  /\ at[Main] = "down"
  /\ Load /\ Launch
  /\ Go(Main, "up")
  /\ clean' = FALSE
  /\ UNCHANGED <<store, copy, goal, request, drain, acked, unkept, undisturbed>>

\* stop(): a server that stopped by itself is not joined, the last save follows.
Stop ==
  /\ at[Main] = "up"
  /\ running' = FALSE
  /\ IF running THEN Go(Main, "joining") /\ UNCHANGED goal ELSE BeginSave(Main, "final")
  /\ UNCHANGED <<engine, store, copy, request, accepting, drain, history>>

\* The listener is closed by stop(), which ends the acceptor.
AcceptorEnds ==
  /\ at[Main] = "joining" /\ accepting
  /\ accepting' = FALSE
  /\ UNCHANGED <<engine, store, copy, at, goal, request, running, drain, history>>

\* Faulty: stop() waits for the sessions and closes none.
DrainNothing ==
  /\ at[Main] = "joining" /\ ~accepting
  /\ Go(Main, "draining")
  /\ UNCHANGED <<engine, store, copy, goal, request, server, history>>

\* The sessions that are not retiring yet are the ones stop() releases.
Drain ==
  /\ at[Main] = "joining" /\ ~accepting
  /\ drain' = {s \in Session : at[s] # "none" /\ goal[s] # "retire"}
  /\ Go(Main, "draining")
  /\ UNCHANGED <<engine, store, copy, goal, request, running, accepting, history>>

\* release: the session's thread is joined and the session retired once more.
Release(s) ==
  /\ at[Main] = "draining" /\ s \in drain /\ at[s] = "none"
  /\ drain' = drain \ {s}
  /\ BeginSave(Main, "release")
  /\ UNCHANGED <<engine, store, copy, request, running, accepting, history>>

\* Faulty: the threads of the sessions that retired by themselves are not joined.
DrainedEarly ==
  /\ at[Main] = "draining" /\ drain = {}
  /\ clean' = TRUE
  /\ BeginSave(Main, "final")
  /\ UNCHANGED <<engine, store, copy, request, server, acked, unkept, undisturbed>>

\* Every session is released and every retired thread joined: the last save.
Drained ==
  /\ at[Main] = "draining" /\ drain = {} /\ \A s \in Session : at[s] = "none"
  /\ clean' = TRUE
  /\ BeginSave(Main, "final")
  /\ UNCHANGED <<engine, store, copy, request, server, acked, unkept, undisturbed>>

\* The process ends, by itself or at any moment by a crash. A file that is being
\* written is a temporary one and is lost.
Down ==
  /\ at[Main] # "down"
  /\ applied' = {} /\ ledger' = {}
  /\ copy' = [t \in Thread |-> Nothing]
  /\ at' = [t \in Thread |-> IF t = Main THEN "down" ELSE "none"]
  /\ goal' = [t \in Thread |-> "answer"] /\ request' = [s \in Session |-> None]
  /\ running' = FALSE /\ accepting' = FALSE /\ drain' = {} /\ clean' = FALSE
  /\ UNCHANGED <<store, acked, unkept, undisturbed>>

\* What a session's thread does by itself.
Serve(s) ==
  \/ Look(s) \/ Receive(s)
  \/ \E a \in Attempt : Mutate(s, a)
  \/ HandleOther(s) \/ Retire(s) \/ Save(s)

\* What the main thread does by itself once it stops.
Shutdown == Drain \/ (\E s \in Session : Release(s)) \/ Drained \/ Save(Main)

Next ==
  \/ \E s \in Session : Accept(s) \/ Serve(s) \/ Answer(s) \/ Refuse(s)
  \/ Start \/ Stop \/ AcceptorEnds \/ Shutdown \/ Down

Spec == Init /\ [][Next]_vars

\* Threads are scheduled, receives time out, and a failed or closed socket ends a
\* send. A send to a peer that does not read may take for ever: it is fair only
\* once stop() has closed the socket. Nobody has to connect, stop or crash.
Sent(s) == at[Main] = "draining" /\ s \in drain /\ (Answer(s) \/ Refuse(s))

Fairness ==
  /\ \A s \in Session : WF_vars(Serve(s)) /\ WF_vars(Sent(s))
  /\ WF_vars(AcceptorEnds) /\ WF_vars(Shutdown)

FairSpec == Spec /\ Fairness

----------------------------------------------------------------------------

\* Every variable has its type.
TypeOK ==
  /\ applied \subseteq Attempt /\ ledger \subseteq Attempt
  /\ store \in State /\ copy \in [Thread -> State]
  /\ at \in [Thread -> SessionPlaces \cup MainPlaces]
  /\ \A s \in Session : at[s] \in SessionPlaces
  /\ at[Main] \in MainPlaces
  /\ goal \in [Thread -> Goals] /\ request \in [Session -> Attempt \cup {None}]
  /\ running \in BOOLEAN /\ accepting \in BOOLEAN /\ drain \subseteq Session
  /\ acked \subseteq Attempt /\ unkept \subseteq Attempt
  /\ undisturbed \in BOOLEAN /\ clean \in BOOLEAN

\* An effect is kept or stored without the record of its attempt only if that record
\* was evicted or, for a NO_OP, never made, however saves, mutations and crashes
\* interleave: a retry of any other attempt is not applied twice. The order in which
\* export_state reads the sets and the ledger is what ensures it.
EffectIsRecorded ==
  /\ applied \ ledger \subseteq unkept
  /\ store.applied \ store.ledger \subseteq unkept

\* As long as nothing is applied while another thread saves, an answered mutation
\* is in the store and in the engine that runs, and a recorded attempt has its
\* effect in both, through any crash, retry and eviction.
UndisturbedIsDurable ==
  undisturbed =>
    /\ acked \subseteq store.applied /\ store.ledger \subseteq store.applied
    /\ at[Main] # "down" => acked \cup ledger \subseteq applied

\* A clean stop leaves no session behind and the engine's last state in the store:
\* no session thread's older save comes after the last one.
CleanStopIsComplete ==
  at[Main] = "stopped" /\ clean =>
    /\ store = [applied |-> applied, ledger |-> ledger]
    /\ \A s \in Session : at[s] = "none"

\* After the server stops, by stop() or by a failed save, every session's thread
\* ends, except one whose send the peer holds up.
StoppedServerDrains == ~running ~> \A s \in Session : at[s] \in {"none"} \cup Sends

\* stop() returns, whatever the sessions are doing when it is called: it closes
\* each socket before it waits for the thread.
StopReturns == at[Main] = "joining" ~> at[Main] \in {"stopped", "down"}

----------------------------------------------------------------------------
(* What the documents say and the code does not do: refuted by a run.       *)

\* "A mutation is acknowledged only after it is durable" (README): an answered
\* mutation is in the store. A save that began earlier replaces the file later.
AcknowledgedIsDurable == acked \subseteq store.applied
=============================================================================
