------------------------- MODULE CoordinatorProofs -------------------------
(***************************************************************************)
(* For any number of sessions and attempts: an effect is kept or stored    *)
(* without the record of its attempt only if the ledger gave that record   *)
(* up or never made one, whatever saves overlap and wherever the process   *)
(* crashes. What makes it inductive is what each thread holds while it     *)
(* saves: the effects it has read are in the engine until it reads the     *)
(* ledger, and those of them without a record in its copy are accounted    *)
(* for afterwards.                                                         *)
(***************************************************************************)
EXTENDS Coordinator, TLAPS

\* No save is under way while the process is down, and nothing accepts then.
QuietWhenDown ==
  at[Main] = "down" => ~accepting /\ \A s \in Session : at[s] = "none"

\* What a thread has read so far for its save is in the engine, then on record in its
\* copy as far as the ledger has kept it.
CopiesRecorded ==
  \A t \in Thread :
    /\ at[t] = "ledger" => copy[t].applied \subseteq applied
    /\ at[t] = "write" => copy[t].applied \ copy[t].ledger \subseteq unkept

\* A save of the main thread is not one of a session's, nor the reverse.
OwnPurpose ==
  \A t \in Thread : at[t] \in {"sets", "ledger", "write"} =>
    goal[t] \in IF t = Main THEN {"release", "final"} ELSE {"answer", "retire"}

IInv == TypeOK /\ EffectIsRecorded /\ QuietWhenDown /\ CopiesRecorded /\ OwnPurpose

\* The first start has nothing to record.
LEMMA InitInv == Init => IInv
<1> SUFFICES ASSUME Init PROVE IInv
  OBVIOUS
<1>1. /\ at[Main] = "down" /\ \A s \in Session : at[s] = "none"
      /\ at \in [Thread -> SessionPlaces \cup MainPlaces]
  BY CoordinatorAssumption DEF Init, Thread, SessionPlaces, MainPlaces
<1>2. TypeOK
  BY <1>1 DEF Init, TypeOK, State, Nothing, SessionPlaces, MainPlaces, Goals
<1>3. EffectIsRecorded /\ QuietWhenDown /\ CopiesRecorded /\ OwnPurpose
  BY <1>1 DEF Init, EffectIsRecorded, QuietWhenDown, CopiesRecorded, OwnPurpose, Thread, Nothing
<1> QED
  BY <1>2, <1>3 DEF IInv

\* Reading the sets: what is read is in the engine at that moment.
LEMMA SaveSetsInv == ASSUME IInv, NEW t \in Thread, SaveSets(t) PROVE IInv'
BY CoordinatorAssumption
   DEF SaveSets, Go, IInv, TypeOK, EffectIsRecorded, QuietWhenDown, CopiesRecorded, OwnPurpose, Thread, State,
       SessionPlaces, Sends, MainPlaces, engine, server, history

\* Reading the ledger: it holds the record of every effect read before.
LEMMA SaveLedgerInv == ASSUME IInv, NEW t \in Thread, SaveLedger(t) PROVE IInv'
BY CoordinatorAssumption
   DEF SaveLedger, Go, IInv, TypeOK, EffectIsRecorded, QuietWhenDown, CopiesRecorded, OwnPurpose, Thread, State,
       SessionPlaces, Sends, MainPlaces, engine, server, history

\* Replacing the file: the copy that is stored holds every record it needs.
LEMMA ReplaceInv == ASSUME IInv, NEW t \in Thread, Replace(t) PROVE IInv'
<1> USE DEF IInv
<1>1. /\ store' \in {store, copy[t]} /\ copy[t].applied \ copy[t].ledger \subseteq unkept
      /\ clean' \in BOOLEAN
      /\ copy' = [copy EXCEPT ![t] = Nothing] /\ goal' = [goal EXCEPT ![t] = "answer"]
      /\ UNCHANGED <<applied, ledger, request, running, accepting, drain, acked, unkept, undisturbed>>
  BY DEF Replace, engine, server, TypeOK, CopiesRecorded
<1>2. PICK place \in {"answer", "refusal", "none", "draining", "stopped"} :
        /\ at' = [at EXCEPT ![t] = place]
        /\ t = Main <=> place \in {"draining", "stopped"}
  BY DEF Replace, Go, AfterSave, TypeOK, Goals, OwnPurpose
<1>3. TypeOK'
  BY <1>1, <1>2, CoordinatorAssumption
     DEF TypeOK, Thread, State, Nothing, SessionPlaces, Sends, MainPlaces, Goals
<1>4. EffectIsRecorded'
  BY <1>1 DEF EffectIsRecorded
<1>5. QuietWhenDown'
  <2>1. at[Main] # "down"
    BY <1>2 DEF Replace, QuietWhenDown, Thread
  <2>2. at'[Main] # "down"
    BY <1>2, <2>1 DEF TypeOK, Thread
  <2> QED
    BY <2>2 DEF QuietWhenDown
<1>6. CopiesRecorded' /\ OwnPurpose'
  BY <1>1, <1>2 DEF TypeOK, CopiesRecorded, OwnPurpose, Thread
<1> QED
  BY <1>3, <1>4, <1>5, <1>6

\* A request is handled: the thread saves for the answer, or sends its failure.
LEMMA HandledGoes ==
  ASSUME IInv, NEW s \in Session, Handled(s)
  PROVE  \/ at' = [at EXCEPT ![s] = "sets"] /\ goal' = [goal EXCEPT ![s] = "answer"]
         \/ at' = [at EXCEPT ![s] = "failure"] /\ goal' = goal
BY Zenon DEF Handled, BeginSave, Go

\* A thread that has handled a request has read nothing for its save yet, and the
\* engine has no fewer effects, nor others without a record, than are accounted for.
LEMMA HandledInv ==
  ASSUME IInv, NEW s \in Session, at[s] = "ready", Handled(s), request' \in [Session -> Attempt \cup {None}],
         applied \subseteq applied', applied' \subseteq Attempt, ledger' \subseteq Attempt,
         unkept \subseteq unkept', unkept' \subseteq Attempt, applied' \ ledger' \subseteq unkept',
         undisturbed' \in BOOLEAN, UNCHANGED <<store, copy, running, accepting, drain, acked, clean>>
  PROVE  IInv'
<1> USE DEF IInv
<1>1. s \in Thread /\ s # Main /\ Main \in Thread
  BY CoordinatorAssumption DEF Thread
<1>2. PICK place \in {"sets", "failure"} :
        /\ at' = [at EXCEPT ![s] = place]
        /\ goal' \in [Thread -> Goals] /\ \A t \in Thread : t # s => goal'[t] = goal[t]
        /\ place = "sets" => goal'[s] = "answer"
  BY <1>1, HandledGoes DEF TypeOK, Goals
<1>3. at'[s] = place /\ \A t \in Thread : t # s => at'[t] = at[t]
  BY <1>1, <1>2 DEF TypeOK
<1>4. TypeOK'
  BY <1>1, <1>2 DEF TypeOK, SessionPlaces, Sends
<1>5. EffectIsRecorded' /\ QuietWhenDown'
  BY <1>1, <1>3 DEF EffectIsRecorded, QuietWhenDown
<1>6. CopiesRecorded' /\ OwnPurpose'
  BY <1>1, <1>2, <1>3 DEF CopiesRecorded, OwnPurpose
<1> QED
  BY <1>4, <1>5, <1>6

\* A new record costs at most one other, which is accounted for.
LEMMA RecordKeeps ==
  ASSUME IInv, NEW new \in SUBSET Attempt, Record(new)
  PROVE  /\ ledger' \subseteq Attempt /\ unkept \subseteq unkept' /\ unkept' \subseteq Attempt
         /\ (applied \cup new) \ ledger' \subseteq unkept' /\ ledger' \subseteq ledger \cup new
<1>1. PICK gone \in SUBSET ledger : ledger' = (ledger \ gone) \cup new /\ unkept' = unkept \cup gone
  BY DEF Record
<1> QED
  BY <1>1 DEF IInv, TypeOK, EffectIsRecorded

\* An attempt is applied: it is on record, or accounted for.
LEMMA ApplyKeeps ==
  ASSUME IInv, NEW a \in Attempt, Apply(a)
  PROVE  /\ applied' = applied \cup {a} /\ ledger' \subseteq Attempt /\ ledger' \subseteq ledger \cup {a}
         /\ unkept \subseteq unkept' /\ unkept' \subseteq Attempt /\ applied' \ ledger' \subseteq unkept'
<1>1. applied' = applied \cup {a}
  BY DEF Apply
<1>2. CASE Record({a})
  BY <1>1, <1>2, RecordKeeps
<1>3. CASE NoRecord(a)
  BY <1>1, <1>3 DEF NoRecord, IInv, TypeOK, EffectIsRecorded
<1> QED
  BY <1>2, <1>3, <1>1 DEF Apply

\* The steps of a session's thread that save nothing.
LEMMA SessionInv ==
  ASSUME IInv, NEW s \in Session,
         \/ Accept(s) \/ Look(s) \/ Receive(s) \/ HandleOther(s) \/ Answer(s) \/ Refuse(s) \/ Retire(s)
         \/ \E a \in Attempt : Mutate(s, a)
  PROVE  IInv'
<1> USE DEF IInv
<1>0. s \in Thread /\ s # Main /\ Main \in Thread
  BY CoordinatorAssumption DEF Thread
<1>1. CASE Accept(s) \/ Look(s) \/ Receive(s)
  BY <1>0, <1>1
     DEF Accept, Look, Receive, Go, TypeOK, EffectIsRecorded, QuietWhenDown, CopiesRecorded,
         OwnPurpose, Thread, SessionPlaces, engine, server, history
<1>2. CASE Retire(s)
  BY <1>0, <1>2
     DEF Retire, BeginSave, Go, TypeOK, EffectIsRecorded, QuietWhenDown, CopiesRecorded,
         OwnPurpose, Thread, SessionPlaces, Goals, engine, server, history
<1>3. CASE Answer(s)
  BY <1>0, <1>3
     DEF Answer, Go, TypeOK, EffectIsRecorded, QuietWhenDown, CopiesRecorded,
         OwnPurpose, Thread, SessionPlaces, engine, server
<1>4. CASE Refuse(s)
  BY <1>0, <1>4
     DEF Refuse, Go, TypeOK, EffectIsRecorded, QuietWhenDown, CopiesRecorded,
         OwnPurpose, Thread, SessionPlaces, engine, history
<1>5. CASE HandleOther(s)
  <2>1. /\ at[s] = "ready" /\ Handled(s) /\ request' = [request EXCEPT ![s] = None] /\ Record({})
        /\ UNCHANGED <<applied, store, copy, running, accepting, drain, acked, undisturbed, clean>>
    BY <1>5 DEF HandleOther, server
  <2>2. request' \in [Session -> Attempt \cup {None}] /\ undisturbed' \in BOOLEAN
    BY <2>1 DEF TypeOK
  <2>3. /\ ledger' \subseteq Attempt /\ unkept \subseteq unkept' /\ unkept' \subseteq Attempt
        /\ applied \ ledger' \subseteq unkept'
    <3>1. {} \in SUBSET Attempt
      OBVIOUS
    <3> QED
      BY <2>1, <3>1, RecordKeeps
  <2> QED
    BY <2>1, <2>2, <2>3, HandledInv DEF TypeOK
<1>6. ASSUME NEW a \in Attempt, Mutate(s, a) PROVE IInv'
  <2>1. /\ at[s] = "ready" /\ Handled(s) /\ request' = [request EXCEPT ![s] = a]
        /\ UNCHANGED <<store, copy, running, accepting, drain, acked, clean>>
    BY <1>6 DEF Mutate, server
  <2>2. request' \in [Session -> Attempt \cup {None}]
    BY <2>1 DEF TypeOK
  <2>3. /\ applied \subseteq applied' /\ applied' \subseteq Attempt /\ ledger' \subseteq Attempt
        /\ unkept \subseteq unkept' /\ unkept' \subseteq Attempt /\ applied' \ ledger' \subseteq unkept'
        /\ undisturbed' \in BOOLEAN
    <3>1. CASE Replayed(a)
      BY <1>6, <3>1 DEF Mutate, engine, TypeOK, EffectIsRecorded
    <3>2. CASE ~Replayed(a)
      <4>1. Apply(a) /\ undisturbed' \in BOOLEAN
        BY <1>6, <3>2 DEF Mutate, TypeOK
      <4> QED
        BY <4>1, ApplyKeeps DEF TypeOK
    <3> QED
      BY <3>1, <3>2
  <2> QED
    BY <2>1, <2>2, <2>3, HandledInv
<1> QED
  BY <1>1, <1>2, <1>3, <1>4, <1>5, <1>6

\* The steps of the main thread and the acceptor that save nothing.
LEMMA MainInv ==
  ASSUME IInv, Stop \/ AcceptorEnds \/ Drain \/ Drained \/ \E s \in Session : Release(s)
  PROVE  IInv'
<1> USE DEF IInv
<1>0. Main \in Thread /\ \A s \in Session : s \in Thread /\ s # Main
  BY CoordinatorAssumption DEF Thread
<1>1. CASE Stop
  <2>1. /\ at[Main] = "up" /\ running' = FALSE
        /\ UNCHANGED <<applied, ledger, store, copy, request, accepting, drain, acked,
                       unkept, undisturbed, clean>>
    BY <1>1 DEF Stop, engine, history
  <2>2. CASE at' = [at EXCEPT ![Main] = "joining"] /\ goal' = goal
    BY <1>0, <2>1, <2>2
       DEF TypeOK, EffectIsRecorded, QuietWhenDown, CopiesRecorded, OwnPurpose, MainPlaces
  <2>3. CASE at' = [at EXCEPT ![Main] = "sets"] /\ goal' = [goal EXCEPT ![Main] = "final"]
    BY <1>0, <2>1, <2>3
       DEF TypeOK, EffectIsRecorded, QuietWhenDown, CopiesRecorded, OwnPurpose, MainPlaces, Goals
  <2>4. \/ at' = [at EXCEPT ![Main] = "joining"] /\ goal' = goal
        \/ at' = [at EXCEPT ![Main] = "sets"] /\ goal' = [goal EXCEPT ![Main] = "final"]
    BY <1>1, Zenon DEF Stop, BeginSave, Go
  <2> QED
    BY <2>2, <2>3, <2>4
<1>2. CASE AcceptorEnds \/ Drain
  BY <1>0, <1>2
     DEF AcceptorEnds, Drain, Go, TypeOK, EffectIsRecorded, QuietWhenDown, CopiesRecorded,
         OwnPurpose, Thread, MainPlaces, engine, history
<1>3. CASE Drained
  BY <1>0, <1>3
     DEF Drained, BeginSave, Go, TypeOK, EffectIsRecorded, QuietWhenDown, CopiesRecorded,
         OwnPurpose, Thread, MainPlaces, Goals, engine, server
<1>4. ASSUME NEW s \in Session, Release(s) PROVE IInv'
  BY <1>0, <1>4
     DEF Release, BeginSave, Go, TypeOK, EffectIsRecorded, QuietWhenDown, CopiesRecorded,
         OwnPurpose, Thread, MainPlaces, Goals, engine, history
<1> QED
  BY <1>1, <1>2, <1>3, <1>4

\* A start takes what the store holds: the record of each effect is there too.
LEMMA StartInv == ASSUME IInv, Start PROVE IInv'
<1> USE DEF IInv
<1>1. /\ applied' = store.applied /\ ledger' = store.ledger
      /\ at' = [at EXCEPT ![Main] = "up"] /\ running' = TRUE /\ accepting' = TRUE
      /\ clean' = FALSE
      /\ UNCHANGED <<store, copy, goal, request, drain, acked, unkept, undisturbed>>
  BY DEF Start, Load, Launch, Go, TypeOK
<1>2. \A s \in Session : at[s] = "none"
  BY DEF Start, QuietWhenDown
<1>3. Main \in Thread /\ \A s \in Session : s # Main
  BY CoordinatorAssumption DEF Thread
<1> QED
  BY <1>1, <1>2, <1>3
     DEF TypeOK, EffectIsRecorded, QuietWhenDown, CopiesRecorded, OwnPurpose, Thread, State,
         SessionPlaces, MainPlaces

\* When the process goes down only the store is left.
LEMMA DownInv == ASSUME IInv, Down PROVE IInv'
<1> USE DEF IInv
<1>1. /\ at'[Main] = "down" /\ \A s \in Session : at'[s] = "none"
      /\ at' \in [Thread -> SessionPlaces \cup MainPlaces]
  BY CoordinatorAssumption DEF Down, Thread, SessionPlaces, MainPlaces
<1>2. TypeOK'
  BY <1>1 DEF Down, TypeOK, State, Nothing, SessionPlaces, MainPlaces, Goals
<1>3. EffectIsRecorded' /\ QuietWhenDown' /\ CopiesRecorded' /\ OwnPurpose'
  BY <1>1 DEF Down, EffectIsRecorded, QuietWhenDown, CopiesRecorded, OwnPurpose, Thread
<1> QED
  BY <1>2, <1>3

\* Every step of the coordinator keeps the invariant.
LEMMA NextInv == IInv /\ [Next]_vars => IInv'
<1> SUFFICES ASSUME IInv, [Next]_vars PROVE IInv'
  OBVIOUS
<1>1. CASE UNCHANGED vars
  BY <1>1 DEF vars, IInv, TypeOK, EffectIsRecorded, QuietWhenDown, CopiesRecorded, OwnPurpose
<1>2. ASSUME NEW t \in Thread, Save(t) PROVE IInv'
  BY <1>2, SaveSetsInv, SaveLedgerInv, ReplaceInv DEF Save
<1>3. ASSUME NEW s \in Session, Accept(s) \/ Serve(s) \/ Answer(s) \/ Refuse(s) PROVE IInv'
  <2>1. s \in Thread
    BY DEF Thread
  <2> QED
    BY <1>2, <1>3, <2>1, SessionInv DEF Serve
<1>4. CASE Stop \/ AcceptorEnds \/ Shutdown
  <2>1. Main \in Thread
    BY DEF Thread
  <2> QED
    BY <1>2, <1>4, <2>1, MainInv DEF Shutdown
<1>5. CASE Start \/ Down
  BY <1>5, StartInv, DownInv
<1> QED
  BY <1>1, <1>3, <1>4, <1>5 DEF Next

\* The invariant that the theorems below are read from.
THEOREM Invariant == Spec => []IInv
BY InitInv, NextInv, PTL DEF Spec

\* Every variable of Coordinator always has its type.
THEOREM TypeCorrect == Spec => []TypeOK
<1>1. IInv => TypeOK
  BY DEF IInv
<1> QED
  BY <1>1, Invariant, PTL

\* An effect is without the record of its attempt only if the ledger evicted that
\* record or, for a NO_OP, never made it: no other retry is applied twice, for any
\* interleaving of any number of saves and crashes.
THEOREM EffectsAreRecorded == Spec => []EffectIsRecorded
<1>1. IInv => EffectIsRecorded
  BY DEF IInv
<1> QED
  BY <1>1, Invariant, PTL

----------------------------------------------------------------------------
(* What stop() leaves behind.                                              *)

Busy == {"sets", "ledger", "write"}

\* Nobody is accepted any more once stop() closes the sessions.
ClosedWhenDraining ==
  at[Main] = "draining" \/ (at[Main] \in Busy /\ goal[Main] = "release") => ~accepting

\* Once stop() has joined every session only the last save is left to do, and it
\* holds the engine's state as it stays.
LastSaveIsCurrent ==
  clean => /\ ~accepting /\ \A s \in Session : at[s] = "none"
           /\ at[Main] \in Busy \cup {"stopped"}
           /\ at[Main] \in Busy => goal[Main] = "final"
           /\ at[Main] \in {"ledger", "write"} => copy[Main].applied = applied
           /\ at[Main] = "write" => copy[Main].ledger = ledger
           /\ at[Main] = "stopped" => store.applied = applied /\ store.ledger = ledger

StopInv == ClosedWhenDraining /\ LastSaveIsCurrent

\* A thread of a session that takes a step keeps stop() from having joined it.
LEMMA SessionStopInv ==
  ASSUME IInv, StopInv, NEW s \in Session, Accept(s) \/ Serve(s) \/ Answer(s) \/ Refuse(s)
  PROVE  StopInv'
<1> USE DEF IInv, StopInv
<1>1. s \in Thread /\ s # Main /\ Main \in Thread
  BY CoordinatorAssumption DEF Thread
<1>2. /\ at'[Main] = at[Main] /\ goal'[Main] = goal[Main]
      /\ accepting' => accepting
      /\ at[s] # "none" \/ accepting
      /\ clean' => clean
  <2>1. CASE Accept(s) \/ Look(s) \/ Receive(s)
    BY <1>1, <2>1 DEF Accept, Look, Receive, Go, TypeOK, server, history
  <2>2. CASE Retire(s) \/ Answer(s) \/ Refuse(s)
    BY <1>1, <2>2 DEF Retire, Answer, Refuse, BeginSave, Go, TypeOK, server, history
  <2>3. CASE HandleOther(s) \/ \E a \in Attempt : Mutate(s, a)
    <3>1. at[s] = "ready" /\ Handled(s) /\ UNCHANGED <<accepting, clean>>
      BY <2>3 DEF HandleOther, Mutate, server
    <3> QED
      BY <1>1, <3>1, HandledGoes DEF TypeOK
  <2>4. CASE SaveSets(s) \/ SaveLedger(s) \/ Replace(s)
    BY <1>1, <2>4 DEF SaveSets, SaveLedger, Replace, Go, TypeOK, server, history
  <2> QED
    BY <2>1, <2>2, <2>3, <2>4 DEF Serve, Save
<1> QED
  BY <1>2 DEF ClosedWhenDraining, LastSaveIsCurrent

\* The main thread's own saves: the last one is of a state that nobody changes.
LEMMA MainStopInv ==
  ASSUME IInv, StopInv, SaveSets(Main) \/ SaveLedger(Main) \/ Replace(Main)
  PROVE  StopInv'
<1> USE DEF IInv, StopInv
<1>1. Main \in Thread /\ \A s \in Session : s \in Thread /\ s # Main
  BY CoordinatorAssumption DEF Thread
<1>2. CASE SaveSets(Main) \/ SaveLedger(Main)
  BY <1>1, <1>2 DEF SaveSets, SaveLedger, Go, TypeOK, State, ClosedWhenDraining, LastSaveIsCurrent,
                    Busy, engine, server, history
<1>3. CASE Replace(Main)
  <2>1. PICK done \in BOOLEAN :
          /\ store' = IF done THEN copy[Main] ELSE store
          /\ at' = [at EXCEPT ![Main] = AfterSave(Main, done)]
          /\ clean' = (clean /\ (goal[Main] = "final" => done))
    BY <1>3 DEF Replace, Go
  <2>2. UNCHANGED <<applied, ledger, accepting>> /\ at[Main] = "write" /\ goal' = [goal EXCEPT ![Main] = "answer"]
    BY <1>3 DEF Replace, engine, server
  <2>3. \/ goal[Main] = "release" /\ at'[Main] = "draining"
        \/ goal[Main] = "final" /\ at'[Main] = "stopped"
    BY <1>1, <2>1, <2>2 DEF AfterSave, OwnPurpose, TypeOK
  <2>4. \A s \in Session : at'[s] = at[s]
    BY <1>1, <2>1 DEF TypeOK
  <2> QED
    BY <2>1, <2>2, <2>3, <2>4 DEF ClosedWhenDraining, LastSaveIsCurrent, Busy
<1> QED
  BY <1>2, <1>3

\* Every step of the coordinator keeps what is said of stop().
LEMMA NextStopInv == IInv /\ StopInv /\ [Next]_vars => StopInv'
<1> SUFFICES ASSUME IInv, StopInv, [Next]_vars PROVE StopInv'
  OBVIOUS
<1> USE DEF IInv, StopInv
<1>1. Main \in Thread /\ \A s \in Session : s \in Thread /\ s # Main
  BY CoordinatorAssumption DEF Thread
<1>2. ASSUME NEW s \in Session, Accept(s) \/ Serve(s) \/ Answer(s) \/ Refuse(s) PROVE StopInv'
  BY <1>2, SessionStopInv
<1>3. CASE Save(Main)
  BY <1>3, MainStopInv DEF Save
<1>4. CASE Start \/ Down
  BY <1>1, <1>4 DEF Start, Load, Launch, Down, Go, TypeOK, ClosedWhenDraining, LastSaveIsCurrent, Busy
<1>5. CASE Stop
  <2>1. at[Main] = "up" /\ UNCHANGED clean
    BY <1>5 DEF Stop, history
  <2>2. \/ at' = [at EXCEPT ![Main] = "joining"]
        \/ at' = [at EXCEPT ![Main] = "sets"] /\ goal' = [goal EXCEPT ![Main] = "final"]
    BY <1>5, Zenon DEF Stop, BeginSave, Go
  <2> QED
    BY <1>1, <2>1, <2>2 DEF TypeOK, ClosedWhenDraining, LastSaveIsCurrent, Busy
<1>6. CASE AcceptorEnds \/ Drain
  BY <1>1, <1>6 DEF AcceptorEnds, Drain, Go, TypeOK, ClosedWhenDraining, LastSaveIsCurrent, Busy, engine, history
<1>7. ASSUME NEW s \in Session, Release(s) PROVE StopInv'
  BY <1>1, <1>7 DEF Release, BeginSave, Go, TypeOK, ClosedWhenDraining, LastSaveIsCurrent, Busy, history
<1>8. CASE Drained
  BY <1>1, <1>8 DEF Drained, BeginSave, Go, TypeOK, ClosedWhenDraining, LastSaveIsCurrent, Busy, server
<1>9. CASE UNCHANGED vars
  BY <1>9 DEF vars, ClosedWhenDraining, LastSaveIsCurrent
<1> QED
  BY <1>2, <1>3, <1>4, <1>5, <1>6, <1>7, <1>8, <1>9 DEF Next, Shutdown

\* A clean stop leaves no session thread behind and the engine's last state in the
\* store, for any number of sessions and however they end (stop, release, reap).
THEOREM CleanStops == Spec => []CleanStopIsComplete
<1>1. Init => StopInv
  BY DEF Init, StopInv, ClosedWhenDraining, LastSaveIsCurrent, Busy
<1>2. IInv /\ StopInv => CleanStopIsComplete
  <2> SUFFICES ASSUME IInv, StopInv, at[Main] = "stopped", clean
               PROVE  /\ store = [applied |-> applied, ledger |-> ledger]
                      /\ \A s \in Session : at[s] = "none"
    BY DEF CleanStopIsComplete
  <2> QED
    BY DEF IInv, TypeOK, State, StopInv, LastSaveIsCurrent
<1> QED
  BY <1>1, <1>2, NextStopInv, Invariant, PTL DEF Spec

----------------------------------------------------------------------------
(* What an answer promises while saves and mutations do not overlap.        *)

\* The engine is ahead of the store, and what is on record was applied.
EngineIsAhead ==
  /\ acked \subseteq store.applied /\ store.ledger \subseteq store.applied
  /\ at[Main] # "down" => store.applied \subseteq applied /\ ledger \subseteq applied

\* A save under way has read the engine's sets as they still are.
CopiesAreCurrent ==
  \A t \in Thread :
    /\ at[t] \in {"ledger", "write"} => copy[t].applied = applied
    /\ at[t] = "write" => copy[t].ledger \subseteq applied

\* What is about to be answered is in the store, what is saved for it in the engine.
RequestsAreKept ==
  \A s \in Session : request[s] # None =>
    /\ at[s] = "answer" => request[s] \in store.applied
    /\ at[s] \in Busy => request[s] \in applied

Durable == undisturbed => EngineIsAhead /\ CopiesAreCurrent /\ RequestsAreKept

\* Reading the sets or the ledger, which nobody changes in between.
LEMMA ReadDurable ==
  ASSUME IInv, Durable, NEW t \in Thread, SaveSets(t) \/ SaveLedger(t) PROVE Durable'
<1> USE DEF IInv
<1>1. /\ at[t] \in Busy /\ at' = [at EXCEPT ![t] = IF at[t] = "sets" THEN "ledger" ELSE "write"]
      /\ UNCHANGED <<applied, ledger, store, request, acked, undisturbed>>
  BY DEF SaveSets, SaveLedger, Go, Busy, engine, history
<1>2. at'[t] \in {"ledger", "write"} /\ \A u \in Thread \ {t} : at'[u] = at[u]
  BY <1>1 DEF TypeOK
<1>3. /\ Main \in Thread /\ \A u \in Session : u \in Thread /\ u # Main
      /\ at'[Main] # "down" => at[Main] # "down"
  BY <1>1, <1>2, CoordinatorAssumption DEF Thread, Busy
<1>4. EngineIsAhead /\ CopiesAreCurrent => CopiesAreCurrent'
  <2>1. at[Main] # "down"
    BY <1>1, <1>3 DEF QuietWhenDown, Busy, Thread
  <2> QED
    BY <1>1, <1>2, <2>1 DEF SaveSets, SaveLedger, TypeOK, State, CopiesAreCurrent, EngineIsAhead
<1>5. EngineIsAhead => EngineIsAhead'
  BY <1>1, <1>3 DEF EngineIsAhead
<1>6. RequestsAreKept => RequestsAreKept'
  BY <1>1, <1>2, <1>3 DEF RequestsAreKept, Busy
<1> QED
  BY <1>1, <1>4, <1>5, <1>6 DEF Durable

\* Replacing the file: it holds the engine's state from then on.
LEMMA ReplaceDurable == ASSUME IInv, Durable, NEW t \in Thread, Replace(t) PROVE Durable'
<1> USE DEF IInv
<1>1. SUFFICES ASSUME undisturbed PROVE (EngineIsAhead /\ CopiesAreCurrent /\ RequestsAreKept)'
  BY DEF Replace, Durable
<1>2. EngineIsAhead /\ CopiesAreCurrent /\ RequestsAreKept
  BY <1>1 DEF Durable
<1>3. PICK done \in BOOLEAN :
        /\ store' = IF done THEN copy[t] ELSE store
        /\ at' = [at EXCEPT ![t] = AfterSave(t, done)]
  BY DEF Replace, Go
<1>4. /\ at[t] = "write" /\ copy[t].applied = applied /\ copy[t].ledger \subseteq applied
      /\ copy' = [copy EXCEPT ![t] = Nothing]
      /\ UNCHANGED <<applied, ledger, request, acked>>
  BY <1>2 DEF Replace, engine, CopiesAreCurrent
<1>5. /\ Main \in Thread /\ \A s \in Session : s \in Thread /\ s # Main
      /\ at[Main] # "down" /\ at'[Main] # "down"
  <2>1. Main \in Thread /\ \A s \in Session : s \in Thread /\ s # Main
    BY CoordinatorAssumption DEF Thread
  <2>2. at[Main] # "down"
    BY <1>4, <2>1 DEF QuietWhenDown, Thread
  <2>3. AfterSave(t, done) # "down"
    BY DEF AfterSave, TypeOK, Goals
  <2> QED
    BY <1>3, <2>1, <2>2, <2>3 DEF TypeOK
<1>6. at'[t] = AfterSave(t, done) /\ \A u \in Thread \ {t} : at'[u] = at[u]
  BY <1>3 DEF TypeOK
<1>7. at'[t] \notin {"sets", "ledger", "write"} /\ (at'[t] = "answer" => done)
  BY <1>6 DEF AfterSave, TypeOK, Goals
<1>8. EngineIsAhead'
  BY <1>2, <1>3, <1>4, <1>5 DEF EngineIsAhead
<1>9. CopiesAreCurrent'
  BY <1>2, <1>4, <1>6, <1>7 DEF CopiesAreCurrent, TypeOK
<1>10. RequestsAreKept'
  BY <1>2, <1>3, <1>4, <1>5, <1>6, <1>7 DEF RequestsAreKept, EngineIsAhead, Busy
<1> QED
  BY <1>8, <1>9, <1>10

\* A request is handled while nobody reads the engine, or without an effect.
LEMMA HandledDurable ==
  ASSUME IInv, Durable, NEW s \in Session, at[s] = "ready", Handled(s), undisturbed' => undisturbed,
         NEW a \in Attempt \cup {None}, request' = [request EXCEPT ![s] = a], a # None => a \in applied',
         applied \subseteq applied', ledger \subseteq applied => ledger' \subseteq applied',
         undisturbed' => applied' = applied \/ \A t \in Thread \ {s} : ~Saving(t),
         UNCHANGED <<store, copy, acked>>
  PROVE  Durable'
<1> USE DEF IInv
<1>1. SUFFICES ASSUME undisturbed' PROVE (EngineIsAhead /\ CopiesAreCurrent /\ RequestsAreKept)'
  BY DEF Durable
<1>2. EngineIsAhead /\ CopiesAreCurrent /\ RequestsAreKept
  BY <1>1 DEF Durable
<1>3. /\ Main \in Thread /\ s \in Thread /\ \A u \in Session : u \in Thread /\ u # Main
      /\ at[Main] # "down"
  BY CoordinatorAssumption DEF QuietWhenDown, Thread
<1>4. at'[s] \in {"sets", "failure"} /\ \A t \in Thread \ {s} : at'[t] = at[t]
  BY <1>3, HandledGoes DEF TypeOK
<1>5. EngineIsAhead'
  BY <1>2, <1>3, <1>4 DEF EngineIsAhead
<1>6. CopiesAreCurrent'
  BY <1>1, <1>2, <1>4 DEF CopiesAreCurrent, Saving
<1>7. RequestsAreKept'
  BY <1>2, <1>3, <1>4 DEF RequestsAreKept, EngineIsAhead, TypeOK, Busy
<1> QED
  BY <1>5, <1>6, <1>7

\* A mutation, applied or answered again: nobody else is saving when it is applied.
LEMMA MutateDurable ==
  ASSUME IInv, Durable, NEW s \in Session, NEW a \in Attempt, Mutate(s, a) PROVE Durable'
<1> USE DEF IInv
<1>1. SUFFICES ASSUME undisturbed' PROVE Durable'
  BY DEF Durable
<1>2. /\ at[s] = "ready" /\ Handled(s) /\ request' = [request EXCEPT ![s] = a]
      /\ UNCHANGED <<store, copy, acked>>
  BY DEF Mutate
<1>3. CASE Replayed(a)
  <2>1. UNCHANGED <<applied, ledger, undisturbed>> /\ a \in ledger
    BY <1>3 DEF Mutate, Replayed, engine
  <2>2. at[Main] # "down" /\ EngineIsAhead
    BY <1>1, <1>2, <2>1 DEF QuietWhenDown, Durable
  <2>3. a \in applied
    BY <2>1, <2>2 DEF EngineIsAhead
  <2> QED
    BY <1>2, <2>1, <2>3, HandledDurable
<1>4. CASE ~Replayed(a)
  <2>1. Apply(a) /\ undisturbed /\ \A t \in Thread \ {s} : ~Saving(t)
    BY <1>1, <1>4 DEF Mutate
  <2>2. applied' = applied \cup {a} /\ ledger' \subseteq ledger \cup {a}
    BY <2>1, ApplyKeeps
  <2> QED
    BY <1>2, <2>1, <2>2, HandledDurable
<1> QED
  BY <1>3, <1>4

\* The other steps of a session's thread.
LEMMA SessionDurable ==
  ASSUME IInv, Durable, NEW s \in Session,
         Accept(s) \/ Look(s) \/ Receive(s) \/ HandleOther(s) \/ Answer(s) \/ Refuse(s) \/ Retire(s)
  PROVE  Durable'
<1> USE DEF IInv
<1>1. /\ Main \in Thread /\ \A u \in Session : u \in Thread /\ u # Main
  BY CoordinatorAssumption DEF Thread
<1>2. CASE Accept(s) \/ Look(s) \/ Receive(s)
  BY <1>1, <1>2 DEF Accept, Look, Receive, Go, TypeOK, Durable, EngineIsAhead, CopiesAreCurrent,
                    RequestsAreKept, Busy, engine, server, history
<1>3. CASE Retire(s)
  BY <1>1, <1>3 DEF Retire, BeginSave, Go, TypeOK, Durable, EngineIsAhead, CopiesAreCurrent,
                    RequestsAreKept, Busy, engine, server, history
<1>4. CASE Answer(s)
  BY <1>1, <1>4 DEF Answer, Go, TypeOK, Durable, EngineIsAhead, CopiesAreCurrent,
                    RequestsAreKept, Busy, engine, server
<1>5. CASE Refuse(s)
  BY <1>1, <1>5 DEF Refuse, Go, TypeOK, Durable, EngineIsAhead, CopiesAreCurrent,
                    RequestsAreKept, Busy, engine, history
<1>6. CASE HandleOther(s)
  <2>1. /\ at[s] = "ready" /\ Handled(s) /\ request' = [request EXCEPT ![s] = None] /\ Record({})
        /\ UNCHANGED <<applied, store, copy, acked, undisturbed>>
    BY <1>6 DEF HandleOther
  <2>2. ledger' \subseteq ledger
    BY <2>1 DEF Record
  <2> QED
    BY <2>1, <2>2, HandledDurable
<1> QED
  BY <1>2, <1>3, <1>4, <1>5, <1>6

\* The steps of the main thread and the acceptor that save nothing.
LEMMA MainDurable ==
  ASSUME IInv, Durable,
         Start \/ Down \/ Stop \/ AcceptorEnds \/ Drain \/ Drained \/ \E s \in Session : Release(s)
  PROVE  Durable'
<1> USE DEF IInv
<1>1. /\ Main \in Thread /\ \A u \in Session : u \in Thread /\ u # Main
  BY CoordinatorAssumption DEF Thread
<1>2. CASE Start
  <2>1. \A s \in Session : at[s] = "none"
    BY <1>2 DEF Start, QuietWhenDown
  <2> QED
    BY <1>1, <1>2, <2>1 DEF Start, Load, Launch, Go, TypeOK, Thread, Durable, EngineIsAhead,
                            CopiesAreCurrent, RequestsAreKept, Busy
<1>3. CASE Down
  BY <1>1, <1>3 DEF Down, TypeOK, Thread, Durable, EngineIsAhead, CopiesAreCurrent, RequestsAreKept, Busy
<1>4. CASE Stop
  <2>1. \/ at' = [at EXCEPT ![Main] = "joining"]
        \/ at' = [at EXCEPT ![Main] = "sets"]
    BY <1>4, Zenon DEF Stop, BeginSave, Go
  <2>2. at[Main] = "up" /\ UNCHANGED <<applied, ledger, store, copy, request, acked, undisturbed>>
    BY <1>4 DEF Stop, engine, history
  <2> QED
    BY <1>1, <2>1, <2>2 DEF TypeOK, Durable, EngineIsAhead, CopiesAreCurrent, RequestsAreKept
<1>5. CASE AcceptorEnds \/ Drain
  BY <1>1, <1>5 DEF AcceptorEnds, Drain, Go, TypeOK, Durable, EngineIsAhead, CopiesAreCurrent,
                    RequestsAreKept, engine, history
<1>6. CASE Drained
  BY <1>1, <1>6 DEF Drained, BeginSave, Go, TypeOK, Durable, EngineIsAhead, CopiesAreCurrent,
                    RequestsAreKept, engine, server
<1>7. ASSUME NEW s \in Session, Release(s) PROVE Durable'
  BY <1>1, <1>7 DEF Release, BeginSave, Go, TypeOK, Durable, EngineIsAhead, CopiesAreCurrent,
                    RequestsAreKept, engine, history
<1> QED
  BY <1>2, <1>3, <1>4, <1>5, <1>6, <1>7

\* Every step of the coordinator keeps what an answer promises.
LEMMA NextDurable == IInv /\ Durable /\ [Next]_vars => Durable'
<1> SUFFICES ASSUME IInv, Durable, [Next]_vars PROVE Durable'
  OBVIOUS
<1>1. ASSUME NEW t \in Thread, Save(t) PROVE Durable'
  BY <1>1, ReadDurable, ReplaceDurable DEF Save
<1>2. ASSUME NEW s \in Session, Accept(s) \/ Serve(s) \/ Answer(s) \/ Refuse(s) PROVE Durable'
  <2>1. s \in Thread
    BY DEF Thread
  <2> QED
    BY <1>1, <1>2, <2>1, SessionDurable, MutateDurable DEF Serve
<1>3. CASE Start \/ Stop \/ AcceptorEnds \/ Shutdown \/ Down
  <2>1. Main \in Thread
    BY DEF Thread
  <2> QED
    BY <1>1, <1>3, <2>1, MainDurable DEF Shutdown
<1>4. CASE UNCHANGED vars
  BY <1>4 DEF vars, Durable, EngineIsAhead, CopiesAreCurrent, RequestsAreKept
<1> QED
  BY <1>2, <1>3, <1>4 DEF Next

\* As long as nothing is applied while another thread saves, an answered mutation
\* is in the store and in the engine that runs, through any crash and retry.
THEOREM UndisturbedSaves == Spec => []UndisturbedIsDurable
<1>1. Init => Durable
  BY CoordinatorAssumption
     DEF Init, Durable, EngineIsAhead, CopiesAreCurrent, RequestsAreKept, Nothing, Thread
<1>2. Durable => UndisturbedIsDurable
  BY DEF Durable, EngineIsAhead, UndisturbedIsDurable
<1> QED
  BY <1>1, <1>2, NextDurable, Invariant, PTL DEF Spec
=============================================================================
