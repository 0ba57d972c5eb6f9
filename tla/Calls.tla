-------------------------------- MODULE Calls --------------------------------
(***************************************************************************)
(* A client calls the coordinator, gives up, reconnects and retries; the    *)
(* sessions of its connections look attempts up in the bounded ledger and   *)
(* record what they carry out.                                              *)
(*                                                                         *)
(* A request names its attempt and its payload, which the digest stands     *)
(* for, the locks the engine takes for it (the mutex of its set, or the     *)
(* whole registry when it creates one), and whether it may find what it     *)
(* asks for in force already, as set_member_enabled and the lifecycle       *)
(* requests do. Saving is left to Coordinator: a restart here follows a     *)
(* clean stop, with everything stored.                                      *)
(***************************************************************************)
EXTENDS Naturals, Sequences, FiniteSets

CONSTANTS
  Requests,        \* [attempt, payload, locks, kind] of what the client may ask for
  Bound,           \* max_attempt_ledger_entries
  MaxConns,        \* bound: connections of the client
  MaxCalls,        \* bound: its calls
  MaxRestarts      \* bound: restarts of the coordinator

ASSUME RequestsAssumption ==
  \A r \in Requests :
    r.attempt \in Nat /\ r.locks # {} /\ r.kind \in {"change", "enable", "lifecycle"}
ASSUME BoundAssumption == Bound \in Nat \ {0}
ASSUME CapsAssumption == MaxConns \in Nat /\ MaxCalls \in Nat /\ MaxRestarts \in Nat

VARIABLES
  conn,        \* the connection made last
  linked,      \* the client's socket is valid
  asked,       \* the request it is calling with, or Nothing
  up, down,    \* per connection: frames on the way to and from the coordinator
  open,        \* per connection: its session serves it
  work,        \* per connection: what its thread does
  ledger,      \* attempts on record, with what they were used for
  order,       \* ledger_order
  calls, restarts,
  count,       \* history: how often each request was carried out
  settled,     \* history: requests that found what they ask for in force
  heard,       \* history: requests answered with success on a sound connection
  failed,      \* history: a call has failed on the connection made last
  since,       \* history: new attempts recorded since an attempt was
  imported     \* history: attempts that a restart put on record

client == <<conn, linked, asked, calls, heard, failed>>
memory == <<ledger, order, count, settled, since, imported>>
vars == <<client, up, down, open, work, memory, restarts>>

Conns == 1..MaxConns
Nothing == [attempt |-> 0, payload |-> "", locks |-> {}, kind |-> "change"]
Attempts == {r.attempt : r \in Requests}

Success == {"Committed", "Idempotent", "NoOp"}
Codes == Success \cup {"AttemptConflict", "Refused", "SessionLimit"}
Replies == [to : Requests \cup {Nothing}, code : Codes]
Refusal == [to |-> Nothing, code |-> "SessionLimit"]

Idle == [at |-> "idle", request |-> Nothing, code |-> "Refused"]
Asked(r) == [at |-> "waiting", request |-> r, code |-> "Refused"]

\* The threads inside a mutation, between taking and giving back its locks.
Inside == {c \in Conns : work[c].at \in {"locked", "missed"}}

TypeOK ==
  /\ conn \in 0..MaxConns /\ linked \in BOOLEAN /\ failed \in BOOLEAN
  /\ asked \in Requests \cup {Nothing}
  /\ up \in [Conns -> Seq(Requests)] /\ down \in [Conns -> Seq(Replies)]
  /\ open \in [Conns -> BOOLEAN]
  /\ work \in [Conns -> [at : {"idle", "waiting", "locked", "missed", "answering"},
                         request : Requests \cup {Nothing}, code : Codes]]
  /\ DOMAIN ledger \subseteq Attempts /\ \A a \in DOMAIN ledger : ledger[a] \in Requests
  /\ order \in Seq(Attempts) /\ Len(order) <= Bound
  /\ calls \in 0..MaxCalls /\ restarts \in 0..MaxRestarts
  /\ count \in [Requests -> Nat] /\ heard \subseteq Requests /\ settled \subseteq Requests
  /\ DOMAIN since \subseteq Attempts /\ \A a \in DOMAIN since : since[a] \in Nat
  /\ imported \subseteq Attempts

Init ==
  /\ conn = 0 /\ linked = FALSE /\ asked = Nothing /\ calls = 0 /\ restarts = 0
  /\ up = [c \in Conns |-> <<>>] /\ down = [c \in Conns |-> <<>>]
  /\ open = [c \in Conns |-> FALSE] /\ work = [c \in Conns |-> Idle]
  /\ ledger = <<>> /\ order = <<>>
  /\ count = [r \in Requests |-> 0] /\ settled = {} /\ heard = {} /\ failed = FALSE
  /\ since = <<>> /\ imported = {}

----------------------------------------------------------------------------
(* The client.                                                              *)

\* Client::connect: the old socket is closed; the coordinator serves the new one or,
\* at its limit of sessions, says so and closes it.
Connect ==
  /\ asked = Nothing /\ conn < MaxConns
  /\ conn' = conn + 1 /\ linked' = TRUE /\ failed' = FALSE
  /\ \/ open' = [open EXCEPT ![conn + 1] = TRUE] /\ UNCHANGED down
     \/ down' = [down EXCEPT ![conn + 1] = <<Refusal>>] /\ UNCHANGED open
  /\ UNCHANGED <<asked, calls, heard, up, work, memory, restarts>>

\* Client::close, or a connect that fails.
Close ==
  /\ asked = Nothing /\ linked
  /\ linked' = FALSE
  /\ UNCHANGED <<conn, asked, calls, heard, failed, up, down, open, work, memory, restarts>>

\* Faulty: a frame that may not have gone out is put on the wire again.
SentAgain(r) == IF open[conn] THEN [up EXCEPT ![conn] = @ \o <<r, r>>] ELSE up

\* The frame of a request goes out, if somebody is there to take it.
Sent(r) == IF open[conn] THEN [up EXCEPT ![conn] = Append(@, r)] ELSE up

\* Client::call sends; the answer or the end of the wait is a step of its own.
Call(r) ==
  /\ linked /\ asked = Nothing /\ calls < MaxCalls
  /\ asked' = r /\ calls' = calls + 1
  /\ up' = Sent(r)
  /\ UNCHANGED <<conn, linked, heard, failed, down, open, work, memory, restarts>>

\* Client::receive returns the first frame there is; what came in the same read
\* behind it is gone with the buffer.
Receive ==
  /\ asked # Nothing /\ down[conn] # <<>>
  /\ \E n \in 1..Len(down[conn]) : down' = [down EXCEPT ![conn] = SubSeq(@, n + 1, Len(@))]
  /\ asked' = Nothing
  /\ heard' = IF ~failed /\ Head(down[conn]).code \in Success THEN heard \cup {asked} ELSE heard
  /\ UNCHANGED <<conn, linked, calls, failed, up, open, work, memory, restarts>>

\* The send or the read fails or times out; the socket stays.
Fail ==
  /\ asked # Nothing
  /\ asked' = Nothing /\ failed' = TRUE
  /\ UNCHANGED <<conn, linked, calls, heard, up, down, open, work, memory, restarts>>

----------------------------------------------------------------------------
(* The session of a connection.                                             *)

Take(c) ==
  /\ open[c] /\ work[c].at = "idle" /\ up[c] # <<>>
  /\ up' = [up EXCEPT ![c] = Tail(@)]
  /\ work' = [work EXCEPT ![c] = Asked(Head(up[c]))]
  /\ UNCHANGED <<client, down, open, memory, restarts>>

\* Faulty: no lock is held from the lookup to the record.
FreeAlways(r) == TRUE

Free(r) == \A d \in Inside : work[d].request.locks \cap r.locks = {}

\* The locks of the request are taken.
Lock(c) ==
  /\ work[c].at = "waiting" /\ Free(work[c].request)
  /\ work' = [work EXCEPT ![c].at = "locked"]
  /\ UNCHANGED <<client, up, down, open, memory, restarts>>

\* lookup_attempt, lookup_attempt_any
OnRecord(r) == r.attempt \in DOMAIN ledger
Verdict(r) == IF ledger[r.attempt] = r THEN "Idempotent" ELSE "AttemptConflict"

Lookup(c) ==
  LET r == work[c].request IN
  /\ work[c].at = "locked"
  /\ work' = [work EXCEPT ![c] = IF OnRecord(r)
                                 THEN [@ EXCEPT !.at = "answering", !.code = Verdict(r)]
                                 ELSE [@ EXCEPT !.at = "missed"]]
  /\ UNCHANGED <<client, up, down, open, memory, restarts>>

\* Authority and lifecycle are checked before the lookup, expected generations, the
\* request itself and the evaluation after it.
Refuse(c) ==
  /\ c \in Inside
  /\ work' = [work EXCEPT ![c].at = "answering", ![c].code = "Refused"]
  /\ UNCHANGED <<client, up, down, open, memory, restarts>>

\* Faulty: nothing is evicted; the first goes when the bound is reached.
KeptAll(o) == o
KeptFewer(o) == IF Len(o) >= Bound THEN Tail(o) ELSE o

\* record_attempt: an attempt on record keeps its place; a new one comes last, and
\* the first goes while there are more than the bound.
Kept(o) == IF Len(o) > Bound THEN Tail(o) ELSE o

NewOrder(r) == IF OnRecord(r) THEN order ELSE Kept(Append(order, r.attempt))

Record(r) ==
  LET kept == {NewOrder(r)[i] : i \in 1..Len(NewOrder(r))} IN
  /\ order' = NewOrder(r)
  /\ ledger' = [a \in kept |-> IF a = r.attempt THEN r ELSE ledger[a]]
  /\ since' = IF OnRecord(r) THEN since
              ELSE [a \in DOMAIN since \cup {r.attempt} |->
                      IF a = r.attempt THEN 0 ELSE since[a] + 1]
  /\ imported' = IF OnRecord(r) THEN imported ELSE imported \ {r.attempt}

\* The set is published and the attempt recorded under the locks of the request.
Commit(c) ==
  /\ work[c].at = "missed"
  /\ count' = [count EXCEPT ![work[c].request] = @ + 1]
  /\ Record(work[c].request)
  /\ work' = [work EXCEPT ![c].at = "answering", ![c].code = "Committed"]
  /\ UNCHANGED <<client, up, down, open, settled, restarts>>

\* set_member_enabled finds the member as it should be: the set is evaluated and
\* published as it is, and the attempt is not recorded.
NoChange(c) ==
  /\ work[c].at = "missed" /\ work[c].request.kind = "enable"
  /\ settled' = settled \cup {work[c].request}
  /\ work' = [work EXCEPT ![c].at = "answering", ![c].code = "NoOp"]
  /\ UNCHANGED <<client, up, down, open, ledger, order, count, since, imported, restarts>>

\* apply_lifecycle finds the set where it should go: the attempt is recorded, and
\* nothing is published.
InForce(c) ==
  /\ work[c].at = "missed" /\ work[c].request.kind = "lifecycle"
  /\ settled' = settled \cup {work[c].request}
  /\ Record(work[c].request)
  /\ work' = [work EXCEPT ![c].at = "answering", ![c].code = "Idempotent"]
  /\ UNCHANGED <<client, up, down, open, count, restarts>>

Answer(c) ==
  /\ work[c].at = "answering"
  /\ down' = [down EXCEPT ![c] = Append(@, [to |-> work[c].request, code |-> work[c].code])]
  /\ work' = [work EXCEPT ![c] = Idle]
  /\ UNCHANGED <<client, up, open, memory, restarts>>

\* The session ends between two frames or with its answer unsent; what is still on
\* the way to it is lost.
End(c) ==
  /\ open[c] /\ work[c].at \in {"idle", "answering"}
  /\ open' = [open EXCEPT ![c] = FALSE]
  /\ up' = [up EXCEPT ![c] = <<>>]
  /\ work' = [work EXCEPT ![c] = Idle]
  /\ UNCHANGED <<client, down, memory, restarts>>

----------------------------------------------------------------------------
(* A clean stop and start.                                                  *)

\* export_state walks the ledger by attempt identity.
ByIdentity(S) ==
  {o \in [1..Cardinality(S) -> S] :
     /\ \A i, j \in DOMAIN o : i < j => o[i] < o[j]
     /\ \A a \in S : \E i \in DOMAIN o : o[i] = a}

\* import_state puts the attempts on record in the order of the store.
Restart ==
  /\ restarts < MaxRestarts /\ \A c \in Conns : ~open[c] /\ work[c] = Idle
  /\ restarts' = restarts + 1
  /\ order' \in ByIdentity(DOMAIN ledger)
  /\ imported' = imported \cup DOMAIN ledger
  /\ UNCHANGED <<client, up, down, open, work, ledger, count, settled, since>>

Next ==
  \/ Connect \/ Close \/ Receive \/ Fail \/ Restart
  \/ \E r \in Requests : Call(r)
  \/ \E c \in Conns : \/ Take(c) \/ Lock(c) \/ Lookup(c) \/ Refuse(c)
                      \/ Commit(c) \/ NoChange(c) \/ InForce(c) \/ Answer(c) \/ End(c)

Spec == Init /\ [][Next]_vars

----------------------------------------------------------------------------

\* "Sends one frame and returns the reply" (net.hpp): while no call has failed on a
\* connection, the frame that a call there returns answers its own request, or is the
\* refusal of the connection itself. After a failure the answer of the earlier request
\* may still come, and the next call returns it.
RepliesAreOwn ==
  asked # Nothing /\ ~failed /\ down[conn] # <<>> =>
    Head(down[conn]).to = asked \/ Head(down[conn]) = Refusal

\* A retry is safe for a known time: an attempt recorded by this process stays on
\* record until as many new attempts as the ledger holds were recorded after it. For
\* attempts that a restart put on record this does not hold: see `ByIdentity`.
RetryWindow ==
  \A a \in DOMAIN since \ imported : since[a] < Bound => a \in DOMAIN ledger

\* The requests that the ledger would answer as repeated.
Remembered == {r \in Requests : r.attempt \in DOMAIN ledger /\ ledger[r.attempt] = r}

Promise == INSTANCE Once WITH memory <- Remembered

\* The sessions, however they interleave with retries of the same attempt on other
\* connections and with restarts, keep what Once promises: no request is carried out
\* again while it is on record, and success is heard only of what was carried out or
\* was in force already.
OnceOnly == Promise!Spec
=============================================================================
