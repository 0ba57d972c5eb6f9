------------------------------ MODULE Sessions ------------------------------
(***************************************************************************)
(* The sessions of the coordinator's server over the authority of its      *)
(* workers: which worker a session is bound to, and whom its end fences.   *)
(*                                                                         *)
(* A frame may name any worker. The engine's calls are the actions of      *)
(* Authority; the binding that follows them, or for reports precedes them, *)
(* is a step of its own, so that other sessions may come in between.       *)
(***************************************************************************)
EXTENDS Authority

CONSTANT Session    \* places for sessions: max_sessions

VARIABLES
  at,          \* where the thread of a session is
  bound,       \* the worker a session is bound to
  naming,      \* the worker that the request being handled names
  abandoned    \* history: boots whose session was bound to another boot

sessions == <<at, bound, naming, abandoned>>
allvars == <<vars, sessions>>

Worker == [publisher : Publisher, boot : Boot]
Nobody == [publisher |-> None, boot |-> None]
Named(p, b) == [publisher |-> p, boot |-> b]

SessionsInit ==
  /\ Init
  /\ at = [s \in Session |-> "none"] /\ bound = [s \in Session |-> Nobody]
  /\ naming = [s \in Session |-> Nobody] /\ abandoned = {}

Go(s, from, to) == at[s] = from /\ at' = [at EXCEPT ![s] = to]

\* Faulty: a session stays bound to the worker it named first.
BindFirst(s, w) == bound' = IF bound[s] = Nobody THEN [bound EXCEPT ![s] = w] ELSE bound

\* Session::bind
Bind(s, w) == bound' = [bound EXCEPT ![s] = w]

\* The boot it was bound to before is nobody's from now on.
Rebind(s, w) ==
  /\ Bind(s, w)
  /\ abandoned' = abandoned \cup ({bound[s].boot} \ {w.boot, None})

\* accept_loop, below the limit of sessions
Open(s) == Go(s, "none", "open") /\ UNCHANGED <<vars, bound, naming, abandoned>>

\* A registration that the engine has accepted.
Register(s, p, b, e) ==
  /\ Go(s, "open", "answered") /\ naming' = [naming EXCEPT ![s] = Named(p, b)]
  /\ RegisterPublisher(p, b, e)
  /\ UNCHANGED <<bound, abandoned>>

\* A mutation that the engine has accepted, carried out or answered as repeated.
MutateSet(s, p, b, e) ==
  /\ Go(s, "open", "answered") /\ naming' = [naming EXCEPT ![s] = Named(p, b)]
  /\ Mutate(p, b, e) \/ (MayMutate(p, b, e) /\ UNCHANGED vars)
  /\ UNCHANGED <<bound, abandoned>>

\* The session is bound to the worker of the request that was accepted.
BindAccepted(s) ==
  /\ Go(s, "answered", "open") /\ naming' = [naming EXCEPT ![s] = Nobody]
  /\ Rebind(s, naming[s])
  /\ UNCHANGED vars

\* A report binds the session before the engine has judged it.
BindReport(s, p, b) ==
  /\ Go(s, "open", "reporting") /\ Rebind(s, Named(p, b))
  /\ UNCHANGED <<vars, naming>>

Observe(s, e) ==
  LET w == bound[s] IN
  /\ Go(s, "reporting", "open")
  /\ Report(w.publisher, w.boot, e) \/ UNCHANGED vars
  /\ UNCHANGED <<bound, naming, abandoned>>

\* Requests that bind nobody: fences and epochs.
Administer(s) ==
  /\ at[s] = "open"
  /\ \/ \E p \in Publisher \cup {None}, b \in Boot : FenceWorker(p, b)
     \/ \E e \in Epoch : AdvanceEpoch(e)
  /\ UNCHANGED sessions

\* serve ends: the peer is gone, or a frame or an answer failed.
End(s) == Go(s, "open", "ended") /\ UNCHANGED <<vars, bound, naming, abandoned>>

\* retire: the worker the session is bound to is fenced.
Retire(s) ==
  /\ Go(s, "ended", "none") /\ bound' = [bound EXCEPT ![s] = Nobody]
  /\ IF bound[s] = Nobody THEN UNCHANGED vars ELSE FenceWorker(bound[s].publisher, bound[s].boot)
  /\ UNCHANGED <<naming, abandoned>>

SaveState == Save /\ UNCHANGED sessions

\* The process ends, with its sessions, and the next one recovers.
Reboot ==
  /\ Recover
  /\ at' = [s \in Session |-> "none"] /\ bound' = [s \in Session |-> Nobody]
  /\ naming' = [s \in Session |-> Nobody] /\ abandoned' = {}

SessionsNext ==
  \/ \E s \in Session, p \in Publisher, b \in Boot :
       \/ \E e \in Epoch : Register(s, p, b, e) \/ MutateSet(s, p, b, e)
       \/ BindReport(s, p, b)
  \/ \E s \in Session, e \in Epoch : Observe(s, e)
  \/ \E s \in Session : Open(s) \/ BindAccepted(s) \/ Administer(s) \/ End(s) \/ Retire(s)
  \/ SaveState \/ Reboot

SessionsSpec == SessionsInit /\ [][SessionsNext]_allvars

----------------------------------------------------------------------------

\* A session that has not yet fenced its worker is bound to the boot or about to be.
Attended(b) ==
  \E s \in Session : bound[s].boot = b \/ (at[s] = "answered" /\ naming[s].boot = b)

\* "A session that ends takes its worker authority with it" (retire): whoever may
\* still write or report has a session whose end will fence its boot, however
\* registrations, reports, reconnections and ends of sessions interleave. The
\* exception is a boot whose session named another one: the last one named is fenced
\* in its place, against "fences the worker boot that the session registered" (README).
WritersAreAttended ==
  \A p \in Publisher, b \in Boot : Speaks(p, b) => Attended(b) \/ b \in abandoned
=============================================================================
