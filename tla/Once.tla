-------------------------------- MODULE Once --------------------------------
(* What the attempt ledger promises: a request is not carried out again while *)
(* it is remembered, and a caller who hears of success can rely on an effect, *)
(* its own or one that was there before.                                      *)
EXTENDS Naturals

CONSTANT Requests

VARIABLES
  count,     \* how often each request was carried out
  memory,    \* the requests that are remembered
  settled,   \* the requests that found what they ask for in force
  heard      \* the requests whose caller was told of success

vars == <<count, memory, settled, heard>>

Init == count = [r \in Requests |-> 0] /\ memory = {} /\ settled = {} /\ heard = {}

\* A request is remembered; for it, at most one other is forgotten.
Remember(r) == \E q \in Requests : memory' = (memory \ {q}) \cup {r}

\* A request is carried out and remembered.
Do(r) ==
  /\ r \notin memory
  /\ count' = [count EXCEPT ![r] = @ + 1]
  /\ Remember(r)
  /\ UNCHANGED <<settled, heard>>

\* There is nothing to carry out for a request; it may be remembered.
Settle(r) ==
  /\ r \notin memory
  /\ settled' = settled \cup {r}
  /\ Remember(r) \/ UNCHANGED memory
  /\ UNCHANGED <<count, heard>>

Hear(r) ==
  /\ count[r] > 0 \/ r \in settled
  /\ heard' = heard \cup {r}
  /\ UNCHANGED <<count, memory, settled>>

Next == \E r \in Requests : Do(r) \/ Settle(r) \/ Hear(r)

Spec == Init /\ [][Next]_vars
=============================================================================
