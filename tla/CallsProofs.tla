---------------------------- MODULE CallsProofs ----------------------------
(***************************************************************************)
(* For any requests, any bound of the ledger and any number of             *)
(* connections, calls and restarts: the sessions keep what Once promises,  *)
(* replies are those of their calls, and attempts stay on record for the   *)
(* window of retries.                                                      *)
(***************************************************************************)
EXTENDS Calls, FiniteSetTheorems, TLAPS

Held(c) == work[c].request.locks

\* Two threads inside mutations hold different locks.
LocksApart == \A c, d \in Inside : c # d => Held(c) \cap Held(d) = {}

\* A thread past the lookup carries out a request that is not remembered.
MissedIsUnknown == \A c \in Conns : work[c].at = "missed" => work[c].request \notin Remembered

\* The requests that were carried out or found to be in force.
Served == {r \in Requests : count[r] > 0 \/ r \in settled}

\* Whatever says that a request was served is right.
RecordsAreTrue ==
  /\ \A a \in DOMAIN ledger : ledger[a].attempt = a /\ ledger[a] \in Served
  /\ \A c \in Conns : work[c].at = "answering" /\ work[c].code \in Success => work[c].request \in Served
  /\ \A c \in Conns : \A i \in 1..Len(down[c]) :
       down[c][i].code \in Success => down[c][i].to \in Served

\* A thread that is not idle has a request, and no call is of nothing.
BusyHasRequest == \A c \in Conns : work[c].at # "idle" => work[c].request \in Requests

\* A connection that carries nothing.
Empty(c) == up[c] = <<>> /\ down[c] = <<>> /\ work[c].at = "idle"

\* On a connection where no call has failed there is at most the request of the
\* call, in one place, or its reply; a refused connection has the refusal only.
OneAtATime ==
  /\ linked => conn \in Conns
  /\ asked # Nothing => conn \in Conns
  /\ \A c \in Conns : c > conn => Empty(c) /\ ~open[c]
  /\ conn \in Conns /\ ~failed =>
       \/ Empty(conn)
       \/ up[conn] = <<>> /\ down[conn] = <<Refusal>> /\ work[conn].at = "idle" /\ ~open[conn]
       \/ /\ asked # Nothing
          /\ \/ up[conn] = <<asked>> /\ down[conn] = <<>> /\ work[conn].at = "idle"
             \/ up[conn] = <<>> /\ down[conn] = <<>> /\ work[conn].request = asked
             \/ /\ up[conn] = <<>> /\ work[conn].at = "idle"
                /\ \E code \in Codes : down[conn] = <<[to |-> asked, code |-> code]>>

\* ledger_order holds each attempt on record once, the earliest first.
OrderIsLedger ==
  /\ {order[i] : i \in 1..Len(order)} = DOMAIN ledger
  /\ \A i, j \in 1..Len(order) : order[i] = order[j] => i = j
  /\ \A i \in 1..Len(order) : order[i] \notin imported =>
       order[i] \in DOMAIN since /\ since[order[i]] = Len(order) - i

IInv ==
  /\ TypeOK /\ LocksApart /\ MissedIsUnknown /\ RecordsAreTrue /\ BusyHasRequest
  /\ OneAtATime /\ OrderIsLedger /\ RetryWindow

\* Nobody calls with nothing.
LEMMA NothingIsNoRequest == Nothing \notin Requests
BY RequestsAssumption DEF Nothing

\* At the start there is no connection and nothing on record.
LEMMA InitInv == Init => IInv
<1> SUFFICES ASSUME Init PROVE IInv
  OBVIOUS
<1>1. TypeOK
  <2>1. /\ up \in [Conns -> Seq(Requests)] /\ down \in [Conns -> Seq(Replies)]
        /\ order \in Seq(Attempts) /\ Len(order) <= Bound
    BY BoundAssumption DEF Init
  <2>2. Idle \in [at : {"idle", "waiting", "locked", "missed", "answering"},
                  request : Requests \cup {Nothing}, code : Codes]
    BY DEF Idle, Codes
  <2>3. DOMAIN ledger = {} /\ DOMAIN since = {}
    BY DEF Init
  <2>4. /\ conn \in 0..MaxConns /\ calls \in 0..MaxCalls /\ restarts \in 0..MaxRestarts
        /\ count \in [Requests -> Nat]
    BY CapsAssumption DEF Init
  <2> QED
    BY <2>1, <2>2, <2>3, <2>4 DEF Init, TypeOK
<1>2. LocksApart /\ MissedIsUnknown /\ BusyHasRequest
  BY DEF Init, Idle, Inside, LocksApart, MissedIsUnknown, BusyHasRequest
<1>3. RecordsAreTrue
  BY DEF Init, Idle, RecordsAreTrue
<1>4. OneAtATime
  BY CapsAssumption DEF Init, OneAtATime, Empty, Idle, Conns
<1>5. OrderIsLedger /\ RetryWindow
  BY DEF Init, OrderIsLedger, RetryWindow
<1> QED
  BY <1>1, <1>2, <1>3, <1>4, <1>5 DEF IInv

\* A step that leaves the ledger and its history alone keeps what is said of them.
LEMMA MemoryKept ==
  ASSUME IInv, UNCHANGED memory
  PROVE  OrderIsLedger' /\ RetryWindow' /\ Remembered' = Remembered /\ Served' = Served
BY DEF IInv, OrderIsLedger, RetryWindow, Remembered, Served, memory

\* A step of the client alone keeps what is said of the threads.
LEMMA ThreadsKept ==
  ASSUME IInv, UNCHANGED <<work, memory>>
  PROVE  LocksApart' /\ MissedIsUnknown' /\ BusyHasRequest'
BY MemoryKept
   DEF IInv, LocksApart, MissedIsUnknown, BusyHasRequest, Inside, Held, memory

\* The client's steps bring nothing on record and answer nobody.
LEMMA ConnectInv == IInv /\ Connect => IInv'
<1> SUFFICES ASSUME IInv, Connect PROVE IInv'
  OBVIOUS
<1> USE DEF IInv
<1>1. UNCHANGED <<work, memory>> /\ conn + 1 \in Conns /\ conn \in Nat /\ ~open[conn + 1] /\ Empty(conn + 1)
  BY CapsAssumption DEF Connect, TypeOK, Conns, OneAtATime
<1>2. Refusal \in Replies
  BY DEF Refusal, Replies, Codes
<1>3. down' \in [Conns -> Seq(Replies)]
  <2>1. <<Refusal>> \in Seq(Replies)
    BY <1>2
  <2>2. down' = down \/ down' = [down EXCEPT ![conn + 1] = <<Refusal>>]
    BY DEF Connect
  <2> QED
    BY <2>1, <2>2 DEF TypeOK
<1>4. open' \in [Conns -> BOOLEAN]
  BY DEF Connect, TypeOK
<1>5. TypeOK'
  <2>1. conn' \in 0..MaxConns /\ linked' \in BOOLEAN /\ failed' \in BOOLEAN
    <3>1. conn' = conn + 1 /\ linked' = TRUE /\ failed' = FALSE
      BY DEF Connect
    <3>2. conn + 1 \in 0..MaxConns
      BY <1>1, CapsAssumption DEF Conns
    <3> QED
      BY <3>1, <3>2
  <2>2. UNCHANGED <<asked, calls, heard, up, restarts>>
    BY DEF Connect
  <2> QED
    BY <1>1, <1>3, <1>4, <2>1, <2>2 DEF TypeOK, memory
<1>6. RecordsAreTrue'
  <2>1. \A c \in Conns : down'[c] = down[c] \/ down'[c] = <<Refusal>>
    BY DEF Connect, TypeOK
  <2>2. Refusal.code \notin Success
    BY DEF Refusal, Success
  <2>3. \A c \in Conns : \A i \in 1..Len(down'[c]) :
          down'[c][i].code \in Success => down'[c][i].to \in Served
    BY <2>1, <2>2 DEF RecordsAreTrue
  <2> QED
    BY <1>1, <2>3 DEF RecordsAreTrue, memory, Served
<1>7. OneAtATime'
  <2>1. \A c \in Conns : c > conn + 1 => Empty(c)' /\ ~open'[c]
    <3>1. \A c \in Conns : c > conn + 1 => c > conn /\ c # conn + 1
      BY <1>1 DEF Conns
    <3>2. \A c \in Conns : c # conn + 1 => up'[c] = up[c] /\ down'[c] = down[c] /\ open'[c] = open[c]
      BY DEF Connect, TypeOK
    <3> QED
      BY <1>1, <3>1, <3>2 DEF OneAtATime, Empty
  <2>2. CASE open' = [open EXCEPT ![conn + 1] = TRUE] /\ down' = down
    BY <1>1, <2>1, <2>2 DEF Connect, OneAtATime, Empty
  <2>3. CASE down' = [down EXCEPT ![conn + 1] = <<Refusal>>] /\ open' = open
    <3>1. down'[conn + 1] = <<Refusal>>
      BY <1>1, <2>3 DEF TypeOK
    <3> QED
      BY <1>1, <2>1, <2>3, <3>1 DEF Connect, OneAtATime, Empty
  <2> QED
    BY <2>2, <2>3 DEF Connect
<1> QED
  BY <1>1, <1>5, <1>6, <1>7, MemoryKept, ThreadsKept

\* A socket given up leaves what is still on its way to be served or lost.
LEMMA CloseInv == IInv /\ Close => IInv'
<1> SUFFICES ASSUME IInv, Close PROVE IInv'
  OBVIOUS
<1> USE DEF IInv
<1>1. UNCHANGED <<work, memory>>
  BY DEF Close
<1>2. TypeOK'
  BY DEF Close, TypeOK, memory
<1>3. RecordsAreTrue' /\ OneAtATime'
  BY DEF Close, RecordsAreTrue, OneAtATime, Empty, memory, Served
<1> QED
  BY <1>1, <1>2, <1>3, MemoryKept, ThreadsKept

\* A call on a sound connection finds it empty.
LEMMA CallInv == ASSUME IInv, NEW r \in Requests, Call(r) PROVE IInv'
<1> USE DEF IInv
<1>1. UNCHANGED <<work, memory>> /\ conn \in Conns
  BY DEF Call, OneAtATime
<1>2. TypeOK'
  <2>1. up' \in [Conns -> Seq(Requests)]
    <3>1. Append(up[conn], r) \in Seq(Requests)
      BY <1>1 DEF TypeOK
    <3>2. up' = up \/ up' = [up EXCEPT ![conn] = Append(up[conn], r)]
      BY DEF Call, Sent
    <3> QED
      BY <3>1, <3>2 DEF TypeOK
  <2>2. calls' \in 0..MaxCalls
    BY CapsAssumption DEF Call, TypeOK
  <2>3. UNCHANGED <<conn, linked, heard, failed, down, open, restarts>> /\ asked' = r
    BY DEF Call
  <2> QED
    BY <1>1, <2>1, <2>2, <2>3 DEF TypeOK, memory
<1>3. RecordsAreTrue'
  BY DEF Call, RecordsAreTrue, memory, Served
<1>4. r # Nothing
  BY NothingIsNoRequest
<1>5. OneAtATime'
  <2>1. \A c \in Conns \ {conn} : up'[c] = up[c]
    BY DEF Call, Sent, TypeOK
  <2>2. up'[conn] = IF open[conn] THEN Append(up[conn], r) ELSE up[conn]
    BY <1>1 DEF Call, Sent, TypeOK
  <2>3. up[conn] = <<>> => Append(up[conn], r) = <<r>>
    BY DEF TypeOK
  <2>4. /\ asked = Nothing /\ asked' = r /\ conn \in Nat
        /\ UNCHANGED <<conn, linked, failed, down, open, work>>
    BY DEF Call, TypeOK
  <2> QED
    BY <1>1, <1>4, <2>1, <2>2, <2>3, <2>4 DEF OneAtATime, Empty, Conns
<1> QED
  BY <1>1, <1>2, <1>3, <1>5, MemoryKept, ThreadsKept

\* What a call on a sound connection hears is its own reply, so success is heard
\* only of a request that was carried out.
LEMMA HeardIsTrue ==
  ASSUME IInv, asked # Nothing, down[conn] # <<>>, ~failed, Head(down[conn]).code \in Success
  PROVE  Head(down[conn]).to = asked /\ asked \in Requests /\ asked \in Served
<1>1. conn \in Conns /\ asked \in Requests
  BY DEF IInv, TypeOK, OneAtATime
<1>2. down[conn] \in Seq(Replies)
  BY <1>1 DEF IInv, TypeOK
<1>3. 1 \in 1..Len(down[conn]) /\ Head(down[conn]) = down[conn][1]
  BY <1>2
<1>4. Head(down[conn]).to \in Served
  BY <1>1, <1>3 DEF IInv, RecordsAreTrue
<1>5. Head(down[conn]).to = asked
  <2>1. CASE down[conn] = <<Refusal>>
    BY <2>1 DEF Refusal, Success
  <2>2. CASE \E code \in Codes : down[conn] = <<[to |-> asked, code |-> code]>>
    BY <2>2
  <2> QED
    BY <1>1, <2>1, <2>2 DEF IInv, OneAtATime, Empty
<1> QED
  BY <1>1, <1>4, <1>5

\* The frame that ends a call on a sound connection is all there was on it.
LEMMA ReceiveInv == IInv /\ Receive => IInv'
<1> SUFFICES ASSUME IInv, Receive PROVE IInv'
  OBVIOUS
<1> USE DEF IInv
<1>1. /\ UNCHANGED <<work, memory>> /\ conn \in Conns /\ asked \in Requests
      /\ UNCHANGED <<conn, linked, calls, failed, up, open, restarts>> /\ asked' = Nothing
  BY DEF Receive, OneAtATime, TypeOK
<1>2. PICK n \in 1..Len(down[conn]) :
        down' = [down EXCEPT ![conn] = SubSeq(down[conn], n + 1, Len(down[conn]))]
  BY DEF Receive
<1>3. down[conn] \in Seq(Replies) /\ n \in Nat /\ Len(down[conn]) \in Nat
  BY <1>1 DEF TypeOK
<1> DEFINE s == down[conn]
           t == SubSeq(s, n + 1, Len(s))
<1>4. t \in Seq(Replies) /\ Len(t) = Len(s) - n /\ \A i \in 1..Len(t) : i + n \in 1..Len(s) /\ t[i] = s[i + n]
  <2>1. n + 1 \in 1..(Len(s) + 1)
    BY <1>3
  <2> QED
    BY <1>3, <2>1
<1>5. down' = [down EXCEPT ![conn] = t] /\ down'[conn] = t /\ \A c \in Conns \ {conn} : down'[c] = down[c]
  BY <1>1, <1>2 DEF TypeOK
<1> HIDE DEF s, t
<1>6. TypeOK'
  <2>1. down' \in [Conns -> Seq(Replies)]
    BY <1>1, <1>4, <1>5 DEF TypeOK
  <2>2. heard' \subseteq Requests
    BY <1>1 DEF Receive, TypeOK
  <2> QED
    BY <1>1, <2>1, <2>2 DEF TypeOK, memory
<1>7. RecordsAreTrue'
  <2>1. \A c \in Conns : \A i \in 1..Len(down'[c]) :
          down'[c][i].code \in Success => down'[c][i].to \in Served
    <3>1. \A c \in Conns : \A i \in 1..Len(down[c]) :
            down[c][i].code \in Success => down[c][i].to \in Served
      BY DEF RecordsAreTrue
    <3>2. \A i \in 1..Len(s) : s[i].code \in Success => s[i].to \in Served
      BY <1>1, <3>1 DEF s
    <3>3. \A i \in 1..Len(t) : t[i].code \in Success => t[i].to \in Served
      BY <1>4, <3>2
    <3>4. UNCHANGED count
      BY <1>1 DEF memory
    <3> QED
      BY <1>5, <3>1, <3>3, <3>4
  <2> QED
    BY <1>1, <2>1 DEF RecordsAreTrue, memory, Served
<1>8. OneAtATime'
  <2>1. Len(s) = 1 => t = <<>>
    BY <1>3, <1>4 DEF s
  <2>2. Len(s) \in Nat \ {0} /\ s # <<>>
    BY <1>1, <1>3 DEF s
  <2>3. ~failed => Empty(conn)'
    <3> SUFFICES ASSUME ~failed PROVE Empty(conn)'
      OBVIOUS
    <3>1. up[conn] = <<>> /\ work[conn].at = "idle" /\ Len(s) = 1
      <4>1. CASE s = <<Refusal>> /\ up[conn] = <<>> /\ work[conn].at = "idle"
        BY <4>1
      <4>2. CASE /\ up[conn] = <<>> /\ work[conn].at = "idle"
                 /\ \E code \in Codes : s = <<[to |-> asked, code |-> code]>>
        BY <4>2
      <4> QED
        BY <1>1, <2>2, <4>1, <4>2 DEF OneAtATime, Empty, s
    <3> QED
      BY <1>1, <1>5, <2>1, <3>1 DEF Empty
  <2>4. \A c \in Conns : c > conn => c # conn
    BY <1>1 DEF Conns
  <2> QED
    BY <1>1, <1>5, <2>3, <2>4 DEF OneAtATime, Empty
<1> QED
  BY <1>1, <1>6, <1>7, <1>8, MemoryKept, ThreadsKept

\* After a failure nothing is said of what the connection carries.
LEMMA FailInv == IInv /\ Fail => IInv'
<1> SUFFICES ASSUME IInv, Fail PROVE IInv'
  OBVIOUS
<1> USE DEF IInv
<1>1. /\ UNCHANGED <<work, memory, conn, linked, calls, heard, up, down, open, restarts>>
      /\ asked' = Nothing /\ failed' = TRUE
  BY DEF Fail
<1>2. TypeOK'
  BY <1>1 DEF TypeOK, memory
<1>3. RecordsAreTrue' /\ OneAtATime'
  BY <1>1 DEF RecordsAreTrue, OneAtATime, Empty, memory, Served
<1> QED
  BY <1>1, <1>2, <1>3, MemoryKept, ThreadsKept

Tasks == [at : {"idle", "waiting", "locked", "missed", "answering"},
          request : Requests \cup {Nothing}, code : Codes]

\* A step of one thread leaves the others where they are.
LEMMA OthersKept ==
  ASSUME IInv, NEW c \in Conns, NEW w \in Tasks, work' = [work EXCEPT ![c] = w]
  PROVE  work'[c] = w /\ work' \in [Conns -> Tasks] /\ \A d \in Conns \ {c} : work'[d] = work[d]
BY DEF IInv, TypeOK, Tasks

\* A thread that has something to do belongs to a connection that was made.
LEMMA ThreadOfConnection ==
  ASSUME IInv, NEW c \in Conns, open[c] \/ work[c].at # "idle"
  PROVE  conn \in Conns /\ c <= conn
BY DEF IInv, TypeOK, OneAtATime, Empty, Conns

\* A session takes the next frame that has arrived.
LEMMA TakeInv == ASSUME IInv, NEW c \in Conns, Take(c) PROVE IInv'
<1> USE DEF IInv
<1> DEFINE r == Head(up[c])
           w == Asked(r)
<1>1. /\ UNCHANGED <<client, down, open, memory, restarts>>
      /\ open[c] /\ work[c].at = "idle" /\ up[c] # <<>>
      /\ work' = [work EXCEPT ![c] = w] /\ up' = [up EXCEPT ![c] = Tail(up[c])]
  BY DEF Take, Asked
<1>2. up[c] \in Seq(Requests) /\ r \in Requests /\ Tail(up[c]) \in Seq(Requests)
  BY <1>1 DEF TypeOK
<1>3. w \in Tasks /\ w.at = "waiting" /\ w.request = r
  BY <1>2 DEF Asked, Tasks, Codes
<1> HIDE DEF w
<1>4. work'[c] = w /\ work' \in [Conns -> Tasks] /\ \A d \in Conns \ {c} : work'[d] = work[d]
  BY <1>1, <1>3, OthersKept
<1>5. up'[c] = Tail(up[c]) /\ \A d \in Conns \ {c} : up'[d] = up[d]
  BY <1>1 DEF TypeOK
<1>6. TypeOK'
  <2>1. up' \in [Conns -> Seq(Requests)]
    BY <1>1, <1>2 DEF TypeOK
  <2> QED
    BY <1>1, <1>4, <2>1 DEF TypeOK, Tasks, client, memory
<1>7. LocksApart' /\ MissedIsUnknown' /\ BusyHasRequest'
  BY <1>1, <1>2, <1>3, <1>4, MemoryKept
     DEF LocksApart, MissedIsUnknown, BusyHasRequest, Inside, Held
<1>8. RecordsAreTrue'
  BY <1>1, <1>3, <1>4 DEF RecordsAreTrue, memory, Served
<1>9. OneAtATime'
  <2>1. conn \in Conns /\ c <= conn
    BY <1>1, ThreadOfConnection
  <2>2. \A d \in Conns : d > conn => d # c
    BY <2>1 DEF Conns
  <2>3. CASE c # conn
    BY <1>1, <1>3, <1>4, <1>5, <2>1, <2>2, <2>3 DEF OneAtATime, Empty, client
  <2>4. CASE c = conn /\ ~failed
    <3>1. asked # Nothing /\ up[c] = <<asked>> /\ down[c] = <<>>
      BY <1>1, <2>1, <2>4 DEF OneAtATime, Empty
    <3>2. up'[c] = <<>> /\ r = asked
      BY <1>5, <3>1
    <3> QED
      BY <1>1, <1>3, <1>4, <1>5, <2>1, <2>2, <2>4, <3>1, <3>2 DEF OneAtATime, Empty, client
  <2>5. CASE failed
    BY <1>1, <1>3, <1>4, <1>5, <2>1, <2>2, <2>5 DEF OneAtATime, Empty, client
  <2> QED
    BY <2>3, <2>4, <2>5
<1> QED
  BY <1>1, <1>6, <1>7, <1>8, <1>9, MemoryKept

\* A thread with a request goes on with the same request, and sends nothing yet.
LEMMA GoOn ==
  ASSUME IInv, NEW c \in Conns, NEW w \in Tasks,
         work[c].at # "idle", w.at # "idle", w.request = work[c].request,
         work' = [work EXCEPT ![c] = w],
         UNCHANGED <<client, up, down, open, memory, restarts>>,
         w.at = "answering" /\ w.code \in Success => w.request \in Served
  PROVE  /\ TypeOK' /\ BusyHasRequest' /\ RecordsAreTrue' /\ OneAtATime'
         /\ OrderIsLedger' /\ RetryWindow' /\ Remembered' = Remembered
         /\ work'[c] = w /\ \A d \in Conns \ {c} : work'[d] = work[d]
<1> USE DEF IInv
<1>1. work'[c] = w /\ work' \in [Conns -> Tasks] /\ \A d \in Conns \ {c} : work'[d] = work[d]
  BY OthersKept
<1>2. TypeOK'
  BY <1>1 DEF TypeOK, Tasks, client, memory
<1>3. BusyHasRequest' /\ RecordsAreTrue'
  BY <1>1 DEF BusyHasRequest, RecordsAreTrue, memory, Served
<1>4. OneAtATime'
  <2>1. conn \in Conns /\ c <= conn
    BY ThreadOfConnection
  <2>2. \A d \in Conns : d > conn => d # c
    BY <2>1 DEF Conns
  <2>3. CASE c # conn
    BY <1>1, <2>1, <2>2, <2>3 DEF OneAtATime, Empty, client
  <2>4. CASE c = conn /\ ~failed
    <3>1. asked # Nothing /\ up[c] = <<>> /\ down[c] = <<>> /\ work[c].request = asked
      BY <2>1, <2>4 DEF OneAtATime, Empty
    <3> QED
      BY <1>1, <2>1, <2>2, <2>4, <3>1 DEF OneAtATime, Empty, client
  <2>5. CASE failed
    BY <1>1, <2>1, <2>2, <2>5 DEF OneAtATime, Empty, client
  <2> QED
    BY <2>3, <2>4, <2>5
<1> QED
  BY <1>1, <1>2, <1>3, <1>4, MemoryKept

\* The locks that a thread takes are those that nobody inside holds.
LEMMA LockInv == ASSUME IInv, NEW c \in Conns, Lock(c) PROVE IInv'
<1> USE DEF IInv
<1> DEFINE w == [work[c] EXCEPT !.at = "locked"]
<1>1. /\ UNCHANGED <<client, up, down, open, memory, restarts>>
      /\ work[c].at = "waiting" /\ work' = [work EXCEPT ![c] = w]
  BY DEF Lock
<1>2. w \in Tasks /\ w.at = "locked" /\ w.request = work[c].request
  BY DEF TypeOK, Tasks
<1>3. \A d \in Inside : Held(d) \cap Held(c) = {}
  BY DEF Lock, Free, Held
<1> HIDE DEF w
<1>4. /\ TypeOK' /\ BusyHasRequest' /\ RecordsAreTrue' /\ OneAtATime'
      /\ OrderIsLedger' /\ RetryWindow' /\ Remembered' = Remembered
      /\ work'[c] = w /\ \A d \in Conns \ {c} : work'[d] = work[d]
  BY <1>1, <1>2, GoOn
<1>5. LocksApart'
  BY <1>2, <1>3, <1>4 DEF LocksApart, Inside, Held
<1>6. MissedIsUnknown'
  BY <1>2, <1>4 DEF MissedIsUnknown
<1> QED
  BY <1>4, <1>5, <1>6

\* The lookup answers from the record, or passes on a request that is not remembered.
LEMMA LookupInv == ASSUME IInv, NEW c \in Conns, Lookup(c) PROVE IInv'
<1> USE DEF IInv
<1> DEFINE r == work[c].request
           hit == [work[c] EXCEPT !.at = "answering", !.code = Verdict(r)]
           miss == [work[c] EXCEPT !.at = "missed"]
           w == IF OnRecord(r) THEN hit ELSE miss
<1>1. /\ UNCHANGED <<client, up, down, open, memory, restarts>>
      /\ work[c].at = "locked" /\ work' = [work EXCEPT ![c] = w]
  BY DEF Lookup
<1>2. work[c] \in Tasks /\ c \in Inside /\ r \in Requests
  BY <1>1 DEF TypeOK, Tasks, Inside, BusyHasRequest
<1>3. /\ hit \in Tasks /\ hit.at = "answering" /\ hit.request = r /\ hit.code = Verdict(r)
      /\ miss \in Tasks /\ miss.at = "missed" /\ miss.request = r
  BY <1>2 DEF Tasks, Codes, Success, Verdict
<1>4. w \in Tasks /\ w.at \in {"answering", "missed"} /\ w.request = r
  BY <1>3
<1>5. w.at = "answering" /\ w.code \in Success => w.request \in Served
  BY <1>3 DEF RecordsAreTrue, OnRecord, Verdict, Success
<1>6. w.at = "missed" => ~OnRecord(r)
  BY <1>3
<1> HIDE DEF w
<1>7. /\ TypeOK' /\ BusyHasRequest' /\ RecordsAreTrue' /\ OneAtATime'
      /\ OrderIsLedger' /\ RetryWindow' /\ Remembered' = Remembered
      /\ work'[c] = w /\ \A d \in Conns \ {c} : work'[d] = work[d]
  <2>1. w.at # "idle" /\ work[c].at # "idle"
    BY <1>1, <1>4
  <2> QED
    BY <1>1, <1>4, <1>5, <2>1, GoOn
<1>8. LocksApart'
  BY <1>2, <1>4, <1>7 DEF LocksApart, Inside, Held
<1>9. MissedIsUnknown'
  BY <1>4, <1>6, <1>7 DEF MissedIsUnknown, Remembered, OnRecord
<1> QED
  BY <1>7, <1>8, <1>9

\* A refusal changes nothing on record.
LEMMA RefuseInv == ASSUME IInv, NEW c \in Conns, Refuse(c) PROVE IInv'
<1> USE DEF IInv
<1> DEFINE w == [work[c] EXCEPT !.at = "answering", !.code = "Refused"]
<1>1. /\ UNCHANGED <<client, up, down, open, memory, restarts>>
      /\ c \in Inside /\ work[c].at # "idle" /\ work' = [work EXCEPT ![c] = w]
  BY DEF Refuse, Inside, TypeOK
<1>2. w \in Tasks /\ w.at = "answering" /\ w.request = work[c].request /\ w.code \notin Success
  BY DEF TypeOK, Tasks, Codes, Success
<1> HIDE DEF w
<1>3. /\ TypeOK' /\ BusyHasRequest' /\ RecordsAreTrue' /\ OneAtATime'
      /\ OrderIsLedger' /\ RetryWindow' /\ Remembered' = Remembered
      /\ work'[c] = w /\ \A d \in Conns \ {c} : work'[d] = work[d]
  BY <1>1, <1>2, GoOn
<1>4. LocksApart' /\ MissedIsUnknown'
  BY <1>2, <1>3 DEF LocksApart, MissedIsUnknown, Inside, Held
<1> QED
  BY <1>3, <1>4

\* The answer of a thread goes to the peer of its connection.
LEMMA AnswerInv == ASSUME IInv, NEW c \in Conns, Answer(c) PROVE IInv'
<1> USE DEF IInv
<1> DEFINE a == [to |-> work[c].request, code |-> work[c].code]
<1>1. /\ UNCHANGED <<client, up, open, memory, restarts>>
      /\ work[c].at = "answering" /\ work' = [work EXCEPT ![c] = Idle]
      /\ down' = [down EXCEPT ![c] = Append(down[c], a)]
  BY DEF Answer
<1>2. Idle \in Tasks /\ Idle.at = "idle"
  BY DEF Idle, Tasks, Codes
<1>3. a \in Replies /\ (a.code \in Success => a.to \in Served)
  BY <1>1 DEF TypeOK, Replies, RecordsAreTrue
<1>4. down[c] \in Seq(Replies) /\ Append(down[c], a) \in Seq(Replies)
  BY <1>3 DEF TypeOK
<1>5. /\ work'[c] = Idle /\ work' \in [Conns -> Tasks]
      /\ \A d \in Conns \ {c} : work'[d] = work[d]
  BY <1>1, <1>2, OthersKept
<1>6. /\ down'[c] = Append(down[c], a) /\ down' \in [Conns -> Seq(Replies)]
      /\ \A d \in Conns \ {c} : down'[d] = down[d]
  BY <1>1, <1>4 DEF TypeOK
<1> HIDE DEF a
<1>7. TypeOK'
  BY <1>1, <1>5, <1>6 DEF TypeOK, Tasks, client, memory
<1>8. LocksApart' /\ MissedIsUnknown' /\ BusyHasRequest'
  BY <1>1, <1>2, <1>5, MemoryKept DEF LocksApart, MissedIsUnknown, BusyHasRequest, Inside, Held
<1>9. RecordsAreTrue'
  <2>1. \A i \in 1..Len(down'[c]) : down'[c][i] = a \/ (i \in 1..Len(down[c]) /\ down'[c][i] = down[c][i])
    BY <1>3, <1>4, <1>6
  <2>2. \A d \in Conns : \A i \in 1..Len(down'[d]) :
          down'[d][i].code \in Success => down'[d][i].to \in Served
    BY <1>3, <1>6, <2>1 DEF RecordsAreTrue
  <2>3. \A d \in Conns : work'[d].at = "answering" /\ work'[d].code \in Success
                           => work'[d].request \in Served
    BY <1>2, <1>5 DEF RecordsAreTrue
  <2> QED
    BY <1>1, <2>2, <2>3 DEF RecordsAreTrue, memory, Served
<1>10. OneAtATime'
  <2>1. conn \in Conns /\ c <= conn
    BY <1>1, ThreadOfConnection
  <2>2. \A d \in Conns : d > conn => d # c
    BY <2>1 DEF Conns
  <2>3. CASE c # conn
    BY <1>1, <1>5, <1>6, <2>1, <2>2, <2>3 DEF OneAtATime, Empty, client
  <2>4. CASE c = conn /\ ~failed
    <3>1. asked # Nothing /\ up[c] = <<>> /\ down[c] = <<>> /\ work[c].request = asked
      BY <1>1, <2>1, <2>4 DEF OneAtATime, Empty
    <3>2. work[c].code \in Codes /\ a = [to |-> asked, code |-> work[c].code]
      BY <3>1 DEF TypeOK, a
    <3>3. down'[c] = <<a>>
      BY <1>6, <3>1
    <3>4. /\ up'[conn] = <<>> /\ work'[conn].at = "idle" /\ asked' # Nothing
          /\ \E code \in Codes : down'[conn] = <<[to |-> asked', code |-> code]>>
      BY <1>1, <1>2, <1>5, <2>4, <3>1, <3>2, <3>3 DEF client
    <3>5. /\ \A d \in Conns : d > conn => Empty(d)' /\ ~open'[d]
          /\ UNCHANGED <<conn, linked, asked>>
      BY <1>1, <1>5, <1>6, <2>2 DEF OneAtATime, Empty, client
    <3> QED
      BY <2>1, <3>4, <3>5 DEF OneAtATime
  <2>5. CASE failed
    BY <1>1, <1>5, <1>6, <2>1, <2>2, <2>5 DEF OneAtATime, Empty, client
  <2> QED
    BY <2>3, <2>4, <2>5
<1> QED
  BY <1>1, <1>7, <1>8, <1>9, <1>10, MemoryKept

\* A session that ends takes with it what was on the way to it.
LEMMA EndInv == ASSUME IInv, NEW c \in Conns, End(c) PROVE IInv'
<1> USE DEF IInv
<1>1. /\ UNCHANGED <<client, down, memory, restarts>> /\ open[c]
      /\ work' = [work EXCEPT ![c] = Idle] /\ up' = [up EXCEPT ![c] = <<>>]
      /\ open' = [open EXCEPT ![c] = FALSE]
  BY DEF End
<1>2. Idle \in Tasks /\ Idle.at = "idle"
  BY DEF Idle, Tasks, Codes
<1>3. /\ work'[c] = Idle /\ work' \in [Conns -> Tasks]
      /\ \A d \in Conns \ {c} : work'[d] = work[d]
  BY <1>1, <1>2, OthersKept
<1>4. /\ up'[c] = <<>> /\ open'[c] = FALSE
      /\ \A d \in Conns \ {c} : up'[d] = up[d] /\ open'[d] = open[d]
  BY <1>1 DEF TypeOK
<1>5. TypeOK'
  <2>1. up' \in [Conns -> Seq(Requests)] /\ open' \in [Conns -> BOOLEAN]
    BY <1>1 DEF TypeOK
  <2> QED
    BY <1>1, <1>3, <2>1 DEF TypeOK, Tasks, client, memory
<1>6. LocksApart' /\ MissedIsUnknown' /\ BusyHasRequest'
  BY <1>1, <1>2, <1>3, MemoryKept DEF LocksApart, MissedIsUnknown, BusyHasRequest, Inside, Held
<1>7. RecordsAreTrue'
  BY <1>1, <1>2, <1>3 DEF RecordsAreTrue, memory, Served
<1>8. OneAtATime'
  <2>1. conn \in Conns /\ c <= conn
    BY <1>1, ThreadOfConnection
  <2>2. \A d \in Conns : d > conn => d # c
    BY <2>1 DEF Conns
  <2>3. CASE c # conn \/ failed
    BY <1>1, <1>2, <1>3, <1>4, <2>1, <2>2, <2>3 DEF OneAtATime, Empty, client
  <2>4. CASE c = conn /\ ~failed
    BY <1>1, <1>2, <1>3, <1>4, <2>1, <2>2, <2>4 DEF OneAtATime, Empty, client
  <2> QED
    BY <2>3, <2>4
<1> QED
  BY <1>1, <1>5, <1>6, <1>7, <1>8, MemoryKept

\* An attempt already on record is put down for the new request, in its old place.
LEMMA RecordAgain ==
  ASSUME IInv, NEW r \in Requests, OnRecord(r), Record(r)
  PROVE  /\ order' = order /\ since' = since /\ imported' = imported
         /\ DOMAIN ledger' = DOMAIN ledger
         /\ \A a \in DOMAIN ledger : ledger'[a] = IF a = r.attempt THEN r ELSE ledger[a]
<1>1. NewOrder(r) = order
  BY DEF NewOrder
<1>2. {NewOrder(r)[i] : i \in 1..Len(NewOrder(r))} = DOMAIN ledger
  BY <1>1 DEF IInv, OrderIsLedger
<1> QED
  BY <1>1, <1>2 DEF Record

\* A new attempt comes last; the first goes if the ledger was full.
LEMMA RecordNew ==
  ASSUME IInv, NEW r \in Requests, ~OnRecord(r), Record(r)
  PROVE  /\ order' \in Seq(Attempts) /\ Len(order') <= Bound
         /\ OrderIsLedger' /\ RetryWindow'
         /\ imported' \subseteq Attempts
         /\ DOMAIN since' \subseteq Attempts /\ \A a \in DOMAIN since' : since'[a] \in Nat
         /\ r.attempt \in DOMAIN ledger'
         /\ \E b \in Attempts : DOMAIN ledger' = (DOMAIN ledger \ {b}) \cup {r.attempt}
         /\ \A a \in DOMAIN ledger' : ledger'[a] = IF a = r.attempt THEN r ELSE ledger[a]
<1> USE DEF IInv
<1> DEFINE e == r.attempt
           n == Len(order)
           o == Append(order, e)
<1>1. e \in Attempts /\ e \notin DOMAIN ledger
  BY DEF Attempts, OnRecord
<1>2. order \in Seq(Attempts) /\ n \in Nat /\ n <= Bound /\ Bound \in Nat \ {0}
  BY BoundAssumption DEF TypeOK
<1>3. /\ o \in Seq(Attempts) /\ Len(o) = n + 1 /\ o[n + 1] = e
      /\ \A i \in 1..n : o[i] = order[i]
  BY <1>1, <1>2
<1>4. /\ {order[i] : i \in 1..n} = DOMAIN ledger
      /\ \A i, j \in 1..n : order[i] = order[j] => i = j
      /\ \A i \in 1..n : order[i] \notin imported =>
           order[i] \in DOMAIN since /\ since[order[i]] = n - i
  BY DEF OrderIsLedger
<1>5. /\ order' = Kept(o)
      /\ ledger' = [a \in {order'[i] : i \in 1..Len(order')} |-> IF a = e THEN r ELSE ledger[a]]
      /\ since' = [a \in DOMAIN since \cup {e} |-> IF a = e THEN 0 ELSE since[a] + 1]
      /\ imported' = imported \ {e}
  BY DEF Record, NewOrder
<1>6. /\ DOMAIN since' = DOMAIN since \cup {e} /\ since'[e] = 0
      /\ \A a \in DOMAIN since \ {e} : since'[a] = since[a] + 1
      /\ DOMAIN since' \subseteq Attempts /\ \A a \in DOMAIN since' : since'[a] \in Nat
  BY <1>1, <1>5 DEF TypeOK
<1>7. imported' \subseteq Attempts
  BY <1>5 DEF TypeOK
<1> HIDE DEF o, e
<1>8. CASE Len(o) <= Bound
  <2>1. order' = o
    BY <1>5, <1>8, <1>2, <1>3 DEF Kept
  <2>2. {order'[i] : i \in 1..Len(order')} = DOMAIN ledger \cup {e}
    BY <1>2, <1>3, <1>4, <2>1
  <2>3. /\ DOMAIN ledger' = DOMAIN ledger \cup {e}
        /\ \A a \in DOMAIN ledger' : ledger'[a] = IF a = e THEN r ELSE ledger[a]
    BY <1>5, <2>2
  <2>4. OrderIsLedger'
    <3>1. \A i, j \in 1..Len(order') : order'[i] = order'[j] => i = j
      BY <1>1, <1>2, <1>3, <1>4, <2>1
    <3>2. ASSUME NEW i \in 1..Len(order'), order'[i] \notin imported'
          PROVE  order'[i] \in DOMAIN since' /\ since'[order'[i]] = Len(order') - i
      <4>1. CASE i = n + 1
        BY <1>3, <1>6, <2>1, <4>1
      <4>2. CASE i # n + 1
        <5>1. i \in 1..n /\ order'[i] = order[i] /\ order[i] # e /\ order[i] \notin imported
          BY <1>1, <1>2, <1>3, <1>4, <1>5, <2>1, <3>2, <4>2
        <5> QED
          BY <1>2, <1>3, <1>4, <1>6, <2>1, <5>1
      <4> QED
        BY <4>1, <4>2
    <3> QED
      BY <2>2, <2>3, <3>1, <3>2 DEF OrderIsLedger
  <2>5. RetryWindow'
    <3> SUFFICES ASSUME NEW a \in DOMAIN since' \ imported', since'[a] < Bound
                 PROVE  a \in DOMAIN ledger'
      BY DEF RetryWindow
    <3>1. CASE a = e
      BY <2>3, <3>1
    <3>2. CASE a # e
      <4>1. a \in DOMAIN since \ imported /\ since'[a] = since[a] + 1 /\ since[a] \in Nat
        BY <1>5, <1>6, <3>2 DEF TypeOK
      <4>2. a \in DOMAIN ledger
        BY <1>2, <4>1 DEF RetryWindow
      <4> QED
        BY <2>3, <4>2
    <3> QED
      BY <3>1, <3>2
  <2>6. DOMAIN ledger' = (DOMAIN ledger \ {e}) \cup {e}
    BY <1>1, <2>3
  <2> QED
    BY <1>1, <1>3, <1>6, <1>7, <1>8, <2>1, <2>3, <2>4, <2>5, <2>6 DEF e
<1>9. CASE Len(o) > Bound
  <2>1. n = Bound /\ n >= 1
    BY <1>2, <1>3, <1>9
  <2>2. /\ order' = Tail(o) /\ order' \in Seq(Attempts) /\ Len(order') = n
        /\ \A i \in 1..n : i + 1 \in 1..(n + 1) /\ order'[i] = o[i + 1]
    <3>1. order' = Tail(o)
      BY <1>5, <1>9 DEF Kept
    <3> QED
      BY <1>2, <1>3, <3>1
  <2>3. \A i \in 1..n : IF i = n THEN order'[i] = e ELSE i + 1 \in 1..n /\ order'[i] = order[i + 1]
    BY <1>2, <1>3, <2>2
  <2> DEFINE b == order[1]
  <2>4. b \in Attempts /\ b \in DOMAIN ledger /\ b # e /\ 1 \in 1..n
    BY <1>1, <1>2, <1>4, <2>1
  <2>5. {order'[i] : i \in 1..Len(order')} = (DOMAIN ledger \ {b}) \cup {e}
    <3>1. ASSUME NEW i \in 1..n PROVE order'[i] \in (DOMAIN ledger \ {b}) \cup {e}
      <4>1. CASE i = n
        BY <2>3, <4>1
      <4>2. CASE i # n
        <5>1. i + 1 \in 1..n /\ order'[i] = order[i + 1] /\ i + 1 # 1
          BY <2>3, <4>2
        <5> QED
          BY <1>4, <2>4, <5>1
      <4> QED
        BY <4>1, <4>2
    <3>2. ASSUME NEW a \in (DOMAIN ledger \ {b}) \cup {e} PROVE \E i \in 1..n : order'[i] = a
      <4>1. CASE a = e
        <5>1. n \in 1..n /\ order'[n] = e
          BY <2>1, <2>3
        <5> QED
          BY <4>1, <5>1
      <4>2. CASE a # e
        <5>1. PICK j \in 1..n : order[j] = a
          BY <1>4, <3>2, <4>2
        <5>2. j - 1 \in 1..n /\ j - 1 # n /\ (j - 1) + 1 = j
          BY <1>2, <3>2, <4>2, <5>1
        <5>3. order'[j - 1] = order[(j - 1) + 1]
          BY <2>3, <5>2
        <5> QED
          BY <5>1, <5>2, <5>3
      <4> QED
        BY <4>1, <4>2
    <3>3. {order'[i] : i \in 1..n} = (DOMAIN ledger \ {b}) \cup {e}
      BY <3>1, <3>2
    <3> QED
      BY <2>2, <3>3
  <2>6. /\ DOMAIN ledger' = (DOMAIN ledger \ {b}) \cup {e}
        /\ \A a \in DOMAIN ledger' : ledger'[a] = IF a = e THEN r ELSE ledger[a]
    BY <1>5, <2>5
  <2>7. OrderIsLedger'
    <3>1. \A i, j \in 1..Len(order') : order'[i] = order'[j] => i = j
      <4> SUFFICES ASSUME NEW i \in 1..n, NEW j \in 1..n, order'[i] = order'[j] PROVE i = j
        BY <2>2
      <4>1. i + 1 \in 1..n => order[i + 1] # e
        BY <1>1, <1>4
      <4>2. j + 1 \in 1..n => order[j + 1] # e
        BY <1>1, <1>4
      <4>3. CASE i = n \/ j = n
        BY <2>3, <4>1, <4>2, <4>3
      <4>4. CASE i # n /\ j # n
        <5>1. i + 1 = j + 1
          BY <1>4, <2>3, <4>4
        <5> QED
          BY <5>1
      <4> QED
        BY <4>3, <4>4
    <3>2. ASSUME NEW i \in 1..Len(order'), order'[i] \notin imported'
          PROVE  order'[i] \in DOMAIN since' /\ since'[order'[i]] = Len(order') - i
      <4>1. i \in 1..n
        BY <2>2
      <4>2. CASE i = n
        BY <1>6, <2>2, <2>3, <4>1, <4>2
      <4>3. CASE i # n
        <5>1. i + 1 \in 1..n /\ order'[i] = order[i + 1] /\ order[i + 1] # e
          BY <1>1, <1>4, <2>3, <4>1, <4>3
        <5>2. order[i + 1] \in DOMAIN since \ {e} /\ since[order[i + 1]] = n - (i + 1)
          BY <1>4, <1>5, <3>2, <5>1
        <5>3. since'[order[i + 1]] = (n - (i + 1)) + 1
          BY <1>6, <5>2
        <5> QED
          BY <1>2, <1>6, <2>2, <4>1, <5>1, <5>2, <5>3
      <4> QED
        BY <4>2, <4>3
    <3> QED
      BY <2>5, <2>6, <3>1, <3>2 DEF OrderIsLedger
  <2>8. RetryWindow'
    <3> SUFFICES ASSUME NEW a \in DOMAIN since' \ imported', since'[a] < Bound
                 PROVE  a \in DOMAIN ledger'
      BY DEF RetryWindow
    <3>1. CASE a = e
      BY <2>6, <3>1
    <3>2. CASE a # e
      <4>1. a \in DOMAIN since \ imported /\ since'[a] = since[a] + 1 /\ since[a] \in Nat
        BY <1>5, <1>6, <3>2 DEF TypeOK
      <4>2. a \in DOMAIN ledger
        BY <1>2, <4>1 DEF RetryWindow
      <4>3. a # b
        <5> SUFFICES ASSUME a = b PROVE FALSE
          OBVIOUS
        <5>1. since[a] = n - 1
          BY <1>4, <2>4, <4>1
        <5> QED
          BY <2>1, <4>1, <5>1
      <4> QED
        BY <2>6, <4>2, <4>3
    <3> QED
      BY <3>1, <3>2
  <2> QED
    BY <1>1, <1>2, <1>6, <1>7, <2>1, <2>2, <2>4, <2>6, <2>7, <2>8 DEF e
<1>10. Len(o) <= Bound \/ Len(o) > Bound
  BY <1>2, <1>3
<1> QED
  BY <1>8, <1>9, <1>10

\* Either way: what is on record afterwards, what is forgotten for it, and the types.
LEMMA Recorded ==
  ASSUME IInv, NEW r \in Requests, r \notin Remembered, Record(r)
  PROVE  /\ OrderIsLedger' /\ RetryWindow'
         /\ \A a \in DOMAIN ledger' :
              \/ a = r.attempt /\ ledger'[a] = r
              \/ a \in DOMAIN ledger /\ ledger'[a] = ledger[a]
         /\ \E q \in Requests : Remembered' = (Remembered \ {q}) \cup {r}
         /\ order' \in Seq(Attempts) /\ Len(order') <= Bound /\ imported' \subseteq Attempts
         /\ DOMAIN since' \subseteq Attempts /\ \A a \in DOMAIN since' : since'[a] \in Nat
         /\ DOMAIN ledger' \subseteq Attempts
<1> USE DEF IInv
<1>1. CASE OnRecord(r)
  <2>1. /\ UNCHANGED <<order, since, imported>> /\ DOMAIN ledger' = DOMAIN ledger
        /\ \A a \in DOMAIN ledger : ledger'[a] = IF a = r.attempt THEN r ELSE ledger[a]
    BY <1>1, RecordAgain
  <2>2. OrderIsLedger' /\ RetryWindow'
    BY <2>1 DEF OrderIsLedger, RetryWindow
  <2>3. Remembered' = (Remembered \ {ledger[r.attempt]}) \cup {r}
    BY <1>1, <2>1 DEF Remembered, OnRecord, RecordsAreTrue
  <2>4. ledger[r.attempt] \in Requests
    BY <1>1 DEF TypeOK, OnRecord
  <2>5. \E q \in Requests : Remembered' = (Remembered \ {q}) \cup {r}
    BY <2>3, <2>4
  <2> QED
    BY <2>1, <2>2, <2>5 DEF TypeOK
<1>2. CASE ~OnRecord(r)
  <2>1. /\ order' \in Seq(Attempts) /\ Len(order') <= Bound /\ imported' \subseteq Attempts
        /\ DOMAIN since' \subseteq Attempts /\ \A a \in DOMAIN since' : since'[a] \in Nat
        /\ OrderIsLedger' /\ RetryWindow' /\ r.attempt \in DOMAIN ledger'
        /\ \A a \in DOMAIN ledger' : ledger'[a] = IF a = r.attempt THEN r ELSE ledger[a]
    BY <1>2, RecordNew
  <2>2. PICK b \in Attempts : DOMAIN ledger' = (DOMAIN ledger \ {b}) \cup {r.attempt}
    BY <1>2, RecordNew
  <2>3. \A x \in Requests : x \in Remembered' <=> x = r \/ (x \in Remembered /\ x.attempt # b)
    BY <1>2, <2>1, <2>2 DEF Remembered, OnRecord
  <2>4. \E q \in Requests : Remembered' = (Remembered \ {q}) \cup {r}
    <3>1. CASE b \in DOMAIN ledger
      <4>1. ledger[b] \in Requests /\ ledger[b].attempt = b
        BY <3>1 DEF TypeOK, RecordsAreTrue
      <4>2. \A x \in Remembered : x.attempt = b <=> x = ledger[b]
        BY <4>1 DEF Remembered
      <4>3. Remembered' = (Remembered \ {ledger[b]}) \cup {r}
        BY <2>3, <4>2 DEF Remembered
      <4> QED
        BY <4>1, <4>3
    <3>2. CASE b \notin DOMAIN ledger
      <4>1. \A x \in Remembered : x.attempt # b
        BY <3>2 DEF Remembered
      <4>2. Remembered' = (Remembered \ {r}) \cup {r}
        BY <2>3, <4>1 DEF Remembered
      <4> QED
        BY <4>2
    <3> QED
      BY <3>1, <3>2
  <2> QED
    BY <2>1, <2>2, <2>4 DEF TypeOK, Attempts
<1> QED
  BY <1>1, <1>2

\* A thread past the lookup records its request and goes on to answer with success: the
\* record is right if the request is counted as served, and nothing else is forgotten.
LEMMA RecordInv ==
  ASSUME IInv, NEW c \in Conns, work[c].at = "missed",
         NEW code \in Success,
         work' = [work EXCEPT ![c] = [work[c] EXCEPT !.at = "answering", !.code = code]],
         Record(work[c].request), UNCHANGED <<client, up, down, open, restarts>>,
         count' \in [Requests -> Nat], settled' \subseteq Requests,
         Served \cup {work[c].request} \subseteq Served'
  PROVE  /\ IInv'
         /\ work[c].request \in Requests \ Remembered
         /\ \E q \in Requests : Remembered' = (Remembered \ {q}) \cup {work[c].request}
<1> USE DEF IInv
<1> DEFINE r == work[c].request
           w == [work[c] EXCEPT !.at = "answering", !.code = code]
<1>1. /\ UNCHANGED <<client, up, down, open, restarts>> /\ work[c].at = "missed"
      /\ work' = [work EXCEPT ![c] = w] /\ Record(r)
      /\ count' \in [Requests -> Nat] /\ settled' \subseteq Requests
  OBVIOUS
<1>2. r \in Requests /\ r \notin Remembered /\ c \in Inside
  BY DEF BusyHasRequest, MissedIsUnknown, Inside
<1>3. w \in Tasks /\ w.at = "answering" /\ w.request = r
  BY DEF TypeOK, Tasks, Codes
<1> HIDE DEF w
<1>4. /\ work'[c] = w /\ work' \in [Conns -> Tasks]
      /\ \A d \in Conns \ {c} : work'[d] = work[d]
  BY <1>1, <1>3, OthersKept
<1>5. /\ OrderIsLedger' /\ RetryWindow'
      /\ \A a \in DOMAIN ledger' :
           \/ a = r.attempt /\ ledger'[a] = r
           \/ a \in DOMAIN ledger /\ ledger'[a] = ledger[a]
      /\ \E q \in Requests : Remembered' = (Remembered \ {q}) \cup {r}
      /\ order' \in Seq(Attempts) /\ Len(order') <= Bound /\ imported' \subseteq Attempts
      /\ DOMAIN since' \subseteq Attempts /\ \A a \in DOMAIN since' : since'[a] \in Nat
      /\ DOMAIN ledger' \subseteq Attempts
  BY <1>1, <1>2, Recorded
<1>6. r \in Served' /\ \A x \in Served : x \in Served'
  OBVIOUS
<1>7. TypeOK'
  <2>1. \A a \in DOMAIN ledger' : ledger'[a] \in Requests
    BY <1>2, <1>5 DEF TypeOK
  <2> QED
    BY <1>1, <1>4, <1>5, <2>1 DEF TypeOK, Tasks, client
<1>8. LocksApart' /\ BusyHasRequest'
  BY <1>3, <1>4, <1>2 DEF LocksApart, BusyHasRequest, Inside, Held
<1>9. MissedIsUnknown'
  <2> SUFFICES ASSUME NEW d \in Conns, work'[d].at = "missed"
               PROVE  work'[d].request \notin Remembered'
    BY DEF MissedIsUnknown
  <2>1. d # c /\ work'[d] = work[d] /\ d \in Inside
    BY <1>3, <1>4 DEF Inside
  <2>2. work[d].request # r
    <3>1. Held(d) # {} /\ Held(d) \cap Held(c) = {}
      BY <1>2, <2>1, RequestsAssumption DEF LocksApart, BusyHasRequest, Inside, Held
    <3> QED
      BY <3>1 DEF Held
  <2>3. work[d].request \notin Remembered
    BY <2>1 DEF MissedIsUnknown
  <2> QED
    BY <1>5, <2>1, <2>2, <2>3
<1>10. RecordsAreTrue'
  <2>1. \A a \in DOMAIN ledger' : ledger'[a].attempt = a /\ ledger'[a] \in Served'
    BY <1>5, <1>6 DEF RecordsAreTrue
  <2>2. \A d \in Conns : work'[d].at = "answering" /\ work'[d].code \in Success
                           => work'[d].request \in Served'
    BY <1>3, <1>4, <1>6 DEF RecordsAreTrue
  <2>3. \A d \in Conns : \A i \in 1..Len(down[d]) :
          down[d][i].code \in Success => down[d][i].to \in Served'
    BY <1>6 DEF RecordsAreTrue
  <2> QED
    BY <1>1, <2>1, <2>2, <2>3 DEF RecordsAreTrue
<1>11. OneAtATime'
  <2>1. conn \in Conns /\ c <= conn
    BY <1>1, ThreadOfConnection
  <2>2. \A d \in Conns : d > conn => d # c
    BY <2>1 DEF Conns
  <2>3. CASE c # conn
    <3>1. /\ UNCHANGED <<conn, linked, asked, failed, up, down, open>>
          /\ work'[conn] = work[conn]
      BY <1>1, <1>4, <2>1, <2>3 DEF client
    <3>2. \A d \in Conns : d > conn => Empty(d)' /\ ~open'[d]
      BY <1>4, <2>2, <3>1 DEF OneAtATime, Empty
    <3> QED
      BY <2>1, <3>1, <3>2 DEF OneAtATime, Empty
  <2>5. CASE failed
    BY <1>1, <1>4, <2>1, <2>2, <2>5 DEF OneAtATime, Empty, client
  <2>4. CASE c = conn /\ ~failed
    <3>1. asked # Nothing /\ up[c] = <<>> /\ down[c] = <<>> /\ r = asked
      BY <1>1, <2>1, <2>4 DEF OneAtATime, Empty
    <3> QED
      BY <1>1, <1>3, <1>4, <2>1, <2>2, <2>4, <3>1 DEF OneAtATime, Empty, client
  <2> QED
    BY <2>3, <2>4, <2>5
<1> QED
  BY <1>2, <1>5, <1>7, <1>8, <1>9, <1>10, <1>11

\* A mutation takes effect once: its request was not remembered, and now it is.
LEMMA CommitInv ==
  ASSUME IInv, NEW c \in Conns, Commit(c)
  PROVE  IInv' /\ Promise!Do(work[c].request)
<1> DEFINE r == work[c].request
<1>1. /\ UNCHANGED <<client, up, down, open, restarts>> /\ UNCHANGED settled
      /\ work[c].at = "missed"
      /\ work' = [work EXCEPT ![c] = [work[c] EXCEPT !.at = "answering", !.code = "Committed"]]
      /\ Record(r) /\ count' = [count EXCEPT ![r] = @ + 1] /\ "Committed" \in Success
  BY DEF Commit, Success
<1>2. r \in Requests /\ count \in [Requests -> Nat] /\ settled \subseteq Requests
  BY <1>1 DEF IInv, TypeOK, BusyHasRequest
<1>3. count' \in [Requests -> Nat] /\ settled' \subseteq Requests
  BY <1>1, <1>2
<1>4. Served \cup {r} \subseteq Served'
  BY <1>1, <1>2 DEF Served
<1>5. /\ IInv' /\ r \notin Remembered
      /\ \E q \in Requests : Remembered' = (Remembered \ {q}) \cup {r}
  BY <1>1, <1>3, <1>4, RecordInv
<1>6. Promise!Do(r)
  BY <1>1, <1>5 DEF Promise!Do, Promise!Remember, client
<1> QED
  BY <1>5, <1>6

\* A lifecycle request in force is remembered, and nothing is carried out for it.
LEMMA InForceInv ==
  ASSUME IInv, NEW c \in Conns, InForce(c)
  PROVE  IInv' /\ Promise!Settle(work[c].request)
<1> DEFINE r == work[c].request
<1>1. /\ UNCHANGED <<client, up, down, open, restarts>> /\ UNCHANGED count
      /\ work[c].at = "missed"
      /\ work' = [work EXCEPT ![c] = [work[c] EXCEPT !.at = "answering", !.code = "Idempotent"]]
      /\ Record(r) /\ settled' = settled \cup {r} /\ "Idempotent" \in Success
  BY DEF InForce, Success
<1>2. r \in Requests /\ count \in [Requests -> Nat] /\ settled \subseteq Requests
  BY <1>1 DEF IInv, TypeOK, BusyHasRequest
<1>3. count' \in [Requests -> Nat] /\ settled' \subseteq Requests
  BY <1>1, <1>2
<1>4. Served \cup {r} \subseteq Served'
  BY <1>1, <1>2 DEF Served
<1>5. /\ IInv' /\ r \notin Remembered
      /\ \E q \in Requests : Remembered' = (Remembered \ {q}) \cup {r}
  BY <1>1, <1>3, <1>4, RecordInv
<1>6. Promise!Settle(r)
  BY <1>1, <1>5 DEF Promise!Settle, Promise!Remember, client
<1> QED
  BY <1>5, <1>6

\* An enablement in force is answered, and nothing is carried out or remembered for it.
LEMMA NoChangeInv ==
  ASSUME IInv, NEW c \in Conns, NoChange(c)
  PROVE  IInv' /\ Promise!Settle(work[c].request)
<1> USE DEF IInv
<1> DEFINE r == work[c].request
           w == [work[c] EXCEPT !.at = "answering", !.code = "NoOp"]
<1>1. /\ UNCHANGED <<client, up, down, open, restarts>>
      /\ UNCHANGED <<ledger, order, count, since, imported>>
      /\ work[c].at = "missed" /\ work' = [work EXCEPT ![c] = w] /\ settled' = settled \cup {r}
  BY DEF NoChange
<1>2. r \in Requests /\ r \notin Remembered
  BY <1>1 DEF BusyHasRequest, MissedIsUnknown
<1>3. w \in Tasks /\ w.at = "answering" /\ w.request = r
  BY DEF TypeOK, Tasks, Codes, Success
<1> HIDE DEF w
<1>4. /\ work'[c] = w /\ work' \in [Conns -> Tasks]
      /\ \A d \in Conns \ {c} : work'[d] = work[d]
  BY <1>1, <1>3, OthersKept
<1>5. OrderIsLedger' /\ RetryWindow' /\ Remembered' = Remembered
  BY <1>1 DEF OrderIsLedger, RetryWindow, Remembered
<1>6. r \in Served' /\ \A x \in Served : x \in Served'
  BY <1>1, <1>2 DEF Served
<1>7. TypeOK'
  BY <1>1, <1>2, <1>4 DEF TypeOK, Tasks, client
<1>8. LocksApart' /\ BusyHasRequest' /\ MissedIsUnknown'
  BY <1>2, <1>3, <1>4, <1>5 DEF LocksApart, BusyHasRequest, MissedIsUnknown, Inside, Held
<1>9. RecordsAreTrue'
  BY <1>1, <1>3, <1>4, <1>6 DEF RecordsAreTrue
<1>10. OneAtATime'
  <2>1. conn \in Conns /\ c <= conn
    BY <1>1, ThreadOfConnection
  <2>2. \A d \in Conns : d > conn => d # c
    BY <2>1 DEF Conns
  <2>3. CASE c # conn \/ failed
    BY <1>1, <1>4, <2>1, <2>2, <2>3 DEF OneAtATime, Empty, client
  <2>4. CASE c = conn /\ ~failed
    <3>1. asked # Nothing /\ up[c] = <<>> /\ down[c] = <<>> /\ r = asked
      BY <1>1, <2>1, <2>4 DEF OneAtATime, Empty
    <3> QED
      BY <1>1, <1>3, <1>4, <2>1, <2>2, <2>4, <3>1 DEF OneAtATime, Empty, client
  <2> QED
    BY <2>3, <2>4
<1>11. Promise!Settle(r)
  BY <1>1, <1>2, <1>5 DEF Promise!Settle, client
<1> QED
  BY <1>5, <1>7, <1>8, <1>9, <1>10, <1>11

\* The walk over the ledger has each attempt once, and is no longer than the order was.
LEMMA RestartInv == IInv /\ Restart => IInv' /\ Remembered' = Remembered
<1> SUFFICES ASSUME IInv, Restart PROVE IInv' /\ Remembered' = Remembered
  OBVIOUS
<1> USE DEF IInv
<1> DEFINE S == DOMAIN ledger
           n == Cardinality(S)
<1>1. /\ UNCHANGED <<client, up, down, open, work, ledger, count, settled, since>>
      /\ restarts < MaxRestarts /\ restarts' = restarts + 1
      /\ order' \in ByIdentity(S) /\ imported' = imported \cup S
  BY DEF Restart
<1>2. /\ order \in Seq(Attempts) /\ Len(order) \in Nat /\ Len(order) <= Bound
      /\ S \subseteq Attempts
  BY DEF TypeOK
<1>3. IsFiniteSet(S) /\ n \in Nat /\ n <= Len(order)
  <2>1. IsFiniteSet(1..Len(order)) /\ Cardinality(1..Len(order)) = Len(order)
    BY <1>2, FS_Interval
  <2>2. order \in Surjection(1..Len(order), S)
    BY <1>2 DEF OrderIsLedger, Surjection
  <2>3. IsFiniteSet(S) /\ Cardinality(S) <= Cardinality(1..Len(order))
    BY <2>1, <2>2, FS_Surjection
  <2> QED
    BY <2>1, <2>3, FS_CardinalityType
<1>4. /\ order' \in [1..n -> S] /\ \A a \in S : \E i \in 1..n : order'[i] = a
      /\ \A i, j \in 1..n : i < j => order'[i] < order'[j]
  BY <1>1 DEF ByIdentity
<1> HIDE DEF n, S
<1>5. order' \in Seq(Attempts) /\ Len(order') = n /\ Len(order') <= Bound
  BY <1>2, <1>3, <1>4, BoundAssumption
<1>6. TypeOK'
  <2>1. restarts' \in 0..MaxRestarts
    BY <1>1, CapsAssumption DEF TypeOK
  <2>2. imported' \subseteq Attempts
    BY <1>1, <1>2 DEF TypeOK
  <2> QED
    BY <1>1, <1>5, <2>1, <2>2 DEF TypeOK, client
<1>7. Remembered' = Remembered
  BY <1>1 DEF Remembered
<1>8. LocksApart' /\ MissedIsUnknown' /\ BusyHasRequest'
  BY <1>1, <1>7 DEF LocksApart, MissedIsUnknown, BusyHasRequest, Inside, Held
<1>9. RecordsAreTrue' /\ OneAtATime'
  BY <1>1 DEF RecordsAreTrue, OneAtATime, Empty, client, Served
<1>10. OrderIsLedger'
  <2>1. {order'[i] : i \in 1..Len(order')} = DOMAIN ledger'
    BY <1>1, <1>4, <1>5 DEF S
  <2>2. \A i, j \in 1..n : order'[i] = order'[j] => i = j
    <3> SUFFICES ASSUME NEW i \in 1..n, NEW j \in 1..n, i # j PROVE order'[i] # order'[j]
      OBVIOUS
    <3>1. \A k \in 1..n : order'[k] \in Nat
      BY <1>2, <1>4, RequestsAssumption DEF Attempts
    <3>2. i < j \/ j < i
      BY <1>3
    <3> QED
      BY <1>4, <3>1, <3>2
  <2>3. \A i \in 1..n : order'[i] \in imported'
    BY <1>1, <1>4
  <2> QED
    BY <1>5, <2>1, <2>2, <2>3 DEF OrderIsLedger
<1>11. RetryWindow'
  BY <1>1 DEF RetryWindow
<1> QED
  BY <1>6, <1>7, <1>8, <1>9, <1>10, <1>11

\* Every step of the client, of a session or of a restart keeps the invariant.
LEMMA StepInv == IInv /\ [Next]_vars => IInv'
<1> SUFFICES ASSUME IInv, [Next]_vars PROVE IInv'
  OBVIOUS
<1>1. CASE Connect
  BY <1>1, ConnectInv
<1>2. CASE Close
  BY <1>2, CloseInv
<1>3. CASE Receive
  BY <1>3, ReceiveInv
<1>4. CASE Fail
  BY <1>4, FailInv
<1>5. CASE Restart
  BY <1>5, RestartInv
<1>6. ASSUME NEW r \in Requests, Call(r) PROVE IInv'
  BY <1>6, CallInv
<1>7. ASSUME NEW c \in Conns, Take(c) PROVE IInv'
  BY <1>7, TakeInv
<1>8. ASSUME NEW c \in Conns, Lock(c) PROVE IInv'
  BY <1>8, LockInv
<1>9. ASSUME NEW c \in Conns, Lookup(c) PROVE IInv'
  BY <1>9, LookupInv
<1>10. ASSUME NEW c \in Conns, Refuse(c) PROVE IInv'
  BY <1>10, RefuseInv
<1>11. ASSUME NEW c \in Conns, Commit(c) PROVE IInv'
  BY <1>11, CommitInv
<1>12. ASSUME NEW c \in Conns, Answer(c) PROVE IInv'
  BY <1>12, AnswerInv
<1>13. ASSUME NEW c \in Conns, End(c) PROVE IInv'
  BY <1>13, EndInv
<1>15. ASSUME NEW c \in Conns, NoChange(c) PROVE IInv'
  BY <1>15, NoChangeInv
<1>16. ASSUME NEW c \in Conns, InForce(c) PROVE IInv'
  BY <1>16, InForceInv
<1>14. CASE UNCHANGED vars
  <2>1. UNCHANGED <<work, memory, client, up, down, open, restarts>>
    BY <1>14 DEF vars
  <2>2. TypeOK' /\ RecordsAreTrue' /\ OneAtATime'
    BY <2>1 DEF IInv, TypeOK, RecordsAreTrue, OneAtATime, Empty, client, memory, Served
  <2> QED
    BY <2>1, <2>2, MemoryKept, ThreadsKept DEF IInv
<1> QED
  BY <1>1, <1>2, <1>3, <1>4, <1>5, <1>6, <1>7, <1>8, <1>9, <1>10, <1>11, <1>12, <1>13, <1>14, <1>15,
     <1>16 DEF Next

\* The invariant holds in every state of every behaviour.
LEMMA Invariant == Spec => []IInv
BY InitInv, StepInv, PTL DEF Spec

\* Every variable keeps to the values that the code's types and bounds allow.
THEOREM TypeCorrect == Spec => []TypeOK
<1>1. IInv => TypeOK
  BY DEF IInv
<1> QED
  BY <1>1, Invariant, PTL

\* A call on a connection where none has failed returns the reply to its own request,
\* or the refusal of the connection: the send and receive of Client::call stay paired.
THEOREM RepliesOwn == Spec => []RepliesAreOwn
<1>1. IInv => RepliesAreOwn
  <2> SUFFICES ASSUME IInv, asked # Nothing, ~failed, down[conn] # <<>>
               PROVE  Head(down[conn]).to = asked \/ Head(down[conn]) = Refusal
    BY DEF RepliesAreOwn
  <2>1. CASE down[conn] = <<Refusal>>
    BY <2>1
  <2>2. CASE \E code \in Codes : down[conn] = <<[to |-> asked, code |-> code]>>
    BY <2>2
  <2> QED
    BY <2>1, <2>2 DEF IInv, OneAtATime, Empty
<1> QED
  BY <1>1, Invariant, PTL

\* An attempt recorded by this process is on record until the ledger has taken as many
\* new ones as it holds (record_attempt).
THEOREM Window == Spec => []RetryWindow
<1>1. IInv => RetryWindow
  BY DEF IInv
<1> QED
  BY <1>1, Invariant, PTL

\* The sessions with their lookups, locks, ledger and restarts implement the promise of
\* a retry that takes effect once.
THEOREM Implements == Spec => OnceOnly
<1>1. Init => Promise!Init
  BY DEF Init, Promise!Init, Remembered
<1>2. IInv /\ [Next]_vars => [Promise!Next]_(Promise!vars)
  <2> SUFFICES ASSUME IInv, [Next]_vars PROVE Promise!Next \/ UNCHANGED <<count, Remembered, settled, heard>>
    BY DEF Promise!vars
  <2>1. CASE Receive
    <3>1. UNCHANGED <<count, settled, Remembered>>
      BY <2>1, MemoryKept DEF Receive, memory
    <3>2. CASE heard' = heard
      BY <3>1, <3>2
    <3>3. CASE heard' # heard
      <4>1. /\ asked # Nothing /\ down[conn] # <<>> /\ ~failed
            /\ Head(down[conn]).code \in Success /\ heard' = heard \cup {asked}
        BY <2>1, <3>3 DEF Receive
      <4>2. asked \in Requests /\ asked \in Served
        BY <4>1, HeardIsTrue
      <4>3. Promise!Hear(asked)
        BY <3>1, <4>1, <4>2 DEF Promise!Hear, Served
      <4> QED
        BY <4>2, <4>3 DEF Promise!Next
    <3> QED
      BY <3>2, <3>3
  <2>2. ASSUME NEW c \in Conns, Commit(c) PROVE Promise!Next
    <3>1. work[c].request \in Requests
      BY <2>2 DEF Commit, IInv, BusyHasRequest
    <3> QED
      BY <2>2, <3>1, CommitInv DEF Promise!Next
  <2>8. ASSUME NEW c \in Conns, NoChange(c) PROVE Promise!Next
    <3>1. work[c].request \in Requests
      BY <2>8 DEF NoChange, IInv, BusyHasRequest
    <3> QED
      BY <2>8, <3>1, NoChangeInv DEF Promise!Next
  <2>9. ASSUME NEW c \in Conns, InForce(c) PROVE Promise!Next
    <3>1. work[c].request \in Requests
      BY <2>9 DEF InForce, IInv, BusyHasRequest
    <3> QED
      BY <2>9, <3>1, InForceInv DEF Promise!Next
  <2>3. CASE Restart
    BY <2>3, RestartInv DEF Restart, client
  <2>4. CASE UNCHANGED <<memory, heard>>
    BY <2>4, MemoryKept DEF memory
  <2>5. CASE Connect \/ Close \/ Fail \/ \E r \in Requests : Call(r)
    BY <2>4, <2>5 DEF Connect, Close, Fail, Call
  <2>6. CASE \E c \in Conns : Take(c) \/ Lock(c) \/ Lookup(c) \/ Refuse(c) \/ Answer(c) \/ End(c)
    BY <2>4, <2>6 DEF Take, Lock, Lookup, Refuse, Answer, End, client
  <2>7. CASE UNCHANGED vars
    BY <2>4, <2>7 DEF vars, client
  <2> QED
    BY <2>1, <2>2, <2>3, <2>5, <2>6, <2>7, <2>8, <2>9 DEF Next
<1> QED
  BY <1>1, <1>2, Invariant, PTL DEF Spec, OnceOnly, Promise!Spec
=============================================================================
