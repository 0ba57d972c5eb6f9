------------------------------- MODULE Stream -------------------------------
(***************************************************************************)
(* The receive loop of a session (serve in net.cpp): the bytes of a peer   *)
(* arrive in pieces that do not respect frames, the thread cuts whole      *)
(* frames from its buffer and hands each to handle_frame, and it ends the  *)
(* session when the bytes cannot become a frame or take too long.          *)
(*                                                                         *)
(* The peer's frames are alike in length and differ in kind. Bytes are     *)
(* counted and not looked at: the buffer is what arrived and is not        *)
(* consumed. Time passes while the thread waits in a receive or in a send; *)
(* what it does between them takes none. A send has no timeout: it ends    *)
(* when the peer reads or the connection breaks, which nothing promises.   *)
(* What the frames ask for, and the answers, are in Coordinator.           *)
(***************************************************************************)
EXTENDS Naturals

CONSTANTS
  Header, Payload, Trailer,  \* lengths of the parts of a frame
  Frames,                    \* bound: the frames that the peer sends
  Kinds,                     \* the kinds of frames that the peers send
  Chunk,                     \* the most that one receive returns
  MaxFrame,                  \* max_frame_bytes
  ReadTimeout,               \* session_read_timeout_ms, in ticks
  AssemblyTimeout            \* frame_assembly_timeout_ms, in ticks

Length   == Header + Payload + Trailer
Overhead == Header + Trailer

ASSUME StreamAssumption ==
  /\ Header \in Nat \ {0} /\ Payload \in Nat /\ Trailer \in Nat \ {0}
  /\ Frames \in Nat /\ Chunk \in Nat \ {0} /\ MaxFrame \in Nat /\ Length <= MaxFrame
  /\ Kinds \subseteq {"Good", "Corrupt", "Foreign", "OtherVersion", "Oversized"}
  /\ ReadTimeout \in Nat \ {0} /\ AssemblyTimeout \in Nat \ {0}

VARIABLES
  stream,     \* the kind of each frame of the peer, in order
  arrived,    \* bytes received
  consumed,   \* bytes of the frames handled, erased from the buffer
  at,         \* where the thread is, or why the session ended
  quiet,      \* ticks of the receive it waits in
  age,        \* ticks since assembly_started, while the buffer holds something
  waited      \* history: ticks since the first byte of the first frame in the buffer

vars == <<stream, arrived, consumed, at, quiet, age, waited>>

\* Where the thread is blocked in a send: of the answer, or of a failure after which
\* the session ends.
Sends == {"answer", "refusal"}

\* Why the loop ends: the server stopped or the peer was not answered; the peer closed;
\* the frame was refused, too large, too long in assembly, or fell silent half-way.
Ends == {"Stopped", "Closed", "Rejected", "TooLarge", "Stalled", "Silent"}
Ended == at \in Ends

Have == arrived - consumed
Kind == stream[consumed \div Length + 1]

\* Faulty: the integrity trailer is not compared.
DecodeUnchecked(have) ==
  IF have < Header \/ Kind = "Foreign" THEN "FrameMalformed"
  ELSE IF have < Length THEN "FrameMalformed" ELSE "Ok"

\* decode_frame_prefix: the first reason that the first "have" bytes of the buffer
\* are no frame. A missing end of the trailer is the same failure as a wrong one.
Decode(have) ==
  IF have < Header \/ Kind = "Foreign" THEN "FrameMalformed"
  ELSE IF Kind = "OtherVersion" THEN "ProtocolVersionUnsupported"
  ELSE IF Kind = "Oversized" THEN "FrameTooLarge"
  ELSE IF have < Header + Payload THEN "FrameMalformed"
  ELSE IF have < Length \/ Kind = "Corrupt" THEN "IntegrityFailure"
  ELSE "Ok"

Init ==
  /\ stream \in [1..Frames -> Kinds]
  /\ arrived = 0 /\ consumed = 0
  /\ at = "loop" /\ quiet = 0 /\ age = 0 /\ waited = 0

\* Faulty: the bytes behind the frame go with it.
HandleAll ==
  /\ at = "loop" /\ Decode(Have) = "Ok"
  /\ consumed' = arrived
  /\ at' \in Sends \cup {"Stopped"}
  /\ age' = 0 /\ waited' = 0
  /\ UNCHANGED <<stream, arrived, quiet>>

\* A whole frame: it is handled, and its answer or a failure is to be sent, or the
\* session ends with an answer that is no frame. The bytes behind it stay in the
\* buffer, and so does the assembly clock, although it was started for the frame that
\* has gone.
Handle ==
  /\ at = "loop" /\ Decode(Have) = "Ok"
  /\ consumed' = consumed + Length
  /\ at' \in Sends \cup {"Stopped"}
  /\ age' = (IF Have = Length THEN 0 ELSE age)
  /\ waited' = 0
  /\ UNCHANGED <<stream, arrived, quiet>>

\* A send returns. It fails when the peer or stop() has closed the connection; after a
\* failure that was sent the session ends as well.
SendReturns ==
  /\ at \in Sends
  /\ at' \in {"Stopped"} \cup (IF at = "answer" THEN {"loop"} ELSE {})
  /\ UNCHANGED <<stream, arrived, consumed, quiet, age, waited>>

\* Faulty: whatever is not a frame yet is refused.
VerdictAtOnce == IF Have = 0 THEN "recv" ELSE "Rejected"

\* What serve does with a buffer that holds no whole frame.
Verdict ==
  IF Have >= Header /\ Have > MaxFrame THEN "TooLarge"
  ELSE IF Decode(Have) # "FrameMalformed" THEN "Rejected"
  ELSE IF Have > 0 /\ age > AssemblyTimeout THEN "Stalled"
  ELSE "recv"

Examine ==
  /\ at = "loop" /\ Decode(Have) # "Ok"
  /\ at' = Verdict /\ quiet' = 0
  /\ UNCHANGED <<stream, arrived, consumed, age, waited>>

\* The running flag is read at the head of the loop.
StopServing ==
  /\ at = "loop"
  /\ at' = "Stopped"
  /\ UNCHANGED <<stream, arrived, consumed, quiet, age, waited>>

\* Faulty: the assembly clock starts again with every piece.
ReceiveRestarts(k) ==
  /\ at = "recv" /\ arrived + k <= Frames * Length
  /\ arrived' = arrived + k
  /\ age' = 0 /\ waited' = (IF Have = 0 THEN 0 ELSE waited)
  /\ at' = (IF Have + k > MaxFrame + Overhead THEN "TooLarge" ELSE "loop")
  /\ UNCHANGED <<stream, consumed, quiet>>

\* The next bytes arrive. The assembly clock starts with the first of them.
Receive(k) ==
  /\ at = "recv" /\ arrived + k <= Frames * Length
  /\ arrived' = arrived + k
  /\ age' = (IF Have = 0 THEN 0 ELSE age) /\ waited' = (IF Have = 0 THEN 0 ELSE waited)
  /\ at' = (IF Have + k > MaxFrame + Overhead THEN "TooLarge" ELSE "loop")
  /\ UNCHANGED <<stream, consumed, quiet>>

\* The peer closes the connection, or stop() the socket.
Close ==
  /\ at = "recv"
  /\ at' = "Closed"
  /\ UNCHANGED <<stream, arrived, consumed, quiet, age, waited>>

\* Faulty: a silent peer is waited for again.
Patience == "loop"

\* Where a receive that timed out leads: an idle session goes on.
Overdue == IF Have = 0 THEN "loop" ELSE "Silent"

ReadTimesOut ==
  /\ at = "recv" /\ quiet = ReadTimeout
  /\ at' = Overdue /\ age' = 0
  /\ UNCHANGED <<stream, arrived, consumed, quiet, waited>>

\* Bound: the clocks stop at the first tick that the properties tell from no later one.
MaxClock == AssemblyTimeout + ReadTimeout + 1
Later(t) == IF t >= MaxClock THEN t ELSE t + 1

\* Time passes in a receive, up to its timeout, or in a send.
Tick ==
  /\ \/ at = "recv" /\ quiet < ReadTimeout /\ quiet' = quiet + 1
     \/ at \in Sends /\ quiet' = quiet
  /\ age' = (IF Have > 0 THEN Later(age) ELSE age)
  /\ waited' = (IF Have > 0 THEN Later(waited) ELSE waited)
  /\ UNCHANGED <<stream, arrived, consumed, at>>

Serve == Handle \/ Examine \/ ReadTimesOut

Next ==
  \/ Serve
  \/ StopServing
  \/ SendReturns
  \/ \E k \in 1..Chunk : Receive(k)
  \/ Close
  \/ Tick

Spec == Init /\ [][Next]_vars

\* The thread runs and time passes. Nothing is asked of the peer, which may neither
\* send nor read: a send need not return.
FairSpec == Spec /\ WF_vars(Serve) /\ WF_vars(Tick)

----------------------------------------------------------------------------

\* Every variable has its type. The buffer never holds more than the largest frame
\* and one frame's overhead, unless the session ends with it.
TypeOK ==
  /\ stream \in [1..Frames -> Kinds]
  /\ arrived \in 0..Frames * Length
  /\ consumed \in {n * Length : n \in 0..Frames} /\ consumed <= arrived
  /\ at \in {"loop", "recv"} \cup Sends \cup Ends /\ (at = "TooLarge" \/ Have <= MaxFrame + Overhead)
  /\ quiet \in 0..ReadTimeout
  /\ age \in 0..MaxClock /\ waited \in 0..MaxClock

\* Only whole and sound frames are handled, each once and in order: however the
\* bytes arrive, nothing behind a bad frame is ever handled.
OnlySoundFrames == \A n \in 1..Frames : n * Length <= consumed => stream[n] = "Good"

\* A peer of sound frames is cut off only when its frame took too long, with two
\* exceptions: the buffer ended inside a trailer, which decode_frame_prefix takes for
\* a wrong one although it promises to be called again "once more data has arrived",
\* or the peer had begun another frame before the answer to the last one.
CutForCause ==
  at \in {"Rejected", "TooLarge", "Stalled"} =>
    \/ Kind # "Good"
    \/ at = "Rejected" /\ Have \in Header + Payload..Length - 1
    \/ at = "TooLarge" /\ Have > Length
    \/ at = "Stalled" /\ (waited > AssemblyTimeout \/ consumed > 0)

\* A peer that delivers a frame in pieces, each in time, holds the session no longer
\* for it: the thread never waits for the rest of a frame that came to be first in the
\* buffer more than frame_assembly_timeout_ms and one last receive ago.
AssemblyIsBounded == at = "recv" => waited <= AssemblyTimeout + ReadTimeout

\* "A partial frame can never pin a session" (README): once the answer to the frame
\* before it is sent, a frame that was begun is handled or the session ends, whatever
\* the peer does. A peer that does not read its answer pins the session in the send.
NothingPins ==
  \A n \in 0..Frames :
    (consumed = n * Length /\ Have > 0 /\ at \notin Sends) ~> (Ended \/ consumed > n * Length)
=============================================================================
