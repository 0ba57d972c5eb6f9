---------------------------- MODULE StreamProofs ----------------------------
(***************************************************************************)
(* For frames of any length, any bounds and timeouts and any number of     *)
(* frames: the buffer of a session begins at the border of two frames and  *)
(* stays within its bound, only sound frames are handled, in order, and    *)
(* the rest of a frame is waited for no longer than the two timeouts.      *)
(***************************************************************************)
EXTENDS Stream, TLAPS

\* The borders of frames are ordered as the frames are.
LEMMA Borders ==
  ASSUME NEW L \in Nat \ {0}, NEW m \in Nat, NEW n \in Nat
  PROVE  m * L <= n * L <=> m <= n
<1>1. m <= n => m * L <= n * L
  OBVIOUS
<1>2. ASSUME n < m PROVE n * L < m * L
  <2>1. PICK k \in Nat : m = n + k + 1
    <3>1. m - n - 1 \in Nat /\ m = n + (m - n - 1) + 1
      BY <1>2
    <3> QED
      BY <3>1
  <2>2. m * L = n * L + k * L + L
    BY <2>1
  <2>3. n * L \in Nat /\ k * L \in Nat
    OBVIOUS
  <2> QED
    BY <2>2, <2>3
<1>3. m * L \in Nat /\ n * L \in Nat
  OBVIOUS
<1> QED
  BY <1>1, <1>2, <1>3

\* At the border of a frame, the division finds its number.
LEMMA Numbered ==
  ASSUME NEW L \in Nat \ {0}, NEW n \in Nat
  PROVE  (n * L) \div L = n
OBVIOUS

\* A frame has a header and a trailer, and the largest frame admits it.
LEMMA LengthType == Length \in Nat \ {0} /\ Overhead \in Nat \ {0} /\ Length <= MaxFrame
BY StreamAssumption DEF Length, Overhead

\* Before the first frame is handled the assembly clock is not ahead of the time.
ClocksAgree == consumed = 0 => age <= waited

\* With an empty buffer no clock runs; a frame has been first in the buffer no longer
\* than the assembly clock says, and that clock was within its bound when the receive
\* that the thread waits in began.
ClocksBound ==
  /\ Have = 0 => age = 0 /\ waited = 0
  /\ ~ Ended => waited <= age
  /\ at = "recv" => age <= AssemblyTimeout + quiet

IInv == TypeOK /\ OnlySoundFrames /\ CutForCause /\ ClocksAgree /\ ClocksBound

\* Nothing has arrived.
LEMMA InitInv == Init => IInv
<1> SUFFICES ASSUME Init PROVE IInv
  OBVIOUS
<1>1. 0 \in {n * Length : n \in 0..Frames}
  <2>1. 0 = 0 * Length /\ 0 \in 0..Frames
    BY StreamAssumption, LengthType
  <2> QED
    BY <2>1
<1>2. TypeOK
  BY <1>1, StreamAssumption, LengthType DEF Init, TypeOK, Have, Ends, MaxClock
<1>3. OnlySoundFrames
  <2> SUFFICES ASSUME NEW n \in 1..Frames, n * Length <= consumed PROVE FALSE
    BY DEF OnlySoundFrames
  <2>1. n * Length <= 0 * Length
    BY LengthType DEF Init
  <2>2. n <= 0
    BY <2>1, Borders, LengthType, StreamAssumption
  <2> QED
    BY <2>2
<1>4. CutForCause /\ ClocksAgree /\ ClocksBound
  BY DEF Init, CutForCause, ClocksAgree, ClocksBound
<1> QED
  BY <1>2, <1>3, <1>4 DEF IInv

\* A frame that decodes is the next one of the peer, complete and sound.
LEMMA DecodesSound ==
  ASSUME TypeOK, NEW n \in 0..Frames, consumed = n * Length, Decode(Have) = "Ok"
  PROVE  n + 1 \in 1..Frames /\ stream[n + 1] = "Good" /\ consumed + Length <= arrived
<1>1. Have \in Nat /\ Have >= Length /\ arrived \in Nat /\ arrived <= Frames * Length
  BY StreamAssumption, LengthType DEF TypeOK, Decode, Have, Length
<1>2. consumed + Length <= arrived
  BY <1>1, LengthType DEF Have, TypeOK
<1>3. (n + 1) * Length <= Frames * Length
  BY <1>1, <1>2, LengthType, StreamAssumption DEF TypeOK
<1>4. n + 1 \in 1..Frames
  BY <1>3, Borders, LengthType, StreamAssumption
<1>5. Kind = stream[n + 1]
  BY Numbered, LengthType, StreamAssumption DEF Kind
<1>6. stream[n + 1] \in Kinds
  BY <1>4 DEF TypeOK
<1>7. stream[n + 1] = "Good"
  BY <1>1, <1>5, <1>6, StreamAssumption DEF Decode
<1> QED
  BY <1>2, <1>4, <1>7

\* Handling a frame.
LEMMA HandleInv == ASSUME IInv, Handle PROVE IInv'
<1> USE DEF IInv
<1>1. PICK n \in 0..Frames : consumed = n * Length
  BY DEF TypeOK
<1>2. n + 1 \in 1..Frames /\ stream[n + 1] = "Good" /\ consumed + Length <= arrived
  BY <1>1, DecodesSound DEF Handle
<1>3. /\ consumed' = (n + 1) * Length /\ consumed' = consumed + Length /\ n + 1 \in 0..Frames
      /\ at' \in Sends \cup {"Stopped"} /\ age' \in {0, age} /\ waited' = 0
      /\ stream' = stream /\ arrived' = arrived /\ quiet' = quiet
  BY <1>1, <1>2, LengthType, StreamAssumption DEF Handle
<1>4. TypeOK'
  <2>1. consumed' \in {k * Length : k \in 0..Frames}
    BY <1>3
  <2>2. Have' <= MaxFrame + Overhead /\ consumed' <= arrived'
    BY <1>2, <1>3, LengthType, StreamAssumption DEF TypeOK, Have, Handle, Ends
  <2> QED
    BY <1>3, <2>1, <2>2, StreamAssumption DEF TypeOK, Ends, Sends, MaxClock
<1>5. OnlySoundFrames'
  <2> SUFFICES ASSUME NEW m \in 1..Frames, m * Length <= consumed' PROVE stream[m] = "Good"
    BY <1>3 DEF OnlySoundFrames, Length
  <2>1. m <= n + 1
    BY <1>3, Borders, LengthType, StreamAssumption
  <2>2. CASE m = n + 1
    BY <1>2, <2>2
  <2>3. CASE m <= n
    <3>1. m * Length <= consumed
      BY <1>1, <2>3, Borders, LengthType, StreamAssumption
    <3> QED
      BY <3>1 DEF OnlySoundFrames
  <2> QED
    BY <2>1, <2>2, <2>3, <1>1
<1>6. CutForCause'
  BY <1>3 DEF CutForCause, Sends
<1>7. ClocksAgree'
  BY <1>3, LengthType, StreamAssumption DEF ClocksAgree, TypeOK
<1>8. ClocksBound'
  <2>1. Have' = 0 => age' = 0
    BY <1>2, <1>3, LengthType, StreamAssumption DEF Handle, Have, TypeOK
  <2> QED
    BY <1>3, <2>1, StreamAssumption DEF ClocksBound, TypeOK, Sends, MaxClock
<1> QED
  BY <1>4, <1>5, <1>6, <1>7, <1>8

\* A send returns.
LEMMA SendInv == ASSUME IInv, SendReturns PROVE IInv'
<1> USE DEF IInv
<1>1. /\ at \in Sends /\ at' \in {"loop", "Stopped"}
      /\ UNCHANGED <<stream, arrived, consumed, quiet, age, waited>> /\ Have' = Have
  BY DEF SendReturns, Have
<1>2. TypeOK'
  BY <1>1, StreamAssumption DEF TypeOK, Ends, Sends
<1>3. OnlySoundFrames' /\ CutForCause' /\ ClocksAgree'
  BY <1>1 DEF OnlySoundFrames, CutForCause, ClocksAgree, Length
<1>4. ClocksBound'
  BY <1>1 DEF ClocksBound, Ended, Ends, Sends
<1> QED
  BY <1>2, <1>3, <1>4

\* A buffer without a whole frame: each way to end the session has its reason.
LEMMA ExamineInv == ASSUME IInv, Examine PROVE IInv'
<1> USE DEF IInv
<1>1. /\ at = "loop" /\ at' = Verdict /\ quiet' = 0 /\ Decode(Have) # "Ok"
      /\ UNCHANGED <<stream, arrived, consumed, age, waited>>
  BY DEF Examine
<1>2. Have' = Have /\ Kind' = Kind /\ Have \in Nat /\ Verdict \in {"TooLarge", "Rejected", "Stalled", "recv"}
  BY <1>1, StreamAssumption, LengthType DEF Have, Kind, Verdict, TypeOK, Length
<1>3. TypeOK'
  BY <1>1, <1>2, StreamAssumption DEF TypeOK, Ends
<1>4. OnlySoundFrames'
  BY <1>1 DEF OnlySoundFrames, Length
<1>5. CutForCause'
  <2>1. CASE Verdict = "TooLarge"
    BY <1>1, <1>2, <2>1, LengthType, StreamAssumption DEF Verdict, CutForCause
  <2>2. CASE Verdict = "Rejected"
    <3>1. Kind = "Good" => Have >= Header + Payload /\ Have < Length
      BY <1>1, <1>2, <2>2, LengthType, StreamAssumption DEF Verdict, Decode
    <3> QED
      BY <1>1, <1>2, <2>2, <3>1, LengthType, StreamAssumption DEF CutForCause, Length
  <2>3. CASE Verdict = "Stalled"
    <3>1. age > AssemblyTimeout
      BY <2>3 DEF Verdict
    <3>2. consumed > 0 \/ waited > AssemblyTimeout
      BY <3>1, LengthType, StreamAssumption DEF ClocksAgree, TypeOK
    <3> QED
      BY <1>1, <2>3, <3>2 DEF CutForCause
  <2>4. CASE Verdict = "recv"
    BY <1>1, <2>4 DEF CutForCause
  <2> QED
    BY <1>2, <2>1, <2>2, <2>3, <2>4
<1>6. ClocksAgree'
  BY <1>1 DEF ClocksAgree
<1>7. ClocksBound'
  <2>1. ~ Ended' => ~ Ended
    BY <1>1 DEF Ended, Ends
  <2>2. Verdict = "recv" => age <= AssemblyTimeout
    BY <1>2, StreamAssumption DEF Verdict, ClocksBound, TypeOK, MaxClock
  <2> QED
    BY <1>1, <1>2, <2>1, <2>2, StreamAssumption DEF ClocksBound, TypeOK, MaxClock
<1> QED
  BY <1>3, <1>4, <1>5, <1>6, <1>7

\* New bytes.
LEMMA ReceiveInv == ASSUME IInv, NEW k \in 1..Chunk, Receive(k) PROVE IInv'
<1> USE DEF IInv
<1>1. /\ at = "recv" /\ arrived' = arrived + k /\ arrived' <= Frames * Length
      /\ at' = (IF Have + k > MaxFrame + Overhead THEN "TooLarge" ELSE "loop")
      /\ UNCHANGED <<stream, consumed, quiet>>
      /\ (age' = 0 /\ waited' = 0) \/ (age' = age /\ waited' = waited)
  BY DEF Receive
<1>2. Have \in Nat /\ Have' = Have + k /\ k \in Nat
  BY <1>1, StreamAssumption, LengthType DEF Have, TypeOK
<1>3. TypeOK'
  BY <1>1, <1>2, StreamAssumption, LengthType DEF TypeOK, Ends, MaxClock
<1>4. OnlySoundFrames'
  BY <1>1 DEF OnlySoundFrames, Length
<1>5. CutForCause'
  BY <1>1, <1>2, StreamAssumption, LengthType DEF CutForCause, Length, Overhead
<1>6. ClocksAgree'
  BY <1>1 DEF ClocksAgree
<1>7. ClocksBound'
  BY <1>1, <1>2 DEF ClocksBound, Ended, Ends
<1> QED
  BY <1>3, <1>4, <1>5, <1>6, <1>7

\* The steps that read the clocks, and the ends that nobody is to blame for.
LEMMA WaitInv == ASSUME IInv, StopServing \/ Close \/ ReadTimesOut \/ Tick PROVE IInv'
<1> USE DEF IInv
<1>1. CASE StopServing \/ Close
  <2>1. /\ at \in {"loop", "recv"} /\ at' \in {"Stopped", "Closed"}
        /\ UNCHANGED <<stream, arrived, consumed, quiet, age, waited>> /\ Have' = Have
    BY <1>1 DEF StopServing, Close, Have
  <2>2. TypeOK' /\ OnlySoundFrames' /\ CutForCause' /\ ClocksAgree'
    BY <2>1 DEF TypeOK, OnlySoundFrames, CutForCause, ClocksAgree, Ends, Length
  <2>3. ClocksBound'
    BY <2>1 DEF ClocksBound, Ended, Ends
  <2> QED
    BY <2>2, <2>3
<1>2. CASE ReadTimesOut
  <2>1. Have \in Nat
    BY StreamAssumption, LengthType DEF Have, TypeOK
  <2>2. /\ at = "recv" /\ at' = Overdue /\ age' = 0
        /\ UNCHANGED <<stream, arrived, consumed, quiet, waited>> /\ Have' = Have
    BY <1>2 DEF ReadTimesOut, Have
  <2>3. TypeOK' /\ OnlySoundFrames' /\ CutForCause' /\ ClocksAgree'
    BY <2>1, <2>2, StreamAssumption
       DEF Overdue, TypeOK, OnlySoundFrames, CutForCause, ClocksAgree, Ends, Length, MaxClock
  <2>4. ClocksBound'
    <3>1. at' = "Silent" \/ (at' = "loop" /\ Have = 0)
      BY <2>2 DEF Overdue
    <3> QED
      BY <2>2, <3>1 DEF ClocksBound, Ended, Ends
  <2> QED
    BY <2>3, <2>4
<1>3. CASE Tick
  <2>1. /\ at' = at /\ at \in {"recv"} \cup Sends
        /\ quiet' \in 0..ReadTimeout /\ (at = "recv" => quiet' = quiet + 1)
        /\ UNCHANGED <<stream, arrived, consumed>> /\ Have' = Have
        /\ \/ age' = age /\ waited' = waited
           \/ Have > 0 /\ age' = Later(age) /\ waited' = Later(waited)
    BY <1>3, StreamAssumption DEF Tick, TypeOK, Have, Sends
  <2>2. /\ Later(age) \in 0..MaxClock /\ Later(waited) \in 0..MaxClock
        /\ age <= waited => Later(age) <= Later(waited)
        /\ waited <= age => Later(waited) <= Later(age)
        /\ Later(age) <= age + 1
    BY StreamAssumption DEF Later, TypeOK, MaxClock
  <2>3. TypeOK' /\ OnlySoundFrames' /\ CutForCause' /\ ClocksAgree'
    BY <2>1, <2>2, StreamAssumption
       DEF TypeOK, OnlySoundFrames, CutForCause, ClocksAgree, Length, Sends
  <2>4. ClocksBound'
    <3>1. Have' = 0 => age' = 0 /\ waited' = 0
      BY <2>1 DEF ClocksBound
    <3>2. waited <= age /\ ~ Ended
      BY <2>1 DEF ClocksBound, Ended, Ends, Sends
    <3>3. waited' <= age'
      BY <2>1, <2>2, <3>2
    <3>4. at' = "recv" => age' <= AssemblyTimeout + quiet'
      BY <2>1, <2>2, StreamAssumption DEF ClocksBound, TypeOK, MaxClock
    <3> QED
      BY <3>1, <3>3, <3>4 DEF ClocksBound
  <2> QED
    BY <2>3, <2>4
<1> QED
  BY <1>1, <1>2, <1>3

\* Every step of the loop keeps the invariant.
LEMMA NextInv == IInv /\ [Next]_vars => IInv'
<1> SUFFICES ASSUME IInv, [Next]_vars PROVE IInv'
  OBVIOUS
<1>1. CASE UNCHANGED vars
  BY <1>1 DEF vars, IInv, TypeOK, OnlySoundFrames, CutForCause, ClocksAgree, ClocksBound, Have,
              Kind, Ended, Ends, Length
<1>2. CASE Serve
  BY <1>2, HandleInv, ExamineInv, WaitInv DEF Serve
<1>3. ASSUME NEW k \in 1..Chunk, Receive(k) PROVE IInv'
  BY <1>3, ReceiveInv
<1>4. CASE StopServing \/ Close \/ Tick
  BY <1>4, WaitInv
<1>5. CASE SendReturns
  BY <1>5, SendInv
<1> QED
  BY <1>1, <1>2, <1>3, <1>4, <1>5 DEF Next

\* The invariant that the theorems below are read from.
THEOREM Invariant == Spec => []IInv
BY InitInv, NextInv, PTL DEF Spec

\* Every variable of Stream always has its type: the buffer begins at a border of
\* frames and never exceeds its bound in a session that goes on.
THEOREM TypeCorrect == Spec => []TypeOK
<1>1. IInv => TypeOK
  BY DEF IInv
<1> QED
  BY <1>1, Invariant, PTL

\* Only sound frames are handled, each once and in order, however the bytes arrive
\* and whatever the lengths of the parts of a frame.
THEOREM HandlesOnlySound == Spec => []OnlySoundFrames
<1>1. IInv => OnlySoundFrames
  BY DEF IInv
<1> QED
  BY <1>1, Invariant, PTL

\* No session of sound frames is cut off without one of the stated causes.
THEOREM CutsForCause == Spec => []CutForCause
<1>1. IInv => CutForCause
  BY DEF IInv
<1> QED
  BY <1>1, Invariant, PTL

\* The thread waits for the rest of a frame no longer than the assembly timeout and one
\* read timeout, in however many pieces the frame is delivered.
THEOREM BoundsAssembly == Spec => []AssemblyIsBounded
<1>1. IInv => AssemblyIsBounded
  BY StreamAssumption DEF IInv, AssemblyIsBounded, ClocksBound, TypeOK, Ended, Ends, MaxClock
<1> QED
  BY <1>1, Invariant, PTL
=============================================================================
