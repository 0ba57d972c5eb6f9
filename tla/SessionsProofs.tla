--------------------------- MODULE SessionsProofs ---------------------------
(***************************************************************************)
(* For any workers, epochs, limits and number of sessions. First of the    *)
(* engine, whoever calls it: the types of Authority, the epoch of every    *)
(* live publisher, the fence of every replaced boot, and that no stale     *)
(* worker writes; each invariant is inductive over the step it is proved   *)
(* for, given the types. Then of the server: its sessions keep to          *)
(* Authority, so that those theorems hold under them, and no worker        *)
(* outlives the session that named it last.                                *)
(***************************************************************************)
EXTENDS Sessions, TLAPS

\* What the proofs carry from step to step.
IInv == TypeOK /\ LiveAtCurrentEpoch /\ ReplacedStaysOut /\ MarkedIsFenced

\* The coordinator starts with nothing registered, fenced or stored.
LEMMA InitInv == Init => IInv
BY AuthorityAssumption
   DEF Init, IInv, TypeOK, LiveAtCurrentEpoch, ReplacedStaysOut, MarkedIsFenced, Epoch, NoRecords,
       Record, Stored

\* A registration leaves one live record, of this epoch, and fences the boot that
\* the publisher had; a boot replaced before was fenced, so it is not this one.
LEMMA RegisterInv ==
  ASSUME IInv, NEW p \in Publisher, NEW b \in Boot, NEW e \in Epoch, RegisterPublisher(p, b, e)
  PROVE  IInv'
<1> DEFINE replaced == {c \in Boot \ {b} : p \in DOMAIN pubs /\ pubs[p].boot = c}
<1> USE DEF IInv
<1>1. /\ fenced' = fenced \cup replaced
      /\ past' = past \cup {<<p, c>> : c \in replaced}
      /\ e = epoch /\ b \notin fenced
      /\ UNCHANGED <<epoch, stamp, store>>
  BY DEF RegisterPublisher, Admits
<1>2. /\ DOMAIN pubs' = DOMAIN pubs \cup {p}
      /\ pubs'[p] = [boot |-> b, epoch |-> e, live |-> TRUE, fenced |-> FALSE]
      /\ \A q \in DOMAIN pubs \ {p} : pubs'[q] = pubs[q]
      /\ pubs' = [q \in DOMAIN pubs' |-> pubs'[q]]
  BY DEF RegisterPublisher, Admits
<1>3. TypeOK'
  <2>1. \A q \in DOMAIN pubs' : pubs'[q] \in Record
    <3> SUFFICES ASSUME NEW q \in DOMAIN pubs' PROVE pubs'[q] \in Record
      OBVIOUS
    <3>1. CASE q = p
      <4>1. [boot |-> b, epoch |-> e, live |-> TRUE, fenced |-> FALSE] \in Record
        BY DEF Record
      <4> QED
        BY <1>2, <3>1, <4>1
    <3>2. CASE q # p
      BY <1>2, <3>2 DEF TypeOK
    <3> QED
      BY <3>1, <3>2
  <2>2. pubs' \in [DOMAIN pubs' -> Record]
    BY <1>2, <2>1
  <2>3. past' \subseteq Publisher \X Boot
    BY <1>1 DEF TypeOK
  <2> QED
    BY <1>1, <1>2, <2>2, <2>3 DEF TypeOK
<1>4. LiveAtCurrentEpoch'
  BY <1>1, <1>2 DEF LiveAtCurrentEpoch
<1>5. ReplacedStaysOut'
  <2> SUFFICES ASSUME NEW q \in Publisher, NEW c \in Boot, <<q, c>> \in past'
               PROVE  c \in fenced' /\ q \in DOMAIN pubs' /\ pubs'[q].boot # c
    BY DEF ReplacedStaysOut
  <2>1. CASE <<q, c>> \in past
    BY <1>1, <1>2, <2>1 DEF ReplacedStaysOut
  <2>2. CASE q = p /\ c \in replaced
    BY <1>1, <1>2, <2>2
  <2> QED
    BY <1>1, <2>1, <2>2
<1>6. MarkedIsFenced'
  BY <1>1, <1>2 DEF MarkedIsFenced
<1> QED
  BY <1>3, <1>4, <1>5, <1>6

\* A publisher that gives up its authority keeps its boot.
LEMMA UnregisterInv ==
  ASSUME IInv, NEW p \in Publisher, NEW b \in Boot, UnregisterPublisher(p, b)
  PROVE  IInv'
<1> USE DEF IInv
<1>1. /\ DOMAIN pubs' = DOMAIN pubs
      /\ pubs' \in [DOMAIN pubs -> Record]
      /\ \A q \in DOMAIN pubs : /\ pubs'[q].boot = pubs[q].boot
                                /\ pubs'[q].epoch = pubs[q].epoch
                                /\ pubs'[q].fenced = pubs[q].fenced
                                /\ pubs'[q].live => pubs[q].live
  BY DEF UnregisterPublisher, TypeOK, Record
<1>2. UNCHANGED <<epoch, fenced, stamp, store, past>>
  BY DEF UnregisterPublisher
<1> QED
  BY <1>1, <1>2 DEF TypeOK, LiveAtCurrentEpoch, ReplacedStaysOut, MarkedIsFenced

\* A fence only adds to the fenced boots and takes authority from a record.
LEMMA FenceInv ==
  ASSUME IInv, NEW p \in Publisher \cup {None}, NEW b \in Boot, FenceWorker(p, b)
  PROVE  IInv'
<1> USE DEF IInv
<1>1. /\ DOMAIN pubs' = DOMAIN pubs
      /\ pubs' \in [DOMAIN pubs -> Record]
      /\ \A q \in DOMAIN pubs : /\ pubs'[q].boot = pubs[q].boot
                                /\ pubs'[q].epoch = pubs[q].epoch
                                /\ pubs'[q].live => pubs[q].live
                                /\ pubs'[q].fenced => pubs[q].fenced \/ pubs[q].boot = b
  BY DEF FenceWorker, TypeOK, Record
<1>2. fenced' = fenced \cup {b} /\ UNCHANGED <<epoch, stamp, store, past>>
  BY DEF FenceWorker
<1> QED
  BY <1>1, <1>2 DEF TypeOK, LiveAtCurrentEpoch, ReplacedStaysOut, MarkedIsFenced

\* After an epoch change no publisher is live.
LEMMA AdvanceInv ==
  ASSUME IInv, NEW e \in Epoch, AdvanceEpoch(e)
  PROVE  IInv'
<1> USE DEF IInv
<1>1. /\ DOMAIN pubs' = DOMAIN pubs
      /\ pubs' \in [DOMAIN pubs -> Record]
      /\ \A q \in DOMAIN pubs : /\ pubs'[q].boot = pubs[q].boot
                                /\ pubs'[q].fenced = pubs[q].fenced
                                /\ pubs'[q].live = FALSE
  BY DEF AdvanceEpoch, Deposed, TypeOK, Record
<1>2. /\ epoch' = e /\ fenced \subseteq fenced' /\ fenced' \subseteq Boot
      /\ UNCHANGED <<stamp, store, past>>
  BY DEF AdvanceEpoch, TypeOK, Record
<1> QED
  BY <1>1, <1>2 DEF TypeOK, LiveAtCurrentEpoch, ReplacedStaysOut, MarkedIsFenced

\* A write changes the stamp and nothing else.
LEMMA WriteInv ==
  ASSUME IInv, NEW p \in Publisher, NEW b \in Boot, NEW e \in Epoch, Write(p, b, e)
  PROVE  IInv'
BY DEF IInv, Write, TypeOK, LiveAtCurrentEpoch, ReplacedStaysOut, MarkedIsFenced

\* Writing the store changes the store and the history of it.
LEMMA SaveInv ==
  ASSUME IInv, Save
  PROVE  IInv'
<1> USE DEF IInv
<1>1. /\ store'.epoch = epoch
      /\ DOMAIN store'.records = DOMAIN pubs
      /\ store'.records \in [DOMAIN pubs -> Stored]
  BY DEF Save, TypeOK, Record, Stored
<1>2. UNCHANGED <<epoch, pubs, fenced, stamp, past>>
  BY DEF Save
<1> QED
  BY <1>1, <1>2 DEF TypeOK, LiveAtCurrentEpoch, ReplacedStaysOut, MarkedIsFenced

\* After recovery no publisher is live and every record's boot is fenced.
LEMMA RecoverInv ==
  ASSUME IInv, Recover
  PROVE  IInv'
<1> USE DEF IInv
<1>1. /\ DOMAIN pubs' = DOMAIN store.records
      /\ pubs' \in [DOMAIN store.records -> Record]
      /\ \A q \in DOMAIN pubs' : pubs'[q].live = FALSE /\ pubs'[q].boot \in fenced'
  BY DEF Recover, RecoveredFences, TypeOK, Record, Stored
<1>2. /\ epoch' \in Epoch /\ fenced' \subseteq Boot /\ past' = {}
      /\ stamp' = [epoch |-> epoch', publisher |-> None, boot |-> None]
      /\ UNCHANGED store
  BY AuthorityAssumption DEF Recover, RecoveredFences, NextEpoch, TypeOK, Stored, Epoch
<1> QED
  BY <1>1, <1>2 DEF TypeOK, LiveAtCurrentEpoch, ReplacedStaysOut, MarkedIsFenced

\* Every step of the specification keeps the invariant.
LEMMA NextInv == IInv /\ [Next]_vars => IInv'
<1> SUFFICES ASSUME IInv, [Next]_vars PROVE IInv'
  OBVIOUS
<1>1. CASE UNCHANGED vars
  BY <1>1 DEF vars, IInv, TypeOK, LiveAtCurrentEpoch, ReplacedStaysOut, MarkedIsFenced
<1>2. ASSUME NEW p \in Publisher, NEW b \in Boot, NEW e \in Epoch,
             RegisterPublisher(p, b, e) \/ Mutate(p, b, e) \/ Report(p, b, e)
      PROVE  IInv'
  BY <1>2, RegisterInv, WriteInv DEF Mutate, Report
<1>3. ASSUME NEW p \in Publisher, NEW b \in Boot, UnregisterPublisher(p, b)
      PROVE  IInv'
  BY <1>3, UnregisterInv
<1>4. ASSUME NEW p \in Publisher \cup {None}, NEW b \in Boot, FenceWorker(p, b)
      PROVE  IInv'
  BY <1>4, FenceInv
<1>5. ASSUME NEW e \in Epoch, AdvanceEpoch(e)
      PROVE  IInv'
  BY <1>5, AdvanceInv
<1>6. CASE Save
  BY <1>6, SaveInv
<1>7. CASE Recover
  BY <1>7, RecoverInv
<1> QED
  BY <1>1, <1>2, <1>3, <1>4, <1>5, <1>6, <1>7 DEF Next

\* The invariant that the theorems below are read from.
THEOREM Invariant == Spec => []IInv
BY InitInv, NextInv, PTL DEF Spec

\* Every variable of Authority always has its type.
THEOREM TypeCorrect == Spec => []TypeOK
<1>1. IInv => TypeOK
  BY DEF IInv
<1> QED
  BY <1>1, Invariant, PTL

\* A publisher is live only with a registration of the epoch in force.
THEOREM LiveIsCurrent == Spec => []LiveAtCurrentEpoch
<1>1. IInv => LiveAtCurrentEpoch
  BY DEF IInv
<1> QED
  BY <1>1, Invariant, PTL

\* A boot that was replaced is fenced and not its publisher's boot again, until
\* the coordinator restarts.
THEOREM ReplacedIsOut == Spec => []ReplacedStaysOut
<1>1. IInv => ReplacedStaysOut
  BY DEF IInv
<1> QED
  BY <1>1, Invariant, PTL

\* A publisher record marked fenced names a boot that is fenced, over every
\* registration, fence, epoch and restart.
THEOREM MarksAreFences == Spec => []MarkedIsFenced
<1>1. IInv => MarkedIsFenced
  BY DEF IInv
<1> QED
  BY <1>1, Invariant, PTL

\* No write is accepted from a worker that was fenced, replaced, or registered in
\* an earlier epoch.
THEOREM StaleWriterRefused == Spec => NoStaleWriter
<1> DEFINE A == stamp' # stamp /\ stamp'.publisher # None =>
                  /\ stamp'.epoch = epoch /\ pubs[stamp'.publisher].epoch = epoch
                  /\ stamp'.boot \notin fenced
                  /\ <<stamp'.publisher, stamp'.boot>> \notin past
<1>1. IInv /\ [Next]_vars => [A]_vars
  <2> SUFFICES ASSUME IInv, Next PROVE A
    OBVIOUS
  <2>1. ASSUME NEW p \in Publisher, NEW b \in Boot, NEW e \in Epoch,
               Mutate(p, b, e) \/ Report(p, b, e)
        PROVE  A
    <3>1. e = epoch /\ Speaks(p, b)
      BY <2>1 DEF Mutate, Report, MayMutate, MayReport
    <3>2. pubs[p].epoch = epoch /\ b \notin fenced
      BY <3>1 DEF Speaks, IInv, LiveAtCurrentEpoch
    <3>3. <<p, b>> \notin past
      BY <3>2 DEF IInv, ReplacedStaysOut
    <3>4. stamp' = [epoch |-> e, publisher |-> p, boot |-> b]
      BY <2>1 DEF Mutate, Report, Write
    <3> QED
      BY <3>1, <3>2, <3>3, <3>4
  <2>2. ASSUME NEW p \in Publisher, NEW b \in Boot, NEW e \in Epoch, RegisterPublisher(p, b, e)
        PROVE  A
    BY <2>2 DEF RegisterPublisher
  <2>3. ASSUME NEW p \in Publisher, NEW b \in Boot, UnregisterPublisher(p, b)
        PROVE  A
    BY <2>3 DEF UnregisterPublisher
  <2>4. ASSUME NEW p \in Publisher \cup {None}, NEW b \in Boot, FenceWorker(p, b)
        PROVE  A
    BY <2>4 DEF FenceWorker
  <2>5. ASSUME NEW e \in Epoch, AdvanceEpoch(e)
        PROVE  A
    BY <2>5 DEF AdvanceEpoch
  <2>6. CASE Save
    BY <2>6 DEF Save
  <2>7. CASE Recover
    <3>1. stamp'.publisher = None
      BY <2>7 DEF Recover
    <3> QED
      BY <3>1
  <2> QED
    BY <2>1, <2>2, <2>3, <2>4, <2>5, <2>6, <2>7 DEF Next
<1> QED
  BY <1>1, Invariant, PTL DEF Spec, NoStaleWriter

-----------------------------------------------------------------------------
\* The sessions of the server.

Places == {"none", "open", "answered", "reporting", "ended"}

\* Where the threads are and whom their sessions and requests name.
SessionsTypeOK ==
  /\ at \in [Session -> Places]
  /\ bound \in [Session -> Worker \cup {Nobody}]
  /\ naming \in [Session -> Worker \cup {Nobody}]
  /\ \A s \in Session : /\ at[s] = "answered" => naming[s] \in Worker
                        /\ at[s] = "reporting" => bound[s] \in Worker

SInv == SessionsTypeOK /\ WritersAreAttended

\* A step of one session's thread leaves the others where they are.
LEMMA GoType ==
  ASSUME SessionsTypeOK, NEW s \in Session, NEW from, NEW to \in Places, Go(s, from, to)
  PROVE  /\ at' \in [Session -> Places] /\ at[s] = from /\ at'[s] = to
         /\ \A r \in Session \ {s} : at'[r] = at[r]
BY DEF SessionsTypeOK, Go

\* Binding a session to a worker.
LEMMA RebindType ==
  ASSUME SessionsTypeOK, NEW s \in Session, NEW w \in Worker, Rebind(s, w)
  PROVE  /\ bound' \in [Session -> Worker \cup {Nobody}] /\ bound'[s] = w
         /\ \A r \in Session \ {s} : bound'[r] = bound[r]
         /\ abandoned \subseteq abandoned'
         /\ bound[s].boot \in Boot => bound[s].boot = w.boot \/ bound[s].boot \in abandoned'
BY AuthorityAssumption DEF SessionsTypeOK, Rebind, Bind

\* What a worker that may speak after a step of the engine could do before it.
LEMMA SpeaksBefore ==
  ASSUME NEW p \in Publisher, NEW b \in Boot
  PROVE  /\ \A q \in Publisher, c \in Boot, e \in Epoch :
              RegisterPublisher(q, c, e) /\ Speaks(p, b)' => Speaks(p, b) \/ b = c
         /\ \A q, c : FenceWorker(q, c) /\ Speaks(p, b)' => Speaks(p, b) /\ b # c
         /\ \A e \in Epoch : TypeOK /\ AdvanceEpoch(e) => ~Speaks(p, b)'
         /\ ~(Recover /\ Speaks(p, b)')
         /\ UNCHANGED <<pubs, fenced>> /\ Speaks(p, b)' => Speaks(p, b)
<1>1. ASSUME NEW q \in Publisher, NEW c \in Boot, NEW e \in Epoch,
             RegisterPublisher(q, c, e), Speaks(p, b)'
      PROVE  Speaks(p, b) \/ b = c
  <2>1. /\ fenced \subseteq fenced'
        /\ pubs' = [r \in DOMAIN pubs \cup {q} |->
                      IF r = q THEN [boot |-> c, epoch |-> e, live |-> TRUE, fenced |-> FALSE]
                      ELSE pubs[r]]
    BY <1>1 DEF RegisterPublisher
  <2>2. CASE p = q
    BY <1>1, <2>1, <2>2 DEF Speaks
  <2>3. CASE p # q
    BY <1>1, <2>1, <2>3 DEF Speaks
  <2> QED
    BY <2>2, <2>3
<1>2. \A q, c : FenceWorker(q, c) /\ Speaks(p, b)' => Speaks(p, b) /\ b # c
  BY DEF FenceWorker, Speaks
<1>3. ASSUME NEW e \in Epoch, TypeOK, AdvanceEpoch(e)
      PROVE  ~Speaks(p, b)'
  <2>1. \A r \in DOMAIN pubs' : pubs'[r].live = FALSE
    BY <1>3 DEF AdvanceEpoch, Deposed, TypeOK, Record
  <2> QED
    BY <2>1 DEF Speaks
<1>4. ~(Recover /\ Speaks(p, b)')
  BY DEF Recover, Speaks
<1>5. UNCHANGED <<pubs, fenced>> /\ Speaks(p, b)' => Speaks(p, b)
  BY DEF Speaks
<1> QED
  BY <1>1, <1>2, <1>3, <1>4, <1>5

\* Sessions that are left alone go on attending their workers.
LEMMA AttendedStill ==
  ASSUME SInv, UNCHANGED sessions, NEW p \in Publisher, NEW b \in Boot, Speaks(p, b)
  PROVE  Attended(b)' \/ b \in abandoned'
BY DEF SInv, WritersAreAttended, Attended, sessions

\* At the start there is no session and nobody may speak.
LEMMA SessionsInitInv == SessionsInit => SInv
BY DEF SessionsInit, SInv, SessionsTypeOK, WritersAreAttended, Speaks, Init, NoRecords, Places

\* An accepted request: its worker is attended from its acceptance on.
LEMMA AcceptInv ==
  ASSUME SInv, NEW s \in Session, NEW p \in Publisher, NEW b \in Boot,
         Go(s, "open", "answered"), naming' = [naming EXCEPT ![s] = Named(p, b)],
         UNCHANGED <<bound, abandoned>>,
         \A q \in Publisher, c \in Boot : Speaks(q, c)' => Speaks(q, c) \/ c = b
  PROVE  SInv'
<1> USE DEF SInv
<1>1. /\ at' \in [Session -> Places] /\ at[s] = "open" /\ at'[s] = "answered"
      /\ \A r \in Session \ {s} : at'[r] = at[r]
  BY GoType DEF Places
<1>2. /\ naming'[s] = Named(p, b) /\ Named(p, b) \in Worker
      /\ \A r \in Session \ {s} : naming'[r] = naming[r]
  BY DEF SessionsTypeOK, Named, Worker
<1>3. SessionsTypeOK'
  BY <1>1, <1>2 DEF SessionsTypeOK
<1>4. ASSUME NEW q \in Publisher, NEW c \in Boot, Speaks(q, c)'
      PROVE  Attended(c)' \/ c \in abandoned'
  <2>1. CASE c = b
    BY <1>1, <1>2, <2>1 DEF Attended, Named
  <2>2. CASE Speaks(q, c)
    <3>1. Attended(c) \/ c \in abandoned
      BY <2>2 DEF WritersAreAttended
    <3> QED
      BY <1>1, <1>2, <3>1 DEF Attended
  <2> QED
    BY <1>4, <2>1, <2>2
<1> QED
  BY <1>3, <1>4 DEF WritersAreAttended

\* Whoever was attended through the old binding is attended through the new one,
\* or his session has named another boot.
LEMMA RebindInv ==
  ASSUME SInv, NEW s \in Session, NEW w \in Worker, NEW from, NEW to \in Places \ {"answered"},
         Go(s, from, to), Rebind(s, w), UNCHANGED vars,
         at[s] = "answered" => naming[s] = w,
         naming' \in [Session -> Worker \cup {Nobody}],
         \A r \in Session \ {s} : naming'[r] = naming[r]
  PROVE  SInv'
<1> USE DEF SInv
<1>1. /\ at' \in [Session -> Places] /\ at[s] = from /\ at'[s] = to
      /\ \A r \in Session \ {s} : at'[r] = at[r]
  BY GoType
<1>2. /\ bound' \in [Session -> Worker \cup {Nobody}] /\ bound'[s] = w
      /\ \A r \in Session \ {s} : bound'[r] = bound[r]
      /\ abandoned \subseteq abandoned'
      /\ bound[s].boot \in Boot => bound[s].boot = w.boot \/ bound[s].boot \in abandoned'
  BY RebindType
<1>3. SessionsTypeOK'
  BY <1>1, <1>2 DEF SessionsTypeOK
<1>4. ASSUME NEW q \in Publisher, NEW c \in Boot, Speaks(q, c)'
      PROVE  Attended(c)' \/ c \in abandoned'
  <2>1. Speaks(q, c)
    BY <1>4 DEF Speaks, vars
  <2>2. CASE c \in abandoned
    BY <1>2, <2>2
  <2>3. ASSUME NEW r \in Session, bound[r].boot = c \/ (at[r] = "answered" /\ naming[r].boot = c)
        PROVE  Attended(c)' \/ c \in abandoned'
    <3>1. CASE r # s
      BY <1>1, <1>2, <2>3, <3>1 DEF Attended
    <3>2. CASE r = s /\ bound[s].boot = c
      BY <1>2, <3>2 DEF Attended
    <3>3. CASE r = s /\ at[s] = "answered" /\ naming[s].boot = c
      BY <1>2, <3>3 DEF Attended
    <3> QED
      BY <2>3, <3>1, <3>2, <3>3
  <2> QED
    BY <2>1, <2>2, <2>3 DEF WritersAreAttended, Attended
<1> QED
  BY <1>3, <1>4 DEF WritersAreAttended

\* An ended session takes its worker with it; the others keep theirs.
LEMMA RetireInv == ASSUME SInv, NEW s \in Session, Retire(s) PROVE SInv'
<1> USE DEF SInv
<1>1. /\ at' \in [Session -> Places] /\ at[s] = "ended" /\ at'[s] = "none"
      /\ \A r \in Session \ {s} : at'[r] = at[r]
  BY GoType DEF Retire, Places
<1>2. /\ bound' \in [Session -> Worker \cup {Nobody}]
      /\ \A r \in Session \ {s} : bound'[r] = bound[r]
      /\ UNCHANGED <<naming, abandoned>>
  BY DEF Retire, SessionsTypeOK
<1>3. SessionsTypeOK'
  BY <1>1, <1>2 DEF SessionsTypeOK
<1>4. ASSUME NEW q \in Publisher, NEW c \in Boot, Speaks(q, c)'
      PROVE  Attended(c)' \/ c \in abandoned'
  <2>1. Speaks(q, c) /\ bound[s].boot # c
    <3>1. CASE bound[s] = Nobody
      BY <1>4, <3>1, SpeaksBefore, AuthorityAssumption DEF Retire, vars, Nobody
    <3>2. CASE bound[s] # Nobody
      BY <1>4, <3>2, SpeaksBefore DEF Retire
    <3> QED
      BY <3>1, <3>2
  <2>2. Attended(c) \/ c \in abandoned
    BY <2>1 DEF WritersAreAttended
  <2> QED
    BY <1>1, <1>2, <2>1, <2>2 DEF Attended
<1> QED
  BY <1>3, <1>4 DEF WritersAreAttended

\* A step of a thread that binds nobody and lets nobody speak who could not before.
LEMMA ThreadInv ==
  ASSUME SInv, NEW s \in Session, NEW from \in Places \ {"answered"}, NEW to \in Places \ {"answered", "reporting"},
         Go(s, from, to), UNCHANGED <<bound, naming, abandoned>>, UNCHANGED <<pubs, fenced>>
  PROVE  SInv'
<1> USE DEF SInv
<1>1. /\ at' \in [Session -> Places] /\ at[s] = from /\ at'[s] = to
      /\ \A r \in Session \ {s} : at'[r] = at[r]
  BY GoType
<1>2. SessionsTypeOK'
  BY <1>1 DEF SessionsTypeOK
<1>3. WritersAreAttended'
  BY <1>1, SpeaksBefore DEF WritersAreAttended, Attended
<1> QED
  BY <1>2, <1>3

\* Fences and epochs asked for in a frame, and saves, let nobody speak anew.
LEMMA EngineInv ==
  ASSUME SInv, UNCHANGED sessions,
         \A q \in Publisher, c \in Boot : Speaks(q, c)' => Speaks(q, c)
  PROVE  SInv'
<1> USE DEF SInv
<1>1. SessionsTypeOK'
  BY DEF SessionsTypeOK, sessions
<1>2. WritersAreAttended'
  BY DEF WritersAreAttended, Attended, sessions
<1> QED
  BY <1>1, <1>2

\* Every step of the server keeps the invariant.
LEMMA SessionsStepInv == TypeOK /\ SInv /\ [SessionsNext]_allvars => SInv'
<1> SUFFICES ASSUME TypeOK, SInv, [SessionsNext]_allvars PROVE SInv'
  OBVIOUS
<1> USE DEF SInv
<1>1. ASSUME NEW s \in Session, NEW p \in Publisher, NEW b \in Boot, NEW e \in Epoch, Register(s, p, b, e)
      PROVE  SInv'
  BY <1>1, AcceptInv, SpeaksBefore DEF Register
<1>2. ASSUME NEW s \in Session, NEW p \in Publisher, NEW b \in Boot, NEW e \in Epoch, MutateSet(s, p, b, e)
      PROVE  SInv'
  <2>1. UNCHANGED <<pubs, fenced>>
    BY <1>2 DEF MutateSet, Mutate, Write, vars
  <2>2. \A q \in Publisher, c \in Boot : Speaks(q, c)' => Speaks(q, c)
    BY <2>1, SpeaksBefore
  <2> QED
    BY <1>2, <2>2, AcceptInv DEF MutateSet
<1>3. ASSUME NEW s \in Session, NEW p \in Publisher, NEW b \in Boot, BindReport(s, p, b)
      PROVE  SInv'
  <2>1. Named(p, b) \in Worker /\ at[s] = "open" /\ naming' = naming
    BY <1>3 DEF BindReport, Go, Named, Worker
  <2> QED
    BY <1>3, <2>1, RebindInv DEF BindReport, Places, SessionsTypeOK
<1>4. ASSUME NEW s \in Session, NEW e \in Epoch, Observe(s, e)
      PROVE  SInv'
  <2>1. UNCHANGED <<pubs, fenced>>
    BY <1>4 DEF Observe, Report, Write, vars
  <2> QED
    BY <1>4, <2>1, ThreadInv DEF Observe, Places
<1>5. ASSUME NEW s \in Session, Open(s) \/ End(s)
      PROVE  SInv'
  BY <1>5, ThreadInv DEF Open, End, Places, vars
<1>6. ASSUME NEW s \in Session, BindAccepted(s)
      PROVE  SInv'
  <2>1. at[s] = "answered" /\ naming[s] \in Worker
    BY <1>6 DEF BindAccepted, Go, SessionsTypeOK
  <2>2. /\ naming' \in [Session -> Worker \cup {Nobody}]
        /\ \A r \in Session \ {s} : naming'[r] = naming[r]
    BY <1>6 DEF BindAccepted, SessionsTypeOK
  <2> QED
    BY <1>6, <2>1, <2>2, RebindInv DEF BindAccepted, Places
<1>7. ASSUME NEW s \in Session, Administer(s)
      PROVE  SInv'
  <2>1. \A q \in Publisher, c \in Boot : Speaks(q, c)' => Speaks(q, c)
    BY <1>7, SpeaksBefore DEF Administer
  <2> QED
    BY <1>7, <2>1, EngineInv DEF Administer
<1>8. ASSUME NEW s \in Session, Retire(s)
      PROVE  SInv'
  BY <1>8, RetireInv
<1>9. CASE SaveState \/ UNCHANGED allvars
  <2>1. UNCHANGED sessions /\ UNCHANGED <<pubs, fenced>>
    BY <1>9 DEF SaveState, Save, allvars, vars
  <2>2. \A q \in Publisher, c \in Boot : Speaks(q, c)' => Speaks(q, c)
    BY <2>1, SpeaksBefore
  <2> QED
    BY <2>1, <2>2, EngineInv
<1>10. CASE Reboot
  <2>1. \A q \in Publisher, c \in Boot : ~Speaks(q, c)'
    BY <1>10, SpeaksBefore DEF Reboot
  <2> QED
    BY <1>10, <2>1 DEF Reboot, SessionsTypeOK, WritersAreAttended, Places
<1> QED
  BY <1>1, <1>2, <1>3, <1>4, <1>5, <1>6, <1>7, <1>8, <1>9, <1>10 DEF SessionsNext

\* Every step of a session is a step that anybody may ask of the engine.
LEMMA StepKept == SessionsTypeOK /\ [SessionsNext]_allvars => [Next]_vars
<1> SUFFICES ASSUME SessionsTypeOK, [SessionsNext]_allvars PROVE Next \/ UNCHANGED vars
  OBVIOUS
<1>1. ASSUME NEW s \in Session, NEW p \in Publisher, NEW b \in Boot, NEW e \in Epoch,
             Register(s, p, b, e) \/ MutateSet(s, p, b, e)
      PROVE  Next \/ UNCHANGED vars
  BY <1>1 DEF Register, MutateSet, Next
<1>2. ASSUME NEW s \in Session, NEW e \in Epoch, Observe(s, e)
      PROVE  Next \/ UNCHANGED vars
  <2>1. bound[s].publisher \in Publisher /\ bound[s].boot \in Boot
    BY <1>2 DEF Observe, Go, SessionsTypeOK, Worker
  <2> QED
    BY <1>2, <2>1 DEF Observe, Next
<1>3. ASSUME NEW s \in Session, Administer(s)
      PROVE  Next \/ UNCHANGED vars
  BY <1>3 DEF Administer, Next
<1>4. ASSUME NEW s \in Session, Retire(s)
      PROVE  Next \/ UNCHANGED vars
  <2>1. CASE bound[s] = Nobody
    BY <1>4, <2>1 DEF Retire
  <2>2. CASE bound[s] # Nobody
    <3>1. bound[s].publisher \in Publisher /\ bound[s].boot \in Boot
      BY <2>2 DEF SessionsTypeOK, Worker
    <3> QED
      BY <1>4, <2>2, <3>1 DEF Retire, Next
  <2> QED
    BY <2>1, <2>2
<1>5. CASE SaveState \/ Reboot \/ UNCHANGED allvars
  BY <1>5 DEF SaveState, Reboot, allvars, Next
<1>6. ASSUME NEW s \in Session, Open(s) \/ End(s) \/ BindAccepted(s) \/ \E p \in Publisher, b \in Boot : BindReport(s, p, b)
      PROVE  UNCHANGED vars
  BY <1>6 DEF Open, End, BindAccepted, BindReport
<1> QED
  BY <1>1, <1>2, <1>3, <1>4, <1>5, <1>6 DEF SessionsNext

\* Authority's invariant and the server's hold in every state of every behaviour.
LEMMA SessionsInvariant == SessionsSpec => [](IInv /\ SInv)
<1>1. SessionsInit => IInv /\ SInv
  BY InitInv, SessionsInitInv DEF SessionsInit
<1>2. IInv /\ SInv /\ [SessionsNext]_allvars => (IInv /\ SInv)'
  <2>1. IInv => TypeOK
    BY DEF IInv
  <2>2. SInv => SessionsTypeOK
    BY DEF SInv
  <2> QED
    BY <2>1, <2>2, NextInv, StepKept, SessionsStepInv
<1> QED
  BY <1>1, <1>2, PTL DEF SessionsSpec

\* Whoever may write or report has a session whose end fences its boot (retire), or
\* its session has named another boot since (Session::bind).
THEOREM WritersAttended == SessionsSpec => []WritersAreAttended
<1>1. SInv => WritersAreAttended
  BY DEF SInv
<1> QED
  BY <1>1, SessionsInvariant, PTL

\* The server's sessions use the engine only as Authority says that anybody may:
\* every step of a session is a step of Authority or leaves authority alone.
THEOREM AuthorityKept == SessionsSpec => Spec
<1>1. SessionsInit => Init
  BY DEF SessionsInit
<1>2. SInv => SessionsTypeOK
  BY DEF SInv
<1> QED
  BY <1>1, <1>2, StepKept, SessionsInvariant, PTL DEF SessionsSpec, Spec

\* So no stale worker becomes the writer of a set through any session.
COROLLARY NoStaleWriterServed == SessionsSpec => NoStaleWriter
BY AuthorityKept, StaleWriterRefused
=============================================================================
