----------------------------- MODULE Authority -----------------------------
(***************************************************************************)
(* Who may change a weighted set: the coordinator's epoch, the registered  *)
(* publishers with the worker boot each one runs, the fenced boots, and    *)
(* what of them the store keeps over a restart. Requests may be late: a    *)
(* worker sends any publisher, boot and epoch it ever held, so each action *)
(* takes any of them. Every call holds the registry lock and is one step;  *)
(* a refused call changes nothing. One set stands for all: the sets do not *)
(* share their authority stamps. Scopes, reasons and details are left out. *)
(***************************************************************************)
EXTENDS Naturals, FiniteSets

CONSTANTS
  Publisher,       \* publishers
  Boot,            \* worker boots: one per process start
  None,            \* no publisher, no boot
  MaxPublishers,   \* max_publishers
  MaxEpoch         \* bound: the last epoch an instance reaches

ASSUME AuthorityAssumption ==
  /\ None \notin Publisher /\ None \notin Boot
  /\ MaxPublishers \in Nat /\ MaxEpoch \in Nat \ {0}

VARIABLES
  epoch,    \* the coordinator's epoch
  pubs,     \* the record of each known publisher
  fenced,   \* fenced worker boots
  stamp,    \* epoch, publisher and boot of the set's last writer
  store,    \* the epoch and the publisher records the store holds; epoch 0: no file
  past      \* history: <<publisher, boot>> replaced since the coordinator started

vars == <<epoch, pubs, fenced, stamp, store, past>>

Epoch == 1..MaxEpoch
Record == [boot : Boot, epoch : Epoch, live : BOOLEAN, fenced : BOOLEAN]
Stored == [boot : Boot, epoch : Epoch]
NoRecords == [p \in {} |-> 0]

\* Faulty: a live record is enough, the fences are not consulted.
SpeaksIfLive(p, b) == p \in DOMAIN pubs /\ pubs[p].boot = b /\ pubs[p].live

\* What both authority checks ask of a publisher's record: that the boot is the
\* live one and neither the record nor the boot is fenced.
Speaks(p, b) ==
  /\ p \in DOMAIN pubs /\ pubs[p].boot = b
  /\ pubs[p].live /\ ~pubs[p].fenced /\ b \notin fenced

\* check_mutation_authority: the publisher must also have registered in this epoch.
MayMutate(p, b, e) == e = epoch /\ Speaks(p, b) /\ pubs[p].epoch = epoch

\* check_integration_context: the epoch of the registration is not asked for.
MayReport(p, b, e) == e = epoch /\ Speaks(p, b)

Init ==
  /\ epoch = 1 /\ pubs = NoRecords /\ fenced = {}
  /\ stamp = [epoch |-> 1, publisher |-> None, boot |-> None]
  /\ store = [epoch |-> 0, records |-> NoRecords]
  /\ past = {}

\* Faulty: the fences are not asked when a boot registers.
AdmitsAny(b, e) == e = epoch
Admits(b, e) == e = epoch /\ b \notin fenced

\* register_publisher: a boot that is not fenced registers in the current epoch.
\* A publisher that had another boot loses it, and that boot is fenced.
RegisterPublisher(p, b, e) ==
  /\ Admits(b, e)
  /\ p \in DOMAIN pubs \/ Cardinality(DOMAIN pubs) < MaxPublishers
  /\ LET replaced == {c \in Boot \ {b} : p \in DOMAIN pubs /\ pubs[p].boot = c}
     IN  /\ fenced' = fenced \cup replaced
         /\ past' = past \cup {<<p, c>> : c \in replaced}
  /\ pubs' = [q \in DOMAIN pubs \cup {p} |->
                IF q = p THEN [boot |-> b, epoch |-> e, live |-> TRUE, fenced |-> FALSE]
                ELSE pubs[q]]
  /\ UNCHANGED <<epoch, stamp, store>>

\* unregister_publisher: authority is given up, the boot is not fenced.
UnregisterPublisher(p, b) ==
  /\ p \in DOMAIN pubs /\ pubs[p].boot = b
  /\ pubs' = [pubs EXCEPT ![p].live = FALSE]
  /\ UNCHANGED <<epoch, fenced, stamp, store, past>>

\* fence_worker: any boot may be fenced; the record is touched when the request
\* names the publisher that runs the boot. Nobody's registration is required.
FenceWorker(p, b) ==
  /\ fenced' = fenced \cup {b}
  /\ pubs' = IF p \in DOMAIN pubs /\ pubs[p].boot = b
             THEN [pubs EXCEPT ![p].live = FALSE, ![p].fenced = TRUE]
             ELSE pubs
  /\ UNCHANGED <<epoch, stamp, store, past>>

\* Faulty: a record survives the epoch as it is.
Retained(r) == r
Deposed(r) == [r EXCEPT !.live = FALSE]

\* advance_epoch: every live boot is fenced and no publisher is live any more.
AdvanceEpoch(next) ==
  /\ next > epoch
  /\ epoch' = next
  /\ fenced' = fenced \cup {pubs[p].boot : p \in {q \in DOMAIN pubs : pubs[q].live}}
  /\ pubs' = [p \in DOMAIN pubs |-> Deposed(pubs[p])]
  /\ UNCHANGED <<stamp, store, past>>

\* A mutation of the set, or a report that re-evaluates it, commits its writer.
Write(p, b, e) ==
  /\ stamp' = [epoch |-> e, publisher |-> p, boot |-> b]
  /\ UNCHANGED <<epoch, pubs, fenced, store, past>>
Mutate(p, b, e) == MayMutate(p, b, e) /\ Write(p, b, e)
Report(p, b, e) == MayReport(p, b, e) /\ Write(p, b, e)

\* export_state and the write of the store: records only, no fences.
Save ==
  /\ store' = [epoch |-> epoch,
               records |-> [p \in DOMAIN pubs |-> [boot |-> pubs[p].boot, epoch |-> pubs[p].epoch]]]
  /\ UNCHANGED <<epoch, pubs, fenced, stamp, past>>

\* Faulty: the stored epoch is used again.
SameEpoch == store.epoch
NextEpoch == store.epoch + 1

\* Faulty: the records are fenced, their boots are not.
NoFences == {}
RecoveredFences == {store.records[p].boot : p \in DOMAIN store.records}

\* The coordinator stops at any moment and starts again from the store, one epoch
\* later than it: import_state. Each record returns fenced, with its last boot.
Recover ==
  /\ store.epoch < MaxEpoch
  /\ epoch' = NextEpoch
  /\ pubs' = [p \in DOMAIN store.records |->
                [boot |-> store.records[p].boot, epoch |-> store.records[p].epoch,
                 live |-> FALSE, fenced |-> TRUE]]
  /\ fenced' = RecoveredFences
  /\ stamp' = [epoch |-> epoch', publisher |-> None, boot |-> None]
  /\ past' = {}
  /\ UNCHANGED store

Next ==
  \/ \E p \in Publisher, b \in Boot, e \in Epoch :
       RegisterPublisher(p, b, e) \/ Mutate(p, b, e) \/ Report(p, b, e)
  \/ \E p \in Publisher, b \in Boot : UnregisterPublisher(p, b)
  \/ \E p \in Publisher \cup {None}, b \in Boot : FenceWorker(p, b)
  \/ \E e \in Epoch : AdvanceEpoch(e)
  \/ Save
  \/ Recover

Spec == Init /\ [][Next]_vars

----------------------------------------------------------------------------

\* Every variable has its type.
TypeOK ==
  /\ epoch \in Epoch
  /\ DOMAIN pubs \subseteq Publisher /\ pubs \in [DOMAIN pubs -> Record]
  /\ fenced \subseteq Boot
  /\ stamp \in [epoch : Epoch, publisher : Publisher \cup {None}, boot : Boot \cup {None}]
  /\ store.epoch \in Epoch \cup {0}
  /\ DOMAIN store.records \subseteq Publisher /\ store.records \in [DOMAIN store.records -> Stored]
  /\ past \subseteq Publisher \X Boot

\* A live publisher registered in the epoch in force, whatever epochs, fences and
\* restarts came between. check_integration_context relies on it: it does not
\* compare the epoch of the registration.
LiveAtCurrentEpoch == \A p \in DOMAIN pubs : pubs[p].live => pubs[p].epoch = epoch

\* A boot that another boot of its publisher replaced is fenced and never again
\* the publisher's boot, as long as the coordinator runs.
ReplacedStaysOut ==
  \A p \in Publisher, b \in Boot :
    <<p, b>> \in past => b \in fenced /\ p \in DOMAIN pubs /\ pubs[p].boot # b

\* A publisher record marked fenced names a boot that is fenced: the mark is never
\* lifted for a boot that stays out.
MarkedIsFenced == \A p \in DOMAIN pubs : pubs[p].fenced => pubs[p].boot \in fenced

\* A write is never accepted from a worker whose authority has gone: the writer
\* registered in this epoch, and neither it nor its boot was fenced or replaced
\* before, however late its request arrives.
NoStaleWriter ==
  [][stamp' # stamp /\ stamp'.publisher # None =>
       /\ stamp'.epoch = epoch /\ pubs[stamp'.publisher].epoch = epoch
       /\ stamp'.boot \notin fenced /\ <<stamp'.publisher, stamp'.boot>> \notin past]_vars
=============================================================================
