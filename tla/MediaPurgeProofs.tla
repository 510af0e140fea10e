---------------------------- MODULE MediaPurgeProofs ----------------------------
(***************************************************************************)
(* Theorems about MediaPurge for every number of objects, every set of      *)
(* purge workers and of finalizers and every bound: crashes, leases that    *)
(* run out and a restore from a backup included.                            *)
(***************************************************************************)
EXTENDS MediaPurge, TLAPS

-------------------------------------------------------------------------------
(* The inductive invariant *)

Snapshots ==
    [asset: [state: {"READY", "QUARANTINED", "ERASED"}, usage: {"STAGED", "ADOPTED", "RETIRED"}],
     sub: {"OPEN", "OVERDUE", "CLOSED"}, due: BOOLEAN, intent: Intents, req: Requests,
     stored: SUBSET Parts]

\* What the rows of one moment say to each other; a backup holds them as they were.
Sound(b) ==
    /\ b.intent.state \in Irreversible => b.asset.usage = "RETIRED"
    /\ b.intent.state = "ERASED" => b.asset.state = "ERASED"
    /\ b.intent.live => b.intent.state \in {"CLAIMED"} \cup (Irreversible \ {"ERASED"})
    /\ b.req.live => b.req.state = "CLEANING" /\ b.intent.state \notin Irreversible \ {"ERASED"}
    /\ \A p \in Parts : b.intent.objects[p] = "MISSING" => p \notin b.stored
    /\ b.asset.state = "ERASED" => b.stored = {}
    /\ b.stored # Parts => journal # {}

\* The last object counts as missing only when nobody can publish into the namespace any more.
PublisherInv == asset.state = "ERASED" \/ AllMissing(intent.objects) => publisher = "NONE"

BackupInv == backup = <<>> \/ \E b \in Snapshots : backup = <<b>> /\ Sound(b)

RecoveryInv == recovery.open => recovery.epoch < MaxEpoch

\* A process of a deployment that a restore has ended, or is about to end
Stale(w) == recovery.open \/ pw[w].epoch # recovery.epoch
FStale(f) == recovery.open \/ fw[f].epoch # recovery.epoch

BeyondFence == {"STAT", "FOUND", "DELETE", "RECHECK", "NAMESPACE", "RESULT", "FINALIZE"}

\* What a worker took from the rows is still so, or it belongs to an old deployment, whose
\* asset nobody may read; while it holds its lease, it knows every object that is recorded
\* as missing, but for the one it is at.
PurgerInv(w) ==
    /\ pw[w].epoch <= recovery.epoch
    /\ pw[w].pc \notin {"IDLE", "CLAIMED"} => journal # {}
    /\ pw[w].pc \in BeyondFence => asset.usage = "RETIRED" \/ asset.state # "READY"
    /\ pw[w].pc \in BeyondFence /\ ~Stale(w) => Fenced
    /\ pw[w].pc \in BeyondFence /\ intent.live /\ intent.holder = w =>
         MissingParts(intent.objects) \subseteq pw[w].gone \cup {pw[w].part}
    /\ pw[w].pc = "RESULT" /\ pw[w].out = "MISSING" /\ ~Stale(w) =>
         pw[w].part \notin stored /\ (OthersGone(w) => publisher = "NONE")

FinalizerInv(f) ==
    /\ fw[f].epoch <= recovery.epoch
    /\ fw[f].pc \notin {"IDLE", "CLAIMED"} => journal # {}
    /\ fw[f].pc = "PURGE" => Explicit \/ asset.state # "READY"
    /\ fw[f].pc = "PURGE" /\ ~FStale(f) => Explicit /\ ~Fenced
    /\ fw[f].pc = "PURGED" /\ ~FStale(f) => stored = {} /\ publisher = "NONE"

Apart(f, w) == fw[f].pc = "PURGE" /\ pw[w].pc \in BeyondFence => fw[f].epoch # pw[w].epoch

PurgeInv ==
    /\ TypeOK /\ Sound(Snapshot) /\ PublisherInv /\ BackupInv /\ RecoveryInv /\ ReadableIsStored
    /\ \A w \in Purgers : PurgerInv(w)
    /\ \A f \in Finalizers : FinalizerInv(f)
    /\ \A f \in Finalizers, w \in Purgers : Apart(f, w)

-------------------------------------------------------------------------------
(* How the invariant is kept together *)

PurgerStates == [pc: PurgerPCs, epoch: 1..MaxEpoch, part: Parts, out: {"UNKNOWN", "MISSING"},
                 gone: SUBSET Parts]
FinalizerStates == [pc: FinalizerPCs, epoch: 1..MaxEpoch]

\* The part of TypeOK that is not about processes
RowsTyped ==
    /\ asset \in [state: {"READY", "QUARANTINED", "ERASED"}, usage: {"STAGED", "ADOPTED", "RETIRED"}]
    /\ sub \in {"OPEN", "OVERDUE", "CLOSED"}
    /\ due \in BOOLEAN
    /\ intent \in Intents
    /\ req \in Requests
    /\ recovery \in [epoch: 1..MaxEpoch, open: BOOLEAN]
    /\ stored \subseteq Parts
    /\ journal \subseteq {"PURGE", "DELETION"}
    /\ publisher \in {"NONE", "COMING", "MARKED"}
    /\ calm \in BOOLEAN

LEMMA TypeParts ==
    TypeOK <=> /\ RowsTyped
               /\ pw \in [Purgers -> PurgerStates]
               /\ fw \in [Finalizers -> FinalizerStates]
BY DEF TypeOK, RowsTyped, PurgerStates, FinalizerStates

LEMMA TypeThen ==
    TypeOK' <=> /\ RowsTyped'
                /\ pw' \in [Purgers -> PurgerStates]
                /\ fw' \in [Finalizers -> FinalizerStates]
BY DEF TypeOK, RowsTyped, PurgerStates, FinalizerStates

\* What a snapshot holds
LEMMA SnapshotHolds ==
    /\ Snapshot.asset = asset /\ Snapshot.sub = sub /\ Snapshot.due = due
    /\ Snapshot.intent = intent /\ Snapshot.req = req /\ Snapshot.stored = stored
BY DEF Snapshot

\* Sound, of the rows that are there
RowsSound ==
    /\ Fenced => asset.usage = "RETIRED"
    /\ intent.state = "ERASED" => asset.state = "ERASED"
    /\ intent.live => intent.state = "CLAIMED" \/ PurgeUnfinished
    /\ req.live => req.state = "CLEANING" /\ ~PurgeUnfinished
    /\ MissingIsGone
    /\ JournalFirst
    /\ AllMissing(intent.objects) => publisher = "NONE"

LEMMA SoundNow == Sound(Snapshot) /\ PublisherInv <=> RowsSound
<1> HIDE DEF Snapshot
<1> QED BY SnapshotHolds
     DEF Sound, RowsSound, Fenced, PurgeUnfinished, MissingIsGone, JournalFirst, Irreversible,
         PublisherInv

LEMMA SoundThen == Sound(Snapshot)' /\ PublisherInv' <=> RowsSound'
<1> QED BY SoundNow, PTL

\* A worker that holds its lease after a step held it before, and no object is newly
\* recorded as missing.
Held(w) ==
    intent'.live /\ intent'.holder = w =>
        /\ intent.live /\ intent.holder = w
        /\ MissingParts(intent'.objects) \subseteq MissingParts(intent.objects)

\* Every step but a restore and its approval goes this way only.
Onward ==
    /\ UNCHANGED recovery
    /\ journal \subseteq journal' /\ stored' \subseteq stored
    /\ publisher = "NONE" => publisher' = "NONE"
    /\ Fenced => Fenced'
    /\ asset.usage = "RETIRED" => asset'.usage = "RETIRED"
    /\ asset.state # "READY" => asset'.state # "READY"
    /\ Explicit => Explicit' /\ (~Fenced => ~Fenced')
    /\ \A w \in Purgers : pw[w].pc \in BeyondFence /\ pw'[w] = pw[w] => Held(w)

\* A backup stays sound while the journal grows.
LEMMA BackupStays ==
    ASSUME BackupInv, UNCHANGED backup, journal \subseteq journal'
    PROVE  BackupInv'
<1>1. CASE backup = <<>> BY <1>1 DEF BackupInv
<1>2. CASE backup # <<>>
  <2>1. PICK b \in Snapshots : backup = <<b>> /\ Sound(b) BY <1>2 DEF BackupInv
  <2>2. Sound(b)' BY <2>1 DEF Sound
  <2> QED BY <2>1, <2>2 DEF BackupInv
<1> QED BY <1>1, <1>2

\* Processes that do nothing
LEMMA PurgersRest ==
    ASSUME PurgeInv, Onward, NEW w \in Purgers, pw'[w] = pw[w]
    PROVE  PurgerInv(w)'
<1>1. PurgerInv(w) BY DEF PurgeInv
<1>2. Stale(w)' = Stale(w) /\ (journal # {} => journal' # {}) BY DEF Stale, Onward
<1>3. OthersGone(w)' = OthersGone(w) BY DEF OthersGone
<1>4. pw[w].pc \in BeyondFence /\ intent'.live /\ intent'.holder = w =>
        MissingParts(intent.objects)' \subseteq pw[w].gone \cup {pw[w].part}
  BY <1>1 DEF PurgerInv, Onward, Held
<1> QED BY <1>1, <1>2, <1>3, <1>4 DEF PurgerInv, Onward

LEMMA FinalizersRest ==
    ASSUME PurgeInv, Onward, NEW f \in Finalizers, fw'[f] = fw[f]
    PROVE  FinalizerInv(f)'
<1>1. FinalizerInv(f) BY DEF PurgeInv
<1>2. FStale(f)' = FStale(f) /\ (journal # {} => journal' # {}) BY DEF FStale, Onward
<1>3. stored = {} => stored' = {} BY DEF Onward
<1> QED BY <1>1, <1>2, <1>3 DEF FinalizerInv, Onward

\* A step of members, of the clock or of a transaction that leaves its worker where it is
LEMMA RowsStep ==
    ASSUME PurgeInv, Onward, RowsTyped', RowsSound', ReadableIsStored',
           UNCHANGED <<backup, pw, fw>>
    PROVE  PurgeInv'
<1>1. TypeOK' BY TypeParts, TypeThen DEF PurgeInv
<1>2. BackupInv' BY BackupStays DEF PurgeInv, Onward
<1>3. RecoveryInv' BY DEF PurgeInv, RecoveryInv, Onward
<1>4. \A w \in Purgers : PurgerInv(w)' BY PurgersRest
<1>5. \A f \in Finalizers : FinalizerInv(f)' BY FinalizersRest
<1>6. \A f \in Finalizers, w \in Purgers : Apart(f, w)' BY DEF PurgeInv, Apart
<1> QED BY <1>1, <1>2, <1>3, <1>4, <1>5, <1>6, SoundThen DEF PurgeInv

\* A step of a purge worker
\* What a worker must know to be in the state s after a step.
Knows(w, s) ==
    /\ s.pc \in BeyondFence =>
         /\ s.epoch = pw[w].epoch
         /\ asset'.usage = "RETIRED" \/ asset'.state # "READY"
         /\ Stale(w) \/ Fenced'
         /\ pw[w].pc \in BeyondFence \/ (~Stale(w) /\ (Explicit => Fenced))
         /\ intent'.live /\ intent'.holder = w =>
              MissingParts(intent'.objects) \subseteq s.gone \cup {s.part}
    /\ s.pc = "RESULT" /\ s.out = "MISSING" /\ ~Stale(w) =>
         s.part \notin stored' /\ (Parts \ {s.part} \subseteq s.gone => publisher' = "NONE")

LEMMA PurgerGoes ==
    ASSUME PurgeInv, Onward, RowsTyped', RowsSound', ReadableIsStored', UNCHANGED <<backup, fw>>,
           NEW w \in Purgers, NEW s \in PurgerStates, pw' = [pw EXCEPT ![w] = s],
           s.epoch <= recovery.epoch,
           s.pc \notin {"IDLE", "CLAIMED"} => journal' # {},
           Knows(w, s)
    PROVE  PurgeInv'
<1>1. pw \in [Purgers -> PurgerStates] BY TypeParts DEF PurgeInv
<1>2. /\ pw' \in [Purgers -> PurgerStates] /\ pw'[w] = s
      /\ \A v \in Purgers \ {w} : pw'[v] = pw[v]
  BY <1>1
<1>3. TypeOK' BY <1>2, TypeParts, TypeThen DEF PurgeInv
<1>4. BackupInv' BY BackupStays DEF PurgeInv, Onward
<1>5. RecoveryInv' BY DEF PurgeInv, RecoveryInv, Onward
<1>6. PurgerInv(w)'
  <2>1. CASE s.pc \in BeyondFence
    <3>1. Stale(w)' = Stale(w) BY <1>2, <2>1 DEF Stale, Onward, Knows
    <3>2. MissingParts(intent.objects)' = MissingParts(intent'.objects) BY DEF MissingParts
    <3>3. OthersGone(w)' = (Parts \ {s.part} \subseteq s.gone) BY <1>2 DEF OthersGone
    <3> QED BY <1>2, <2>1, <3>1, <3>2, <3>3 DEF PurgerInv, Onward, Knows
  <2>2. CASE s.pc \notin BeyondFence
    <3>1. s.pc # "RESULT" BY <2>2 DEF BeyondFence
    <3> QED BY <1>2, <2>2, <3>1 DEF PurgerInv, Onward
  <2> QED BY <2>1, <2>2
<1>7. \A v \in Purgers \ {w} : PurgerInv(v)' BY <1>2, PurgersRest
<1>8. \A f \in Finalizers : FinalizerInv(f)' BY FinalizersRest
<1>9. ASSUME NEW f \in Finalizers PROVE Apart(f, w)'
  <2>1. CASE s.pc \in BeyondFence /\ pw[w].pc \in BeyondFence
    BY <1>2, <2>1 DEF PurgeInv, Apart, Knows
  <2>2. CASE s.pc \in BeyondFence /\ pw[w].pc \notin BeyondFence
    <3>1. ~Stale(w) /\ (Explicit => Fenced) /\ s.epoch = pw[w].epoch BY <2>2 DEF Knows
    <3>2. ~(fw[f].pc = "PURGE" /\ ~FStale(f)) BY <3>1 DEF PurgeInv, FinalizerInv
    <3> QED BY <1>2, <3>1, <3>2 DEF Apart, Stale, FStale
  <2>3. CASE s.pc \notin BeyondFence BY <1>2, <2>3 DEF Apart
  <2> QED BY <2>1, <2>2, <2>3
<1>10. ASSUME NEW f \in Finalizers, NEW v \in Purgers \ {w} PROVE Apart(f, v)'
  BY <1>2 DEF PurgeInv, Apart
<1> QED BY <1>3, <1>4, <1>5, <1>6, <1>7, <1>8, <1>9, <1>10, SoundThen DEF PurgeInv

\* A step of a finalizer
LEMMA FinalizerGoes ==
    ASSUME PurgeInv, Onward, RowsTyped', RowsSound', ReadableIsStored', UNCHANGED <<backup, pw>>,
           NEW f \in Finalizers, NEW s \in FinalizerStates, fw' = [fw EXCEPT ![f] = s],
           s.epoch <= recovery.epoch,
           s.pc \notin {"IDLE", "CLAIMED"} => journal' # {},
           s.pc = "PURGE" => Explicit /\ ~Fenced /\ ~FStale(f) /\ s.epoch = fw[f].epoch,
           s.pc = "PURGED" /\ ~recovery.open /\ s.epoch = recovery.epoch =>
             stored' = {} /\ publisher' = "NONE"
    PROVE  PurgeInv'
<1>1. fw \in [Finalizers -> FinalizerStates] BY TypeParts DEF PurgeInv
<1>2. /\ fw' \in [Finalizers -> FinalizerStates] /\ fw'[f] = s
      /\ \A g \in Finalizers \ {f} : fw'[g] = fw[g]
  BY <1>1
<1>3. TypeOK' BY <1>2, TypeParts, TypeThen DEF PurgeInv
<1>4. BackupInv' BY BackupStays DEF PurgeInv, Onward
<1>5. RecoveryInv' BY DEF PurgeInv, RecoveryInv, Onward
<1>6. FinalizerInv(f)' BY <1>2 DEF FinalizerInv, FStale, Onward
<1>7. \A g \in Finalizers \ {f} : FinalizerInv(g)' BY <1>2, FinalizersRest
<1>8. \A w \in Purgers : PurgerInv(w)' BY PurgersRest
<1>9. ASSUME NEW w \in Purgers PROVE Apart(f, w)'
  <2>1. CASE s.pc = "PURGE" /\ pw[w].pc \in BeyondFence /\ s.epoch = pw[w].epoch
    <3>1. ~Stale(w) BY <2>1 DEF Stale, FStale
    <3>2. Fenced BY <2>1, <3>1 DEF PurgeInv, PurgerInv
    <3> QED BY <2>1, <3>2
  <2>2. CASE ~(s.pc = "PURGE" /\ pw[w].pc \in BeyondFence /\ s.epoch = pw[w].epoch)
    BY <1>2, <2>2 DEF Apart
  <2> QED BY <2>1, <2>2
<1>10. ASSUME NEW g \in Finalizers \ {f}, NEW w \in Purgers PROVE Apart(g, w)'
  BY <1>2 DEF PurgeInv, Apart
<1> QED BY <1>3, <1>4, <1>5, <1>6, <1>7, <1>8, <1>9, <1>10, SoundThen DEF PurgeInv

-------------------------------------------------------------------------------
(* What the steps do to the rows *)

\* The rows that steps agree to
RowsAgree == Onward /\ RowsTyped' /\ RowsSound' /\ ReadableIsStored'

LEMMA PurgeBounds ==
    ASSUME PurgeConstants
    PROVE  NParts \in Nat /\ NParts > 0 /\ MaxAttempts \in Nat /\ MaxEpoch \in Nat /\ MaxEpoch > 0
BY DEF PurgeConstants

\* Steps that leave the rows alone may take objects away which nobody can read.
LEMMA StoreRows ==
    ASSUME PurgeInv, UNCHANGED <<rows, recovery>>, calm' \in BOOLEAN,
           journal \subseteq journal', journal' \subseteq {"PURGE", "DELETION"},
           stored' \subseteq stored, publisher' \in {"NONE", "COMING", "MARKED"},
           publisher = "NONE" => publisher' = "NONE",
           stored' = stored \/ (/\ journal # {}
                                /\ Explicit \/ asset.usage = "RETIRED" \/ asset.state # "READY")
    PROVE  RowsAgree
<1>1. RowsTyped /\ RowsSound /\ ReadableIsStored BY TypeParts, SoundNow DEF PurgeInv
<1>2. /\ asset' = asset /\ sub' = sub /\ due' = due /\ intent' = intent /\ req' = req
      /\ recovery' = recovery
  BY DEF rows
<1>3. /\ Fenced' = Fenced /\ PurgeUnfinished' = PurgeUnfinished /\ Explicit' = Explicit
      /\ AllMissing(intent.objects)' = AllMissing(intent.objects)
  BY <1>2 DEF Fenced, PurgeUnfinished, Explicit, AllMissing
<1>4. Onward BY <1>2, <1>3 DEF Onward, Held
<1>5. RowsTyped' BY <1>1, <1>2 DEF RowsTyped
<1>6. MissingIsGone' BY <1>1, <1>2 DEF RowsSound, MissingIsGone
<1>7. JournalFirst' BY <1>1 DEF RowsSound, JournalFirst
<1>8. RowsSound' BY <1>1, <1>2, <1>3, <1>6, <1>7 DEF RowsSound
<1>9. ReadableIsStored' BY <1>1, <1>2, <1>3 DEF ReadableIsStored
<1> QED BY <1>4, <1>5, <1>8, <1>9 DEF RowsAgree

LEMMA QuietRows ==
    ASSUME PurgeInv, UNCHANGED <<rows, recovery, stored, publisher>>, calm' \in BOOLEAN,
           journal \subseteq journal', journal' \subseteq {"PURGE", "DELETION"}
    PROVE  RowsAgree
<1>1. publisher' \in {"NONE", "COMING", "MARKED"} BY DEF PurgeInv, TypeOK
<1> QED BY <1>1, StoreRows

\* Members and the clock: an asset that was not readable does not become so.
LEMMA AssetRows ==
    ASSUME PurgeInv, UNCHANGED <<intent, req, recovery, stored, journal, publisher, calm>>,
           asset' \in [state: {"READY", "QUARANTINED", "ERASED"},
                       usage: {"STAGED", "ADOPTED", "RETIRED"}],
           sub' \in {"OPEN", "OVERDUE", "CLOSED"}, due' \in BOOLEAN,
           asset.usage = "RETIRED" => asset'.usage = "RETIRED",
           asset.state # "READY" => asset'.state # "READY",
           asset'.state = "ERASED" <=> asset.state = "ERASED"
    PROVE  RowsAgree
<1>1. RowsTyped /\ RowsSound /\ ReadableIsStored BY TypeParts, SoundNow DEF PurgeInv
<1>2. /\ Fenced' = Fenced /\ PurgeUnfinished' = PurgeUnfinished /\ Explicit' = Explicit
  BY DEF Fenced, PurgeUnfinished, Explicit
<1>3. Onward BY <1>2 DEF Onward, Held
<1>4. RowsTyped' BY <1>1 DEF RowsTyped
<1>5. RowsSound' BY <1>1, <1>2 DEF RowsSound, MissingIsGone, JournalFirst, AllMissing
<1>6. ReadableIsStored' BY <1>1, <1>2 DEF ReadableIsStored
<1> QED BY <1>3, <1>4, <1>5, <1>6 DEF RowsAgree

LEMMA RequestRows ==
    ASSUME PurgeInv, UNCHANGED <<asset, sub, due, intent, recovery, stored, journal, publisher, calm>>,
           req' \in Requests, Explicit => Explicit',
           req'.live => req'.state = "CLEANING" /\ req.live
    PROVE  RowsAgree
<1>1. RowsTyped /\ RowsSound /\ ReadableIsStored BY TypeParts, SoundNow DEF PurgeInv
<1>2. Fenced' = Fenced /\ PurgeUnfinished' = PurgeUnfinished BY DEF Fenced, PurgeUnfinished
<1>3. Onward BY <1>2 DEF Onward, Held
<1>4. RowsTyped' BY <1>1 DEF RowsTyped
<1>5. RowsSound' BY <1>1, <1>2 DEF RowsSound, MissingIsGone, JournalFirst, AllMissing
<1>6. ReadableIsStored' BY <1>1 DEF ReadableIsStored
<1> QED BY <1>3, <1>4, <1>5, <1>6 DEF RowsAgree

LEMMA IntentRows ==
    ASSUME PurgeInv, UNCHANGED <<asset, sub, due, req, recovery, stored, journal, publisher, calm>>,
           intent' \in Intents, Fenced => Fenced', PurgeUnfinished' => PurgeUnfinished,
           intent'.state = "ERASED" => intent.state = "ERASED",
           intent'.live => intent'.state = "CLAIMED" \/ PurgeUnfinished',
           \A w \in Purgers : pw[w].pc \in BeyondFence /\ pw'[w] = pw[w] => Held(w),
           \A p \in Parts : intent'.objects[p] = "MISSING" => p \notin stored,
           AllMissing(intent'.objects) => publisher = "NONE"
    PROVE  RowsAgree
<1>1. RowsTyped /\ RowsSound /\ ReadableIsStored BY TypeParts, SoundNow DEF PurgeInv
<1>2. Explicit' = Explicit BY DEF Explicit
<1>3. Fenced' => Fenced
  BY DEF PurgeUnfinished, Fenced, Irreversible
<1>4. Onward BY <1>2, <1>3 DEF Onward
<1>5. RowsTyped' BY <1>1 DEF RowsTyped
<1>6. RowsSound' BY <1>1, <1>3 DEF RowsSound, MissingIsGone, JournalFirst, AllMissing
<1>7. ReadableIsStored' BY <1>1, <1>2 DEF ReadableIsStored
<1> QED BY <1>4, <1>5, <1>6, <1>7 DEF RowsAgree

\* The same, when what is recorded of the objects stays.
LEMMA PlanRows ==
    ASSUME PurgeInv, UNCHANGED <<asset, sub, due, req, recovery, stored, journal, publisher, calm>>,
           intent' \in Intents, Fenced => Fenced', PurgeUnfinished' => PurgeUnfinished,
           intent'.state = "ERASED" => intent.state = "ERASED",
           intent'.live => intent'.state = "CLAIMED" \/ PurgeUnfinished',
           intent'.objects = intent.objects,
           \A w \in Purgers : pw[w].pc \in BeyondFence /\ intent'.live /\ intent'.holder = w =>
                               intent.live /\ intent.holder = w
    PROVE  RowsAgree
<1>1. RowsSound BY SoundNow DEF PurgeInv
<1>2. \A w \in Purgers : pw[w].pc \in BeyondFence /\ pw'[w] = pw[w] => Held(w) BY DEF Held
<1>3. \A p \in Parts : intent'.objects[p] = "MISSING" => p \notin stored
  BY <1>1 DEF RowsSound, MissingIsGone
<1>4. AllMissing(intent'.objects) => publisher = "NONE" BY <1>1 DEF RowsSound
<1> QED BY <1>2, <1>3, <1>4, IntentRows

\* Where a worker goes
LEMMA PurgerStateTyped ==
    ASSUME NEW s \in PurgerStates, NEW pc \in PurgerPCs
    PROVE  LET t == [s EXCEPT !.pc = pc]
           IN /\ t \in PurgerStates /\ t.pc = pc /\ t.epoch = s.epoch
              /\ t.part = s.part /\ t.out = s.out /\ t.gone = s.gone
BY DEF PurgerStates

LEMMA ReportTyped ==
    ASSUME NEW s \in PurgerStates, NEW o \in {"UNKNOWN", "MISSING"}
    PROVE  LET t == [s EXCEPT !.pc = "RESULT", !.out = o]
           IN /\ t \in PurgerStates /\ t.pc = "RESULT" /\ t.epoch = s.epoch
              /\ t.part = s.part /\ t.out = o /\ t.gone = s.gone
BY DEF PurgerStates, PurgerPCs

Left(w, pc) ==
    [pc |-> pc, epoch |-> pw[w].epoch, part |-> 1, out |-> "UNKNOWN", gone |-> {}]

LEMMA FinalizerStateTyped ==
    ASSUME NEW s \in FinalizerStates, NEW pc \in FinalizerPCs
    PROVE  /\ [s EXCEPT !.pc = pc] \in FinalizerStates
           /\ [s EXCEPT !.pc = pc].pc = pc /\ [s EXCEPT !.pc = pc].epoch = s.epoch
BY DEF FinalizerStates

-------------------------------------------------------------------------------
(* Members and the clock *)

LEMMA MemberKeeps ==
    ASSUME PurgeInv, Adopt \/ CloseSubmission \/ RetireDraft \/ Quarantine
                     \/ SubmissionExpires \/ RetentionEnds
    PROVE  PurgeInv'
<1>1. RowsTyped BY TypeParts DEF PurgeInv
<1>2. UNCHANGED <<intent, req, recovery, stored, journal, backup, pw, fw, publisher, calm>>
  BY DEF Adopt, CloseSubmission, RetireDraft, Quarantine, SubmissionExpires, RetentionEnds
<1>3. sub' \in {"OPEN", "OVERDUE", "CLOSED"}
  BY <1>1 DEF Adopt, CloseSubmission, RetireDraft, Quarantine, SubmissionExpires, RetentionEnds,
              RowsTyped
<1>4. due' \in BOOLEAN
  BY <1>1 DEF Adopt, CloseSubmission, RetireDraft, Quarantine, SubmissionExpires, RetentionEnds,
              RowsTyped
<1>5. \/ asset' = asset
      \/ asset.usage = "STAGED" /\ asset' = [asset EXCEPT !.usage = "ADOPTED"]
      \/ asset' = [asset EXCEPT !.usage = "RETIRED"]
      \/ asset.state = "READY" /\ asset' = [asset EXCEPT !.state = "QUARANTINED"]
  BY DEF Adopt, MayAdopt, CloseSubmission, RetireDraft, Quarantine, SubmissionExpires,
         RetentionEnds
<1>6. /\ asset' \in [state: {"READY", "QUARANTINED", "ERASED"},
                     usage: {"STAGED", "ADOPTED", "RETIRED"}]
      /\ asset.usage = "RETIRED" => asset'.usage = "RETIRED"
      /\ asset.state # "READY" => asset'.state # "READY"
      /\ asset'.state = "ERASED" <=> asset.state = "ERASED"
  BY <1>1, <1>5 DEF RowsTyped
<1>7. RowsAgree BY <1>2, <1>3, <1>4, <1>6, AssetRows
<1> QED BY <1>2, <1>7, RowsStep DEF RowsAgree

LEMMA RequestKeeps ==
    ASSUME PurgeInv, Block \/ StartCleanup \/ CleanItem \/ DeletionLeaseEnds
    PROVE  PurgeInv'
<1>1. RowsTyped /\ RowsSound BY TypeParts, SoundNow DEF PurgeInv
<1>2. UNCHANGED <<asset, sub, due, intent, recovery, stored, journal, backup, pw, fw, publisher, calm>>
  BY DEF Block, StartCleanup, CleanItem, DeletionLeaseEnds
<1>3. \/ req.state = "DRAFT" /\ req' = [req EXCEPT !.state = "BLOCKED_FOR_USE"]
      \/ req' = [req EXCEPT !.state = "CLEANING", !.item = "PENDING"]
      \/ req' = [req EXCEPT !.item = "WAITING_EXTERNAL"]
      \/ req' = [req EXCEPT !.live = FALSE]
  BY DEF Block, StartCleanup, CleanItem, DeletionLeaseEnds
<1>4. req \in Requests /\ (req.live => req.state = "CLEANING")
  BY <1>1 DEF RowsTyped, RowsSound
<1>5. /\ req' \in Requests /\ (req.state # "DRAFT" => req'.state # "DRAFT")
      /\ req'.live => req'.state = "CLEANING" /\ req.live
  BY <1>3, <1>4 DEF Requests
<1>6. RowsAgree BY <1>2, <1>5, RequestRows DEF Explicit
<1> QED BY <1>2, <1>6, RowsStep DEF RowsAgree

LEMMA IntentClockKeeps ==
    ASSUME PurgeInv, PurgeLeaseEnds \/ RetryDue
    PROVE  PurgeInv'
<1>1. RowsTyped /\ RowsSound BY TypeParts, SoundNow DEF PurgeInv
<1>2. UNCHANGED <<asset, sub, due, req, recovery, stored, journal, backup, pw, fw, publisher, calm>>
  BY DEF PurgeLeaseEnds, RetryDue
<1>3. intent' = [intent EXCEPT !.live = FALSE] \/ intent' = [intent EXCEPT !.wait = FALSE]
  BY DEF PurgeLeaseEnds, RetryDue
<1>4. /\ intent' \in Intents /\ intent'.state = intent.state /\ intent'.objects = intent.objects
      /\ intent'.live => intent.live
  BY <1>1, <1>3 DEF RowsTyped, Intents
<1>5. Fenced' = Fenced /\ PurgeUnfinished' = PurgeUnfinished
  BY <1>4 DEF Fenced, PurgeUnfinished
<1>6. RowsAgree
  <2>1. intent'.holder = intent.holder BY <1>1, <1>3 DEF RowsTyped, Intents
  <2> QED BY <1>1, <1>2, <1>4, <1>5, <2>1, PlanRows DEF RowsSound
<1> QED BY <1>2, <1>6, RowsStep DEF RowsAgree

LEMMA FailuresEndKeeps ==
    ASSUME PurgeInv, FailuresEnd
    PROVE  PurgeInv'
<1>1. UNCHANGED <<rows, recovery, stored, journal, backup, pw, fw, publisher>> /\ calm' = TRUE
  BY DEF FailuresEnd
<1>2. journal \subseteq {"PURGE", "DELETION"} BY DEF PurgeInv, TypeOK
<1>3. RowsAgree BY <1>1, <1>2, QuietRows
<1> QED BY <1>1, <1>3, RowsStep DEF RowsAgree

LEMMA PublicationKeeps ==
    ASSUME PurgeInv, PublicationBegins \/ PublicationEnds
    PROVE  PurgeInv'
<1>1. /\ UNCHANGED <<rows, recovery, stored, journal, backup, pw, fw, calm>>
      /\ publisher' \in {"MARKED", "NONE"} /\ publisher # "NONE"
  BY DEF PublicationBegins, PublicationEnds
<1>2. journal \subseteq {"PURGE", "DELETION"} /\ calm' \in BOOLEAN
  BY <1>1 DEF PurgeInv, TypeOK
<1>3. RowsAgree BY <1>1, <1>2, StoreRows
<1> QED BY <1>1, <1>3, RowsStep DEF RowsAgree

-------------------------------------------------------------------------------
(* The purge worker *)

\* A step that only the worker sees
LEMMA PurgerMoves ==
    ASSUME PurgeInv, UNCHANGED <<rows, recovery, stored, backup, fw, publisher, calm>>,
           journal \subseteq journal', journal' \subseteq {"PURGE", "DELETION"},
           NEW w \in Purgers, NEW s \in PurgerStates, pw' = [pw EXCEPT ![w] = s],
           s.epoch = pw[w].epoch,
           s.pc \notin {"IDLE", "CLAIMED"} => journal' # {},
           s.pc \in BeyondFence =>
             pw[w].pc \in BeyondFence /\ s.part = pw[w].part /\ s.gone = pw[w].gone,
           s.pc = "RESULT" /\ s.out = "MISSING" => s.part \notin stored /\ ~OthersGone(w)
    PROVE  PurgeInv'
<1>1. calm' \in BOOLEAN BY DEF PurgeInv, TypeOK
<1>2. RowsAgree BY <1>1, QuietRows
<1>3. PurgerInv(w) BY DEF PurgeInv
<1>4. /\ asset' = asset /\ intent' = intent BY DEF rows
<1>5. Fenced' = Fenced BY <1>4 DEF Fenced
<1>6. s.pc = "RESULT" => s.pc \in BeyondFence BY DEF BeyondFence
<1>7. Knows(w, s) BY <1>3, <1>4, <1>5, <1>6 DEF Knows, PurgerInv, OthersGone
<1>8. s.epoch <= recovery.epoch BY <1>3 DEF PurgerInv
<1> QED BY <1>2, <1>7, <1>8, PurgerGoes DEF RowsAgree

LEMMA PurgerNow ==
    ASSUME PurgeInv, NEW w \in Purgers
    PROVE  /\ pw \in [Purgers -> PurgerStates] /\ pw[w] \in PurgerStates
           /\ journal \subseteq {"PURGE", "DELETION"}
           /\ PurgerInv(w)
           /\ RowsTyped /\ RowsSound
BY TypeParts, SoundNow DEF PurgeInv, RowsTyped

\* What a worker that still holds its lease may rely on
LEMMA OwnerKnows ==
    ASSUME PurgeInv, NEW w \in Purgers, Owned(w)
    PROVE  /\ ~Stale(w) /\ intent.live
           /\ intent.state = "CLAIMED" \/ PurgeUnfinished
           /\ pw[w].pc \in BeyondFence => PurgeUnfinished
<1>1. ~Stale(w) /\ intent.live BY DEF Owned, Enabled, Stale
<1>2. intent.state = "CLAIMED" \/ PurgeUnfinished BY <1>1, PurgerNow DEF RowsSound
<1>3. intent.state = "CLAIMED" => ~Fenced BY DEF Fenced, Irreversible
<1>4. pw[w].pc \in BeyondFence => Fenced BY <1>1, PurgerNow DEF PurgerInv
<1> QED BY <1>1, <1>2, <1>3, <1>4

LEMMA PurgerLeft ==
    ASSUME PurgeConstants, PurgeInv, NEW w \in Purgers, NEW pc \in {"IDLE", "DEFER"}
    PROVE  /\ Left(w, pc) \in PurgerStates /\ Left(w, pc).pc = pc
           /\ Left(w, pc).epoch = pw[w].epoch /\ Left(w, pc).epoch <= recovery.epoch
           /\ Left(w, pc).pc \notin BeyondFence /\ Knows(w, Left(w, pc))
<1>1. 1 \in Parts BY PurgeBounds DEF Parts
<1>2. pw[w].epoch \in 1..MaxEpoch /\ pw[w].epoch <= recovery.epoch
  BY PurgerNow DEF PurgerStates, PurgerInv
<1>3. Left(w, pc) \in PurgerStates BY <1>1, <1>2 DEF Left, PurgerStates, PurgerPCs
<1>4. Left(w, pc).pc = pc /\ Left(w, pc).epoch = pw[w].epoch BY DEF Left
<1>5. Left(w, pc).pc \notin BeyondFence /\ Left(w, pc).pc # "RESULT" BY <1>4 DEF BeyondFence
<1>6. Knows(w, Left(w, pc)) BY <1>5 DEF Knows
<1> QED BY <1>2, <1>3, <1>4, <1>5, <1>6

LEMMA PurgeWriteAheadKeeps ==
    ASSUME PurgeConstants, PurgeInv, NEW w \in Purgers, PurgeWriteAhead(w)
    PROVE  PurgeInv'
<1> DEFINE j == [pw[w] EXCEPT !.pc = "JOURNALED"]
           i == Left(w, "IDLE")
<1>1. /\ UNCHANGED <<rows, recovery, stored, backup, fw, publisher, calm>>
      /\ \/ journal' = journal \cup {"PURGE"} /\ pw' = [pw EXCEPT ![w] = j]
         \/ journal' = journal /\ pw' = [pw EXCEPT ![w] = i]
  BY DEF PurgeWriteAhead, PGoto, PLeave, Left
<1>2. /\ j \in PurgerStates /\ j.pc = "JOURNALED" /\ j.epoch = pw[w].epoch
  BY PurgerNow, PurgerStateTyped DEF PurgerPCs
<1>3. /\ i \in PurgerStates /\ i.pc = "IDLE" /\ i.epoch = pw[w].epoch
  BY PurgerLeft
<1> HIDE DEF j, i
<1>4. journal \subseteq journal' /\ journal' \subseteq {"PURGE", "DELETION"}
  BY <1>1, PurgerNow
<1>5. CASE journal' = journal \cup {"PURGE"} /\ pw' = [pw EXCEPT ![w] = j]
  <2>1. journal' # {} BY <1>5
  <2> QED BY <1>1, <1>2, <1>4, <1>5, <2>1, PurgerMoves DEF BeyondFence
<1>6. CASE pw' = [pw EXCEPT ![w] = i]
  BY <1>1, <1>3, <1>4, <1>6, PurgerMoves DEF BeyondFence
<1> QED BY <1>1, <1>5, <1>6

\* Steps that end what the worker was about, or start it anew
LEMMA PurgerStopsKeeps ==
    ASSUME PurgeConstants, PurgeInv, NEW w \in Purgers,
           FenceRefused(w) \/ ResultRefused(w) \/ FinalizeFails(w) \/ PurgerCrash(w)
    PROVE  PurgeInv'
<1> DEFINE r == [pw[w] EXCEPT !.pc = "RESULT", !.out = "UNKNOWN"]
           d == Left(w, "DEFER")
           i == Left(w, "IDLE")
<1>1. /\ UNCHANGED <<rows, recovery, stored, journal, backup, fw, publisher, calm>>
      /\ \/ pw[w].pc = "FOUND" /\ pw' = [pw EXCEPT ![w] = r]
         \/ pw[w].pc \notin {"IDLE", "CLAIMED"} /\ pw' = [pw EXCEPT ![w] = d]
         \/ pw' = [pw EXCEPT ![w] = i]
  <2>1. CASE FenceRefused(w)
    <3>1. CASE pw[w].pc = "FOUND" BY <2>1, <3>1 DEF FenceRefused, Report
    <3>2. CASE pw[w].pc # "FOUND" BY <2>1, <3>2 DEF FenceRefused, PLeave, Left
    <3> QED BY <3>1, <3>2
  <2>2. CASE ResultRefused(w) \/ FinalizeFails(w)
    BY <2>2 DEF ResultRefused, FinalizeFails, PLeave, Left
  <2>3. CASE PurgerCrash(w) BY <2>3 DEF PurgerCrash, PLeave, Left
  <2> QED BY <2>1, <2>2, <2>3
<1>2. /\ r \in PurgerStates /\ r.pc = "RESULT" /\ r.epoch = pw[w].epoch /\ r.out = "UNKNOWN"
      /\ r.part = pw[w].part /\ r.gone = pw[w].gone
  BY PurgerNow, ReportTyped
<1>3. /\ d \in PurgerStates /\ d.pc = "DEFER" /\ d.epoch = pw[w].epoch
      /\ i \in PurgerStates /\ i.pc = "IDLE" /\ i.epoch = pw[w].epoch
  BY PurgerLeft
<1> HIDE DEF r, d, i
<1>4. journal \subseteq journal' /\ journal' \subseteq {"PURGE", "DELETION"}
  BY <1>1, PurgerNow
<1>5. pw[w].pc \notin {"IDLE", "CLAIMED"} => journal' # {} BY <1>1, PurgerNow DEF PurgerInv
<1>6. CASE pw[w].pc = "FOUND" /\ pw' = [pw EXCEPT ![w] = r]
  BY <1>1, <1>2, <1>4, <1>5, <1>6, PurgerMoves DEF BeyondFence
<1>7. CASE pw[w].pc \notin {"IDLE", "CLAIMED"} /\ pw' = [pw EXCEPT ![w] = d]
  BY <1>1, <1>3, <1>4, <1>5, <1>7, PurgerMoves DEF BeyondFence
<1>8. CASE pw' = [pw EXCEPT ![w] = i]
  BY <1>1, <1>3, <1>4, <1>8, PurgerMoves DEF BeyondFence
<1> QED BY <1>1, <1>6, <1>7, <1>8

\* What a worker says it has seen is so; of the last object it says nothing before the
\* namespace is gone.
LEMMA PurgerLooksKeeps ==
    ASSUME PurgeInv, NEW w \in Purgers, Stat(w) \/ Recheck(w)
    PROVE  PurgeInv'
<1>1. /\ UNCHANGED <<rows, recovery, stored, journal, backup, fw, publisher, calm>>
      /\ pw[w].pc \in BeyondFence /\ pw[w].pc \notin {"IDLE", "CLAIMED"}
  BY DEF Stat, Recheck, BeyondFence
<1>2. journal \subseteq journal' /\ journal' \subseteq {"PURGE", "DELETION"} /\ journal' # {}
  BY <1>1, PurgerNow DEF PurgerInv
<1>3. CASE PGoto(w, "FOUND") \/ PGoto(w, "NAMESPACE")
  <2>1. PICK pc \in {"FOUND", "NAMESPACE"} : PGoto(w, pc) BY <1>3
  <2> DEFINE s == [pw[w] EXCEPT !.pc = pc]
  <2>2. /\ s \in PurgerStates /\ s.pc = pc /\ s.epoch = pw[w].epoch
        /\ s.part = pw[w].part /\ s.gone = pw[w].gone
    <3>1. pc \in PurgerPCs BY <2>1 DEF PurgerPCs
    <3>2. pw[w] \in PurgerStates BY PurgerNow
    <3> QED BY ONLY <3>1, <3>2, PurgerStateTyped
  <2>3. pw' = [pw EXCEPT ![w] = s] BY <2>1 DEF PGoto
  <2> HIDE DEF s
  <2> QED BY <1>1, <1>2, <2>2, <2>3, PurgerMoves
<1>4. ASSUME NEW out \in Seen(w), Report(w, out), ~(out = "MISSING" /\ OthersGone(w))
      PROVE  PurgeInv'
  <2> DEFINE s == [pw[w] EXCEPT !.pc = "RESULT", !.out = out]
  <2>1. out \in {"UNKNOWN", "MISSING"} /\ (out = "MISSING" => pw[w].part \notin stored)
    BY <1>4 DEF Seen
  <2>2. /\ s \in PurgerStates /\ s.pc = "RESULT" /\ s.epoch = pw[w].epoch
        /\ s.out = out /\ s.part = pw[w].part /\ s.gone = pw[w].gone
    <3>1. out \in {"UNKNOWN", "MISSING"} BY <2>1
    <3>2. pw[w] \in PurgerStates BY PurgerNow
    <3> QED BY ONLY <3>1, <3>2, ReportTyped
  <2>3. pw' = [pw EXCEPT ![w] = s] BY <1>4 DEF Report
  <2> HIDE DEF s
  <2> QED BY <1>1, <1>2, <1>4, <2>1, <2>2, <2>3, PurgerMoves
<1>5. ASSUME NEW out \in Seen(w), Conclude(w, out) PROVE PurgeInv'
  <2>1. CASE out = "MISSING" /\ OthersGone(w) BY <1>3, <1>5, <2>1 DEF Conclude
  <2>2. CASE ~(out = "MISSING" /\ OthersGone(w)) BY <1>4, <1>5, <2>2 DEF Conclude
  <2> QED BY <2>1, <2>2
<1> QED BY <1>3, <1>5 DEF Stat, Recheck

LEMMA PurgerStartsKeeps ==
    ASSUME PurgeInv, NEW w \in Purgers, PurgerStarts(w)
    PROVE  PurgeInv'
<1> DEFINE s == [pw[w] EXCEPT !.epoch = recovery.epoch]
<1>1. /\ UNCHANGED <<rows, recovery, stored, journal, backup, fw, publisher, calm>>
      /\ pw[w].pc = "IDLE" /\ pw' = [pw EXCEPT ![w] = s]
  BY DEF PurgerStarts
<1>2. recovery.epoch \in 1..MaxEpoch BY PurgerNow DEF RowsTyped
<1>3. s \in PurgerStates /\ s.pc = "IDLE" /\ s.epoch = recovery.epoch
  BY <1>1, <1>2, PurgerNow DEF PurgerStates
<1> HIDE DEF s
<1>4. RowsAgree
  <2>1. calm' \in BOOLEAN BY <1>1 DEF PurgeInv, TypeOK
  <2> QED BY <1>1, <2>1, PurgerNow, QuietRows
<1>5. s.epoch <= recovery.epoch BY <1>2, <1>3
<1>6. Knows(w, s) BY <1>3 DEF Knows, BeyondFence
<1> QED BY <1>1, <1>3, <1>4, <1>5, <1>6, PurgerGoes DEF RowsAgree

\* A plan that is not past its fence is given up or put off.
LEMMA PlanEnds ==
    ASSUME PurgeInv, ~Fenced, intent' \in Intents, intent'.objects = intent.objects,
           ~intent'.live, intent'.state \in {"SKIPPED", "ELIGIBLE"},
           UNCHANGED <<asset, sub, due, req, recovery, stored, journal, publisher, calm>>
    PROVE  RowsAgree
<1>1. ~Fenced' /\ ~PurgeUnfinished' /\ intent'.state # "ERASED"
  BY DEF Fenced, PurgeUnfinished, Irreversible
<1> QED BY <1>1, PlanRows

LEMMA PlanEndsTyped ==
    ASSUME PurgeInv
    PROVE  LET e == [Released EXCEPT !.state = "ELIGIBLE", !.wait = TRUE]
           IN /\ Skipped \in Intents /\ Skipped.state = "SKIPPED"
              /\ Skipped.objects = intent.objects /\ ~Skipped.live
              /\ e \in Intents /\ e.state = "ELIGIBLE"
              /\ e.objects = intent.objects /\ ~e.live
<1>1. intent \in Intents BY TypeParts DEF PurgeInv, RowsTyped
<1>2. {"SKIPPED", "ELIGIBLE"} \subseteq PurgeStates BY DEF PurgeStates
<1>3. Released \in Intents /\ Released.objects = intent.objects /\ ~Released.live
  BY <1>1 DEF Released, Intents
<1> HIDE DEF Released
<1>4. /\ Skipped \in Intents /\ Skipped.state = "SKIPPED"
      /\ Skipped.objects = intent.objects /\ ~Skipped.live
  BY <1>2, <1>3 DEF Skipped, Intents
<1> DEFINE e == [Released EXCEPT !.state = "ELIGIBLE", !.wait = TRUE]
<1>5. e \in Intents /\ e.state = "ELIGIBLE" /\ e.objects = intent.objects /\ ~e.live
  BY <1>2, <1>3 DEF Intents
<1> QED BY <1>4, <1>5

LEMMA PurgeNotClaimedKeeps ==
    ASSUME PurgeInv, NEW w \in Purgers, PurgeTakenOver(w) \/ PurgeDeferred(w)
    PROVE  PurgeInv'
<1> DEFINE e == [Released EXCEPT !.state = "ELIGIBLE", !.wait = TRUE]
<1>1. /\ ~Fenced /\ (intent' = Skipped \/ intent' = e)
      /\ UNCHANGED <<asset, sub, due, req, recovery, stored, journal, backup, pw, fw, publisher, calm>>
  BY DEF PurgeTakenOver, PurgeDeferred
<1>2. /\ Skipped \in Intents /\ Skipped.state = "SKIPPED"
      /\ Skipped.objects = intent.objects /\ ~Skipped.live
      /\ e \in Intents /\ e.state = "ELIGIBLE" /\ e.objects = intent.objects /\ ~e.live
  BY PlanEndsTyped
<1> HIDE DEF e
<1>3. /\ intent' \in Intents /\ intent'.objects = intent.objects /\ ~intent'.live
      /\ intent'.state \in {"SKIPPED", "ELIGIBLE"}
  BY <1>1, <1>2
<1>4. RowsAgree BY <1>1, <1>3, PlanEnds
<1> QED BY <1>1, <1>4, RowsStep DEF RowsAgree

LEMMA FenceYieldsKeeps ==
    ASSUME PurgeConstants, PurgeInv, NEW w \in Purgers, FenceYields(w)
    PROVE  PurgeInv'
<1> DEFINE s == Left(w, "IDLE")
<1>1. /\ ~Fenced /\ intent' = Skipped /\ pw' = [pw EXCEPT ![w] = s]
      /\ UNCHANGED <<asset, sub, due, req, recovery, stored, journal, backup, fw, publisher, calm>>
  BY DEF FenceYields, PLeave, Left
<1>2. RowsAgree BY <1>1, PlanEndsTyped, PlanEnds
<1>3. /\ s \in PurgerStates /\ s.pc = "IDLE" /\ s.epoch <= recovery.epoch /\ Knows(w, s)
  BY PurgerLeft
<1> HIDE DEF s
<1> QED BY <1>1, <1>2, <1>3, PurgerGoes DEF RowsAgree

LEMMA PurgeClaimKeeps ==
    ASSUME PurgeInv, NEW w \in Purgers, PurgeClaim(w)
    PROVE  PurgeInv'
<1> DEFINE st == IF Fenced THEN intent.state ELSE "CLAIMED"
           n == [intent EXCEPT !.state = st, !.holder = w, !.live = TRUE, !.epoch = recovery.epoch]
           s == [pw[w] EXCEPT !.pc = "CLAIMED"]
<1>1. /\ intent' = n /\ intent.state # "ERASED" /\ pw[w].pc = "IDLE"
      /\ UNCHANGED <<asset, sub, due, req, recovery, stored, journal, backup, fw, publisher, calm>>
      /\ pw' = [pw EXCEPT ![w] = s] \/ pw' = pw
  BY DEF PurgeClaim, Candidate, PGoto
<1>2. recovery.epoch \in 1..MaxEpoch /\ intent \in Intents BY PurgerNow DEF RowsTyped
<1>3. /\ st \in PurgeStates /\ (Fenced => st = intent.state) /\ (~Fenced => st = "CLAIMED")
  BY <1>2 DEF Intents, PurgeStates
<1> HIDE DEF st
<1>4. n \in Intents /\ n.state = st /\ n.objects = intent.objects /\ n.holder = w
  BY <1>2, <1>3 DEF Intents
<1> HIDE DEF n
<1>5. /\ Fenced' = Fenced /\ PurgeUnfinished' = PurgeUnfinished /\ intent'.state # "ERASED"
      /\ intent'.state = "CLAIMED" \/ PurgeUnfinished'
  BY <1>1, <1>3, <1>4 DEF Fenced, PurgeUnfinished, Irreversible
<1>6. \A v \in Purgers : pw[v].pc \in BeyondFence => intent'.holder # v
  BY <1>1, <1>4 DEF BeyondFence
<1>7. RowsAgree BY <1>1, <1>4, <1>5, <1>6, PlanRows
<1>8. s \in PurgerStates /\ s.pc = "CLAIMED" /\ s.epoch = pw[w].epoch
  BY PurgerNow DEF PurgerStates, PurgerPCs
<1> HIDE DEF s
<1>9. s.epoch <= recovery.epoch /\ Knows(w, s)
  BY <1>8, PurgerNow DEF PurgerInv, Knows, BeyondFence
<1>10. CASE pw' = pw BY <1>1, <1>7, <1>10, RowsStep DEF RowsAgree
<1>11. CASE pw' = [pw EXCEPT ![w] = s]
  BY <1>1, <1>7, <1>8, <1>9, <1>11, PurgerGoes DEF RowsAgree
<1> QED BY <1>1, <1>10, <1>11

\* The fence: nothing that an explicit deletion has taken over gets past it.
LEMMA FenceKeeps ==
    ASSUME PurgeConstants, PurgeInv, NEW w \in Purgers, Fence(w)
    PROVE  PurgeInv'
<1> DEFINE st == IF intent.state = "DELETE_UNKNOWN" THEN intent.state ELSE "DELETE_PENDING"
           n == [intent EXCEPT !.state = st]
           a == [asset EXCEPT !.usage = "RETIRED"]
           s == [pw[w] EXCEPT !.pc = IF pw[w].pc = "FOUND" THEN "DELETE" ELSE "STAT",
                              !.part = IF pw[w].pc = "FOUND" THEN pw[w].part ELSE 1,
                              !.gone = IF pw[w].pc = "FOUND" THEN pw[w].gone
                                       ELSE MissingParts(intent.objects)]
<1>1. /\ pw[w].pc \in {"JOURNALED", "FOUND"} /\ Owned(w) /\ Eligible
      /\ asset' = a /\ sub' = (IF sub = "OVERDUE" THEN "CLOSED" ELSE sub)
      /\ intent' = n /\ pw' = [pw EXCEPT ![w] = s]
      /\ UNCHANGED <<due, req, recovery, stored, journal, backup, fw, publisher, calm>>
  BY DEF Fence
<1>2. RowsTyped /\ RowsSound /\ PurgerInv(w) /\ pw[w] \in PurgerStates BY PurgerNow
<1>3. ReadableIsStored BY DEF PurgeInv
<1>4. /\ st \in {"DELETE_PENDING", "DELETE_UNKNOWN"} /\ st \in PurgeStates
  BY DEF PurgeStates, Irreversible
<1> HIDE DEF st
<1>5. /\ n \in Intents /\ n.state = st /\ n.objects = intent.objects
      /\ n.live = intent.live /\ n.holder = intent.holder
  BY <1>2, <1>4 DEF RowsTyped, Intents
<1>6. /\ a \in [state: {"READY", "QUARANTINED", "ERASED"}, usage: {"STAGED", "ADOPTED", "RETIRED"}]
      /\ a.usage = "RETIRED" /\ a.state = asset.state
  BY <1>2 DEF RowsTyped
<1> HIDE DEF n, a
<1>7. Fenced' /\ PurgeUnfinished' /\ intent'.state \notin {"ERASED"}
  BY <1>1, <1>4, <1>5 DEF Fenced, PurgeUnfinished, Irreversible
<1>8. Explicit => PurgeUnfinished
  <2>1. Explicit => Fenced BY <1>1 DEF Eligible
  <2>2. intent.live /\ (intent.state = "CLAIMED" \/ PurgeUnfinished)
    BY <1>1, OwnerKnows
  <2> QED BY <2>1, <2>2 DEF Fenced, Irreversible
<1>9. Onward
  <2>1. \A v \in Purgers : Held(v) BY <1>1, <1>5 DEF Held
  <2>2. Explicit' = Explicit /\ (Explicit => Fenced)
    BY <1>1, <1>8 DEF Explicit, PurgeUnfinished
  <2> QED BY <1>1, <1>6, <1>7, <2>1, <2>2 DEF Onward
<1>10. sub' \in {"OPEN", "OVERDUE", "CLOSED"} BY <1>1, <1>2 DEF RowsTyped
<1>11. RowsTyped' BY <1>1, <1>2, <1>5, <1>6, <1>10 DEF RowsTyped
<1>12. ~req.live
  BY <1>2, <1>8 DEF RowsSound, Explicit
<1>13. MissingIsGone' /\ JournalFirst'
  BY <1>1, <1>2, <1>5, <1>6 DEF RowsSound, MissingIsGone, JournalFirst
<1>14. RowsSound'
  <2>1. AllMissing(intent.objects)' => publisher' = "NONE"
    BY <1>1, <1>2, <1>5 DEF RowsSound, AllMissing
  <2> QED BY <1>1, <1>6, <1>7, <1>12, <1>13, <2>1 DEF RowsSound
<1>15. ReadableIsStored' BY <1>1, <1>6 DEF ReadableIsStored
<1>16. 1 \in Parts BY PurgeBounds DEF Parts
<1>17. /\ s \in PurgerStates /\ s.pc \in {"DELETE", "STAT"} /\ s.epoch = pw[w].epoch
       /\ \/ pw[w].pc \in BeyondFence /\ s.part = pw[w].part /\ s.gone = pw[w].gone
          \/ s.gone = MissingParts(intent.objects)
  <2>1. CASE pw[w].pc = "FOUND" BY <1>2, <2>1 DEF PurgerStates, PurgerPCs, BeyondFence
  <2>2. CASE pw[w].pc # "FOUND"
    <3>1. MissingParts(intent.objects) \in SUBSET Parts BY DEF MissingParts
    <3> QED BY <1>2, <1>16, <2>2, <3>1 DEF PurgerStates, PurgerPCs
  <2> QED BY <2>1, <2>2
<1> HIDE DEF s
<1>18. s.epoch <= recovery.epoch /\ journal' # {}
  BY <1>1, <1>2, <1>17 DEF PurgerInv
<1>19. Knows(w, s)
  <2>1. asset'.usage = "RETIRED" /\ ~Stale(w) /\ intent.live BY <1>1, <1>6, OwnerKnows
  <2>2. Explicit => Fenced BY <1>8 DEF PurgeUnfinished
  <2>3. intent.holder = w BY <1>1 DEF Owned
  <2>4. MissingParts(intent.objects) \subseteq s.gone \cup {s.part}
    BY <1>2, <1>17, <2>1, <2>3 DEF PurgerInv
  <2> QED BY <1>1, <1>5, <1>7, <1>17, <2>1, <2>2, <2>4 DEF Knows
<1> QED BY <1>1, <1>9, <1>11, <1>14, <1>15, <1>17, <1>18, <1>19, PurgerGoes

LEMMA DeleteObjectKeeps ==
    ASSUME PurgeInv, NEW w \in Purgers, DeleteObject(w)
    PROVE  PurgeInv'
<1> DEFINE r == [pw[w] EXCEPT !.pc = "RECHECK"]
           u == [pw[w] EXCEPT !.pc = "RESULT", !.out = "UNKNOWN"]
<1>1. /\ pw[w].pc = "DELETE"
      /\ UNCHANGED <<rows, recovery, journal, backup, fw, publisher, calm>>
      /\ stored' \in {stored, stored \ {pw[w].part}}
      /\ pw' = [pw EXCEPT ![w] = r] \/ pw' = [pw EXCEPT ![w] = u]
  BY DEF DeleteObject, PGoto, Report
<1>2. PurgerInv(w) /\ pw[w].pc \in BeyondFence BY <1>1, PurgerNow DEF BeyondFence
<1>3. RowsAgree /\ journal # {}
  <2>1. stored' \subseteq stored BY <1>1
  <2>2. journal # {} /\ (asset.usage = "RETIRED" \/ asset.state # "READY")
    BY <1>1, <1>2 DEF PurgerInv
  <2>3. calm' \in BOOLEAN /\ publisher' \in {"NONE", "COMING", "MARKED"}
    BY <1>1 DEF PurgeInv, TypeOK
  <2> QED BY <1>1, <2>1, <2>2, <2>3, PurgerNow, StoreRows
<1>4. asset' = asset /\ intent' = intent /\ Fenced' = Fenced BY <1>1 DEF rows, Fenced
<1>5. /\ r \in PurgerStates /\ r.pc = "RECHECK" /\ r.epoch = pw[w].epoch
      /\ r.part = pw[w].part /\ r.gone = pw[w].gone
      /\ u \in PurgerStates /\ u.pc = "RESULT" /\ u.epoch = pw[w].epoch /\ u.out = "UNKNOWN"
      /\ u.part = pw[w].part /\ u.gone = pw[w].gone
  <2>1. pw[w] \in PurgerStates BY PurgerNow
  <2>2. "RECHECK" \in PurgerPCs BY DEF PurgerPCs
  <2>3. /\ r \in PurgerStates /\ r.pc = "RECHECK" /\ r.epoch = pw[w].epoch
        /\ r.part = pw[w].part /\ r.gone = pw[w].gone
    BY ONLY <2>1, <2>2, PurgerStateTyped
  <2>4. /\ u \in PurgerStates /\ u.pc = "RESULT" /\ u.epoch = pw[w].epoch /\ u.out = "UNKNOWN"
        /\ u.part = pw[w].part /\ u.gone = pw[w].gone
    BY ONLY <2>1, ReportTyped
  <2> QED BY <2>3, <2>4
<1> HIDE DEF r, u
<1>6. pw[w].epoch <= recovery.epoch BY <1>2 DEF PurgerInv
<1>7. Knows(w, r) /\ Knows(w, u) BY <1>2, <1>4, <1>5 DEF Knows, PurgerInv
<1>8. CASE pw' = [pw EXCEPT ![w] = r]
  BY <1>1, <1>3, <1>5, <1>6, <1>7, <1>8, PurgerGoes DEF RowsAgree
<1>9. CASE pw' = [pw EXCEPT ![w] = u]
  BY <1>1, <1>3, <1>5, <1>6, <1>7, <1>9, PurgerGoes DEF RowsAgree
<1> QED BY <1>1, <1>8, <1>9

\* The namespace goes as a whole, or a marker keeps it.
LEMMA NamespaceRows ==
    ASSUME PurgeInv, NamespacePurged \/ NamespaceStays, UNCHANGED <<rows, recovery, journal, calm>>,
           journal # {}, Explicit \/ asset.usage = "RETIRED" \/ asset.state # "READY"
    PROVE  RowsAgree
<1>1. stored \subseteq Parts /\ publisher \in {"NONE", "COMING", "MARKED"} /\ calm \in BOOLEAN
      /\ journal \subseteq {"PURGE", "DELETION"}
  BY DEF PurgeInv, TypeOK
<1>2. /\ stored' \subseteq stored /\ publisher' \in {"NONE", "COMING", "MARKED"}
      /\ publisher = "NONE" => publisher' = "NONE"
  <2>1. CASE NamespacePurged BY <2>1 DEF NamespacePurged
  <2>2. CASE NamespaceStays /\ publisher = "MARKED" BY <1>1, <2>2 DEF NamespaceStays
  <2>3. CASE NamespaceStays /\ publisher # "MARKED" BY <1>1, <2>3 DEF NamespaceStays
  <2> QED BY <2>1, <2>2, <2>3
<1> QED BY <1>1, <1>2, StoreRows

LEMMA PurgeNamespaceKeeps ==
    ASSUME PurgeInv, NEW w \in Purgers, PurgeNamespace(w)
    PROVE  PurgeInv'
<1> DEFINE m == [pw[w] EXCEPT !.pc = "RESULT", !.out = "MISSING"]
           u == [pw[w] EXCEPT !.pc = "RESULT", !.out = "UNKNOWN"]
<1>1. /\ pw[w].pc = "NAMESPACE"
      /\ UNCHANGED <<rows, recovery, journal, backup, fw, calm>>
      /\ \/ NamespacePurged /\ pw' = [pw EXCEPT ![w] = m]
         \/ NamespaceStays /\ pw' = [pw EXCEPT ![w] = u]
  BY DEF PurgeNamespace, Report
<1>2. PurgerInv(w) /\ pw[w].pc \in BeyondFence BY <1>1, PurgerNow DEF BeyondFence
<1>3. RowsAgree /\ journal # {}
  <2>1. journal # {} /\ (asset.usage = "RETIRED" \/ asset.state # "READY")
    BY <1>1, <1>2 DEF PurgerInv
  <2> QED BY <1>1, <2>1, NamespaceRows
<1>4. asset' = asset /\ intent' = intent /\ Fenced' = Fenced BY <1>1 DEF rows, Fenced
<1>5. /\ m \in PurgerStates /\ m.pc = "RESULT" /\ m.epoch = pw[w].epoch /\ m.out = "MISSING"
      /\ m.part = pw[w].part /\ m.gone = pw[w].gone
      /\ u \in PurgerStates /\ u.pc = "RESULT" /\ u.epoch = pw[w].epoch /\ u.out = "UNKNOWN"
      /\ u.part = pw[w].part /\ u.gone = pw[w].gone
  BY PurgerNow, ReportTyped
<1> HIDE DEF m, u
<1>6. pw[w].epoch <= recovery.epoch BY <1>2 DEF PurgerInv
<1>7. CASE NamespacePurged /\ pw' = [pw EXCEPT ![w] = m]
  <2>1. stored' = {} /\ publisher' = "NONE" BY <1>7 DEF NamespacePurged
  <2>2. Knows(w, m) BY <1>2, <1>4, <1>5, <2>1 DEF Knows, PurgerInv
  <2> QED BY <1>1, <1>3, <1>5, <1>6, <1>7, <2>2, PurgerGoes DEF RowsAgree
<1>8. CASE pw' = [pw EXCEPT ![w] = u]
  <2>1. Knows(w, u) BY <1>2, <1>4, <1>5 DEF Knows, PurgerInv
  <2> QED BY <1>1, <1>3, <1>5, <1>6, <1>8, <2>1, PurgerGoes DEF RowsAgree
<1> QED BY <1>1, <1>7, <1>8

\* Only a worker that holds its lease records, and what it has seen is still so.  When it
\* records the last object as missing, it knew all others to be, and had purged the namespace.
LEMMA RecordResultKeeps ==
    ASSUME PurgeConstants, PurgeInv, NEW w \in Purgers, RecordResult(w)
    PROVE  PurgeInv'
<1> DEFINE objects == [intent.objects EXCEPT ![pw[w].part] = pw[w].out]
           done == AllMissing(objects)
           st == IF done THEN "DELETE_CONFIRMED" ELSE "DELETE_UNKNOWN"
           n == [intent EXCEPT !.objects = objects, !.state = st]
           last == pw[w].part = NParts
           next == [pw[w] EXCEPT !.pc = "STAT", !.part = pw[w].part + 1,
                                 !.gone = MissingParts(objects)]
           fin == [pw[w] EXCEPT !.pc = "FINALIZE"]
           u == [pw[w] EXCEPT !.pc = "RESULT", !.out = "UNKNOWN"]
<1>1. /\ pw[w].pc = "RESULT" /\ Owned(w) /\ intent' = n
      /\ \/ ~last /\ pw' = [pw EXCEPT ![w] = next]
         \/ done /\ pw' = [pw EXCEPT ![w] = fin]
         \/ pw' = [pw EXCEPT ![w] = Left(w, "DEFER")]
         \/ pw' = [pw EXCEPT ![w] = u]
      /\ UNCHANGED <<asset, sub, due, req, recovery, stored, journal, backup, fw, publisher, calm>>
  BY DEF RecordResult, Report, PGoto, PLeave, Left
<1>2. RowsTyped /\ RowsSound /\ PurgerInv(w) /\ pw[w] \in PurgerStates BY PurgerNow
<1>3. /\ ~Stale(w) /\ PurgeUnfinished /\ Fenced /\ pw[w].pc \in BeyondFence
      /\ intent.live /\ intent.holder = w
  BY <1>1, OwnerKnows DEF BeyondFence, PurgeUnfinished, Owned
<1>4. /\ pw[w].part \in Parts /\ pw[w].out \in {"UNKNOWN", "MISSING"} /\ intent \in Intents
      /\ pw[w].gone \subseteq Parts
  BY <1>2 DEF PurgerStates, RowsTyped
<1>5. intent.objects \in [Parts -> {"PENDING", "UNKNOWN", "MISSING"}] BY <1>4 DEF Intents
<1>6. /\ objects \in [Parts -> {"PENDING", "UNKNOWN", "MISSING"}]
      /\ \A p \in Parts : objects[p] = (IF p = pw[w].part THEN pw[w].out ELSE intent.objects[p])
  BY <1>4, <1>5
<1>7. st \in {"DELETE_CONFIRMED", "DELETE_UNKNOWN"} /\ st \in PurgeStates
  BY DEF PurgeStates, Irreversible
<1>8. ~last => pw[w].part + 1 \in Parts
  <2>1. pw[w].part \in Nat /\ 1 <= pw[w].part /\ pw[w].part <= NParts
    BY <1>4, PurgeBounds DEF Parts
  <2> QED BY <2>1, PurgeBounds DEF Parts
<1>9. done => OthersGone(w) /\ publisher = "NONE"
  <2>1. MissingParts(intent.objects) \subseteq pw[w].gone \cup {pw[w].part}
    BY <1>2, <1>3 DEF PurgerInv
  <2>2. done => Parts \ {pw[w].part} \subseteq MissingParts(intent.objects)
    BY <1>6 DEF AllMissing, MissingParts
  <2>3. done => pw[w].out = "MISSING" BY <1>4, <1>6 DEF AllMissing
  <2>4. done => OthersGone(w) BY <2>1, <2>2 DEF OthersGone
  <2> QED BY <1>1, <1>2, <1>3, <2>3, <2>4 DEF PurgerInv
<1>10. MissingParts(objects) \subseteq pw[w].gone \cup {pw[w].part}
  <2>1. MissingParts(objects) \subseteq MissingParts(intent.objects) \cup {pw[w].part}
    BY <1>6 DEF MissingParts
  <2> QED BY <1>2, <1>3, <2>1 DEF PurgerInv
<1>11. pw[w].out = "UNKNOWN" => MissingParts(objects) \subseteq MissingParts(intent.objects)
  BY <1>6 DEF MissingParts
<1>12. MissingParts(objects) \in SUBSET Parts BY DEF MissingParts
<1>13. done => AllMissing(objects) OBVIOUS
<1>14. AllMissing(objects) => done OBVIOUS
<1> HIDE DEF objects, done, st, last
<1>15. /\ n \in Intents /\ n.state = st /\ n.objects = objects
       /\ n.live = intent.live /\ n.holder = intent.holder
  BY <1>4, <1>6, <1>7 DEF Intents
<1> HIDE DEF n
<1>16. /\ next.pc = "STAT" /\ next.epoch = pw[w].epoch /\ next.gone = MissingParts(objects)
       /\ ~last => next \in PurgerStates
       /\ fin \in PurgerStates /\ fin.pc = "FINALIZE" /\ fin.epoch = pw[w].epoch
       /\ fin.part = pw[w].part /\ fin.gone = pw[w].gone
  BY <1>2, <1>8, <1>12 DEF PurgerStates, PurgerPCs
<1>17. /\ u \in PurgerStates /\ u.pc = "RESULT" /\ u.epoch = pw[w].epoch /\ u.out = "UNKNOWN"
       /\ u.part = pw[w].part /\ u.gone = pw[w].gone
  BY <1>2, ReportTyped
<1>18. /\ Left(w, "DEFER") \in PurgerStates /\ Left(w, "DEFER").pc = "DEFER"
       /\ Left(w, "DEFER").epoch <= recovery.epoch /\ Knows(w, Left(w, "DEFER"))
  BY PurgerLeft
<1> HIDE DEF next, fin, u, Left
<1>19. \A p \in Parts : intent'.objects[p] = "MISSING" => p \notin stored
  BY <1>1, <1>2, <1>3, <1>6, <1>15 DEF RowsSound, MissingIsGone, PurgerInv
<1>20. Fenced' /\ PurgeUnfinished' /\ intent'.state # "ERASED"
  BY <1>1, <1>7, <1>15 DEF Fenced, PurgeUnfinished, Irreversible
<1>21. ASSUME NEW v \in Purgers, pw'[v] = pw[v] PROVE Held(v)
  <2>1. CASE v = w
    <3>1. pw'[w] \in {next, fin, Left(w, "DEFER"), u} BY <1>1, PurgerNow
    <3>2. pw[w].out = "UNKNOWN" BY <1>1, <1>16, <1>17, <1>18, <1>21, <2>1, <3>1
    <3> QED BY <1>1, <1>3, <1>11, <1>15, <2>1, <3>2 DEF Held
  <2>2. CASE v # w BY <1>1, <1>3, <1>15, <2>2 DEF Held
  <2> QED BY <2>1, <2>2
<1>22. AllMissing(intent'.objects) => publisher = "NONE" BY <1>1, <1>9, <1>14, <1>15
<1>23. RowsAgree
  BY <1>1, <1>3, <1>15, <1>19, <1>20, <1>21, <1>22, IntentRows
<1>24. pw[w].epoch <= recovery.epoch /\ journal' # {} BY <1>1, <1>2 DEF PurgerInv
<1>25. asset'.usage = "RETIRED" BY <1>2, <1>3, <1>23 DEF RowsSound, RowsAgree, Onward
<1>26. MissingParts(intent'.objects) = MissingParts(objects) BY <1>1, <1>15
<1>27. Knows(w, next) /\ Knows(w, fin) /\ Knows(w, u)
  BY <1>3, <1>10, <1>16, <1>17, <1>20, <1>25, <1>26 DEF Knows
<1>28. CASE ~last /\ pw' = [pw EXCEPT ![w] = next]
  BY <1>1, <1>16, <1>23, <1>24, <1>27, <1>28, PurgerGoes DEF RowsAgree
<1>29. CASE pw' = [pw EXCEPT ![w] = fin]
  BY <1>1, <1>16, <1>23, <1>24, <1>27, <1>29, PurgerGoes DEF RowsAgree
<1>30. CASE pw' = [pw EXCEPT ![w] = Left(w, "DEFER")]
  BY <1>1, <1>18, <1>23, <1>24, <1>30, PurgerGoes DEF RowsAgree
<1>31. CASE pw' = [pw EXCEPT ![w] = u]
  BY <1>1, <1>17, <1>23, <1>24, <1>27, <1>31, PurgerGoes DEF RowsAgree
<1> QED BY <1>1, <1>28, <1>29, <1>30, <1>31

LEMMA FinalizePurgeKeeps ==
    ASSUME PurgeConstants, PurgeInv, NEW w \in Purgers, FinalizePurge(w)
    PROVE  PurgeInv'
<1> DEFINE n == [Released EXCEPT !.state = "ERASED"]
           s == Left(w, "IDLE")
<1>1. /\ pw[w].pc = "FINALIZE" /\ Owned(w) /\ AllMissing(intent.objects)
      /\ asset' = [state |-> "ERASED", usage |-> "RETIRED"] /\ due' = FALSE
      /\ intent' = n /\ pw' = [pw EXCEPT ![w] = s]
      /\ UNCHANGED <<sub, req, recovery, stored, journal, backup, fw, publisher, calm>>
  BY DEF FinalizePurge, MayFinalize, PLeave, Left
<1>2. RowsTyped /\ RowsSound /\ PurgerInv(w) /\ pw[w] \in PurgerStates BY PurgerNow
<1>3. PurgeUnfinished /\ Fenced BY <1>1, OwnerKnows DEF BeyondFence, PurgeUnfinished
<1>4. stored = {} BY <1>1, <1>2 DEF AllMissing, RowsSound, MissingIsGone, RowsTyped
<1>5. Released \in Intents /\ ~Released.live /\ Released.objects = intent.objects
  BY <1>2 DEF Released, RowsTyped, Intents
<1>6. "ERASED" \in PurgeStates BY DEF PurgeStates, Irreversible
<1> HIDE DEF Released
<1>7. n \in Intents /\ n.state = "ERASED" /\ ~n.live /\ n.objects = intent.objects
  BY <1>5, <1>6 DEF Intents
<1> HIDE DEF n
<1>8. Fenced' /\ ~PurgeUnfinished' BY <1>1, <1>7 DEF Fenced, PurgeUnfinished, Irreversible
<1>9. Explicit' = Explicit BY <1>1 DEF Explicit
<1>10. Onward BY <1>1, <1>3, <1>7, <1>8, <1>9 DEF Onward, Held
<1>11. RowsTyped' BY <1>1, <1>2, <1>7 DEF RowsTyped
<1>12. MissingIsGone' /\ JournalFirst'
  BY <1>1, <1>2, <1>4, <1>7 DEF RowsSound, MissingIsGone, JournalFirst, AllMissing
<1>13. RowsSound'
  <2>1. publisher' = "NONE" BY <1>1, <1>2 DEF RowsSound
  <2> QED BY <1>1, <1>2, <1>7, <1>8, <1>12, <2>1 DEF RowsSound
<1>14. ReadableIsStored' BY <1>1 DEF ReadableIsStored
<1>15. s \in PurgerStates /\ s.pc = "IDLE" /\ s.epoch <= recovery.epoch /\ Knows(w, s)
  BY PurgerLeft
<1> HIDE DEF s
<1> QED BY <1>1, <1>10, <1>11, <1>13, <1>14, <1>15, PurgerGoes

LEMMA DeferPurgeKeeps ==
    ASSUME PurgeConstants, PurgeInv, NEW w \in Purgers, DeferPurge(w)
    PROVE  PurgeInv'
<1> DEFINE n == [Released EXCEPT !.wait = TRUE]
           s == Left(w, "IDLE")
<1>1. /\ intent' = n \/ intent' = intent
      /\ pw' = [pw EXCEPT ![w] = s]
      /\ UNCHANGED <<asset, sub, due, req, recovery, stored, journal, backup, fw, publisher, calm>>
  BY DEF DeferPurge, PLeave, Left
<1>2. RowsTyped /\ RowsSound /\ PurgerInv(w) /\ pw[w] \in PurgerStates BY PurgerNow
<1>3. /\ Released \in Intents /\ ~Released.live /\ Released.objects = intent.objects
      /\ Released.state = intent.state
  BY <1>2 DEF Released, RowsTyped, Intents
<1> HIDE DEF Released
<1>4. n \in Intents /\ n.state = intent.state /\ ~n.live /\ n.objects = intent.objects
  BY <1>3 DEF Intents
<1> HIDE DEF n
<1>5. /\ intent' \in Intents /\ intent'.state = intent.state /\ intent'.objects = intent.objects
      /\ intent'.live => intent.live /\ intent'.holder = intent.holder
  BY <1>1, <1>2, <1>4 DEF RowsTyped
<1>6. Fenced' = Fenced /\ PurgeUnfinished' = PurgeUnfinished
  BY <1>5 DEF Fenced, PurgeUnfinished
<1>7. RowsAgree BY <1>1, <1>2, <1>5, <1>6, PlanRows DEF RowsSound
<1>8. s \in PurgerStates /\ s.pc = "IDLE" /\ s.epoch <= recovery.epoch /\ Knows(w, s)
  BY PurgerLeft
<1> HIDE DEF s
<1> QED BY <1>1, <1>7, <1>8, PurgerGoes DEF RowsAgree

-------------------------------------------------------------------------------
(* The finalizer *)

LEMMA FinalizerNow ==
    ASSUME PurgeInv, NEW f \in Finalizers
    PROVE  /\ fw \in [Finalizers -> FinalizerStates] /\ fw[f] \in FinalizerStates
           /\ journal \subseteq {"PURGE", "DELETION"}
           /\ FinalizerInv(f)
           /\ RowsTyped /\ RowsSound
BY TypeParts, SoundNow DEF PurgeInv, RowsTyped

\* A step that only the finalizer sees
LEMMA FinalizerMoves ==
    ASSUME PurgeInv, UNCHANGED <<rows, recovery, stored, backup, pw, publisher, calm>>,
           journal \subseteq journal', journal' \subseteq {"PURGE", "DELETION"},
           NEW f \in Finalizers, NEW pc \in FinalizerPCs,
           fw' = [fw EXCEPT ![f] = [fw[f] EXCEPT !.pc = pc]],
           pc \notin {"IDLE", "CLAIMED"} => journal' # {},
           pc = "PURGE" => FFenced(f) /\ ~recovery.open /\ asset.state # "ERASED",
           pc = "PURGED" => stored = {} /\ publisher = "NONE"
    PROVE  PurgeInv'
<1> DEFINE s == [fw[f] EXCEPT !.pc = pc]
<1>1. calm' \in BOOLEAN BY DEF PurgeInv, TypeOK
<1>2. RowsAgree BY <1>1, QuietRows
<1>3. FinalizerInv(f) /\ RowsSound BY FinalizerNow
<1>4. s \in FinalizerStates /\ s.pc = pc /\ s.epoch = fw[f].epoch
  BY FinalizerNow, FinalizerStateTyped
<1>5. pc = "PURGE" => Explicit /\ ~Fenced /\ ~FStale(f)
  BY <1>3 DEF FFenced, FEnabled, FOwned, RowsSound, Explicit, FStale, PurgeUnfinished
<1>6. fw' = [fw EXCEPT ![f] = s] OBVIOUS
<1> HIDE DEF s
<1>7. s.epoch <= recovery.epoch BY <1>3, <1>4 DEF FinalizerInv
<1>8. stored' = stored /\ publisher' = publisher OBVIOUS
<1> QED BY <1>2, <1>4, <1>5, <1>6, <1>7, <1>8, FinalizerGoes DEF RowsAgree

LEMMA FinalizerWriteAheadKeeps ==
    ASSUME PurgeInv, NEW f \in Finalizers, FinalizerWriteAhead(f)
    PROVE  PurgeInv'
<1>1. /\ UNCHANGED <<rows, recovery, stored, backup, pw, publisher, calm>>
      /\ \/ journal' = journal \cup {"DELETION"} /\ FGoto(f, "JOURNALED")
         \/ journal' = journal /\ FGoto(f, "IDLE")
  BY DEF FinalizerWriteAhead
<1>2. journal \subseteq journal' /\ journal' \subseteq {"PURGE", "DELETION"}
  BY <1>1, FinalizerNow
<1>3. {"JOURNALED", "IDLE"} \subseteq FinalizerPCs BY DEF FinalizerPCs
<1>4. CASE journal' = journal \cup {"DELETION"} /\ FGoto(f, "JOURNALED")
  <2>1. journal' # {} BY <1>4
  <2> QED BY <1>1, <1>2, <1>3, <1>4, <2>1, FinalizerMoves DEF FGoto
<1>5. CASE FGoto(f, "IDLE") BY <1>1, <1>2, <1>3, <1>5, FinalizerMoves DEF FGoto
<1> QED BY <1>1, <1>4, <1>5

\* The finalizer goes on, or fails, without a write.
LEMMA FinalizerReadsKeeps ==
    ASSUME PurgeInv, ~recovery.open, NEW f \in Finalizers,
           MediaTasks(f) \/ StartTask(f) \/ CompleteRefused(f) \/ FinishRefused(f)
           \/ FinalizerError(f) \/ FinalizerCrash(f)
    PROVE  PurgeInv'
<1>1. UNCHANGED <<rows, recovery, stored, journal, backup, pw, publisher, calm>>
  BY DEF MediaTasks, StartTask, CompleteRefused, FinishRefused, FinalizerError, FinalizerCrash
<1>2. journal \subseteq journal' /\ journal' \subseteq {"PURGE", "DELETION"}
  BY <1>1, FinalizerNow
<1>3. fw[f].pc \notin {"IDLE", "CLAIMED"} => journal' # {}
  BY <1>1, FinalizerNow DEF FinalizerInv
<1>4. PICK pc \in {"IDLE", "FAIL", "TASK", "PURGE", "PURGED"} :
        /\ FGoto(f, pc)
        /\ pc # "IDLE" => fw[f].pc \notin {"IDLE", "CLAIMED"}
        /\ pc = "PURGE" => FFenced(f) /\ asset.state # "ERASED"
        /\ pc = "PURGED" => asset.state = "ERASED"
  <2>1. CASE MediaTasks(f)
    <3>1. FGoto(f, "TASK") \/ FGoto(f, "FAIL") BY <2>1 DEF MediaTasks
    <3> QED BY <2>1, <3>1 DEF MediaTasks
  <2>2. CASE StartTask(f)
    <3>1. CASE ~FFenced(f) BY <2>2, <3>1 DEF StartTask
    <3>2. CASE FFenced(f) /\ asset.state = "ERASED" BY <2>2, <3>2 DEF StartTask
    <3>3. CASE FFenced(f) /\ asset.state # "ERASED" BY <2>2, <3>3 DEF StartTask
    <3> QED BY <3>1, <3>2, <3>3
  <2>3. CASE CompleteRefused(f) BY <2>3 DEF CompleteRefused
  <2>4. CASE FinishRefused(f)
    <3>1. FGoto(f, "IDLE") \/ FGoto(f, "FAIL") BY <2>4 DEF FinishRefused
    <3> QED BY <2>4, <3>1 DEF FinishRefused
  <2>5. CASE FinalizerError(f) BY <2>5 DEF FinalizerError
  <2>6. CASE FinalizerCrash(f) BY <2>6 DEF FinalizerCrash
  <2> QED BY <2>1, <2>2, <2>3, <2>4, <2>5, <2>6
<1>5. pc = "PURGED" => stored = {} /\ publisher = "NONE"
  BY <1>4, FinalizerNow DEF RowsSound, MissingIsGone
<1>6. pc \in FinalizerPCs BY DEF FinalizerPCs
<1> QED BY <1>1, <1>2, <1>3, <1>4, <1>5, <1>6, FinalizerMoves DEF FGoto

LEMMA FinalizerStartsKeeps ==
    ASSUME PurgeInv, NEW f \in Finalizers, FinalizerStarts(f)
    PROVE  PurgeInv'
<1> DEFINE s == [fw[f] EXCEPT !.epoch = recovery.epoch]
<1>1. /\ UNCHANGED <<rows, recovery, stored, journal, backup, pw, publisher, calm>>
      /\ fw[f].pc = "IDLE" /\ fw' = [fw EXCEPT ![f] = s]
  BY DEF FinalizerStarts
<1>2. recovery.epoch \in 1..MaxEpoch BY FinalizerNow DEF RowsTyped
<1>3. s \in FinalizerStates /\ s.pc = "IDLE" /\ s.epoch = recovery.epoch
  BY <1>1, <1>2, FinalizerNow DEF FinalizerStates
<1> HIDE DEF s
<1>4. RowsAgree
  <2>1. calm' \in BOOLEAN BY <1>1 DEF PurgeInv, TypeOK
  <2> QED BY <1>1, <2>1, FinalizerNow, QuietRows
<1>5. s.epoch <= recovery.epoch BY <1>2, <1>3
<1> QED BY <1>1, <1>3, <1>4, <1>5, FinalizerGoes DEF RowsAgree

LEMMA UnleasedTyped ==
    ASSUME PurgeInv
    PROVE  /\ Unleased \in Requests /\ Unleased.state = req.state /\ ~Unleased.live
           /\ Unleased.attempts = req.attempts /\ Unleased.item = req.item
BY TypeParts DEF PurgeInv, RowsTyped, Requests, Unleased

\* The claim of a request waits until no purge is in its way.
LEMMA FinalizerClaimKeeps ==
    ASSUME PurgeConstants, PurgeInv, NEW f \in Finalizers, FinalizerClaim(f)
    PROVE  PurgeInv'
<1> DEFINE r == [req EXCEPT !.attempts = @ + 1, !.holder = f, !.live = TRUE]
           s == [fw[f] EXCEPT !.pc = "CLAIMED"]
<1>1. /\ req.state = "CLEANING" /\ ~PurgeUnfinished /\ req.attempts < MaxAttempts /\ req' = r
      /\ intent' = (IF intent.state \in {"ELIGIBLE", "CLAIMED"} THEN Skipped ELSE intent)
      /\ fw' = [fw EXCEPT ![f] = s] \/ fw' = fw
      /\ UNCHANGED <<asset, sub, due, recovery, stored, journal, backup, pw, publisher, calm>>
  BY DEF FinalizerClaim, ClaimableRequest, AttemptsLeft, PurgeInTheWay, FGoto
<1>2. RowsTyped /\ RowsSound /\ FinalizerInv(f) /\ fw[f] \in FinalizerStates BY FinalizerNow
<1>3. ReadableIsStored BY DEF PurgeInv
<1>4. req.attempts + 1 \in 0..MaxAttempts
  <2>1. req.attempts \in 0..MaxAttempts BY <1>2 DEF RowsTyped, Requests
  <2> QED BY <1>1, <2>1, PurgeBounds
<1>5. r \in Requests /\ r.state = "CLEANING"
  BY <1>1, <1>2, <1>4 DEF RowsTyped, Requests
<1> HIDE DEF r
<1>6. /\ intent' \in Intents /\ intent'.objects = intent.objects
      /\ intent'.state = intent.state \/ (intent'.state = "SKIPPED" /\ ~Fenced)
      /\ intent'.live => intent' = intent
  <2>1. CASE intent.state \in {"ELIGIBLE", "CLAIMED"}
    <3>1. ~Fenced BY <2>1 DEF Fenced, Irreversible
    <3> QED BY <1>1, <2>1, <3>1, PlanEndsTyped
  <2>2. CASE intent.state \notin {"ELIGIBLE", "CLAIMED"} BY <1>1, <1>2, <2>2 DEF RowsTyped
  <2> QED BY <2>1, <2>2
<1>7. /\ Fenced' = Fenced /\ PurgeUnfinished' = PurgeUnfinished
      /\ intent'.state = "ERASED" => intent.state = "ERASED"
  BY <1>6 DEF Fenced, PurgeUnfinished, Irreversible
<1>8. Explicit /\ Explicit' BY <1>1, <1>5 DEF Explicit
<1>9. Onward BY <1>1, <1>6, <1>7, <1>8 DEF Onward, Held
<1>10. RowsTyped' BY <1>1, <1>2, <1>5, <1>6 DEF RowsTyped
<1>11. MissingIsGone' /\ JournalFirst'
  BY <1>1, <1>2, <1>6 DEF RowsSound, MissingIsGone, JournalFirst
<1>12. RowsSound' BY <1>1, <1>2, <1>5, <1>6, <1>7, <1>11 DEF RowsSound, AllMissing
<1>13. ReadableIsStored' BY <1>8 DEF ReadableIsStored
<1>14. s \in FinalizerStates /\ s.pc = "CLAIMED" /\ s.epoch = fw[f].epoch
  BY <1>2, FinalizerStateTyped DEF FinalizerPCs
<1> HIDE DEF s
<1>15. s.epoch <= recovery.epoch BY <1>2, <1>14 DEF FinalizerInv
<1>16. CASE fw' = fw BY <1>1, <1>9, <1>10, <1>12, <1>13, <1>16, RowsStep
<1>17. CASE fw' = [fw EXCEPT ![f] = s]
  BY <1>1, <1>9, <1>10, <1>12, <1>13, <1>14, <1>15, <1>17, FinalizerGoes
<1> QED BY <1>1, <1>16, <1>17

\* A request that ends, or lets go of its lease
LEMMA FinalizerEndsKeeps ==
    ASSUME PurgeInv, NEW f \in Finalizers, FinalizerExhausted(f) \/ Finish(f) \/ Fail(f)
    PROVE  PurgeInv'
<1> DEFINE s == [fw[f] EXCEPT !.pc = "IDLE"]
<1>1. /\ UNCHANGED <<asset, sub, due, intent, recovery, stored, journal, backup, pw, publisher, calm>>
      /\ fw' = [fw EXCEPT ![f] = s] \/ fw' = fw
  BY DEF FinalizerExhausted, Finish, Fail, FGoto
<1>2. \/ req' = req
      \/ \E state \in {"FAILED", "COMPLETED"} : req' = [Unleased EXCEPT !.state = state]
      \/ req.state = "CLEANING" /\ req' = [Unleased EXCEPT !.state = "CLEANING"]
  <2>1. CASE FinalizerExhausted(f) BY <2>1 DEF FinalizerExhausted
  <2>2. CASE Finish(f) BY <2>2 DEF Finish
  <2>3. CASE Fail(f)
    <3>1. CASE req.state = "CLEANING" /\ req.holder = f
      <4>1. Unleased.state = "CLEANING" BY <3>1, UnleasedTyped
      <4>2. CASE req.attempts = MaxAttempts BY <2>3, <3>1, <4>2 DEF Fail
      <4>3. CASE req.attempts # MaxAttempts
        BY <2>3, <3>1, <4>1, <4>3 DEF Fail
      <4> QED BY <4>2, <4>3
    <3>2. CASE ~(req.state = "CLEANING" /\ req.holder = f) BY <2>3, <3>2 DEF Fail
    <3> QED BY <3>1, <3>2
  <2> QED BY <2>1, <2>2, <2>3
<1>3. /\ req' \in Requests /\ (Explicit => Explicit')
      /\ req'.live => req'.state = "CLEANING" /\ req.live
  <2>1. req \in Requests /\ (req.live => req.state = "CLEANING")
    BY FinalizerNow DEF RowsTyped, RowsSound
  <2>2. CASE req' = req BY <2>1, <2>2 DEF Explicit
  <2>3. ASSUME NEW state \in {"FAILED", "COMPLETED", "CLEANING"},
               req' = [Unleased EXCEPT !.state = state]
        PROVE  <1>3
    <3> HIDE DEF Unleased
    <3>1. req' \in Requests /\ req'.state = state /\ ~req'.live
      BY <2>3, UnleasedTyped DEF Requests
    <3> QED BY <3>1 DEF Explicit
  <2> QED BY <1>2, <2>2, <2>3
<1>4. RowsAgree BY <1>1, <1>3, RequestRows
<1>5. s \in FinalizerStates /\ s.pc = "IDLE" /\ s.epoch = fw[f].epoch
  BY FinalizerNow, FinalizerStateTyped DEF FinalizerPCs
<1> HIDE DEF s
<1>6. s.epoch <= recovery.epoch BY <1>5, FinalizerNow DEF FinalizerInv
<1>7. CASE fw' = fw BY <1>1, <1>4, <1>7, RowsStep DEF RowsAgree
<1>8. CASE fw' = [fw EXCEPT ![f] = s]
  BY <1>1, <1>4, <1>5, <1>6, <1>8, FinalizerGoes DEF RowsAgree
<1> QED BY <1>1, <1>7, <1>8

LEMMA PurgeObjectsKeeps ==
    ASSUME PurgeInv, NEW f \in Finalizers, PurgeObjects(f)
    PROVE  PurgeInv'
<1> DEFINE d == [fw[f] EXCEPT !.pc = "PURGED"]
           e == [fw[f] EXCEPT !.pc = "FAIL"]
<1>1. /\ fw[f].pc = "PURGE" /\ UNCHANGED <<rows, recovery, journal, backup, pw, calm>>
      /\ \/ NamespacePurged /\ fw' = [fw EXCEPT ![f] = d]
         \/ NamespaceStays /\ fw' = [fw EXCEPT ![f] = e]
  BY DEF PurgeObjects, FGoto
<1>2. FinalizerInv(f) /\ fw[f] \in FinalizerStates BY FinalizerNow
<1>3. (Explicit \/ asset.state # "READY") /\ journal # {} /\ fw[f].epoch <= recovery.epoch
  BY <1>1, <1>2 DEF FinalizerInv
<1>4. RowsAgree BY <1>1, <1>3, NamespaceRows
<1>5. /\ d \in FinalizerStates /\ d.pc = "PURGED" /\ d.epoch = fw[f].epoch
      /\ e \in FinalizerStates /\ e.pc = "FAIL" /\ e.epoch = fw[f].epoch
  BY <1>2, FinalizerStateTyped DEF FinalizerPCs
<1> HIDE DEF d, e
<1>6. CASE NamespacePurged /\ fw' = [fw EXCEPT ![f] = d]
  <2>1. stored' = {} /\ publisher' = "NONE" BY <1>6 DEF NamespacePurged
  <2> QED BY <1>1, <1>3, <1>4, <1>5, <1>6, <2>1, FinalizerGoes DEF RowsAgree
<1>7. CASE fw' = [fw EXCEPT ![f] = e]
  BY <1>1, <1>3, <1>4, <1>5, <1>7, FinalizerGoes DEF RowsAgree
<1> QED BY <1>1, <1>6, <1>7

LEMMA CompleteMediaPurgeKeeps ==
    ASSUME PurgeInv, ~recovery.open, NEW f \in Finalizers, CompleteMediaPurge(f)
    PROVE  PurgeInv'
<1> DEFINE r == [req EXCEPT !.item = "DONE"]
           s == [fw[f] EXCEPT !.pc = "FINISH"]
<1>1. /\ fw[f].pc = "PURGED" /\ FFenced(f) /\ intent.state \in {"NONE", "SKIPPED", "ERASED"}
      /\ asset' = [state |-> "ERASED", usage |-> "RETIRED"] /\ due' = FALSE
      /\ req' = r /\ fw' = [fw EXCEPT ![f] = s]
      /\ UNCHANGED <<sub, intent, recovery, stored, journal, backup, pw, publisher, calm>>
  BY DEF CompleteMediaPurge, FGoto
<1>2. RowsTyped /\ RowsSound /\ FinalizerInv(f) /\ fw[f] \in FinalizerStates BY FinalizerNow
<1>3. stored = {} /\ publisher = "NONE" BY <1>1, <1>2 DEF FinalizerInv, FFenced, FEnabled, FStale
<1>4. r \in Requests /\ r.state = req.state /\ r.live = req.live
  BY <1>2 DEF RowsTyped, Requests
<1> HIDE DEF r
<1>5. /\ Fenced' = Fenced /\ PurgeUnfinished' = PurgeUnfinished /\ Explicit' = Explicit
  BY <1>1, <1>4 DEF Fenced, PurgeUnfinished, Explicit
<1>6. Onward BY <1>1, <1>5 DEF Onward, Held
<1>7. RowsTyped' BY <1>1, <1>2, <1>4 DEF RowsTyped
<1>8. MissingIsGone' /\ JournalFirst'
  BY <1>1, <1>2, <1>3 DEF RowsSound, MissingIsGone, JournalFirst
<1>9. RowsSound' BY <1>1, <1>2, <1>3, <1>4, <1>5, <1>8 DEF RowsSound
<1>10. ReadableIsStored' BY <1>1 DEF ReadableIsStored
<1>11. s \in FinalizerStates /\ s.pc = "FINISH" /\ s.epoch = fw[f].epoch
  BY <1>2, FinalizerStateTyped DEF FinalizerPCs
<1> HIDE DEF s
<1>12. s.epoch <= recovery.epoch /\ journal' # {}
  BY <1>1, <1>2, <1>11 DEF FinalizerInv
<1> QED BY <1>1, <1>6, <1>7, <1>9, <1>10, <1>11, <1>12, FinalizerGoes

-------------------------------------------------------------------------------
(* Backup and restore *)

LEMMA TakeBackupKeeps ==
    ASSUME PurgeInv, TakeBackup
    PROVE  PurgeInv'
<1>1. backup' = <<Snapshot>> /\ UNCHANGED <<rows, recovery, stored, journal, pw, fw, publisher, calm>>
  BY DEF TakeBackup
<1>2. RowsTyped /\ Sound(Snapshot) /\ journal' = journal BY <1>1, TypeParts DEF PurgeInv
<1>3. Snapshot \in Snapshots BY <1>2 DEF Snapshot, Snapshots, RowsTyped
<1>4. Sound(Snapshot) BY <1>2
<1> DEFINE b == Snapshot
<1>5. backup' = <<b>> /\ b \in Snapshots /\ Sound(b) BY <1>1, <1>3, <1>4
<1> HIDE DEF b
<1>6. BackupInv' BY <1>2, <1>5 DEF BackupInv, Sound
<1>7. RowsAgree
  <2>1. calm' \in BOOLEAN /\ journal \subseteq {"PURGE", "DELETION"}
    BY <1>1 DEF PurgeInv, TypeOK
  <2> QED BY <1>1, <2>1, QuietRows
<1>8. TypeOK' BY <1>1, <1>7, TypeParts, TypeThen DEF RowsAgree, PurgeInv
<1>9. RecoveryInv' BY <1>1 DEF PurgeInv, RecoveryInv
<1>10. \A w \in Purgers : PurgerInv(w)' BY <1>1, <1>7, PurgersRest DEF RowsAgree
<1>11. \A f \in Finalizers : FinalizerInv(f)' BY <1>1, <1>7, FinalizersRest DEF RowsAgree
<1>12. \A f \in Finalizers, w \in Purgers : Apart(f, w)' BY <1>1 DEF PurgeInv, Apart
<1> QED BY <1>6, <1>7, <1>8, <1>9, <1>10, <1>11, <1>12, SoundThen DEF PurgeInv, RowsAgree

\* The rows and objects of the backup come back; nobody may read the asset, and no worker
\* that is still running belongs to the deployment that is to come.
LEMMA RestoreKeeps ==
    ASSUME PurgeInv, Restore
    PROVE  PurgeInv'
<1>1. PICK b \in {backup[i] : i \in DOMAIN backup} :
        /\ asset' = QuarantinedAsset(b.asset)
        /\ sub' = b.sub /\ due' = b.due /\ req' = b.req
        /\ intent' = (IF b.intent.state \in {"ERASED", "SKIPPED"} THEN b.intent
                      ELSE [b.intent EXCEPT !.holder = Nobody, !.live = FALSE])
        /\ stored' = b.stored
  BY DEF Restore
<1>2. /\ recovery.epoch < MaxEpoch /\ recovery' = [recovery EXCEPT !.open = TRUE]
      /\ backup' = backup \/ backup' = <<>>
      /\ publisher' = "NONE" /\ UNCHANGED <<journal, pw, fw, calm>>
  BY DEF Restore
<1>3. b \in Snapshots /\ Sound(b)
  <2>1. backup # <<>> BY <1>1
  <2>2. PICK c \in Snapshots : backup = <<c>> /\ Sound(c) BY <2>1 DEF PurgeInv, BackupInv
  <2>3. b = c BY <1>1, <2>2
  <2> QED BY <2>2, <2>3
<1>4. RowsTyped /\ recovery \in [epoch: 1..MaxEpoch, open: BOOLEAN]
  BY TypeParts DEF PurgeInv, RowsTyped
<1>5. /\ asset' \in [state: {"READY", "QUARANTINED", "ERASED"},
                     usage: {"STAGED", "ADOPTED", "RETIRED"}]
      /\ asset'.state # "READY" /\ asset'.usage = b.asset.usage
      /\ asset'.state = "ERASED" <=> b.asset.state = "ERASED"
  BY <1>1, <1>3 DEF Snapshots, QuarantinedAsset
<1>6. /\ intent' \in Intents /\ intent'.state = b.intent.state
      /\ intent'.objects = b.intent.objects /\ ~intent'.live
  <2>1. b.intent \in Intents BY <1>3 DEF Snapshots
  <2>2. CASE b.intent.state \in {"ERASED", "SKIPPED"}
    <3>1. ~b.intent.live BY <1>3, <2>2 DEF Sound, Irreversible
    <3>2. b.intent.live \in BOOLEAN BY <2>1 DEF Intents
    <3> QED BY <1>1, <2>1, <2>2, <3>1, <3>2
  <2>3. CASE b.intent.state \notin {"ERASED", "SKIPPED"} BY <1>1, <2>1, <2>3 DEF Intents
  <2> QED BY <2>2, <2>3
<1>7. /\ recovery'.open /\ recovery'.epoch = recovery.epoch
      /\ recovery' \in [epoch: 1..MaxEpoch, open: BOOLEAN]
  BY <1>2, <1>4
<1>8. RowsTyped'
  <2>1. sub' \in {"OPEN", "OVERDUE", "CLOSED"} /\ due' \in BOOLEAN /\ req' \in Requests
        /\ stored' \subseteq Parts
    BY <1>1, <1>3 DEF Snapshots
  <2> QED BY <1>2, <1>4, <1>5, <1>6, <1>7, <2>1 DEF RowsTyped
<1>9. TypeOK' BY <1>2, <1>8, TypeParts, TypeThen DEF PurgeInv
<1>10. RowsSound'
  <2>1. Fenced' => asset'.usage = "RETIRED" BY <1>3, <1>5, <1>6 DEF Sound, Fenced
  <2>2. intent'.state = "ERASED" => asset'.state = "ERASED" BY <1>3, <1>5, <1>6 DEF Sound
  <2>3. intent'.live => intent'.state = "CLAIMED" \/ PurgeUnfinished'
    BY <1>3, <1>6 DEF Sound, PurgeUnfinished, Fenced
  <2>4. req'.live => req'.state = "CLEANING" /\ ~PurgeUnfinished'
    BY <1>1, <1>3, <1>6 DEF Sound, PurgeUnfinished, Fenced
  <2>5. MissingIsGone' BY <1>1, <1>2, <1>3, <1>5, <1>6 DEF Sound, MissingIsGone
  <2>6. JournalFirst' BY <1>1, <1>2, <1>3 DEF Sound, JournalFirst
  <2> QED BY <1>2, <2>1, <2>2, <2>3, <2>4, <2>5, <2>6 DEF RowsSound
<1>11. BackupInv'
  <2>1. CASE backup' = <<>> BY <2>1 DEF BackupInv
  <2>2. CASE backup' = backup BY <1>2, <2>2, BackupStays DEF PurgeInv
  <2> QED BY <1>2, <2>1, <2>2
<1>12. RecoveryInv' BY <1>2, <1>7 DEF RecoveryInv
<1>13. ReadableIsStored' BY <1>5 DEF ReadableIsStored
<1>14. \A w \in Purgers : PurgerInv(w)'
  <2> SUFFICES ASSUME NEW w \in Purgers PROVE PurgerInv(w)'
    OBVIOUS
  <2>1. Stale(w)' BY <1>7 DEF Stale
  <2> QED BY <1>2, <1>5, <1>6, <1>7, <2>1, PurgerNow DEF PurgerInv
<1>15. \A f \in Finalizers : FinalizerInv(f)'
  <2> SUFFICES ASSUME NEW f \in Finalizers PROVE FinalizerInv(f)'
    OBVIOUS
  <2>1. FStale(f)' BY <1>7 DEF FStale
  <2> QED BY <1>2, <1>5, <1>7, <2>1, FinalizerNow DEF FinalizerInv
<1>16. \A f \in Finalizers, w \in Purgers : Apart(f, w)' BY <1>2 DEF PurgeInv, Apart
<1> QED BY <1>9, <1>10, <1>11, <1>12, <1>13, <1>14, <1>15, <1>16, SoundThen DEF PurgeInv

LEMMA ApproveKeeps ==
    ASSUME PurgeConstants, PurgeInv, Approve
    PROVE  PurgeInv'
<1>1. /\ recovery.open /\ recovery' = [epoch |-> recovery.epoch + 1, open |-> FALSE]
      /\ UNCHANGED <<rows, stored, journal, backup, pw, fw, publisher, calm>>
  BY DEF Approve
<1>2. RowsTyped /\ RowsSound /\ ReadableIsStored BY TypeParts, SoundNow DEF PurgeInv
<1>3. /\ asset' = asset /\ sub' = sub /\ due' = due /\ intent' = intent /\ req' = req
      /\ Fenced' = Fenced /\ PurgeUnfinished' = PurgeUnfinished /\ Explicit' = Explicit
  BY <1>1 DEF rows, Fenced, PurgeUnfinished, Explicit
<1>4. recovery.epoch \in Nat /\ recovery.epoch \in 1..MaxEpoch BY <1>2 DEF RowsTyped
<1>5. recovery' \in [epoch: 1..MaxEpoch, open: BOOLEAN]
  <2>1. recovery.epoch < MaxEpoch BY <1>1 DEF PurgeInv, RecoveryInv
  <2>2. recovery.epoch + 1 \in 1..MaxEpoch BY <1>4, <2>1, PurgeBounds
  <2> QED BY <1>1, <2>2
<1>6. RowsTyped' BY <1>1, <1>2, <1>3, <1>5 DEF RowsTyped
<1>7. TypeOK' BY <1>1, <1>6, TypeParts, TypeThen DEF PurgeInv
<1>8. RowsSound' BY <1>1, <1>2, <1>3 DEF RowsSound, MissingIsGone, JournalFirst, AllMissing
<1>9. BackupInv' BY <1>1, BackupStays DEF PurgeInv
<1>10. RecoveryInv' BY <1>1 DEF RecoveryInv
<1>11. ReadableIsStored' BY <1>1, <1>2, <1>3 DEF ReadableIsStored
<1>12. \A w \in Purgers : PurgerInv(w)'
  <2> SUFFICES ASSUME NEW w \in Purgers PROVE PurgerInv(w)'
    OBVIOUS
  <2>1. PurgerInv(w) /\ pw[w].epoch \in Nat BY PurgerNow DEF PurgerStates
  <2>2. pw[w].epoch < recovery'.epoch /\ recovery'.epoch = recovery.epoch + 1
    BY <1>1, <1>4, <2>1 DEF PurgerInv
  <2>3. Stale(w)' BY <1>1, <2>1, <2>2 DEF Stale
  <2> QED BY <1>1, <1>3, <1>4, <2>1, <2>2, <2>3 DEF PurgerInv
<1>13. \A f \in Finalizers : FinalizerInv(f)'
  <2> SUFFICES ASSUME NEW f \in Finalizers PROVE FinalizerInv(f)'
    OBVIOUS
  <2>1. FinalizerInv(f) /\ fw[f].epoch \in Nat BY FinalizerNow DEF FinalizerStates
  <2>2. fw[f].epoch < recovery'.epoch /\ recovery'.epoch = recovery.epoch + 1
    BY <1>1, <1>4, <2>1 DEF FinalizerInv
  <2>3. FStale(f)' BY <1>1, <2>1, <2>2 DEF FStale
  <2> QED BY <1>1, <1>3, <1>4, <2>1, <2>2, <2>3 DEF FinalizerInv
<1>14. \A f \in Finalizers, w \in Purgers : Apart(f, w)' BY <1>1 DEF PurgeInv, Apart
<1> QED BY <1>7, <1>8, <1>9, <1>10, <1>11, <1>12, <1>13, <1>14, SoundThen DEF PurgeInv

-------------------------------------------------------------------------------
(* The theorems *)

LEMMA PurgeInvInit == PurgeConstants /\ Init => PurgeInv
<1> SUFFICES ASSUME PurgeConstants, Init PROVE PurgeInv
  OBVIOUS
<1>1. 1 \in 1..MaxEpoch /\ 1 \in Parts /\ 0 \in 0..MaxAttempts BY PurgeBounds DEF Parts
<1>2. NoIntent \in Intents /\ NoIntent.state = "NONE" /\ ~NoIntent.live
      /\ \A p \in Parts : NoIntent.objects[p] = "PENDING"
  BY <1>1 DEF NoIntent, Intents, PurgeStates
<1>3. NoRequest \in Requests /\ NoRequest.state = "DRAFT" /\ ~NoRequest.live
  BY <1>1 DEF NoRequest, Requests
<1>4. pw \in [Purgers -> PurgerStates] /\ \A w \in Purgers : pw[w].pc = "IDLE" /\ pw[w].epoch = 1
  BY <1>1 DEF Init, PurgerStates, PurgerPCs
<1>5. /\ fw \in [Finalizers -> FinalizerStates]
      /\ \A f \in Finalizers : fw[f].pc = "IDLE" /\ fw[f].epoch = 1
  BY <1>1 DEF Init, FinalizerStates, FinalizerPCs
<1>6. RowsTyped BY <1>1, <1>2, <1>3 DEF Init, RowsTyped
<1>7. TypeOK BY <1>4, <1>5, <1>6, TypeParts
<1>8. ~Fenced /\ ~PurgeUnfinished BY <1>2 DEF Init, Fenced, PurgeUnfinished, Irreversible
<1>9. RowsSound
  BY <1>1, <1>2, <1>3, <1>8 DEF Init, RowsSound, MissingIsGone, JournalFirst, AllMissing
<1>10. BackupInv /\ RecoveryInv /\ ReadableIsStored
  BY DEF Init, BackupInv, RecoveryInv, ReadableIsStored
<1>11. recovery.epoch = 1 BY DEF Init
<1>12. \A w \in Purgers : PurgerInv(w) BY <1>4, <1>11 DEF PurgerInv, BeyondFence
<1>13. \A f \in Finalizers : FinalizerInv(f) BY <1>5, <1>11 DEF FinalizerInv
<1>14. \A f \in Finalizers, w \in Purgers : Apart(f, w) BY <1>5 DEF Apart
<1> QED BY <1>7, <1>9, <1>10, <1>12, <1>13, <1>14, SoundNow DEF PurgeInv

LEMMA PurgeInvNext == PurgeConstants /\ PurgeInv /\ [Next]_vars => PurgeInv'
<1> SUFFICES ASSUME PurgeConstants, PurgeInv, [Next]_vars PROVE PurgeInv'
  OBVIOUS
<1>1. CASE Member
  BY <1>1, MemberKeeps, RequestKeeps DEF Member
<1>2. CASE CleanItem BY <1>2, RequestKeeps
<1>3. ASSUME NEW w \in Purgers, PurgeStep(w) PROVE PurgeInv'
  <2>1. CASE PurgeTakenOver(w) \/ PurgeDeferred(w) BY <2>1, PurgeNotClaimedKeeps
  <2>2. CASE PurgeClaim(w) BY <2>2, PurgeClaimKeeps
  <2>3. CASE PurgeWriteAhead(w) BY <2>3, PurgeWriteAheadKeeps
  <2>4. CASE Fence(w) BY <2>4, FenceKeeps
  <2>5. CASE FenceYields(w) BY <2>5, FenceYieldsKeeps
  <2>6. CASE FenceRefused(w) \/ ResultRefused(w) \/ FinalizeFails(w) BY <2>6, PurgerStopsKeeps
  <2>7. CASE Stat(w) \/ Recheck(w) BY <2>7, PurgerLooksKeeps
  <2>8. CASE DeleteObject(w) BY <2>8, DeleteObjectKeeps
  <2>9. CASE RecordResult(w) BY <2>9, RecordResultKeeps
  <2>10. CASE FinalizePurge(w) BY <2>10, FinalizePurgeKeeps
  <2>11. CASE DeferPurge(w) BY <2>11, DeferPurgeKeeps
  <2>12. CASE PurgerStarts(w) BY <2>12, PurgerStartsKeeps
  <2>13. CASE PurgeNamespace(w) BY <2>13, PurgeNamespaceKeeps
  <2> QED BY <1>3, <2>1, <2>2, <2>3, <2>4, <2>5, <2>6, <2>7, <2>8, <2>9, <2>10, <2>11, <2>12, <2>13
          DEF PurgeStep
<1>4. ASSUME NEW w \in Purgers, PurgerCrash(w) PROVE PurgeInv'
  BY <1>4, PurgerStopsKeeps
<1>5. ASSUME ~recovery.open, NEW f \in Finalizers, FinalizerStep(f) PROVE PurgeInv'
  <2>1. CASE FinalizerClaim(f) BY <2>1, FinalizerClaimKeeps
  <2>2. CASE FinalizerExhausted(f) \/ Finish(f) \/ Fail(f) BY <2>2, FinalizerEndsKeeps
  <2>3. CASE FinalizerWriteAhead(f) BY <2>3, FinalizerWriteAheadKeeps
  <2>4. CASE MediaTasks(f) \/ StartTask(f) \/ CompleteRefused(f) \/ FinishRefused(f)
             \/ FinalizerError(f)
    BY <1>5, <2>4, FinalizerReadsKeeps
  <2>5. CASE PurgeObjects(f) BY <2>5, PurgeObjectsKeeps
  <2>6. CASE CompleteMediaPurge(f) BY <1>5, <2>6, CompleteMediaPurgeKeeps
  <2>7. CASE FinalizerStarts(f) BY <2>7, FinalizerStartsKeeps
  <2> QED BY <1>5, <2>1, <2>2, <2>3, <2>4, <2>5, <2>6, <2>7 DEF FinalizerStep
<1>6. ASSUME ~recovery.open, NEW f \in Finalizers, FinalizerCrash(f) PROVE PurgeInv'
  BY <1>6, FinalizerReadsKeeps
<1>7. CASE TakeBackup BY <1>7, TakeBackupKeeps
<1>8. CASE Restore BY <1>8, RestoreKeeps
<1>9. CASE Clock
  BY <1>9, MemberKeeps, RequestKeeps, IntentClockKeeps DEF Clock
<1>10. CASE Approve BY <1>10, ApproveKeeps
<1>11. CASE FailuresEnd BY <1>11, FailuresEndKeeps
<1>12. CASE UNCHANGED vars
  <2>1. UNCHANGED <<rows, recovery, stored, journal, backup, pw, fw, publisher, calm>>
    BY <1>12 DEF vars, rows
  <2>2. calm' \in BOOLEAN /\ journal \subseteq {"PURGE", "DELETION"}
    BY <2>1 DEF PurgeInv, TypeOK
  <2>3. RowsAgree BY <2>1, <2>2, QuietRows
  <2> QED BY <2>1, <2>3, RowsStep DEF RowsAgree
<1>13. CASE PublicationBegins \/ PublicationEnds BY <1>13, PublicationKeeps
<1> QED BY <1>1, <1>2, <1>3, <1>4, <1>5, <1>6, <1>7, <1>8, <1>9, <1>10, <1>11, <1>12, <1>13
        DEF Next

\* The rows, the backup, the store and what the workers remember of them agree at every moment.
THEOREM PurgeInvariant == PurgeConstants /\ Spec => []PurgeInv
<1>1. PurgeConstants /\ Init => PurgeConstants /\ PurgeInv BY PurgeInvInit
<1>2. (PurgeConstants /\ PurgeInv) /\ [Next]_vars => (PurgeConstants /\ PurgeInv)'
  BY PurgeInvNext DEF PurgeConstants
<1> QED BY <1>1, <1>2, PTL DEF Spec

\* What a member may read is stored: no purge, late worker or restore leaves a readable asset
\* without its objects (beginDelete's fence; prepareRecovery's quarantine).
THEOREM ReadablesAreStored == PurgeConstants /\ Spec => []ReadableIsStored
<1>1. PurgeInv => ReadableIsStored BY DEF PurgeInv
<1> QED BY <1>1, PurgeInvariant, PTL

\* What the rows say is gone is gone, no publication is left that might put an object of an
\* erased asset back, and the safety journal names every deletion before its first object goes
\* (objectResult, finalize, completeMediaPurge, purgeOwnedNamespace; writeAhead).
THEOREM RecordsAreTrue == PurgeConstants /\ Spec => [](MissingIsGone /\ JournalFirst)
<1>1. PurgeInv => MissingIsGone /\ JournalFirst BY SoundNow DEF PurgeInv, RowsSound
<1> QED BY <1>1, PurgeInvariant, PTL

\* The retention purge and an explicit deletion never own the objects together (claim and
\* mediaTasks of the finalizer; claim and beginDelete of the purge).
THEOREM DeletersTakeTurns == PurgeConstants /\ Spec => []OneDeleter
<1>1. PurgeInv => OneDeleter
  <2> SUFFICES ASSUME PurgeInv PROVE OneDeleter
    OBVIOUS
  <2>1. ASSUME NEW f \in Finalizers, FFenced(f) PROVE ~PurgeUnfinished
    BY <2>1, FinalizerNow DEF RowsSound, FFenced, FOwned
  <2>2. \A f \in Finalizers, w \in Purgers : Apart(f, w) BY DEF PurgeInv
  <2> QED BY <2>1, <2>2 DEF OneDeleter, Apart, BeyondFence
<1> QED BY <1>1, PurgeInvariant, PTL

\* A step that is not a restore or its approval goes onward only.
LEMMA FenceStays ==
    ASSUME PurgeInv, [Next]_vars, Fenced, recovery'.open = recovery.open
    PROVE  intent'.state \in Irreversible /\ asset'.usage = "RETIRED"
<1>1. asset.usage = "RETIRED" /\ intent.state \in Irreversible
  BY SoundNow DEF PurgeInv, RowsSound, Fenced
<1>2. ASSUME UNCHANGED <<asset, intent>>
      PROVE  intent'.state \in Irreversible /\ asset'.usage = "RETIRED"
  BY <1>1, <1>2
<1> DEFINE Holds == intent'.state \in Irreversible /\ asset'.usage = "RETIRED"
<1>3. asset \in [state: {"READY", "QUARANTINED", "ERASED"}, usage: {"STAGED", "ADOPTED", "RETIRED"}]
      /\ intent \in Intents
  BY TypeParts DEF PurgeInv, RowsTyped
<1>4. CASE Member \/ CleanItem
  <2>1. intent' = intent
    BY <1>4 DEF Member, Adopt, CloseSubmission, RetireDraft, Quarantine, Block, StartCleanup,
                CleanItem
  <2>2. asset' = asset \/ asset' = [asset EXCEPT !.usage = "RETIRED"]
        \/ asset' = [asset EXCEPT !.state = "QUARANTINED"]
    BY <1>1, <1>4 DEF Member, Adopt, MayAdopt, CloseSubmission, RetireDraft, Quarantine, Block,
                      StartCleanup, CleanItem
  <2> QED BY <1>1, <1>3, <2>1, <2>2
<1>5. ASSUME NEW w \in Purgers, PurgeStep(w) \/ PurgerCrash(w) PROVE Holds
  <2>1. CASE PurgeTakenOver(w) \/ PurgeDeferred(w) \/ FenceYields(w)
    BY <2>1 DEF PurgeTakenOver, PurgeDeferred, FenceYields
  <2>2. CASE PurgeClaim(w)
    <3> DEFINE n == [intent EXCEPT !.state = IF Fenced THEN @ ELSE "CLAIMED", !.holder = w,
                                   !.live = TRUE, !.epoch = recovery.epoch]
    <3>1. asset' = asset /\ intent' = n BY <2>2 DEF PurgeClaim
    <3>2. n.state = intent.state BY <1>3 DEF Intents
    <3> QED BY <1>1, <3>1, <3>2
  <2>3. CASE Fence(w)
    <3> DEFINE n == [intent EXCEPT !.state = IF @ = "DELETE_UNKNOWN" THEN @ ELSE "DELETE_PENDING"]
    <3>1. asset' = [asset EXCEPT !.usage = "RETIRED"] /\ intent' = n BY <2>3 DEF Fence
    <3>2. n.state \in {"DELETE_UNKNOWN", "DELETE_PENDING"} BY <1>3 DEF Intents
    <3> QED BY <1>3, <3>1, <3>2 DEF Irreversible
  <2>4. CASE RecordResult(w)
    <3>1. asset' = asset BY <2>4 DEF RecordResult
    <3>2. \E o, s : /\ s \in {"DELETE_CONFIRMED", "DELETE_UNKNOWN"}
                    /\ intent' = [intent EXCEPT !.objects = o, !.state = s]
      BY <2>4 DEF RecordResult
    <3>3. intent'.state \in {"DELETE_CONFIRMED", "DELETE_UNKNOWN"} BY <1>3, <3>2 DEF Intents
    <3> QED BY <1>1, <3>1, <3>3 DEF Irreversible
  <2>5. CASE FinalizePurge(w)
    <3>1. /\ asset' = [state |-> "ERASED", usage |-> "RETIRED"]
          /\ intent' = [Released EXCEPT !.state = "ERASED"]
      BY <2>5 DEF FinalizePurge
    <3>2. intent'.state = "ERASED" BY <1>3, <3>1 DEF Released, Intents
    <3> QED BY <3>1, <3>2 DEF Irreversible
  <2>6. CASE DeferPurge(w)
    <3>1. asset' = asset /\ (intent' = [Released EXCEPT !.wait = TRUE] \/ intent' = intent)
      BY <2>6 DEF DeferPurge
    <3>2. intent'.state = intent.state BY <1>3, <3>1 DEF Released, Intents
    <3> QED BY <1>1, <3>1, <3>2
  <2>7. CASE PurgeWriteAhead(w) \/ FenceRefused(w) \/ Stat(w) \/ DeleteObject(w) \/ Recheck(w)
             \/ ResultRefused(w) \/ FinalizeFails(w) \/ PurgerStarts(w) \/ PurgerCrash(w)
             \/ PurgeNamespace(w)
    BY <1>2, <2>7 DEF PurgeWriteAhead, FenceRefused, Stat, DeleteObject, Recheck, ResultRefused,
                      FinalizeFails, PurgerStarts, PurgerCrash, PurgeNamespace, rows
  <2> QED BY <1>5, <2>1, <2>2, <2>3, <2>4, <2>5, <2>6, <2>7 DEF PurgeStep
<1>6. ASSUME NEW f \in Finalizers, FinalizerStep(f) \/ FinalizerCrash(f) PROVE Holds
  <2>1. CASE FinalizerClaim(f)
    <3>1. intent.state \notin {"ELIGIBLE", "CLAIMED"} BY <1>1 DEF Irreversible
    <3> QED BY <1>2, <2>1, <3>1 DEF FinalizerClaim
  <2>2. CASE CompleteMediaPurge(f) BY <1>1, <2>2 DEF CompleteMediaPurge
  <2>3. CASE FinalizerExhausted(f) \/ Finish(f) \/ Fail(f)
    BY <1>2, <2>3 DEF FinalizerExhausted, Finish, Fail
  <2>4. CASE ~(FinalizerClaim(f) \/ CompleteMediaPurge(f) \/ FinalizerExhausted(f) \/ Finish(f)
               \/ Fail(f))
    BY <1>2, <1>6, <2>4 DEF FinalizerStep, FinalizerWriteAhead, MediaTasks, StartTask,
       PurgeObjects, CompleteRefused, FinishRefused, FinalizerError, FinalizerStarts,
       FinalizerCrash, rows
  <2> QED BY <2>1, <2>2, <2>3, <2>4
<1>7. CASE TakeBackup \/ FailuresEnd \/ PublicationBegins \/ PublicationEnds
  BY <1>2, <1>7 DEF TakeBackup, FailuresEnd, PublicationBegins, PublicationEnds, rows
<1>8. CASE ~recovery.open /\ Restore
  <2>1. recovery'.open BY <1>8, TypeParts DEF Restore, PurgeInv, RowsTyped
  <2> QED BY <1>8, <2>1
<1>9. CASE Approve BY <1>9 DEF Approve
<1>10. CASE Clock
  <2>1. asset' = asset
        /\ (intent' = intent \/ intent' = [intent EXCEPT !.live = FALSE]
            \/ intent' = [intent EXCEPT !.wait = FALSE])
    BY <1>10 DEF Clock, SubmissionExpires, RetentionEnds, PurgeLeaseEnds, RetryDue,
                 DeletionLeaseEnds
  <2>2. intent'.state = intent.state BY <1>3, <2>1 DEF Intents
  <2> QED BY <1>1, <2>1, <2>2
<1>11. CASE UNCHANGED vars BY <1>2, <1>11 DEF vars
<1> QED BY <1>4, <1>5, <1>6, <1>7, <1>8, <1>9, <1>10, <1>11 DEF Next

\* A purge past its fence is never undone, and its asset is never adopted, short of a restore
\* (assertMediaNotPurging; "Retiring is an irreversible adoption fence").
THEOREM FencesHold == PurgeConstants /\ Spec => FenceHolds
<1>1. PurgeInv /\ [Next]_vars =>
        [Fenced /\ recovery'.open = recovery.open =>
           intent'.state \in Irreversible /\ asset'.usage = "RETIRED"]_vars
  BY FenceStays
<1> QED BY <1>1, PurgeInvariant, PTL DEF Spec, FenceHolds
=============================================================================
