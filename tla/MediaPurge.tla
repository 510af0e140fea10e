------------------------------ MODULE MediaPurge ------------------------------
(***************************************************************************)
(* The end of one media asset: the retention purge of staged uploads        *)
(* (media-purge.ts, purge-worker.ts), which must not touch what a reviewer  *)
(* adopts meanwhile (media-adoption.ts), and the finalization of an         *)
(* explicit deletion request (deletion-finalization.ts, finalizer.ts), of   *)
(* which only one may delete the stored objects; with crashes of either     *)
(* worker, leases that run out, an object store that fails, and a restore   *)
(* of database and objects from a backup (prepareRecovery).                 *)
(*                                                                         *)
(* An asset, its upload and its personMedia row change together and are one *)
(* record.  Other formal references (works, collections, credentials) can   *)
(* only name an adopted asset, so adoption stands for all of them.  The      *)
(* clocks of the processes may disagree about a deadline.                   *)
(***************************************************************************)
EXTENDS Integers, FiniteSets

CONSTANTS
    NParts,        \* objects of the asset: original, and preview if it has one
    Purgers,       \* processes that run MediaPurgeWorker
    Finalizers,    \* processes that run DeletionFinalizer
    Nobody,        \* no lease
    MaxAttempts,   \* MAX_ATTEMPTS of a finalization
    MaxEpoch,      \* bound: recovery epochs
    FailuresStop   \* whether from some time on nothing fails any more

\* what the constants must satisfy
PurgeConstants ==
    /\ NParts \in Nat \ {0} /\ MaxAttempts \in Nat \ {0} /\ MaxEpoch \in Nat \ {0}
    /\ Nobody \notin Purgers \cup Finalizers
    /\ FailuresStop \in BOOLEAN

VARIABLES
    asset,       \* assets.state and usageState
    sub,         \* the submission of the upload: closed, or open, or overdue, that is
                 \* open and past its expiry by the clock of some process
    due,         \* personMedia.retainUntil has passed
    intent,      \* the mediaPurgeIntents row
    req,         \* a deletionRequests row that targets or lists the asset
    recovery,    \* the workspace's recoveryEpoch, and whether a recovery run is unapproved
    stored,      \* the parts in the object store
    journal,     \* the operations the safety journal has written ahead
    backup,      \* a copy of database and objects, or none
    pw,          \* the purge workers' local state
    fw,          \* the finalizers' local state
    publisher,   \* an abandoned processing attempt at the same upload: none, one that may
                 \* yet publish its objects, or one whose marker stands in the namespace
    calm         \* stores, journal and processes have stopped failing

rows == <<asset, sub, due, intent, req>>
vars == <<asset, sub, due, intent, req, recovery, stored, journal, backup, pw, fw, publisher, calm>>

Parts == 1..NParts

Irreversible == {"DELETE_PENDING", "DELETE_UNKNOWN", "DELETE_CONFIRMED", "ERASED"}
PurgeStates == Irreversible \cup {"NONE", "ELIGIBLE", "CLAIMED", "SKIPPED"}

Intents == [state: PurgeStates, objects: [Parts -> {"PENDING", "UNKNOWN", "MISSING"}],
            holder: Purgers \cup {Nobody}, live: BOOLEAN, epoch: 1..MaxEpoch, wait: BOOLEAN]
Requests == [state: {"DRAFT", "BLOCKED_FOR_USE", "CLEANING", "COMPLETED", "FAILED"},
             item: {"NOT_STARTED", "PENDING", "WAITING_EXTERNAL", "DONE"},
             holder: Finalizers \cup {Nobody}, live: BOOLEAN, attempts: 0..MaxAttempts]

NoIntent == [state |-> "NONE", objects |-> [p \in Parts |-> "PENDING"],
             holder |-> Nobody, live |-> FALSE, epoch |-> 1, wait |-> FALSE]
NoRequest == [state |-> "DRAFT", item |-> "NOT_STARTED", holder |-> Nobody,
              live |-> FALSE, attempts |-> 0]

PurgerPCs == {"IDLE", "CLAIMED", "JOURNALED", "STAT", "FOUND", "DELETE", "RECHECK",
              "NAMESPACE", "RESULT", "FINALIZE", "DEFER"}
FinalizerPCs == {"IDLE", "CLAIMED", "JOURNALED", "TASK", "PURGE", "PURGED", "FINISH", "FAIL"}

\* The rows and the workers' local state have the shapes of the data model.
TypeOK ==
    /\ asset \in [state: {"READY", "QUARANTINED", "ERASED"},
                  usage: {"STAGED", "ADOPTED", "RETIRED"}]
    /\ sub \in {"OPEN", "OVERDUE", "CLOSED"}
    /\ due \in BOOLEAN
    /\ intent \in Intents
    /\ req \in Requests
    /\ recovery \in [epoch: 1..MaxEpoch, open: BOOLEAN]
    /\ stored \subseteq Parts
    /\ journal \subseteq {"PURGE", "DELETION"}
    /\ pw \in [Purgers -> [pc: PurgerPCs, epoch: 1..MaxEpoch, part: Parts,
                           out: {"UNKNOWN", "MISSING"}, gone: SUBSET Parts]]
    /\ fw \in [Finalizers -> [pc: FinalizerPCs, epoch: 1..MaxEpoch]]
    /\ publisher \in {"NONE", "COMING", "MARKED"}
    /\ calm \in BOOLEAN

Init ==
    /\ asset = [state |-> "READY", usage |-> "STAGED"]
    /\ sub = "OPEN"
    /\ due = FALSE
    /\ intent = NoIntent
    /\ req = NoRequest
    /\ recovery = [epoch |-> 1, open |-> FALSE]
    /\ stored = Parts
    /\ journal = {}
    /\ backup = <<>>
    /\ pw = [w \in Purgers |-> [pc |-> "IDLE", epoch |-> 1, part |-> 1,
                                out |-> "UNKNOWN", gone |-> {}]]
    /\ fw = [f \in Finalizers |-> [pc |-> "IDLE", epoch |-> 1]]
    /\ publisher \in {"NONE", "COMING", "MARKED"}
    /\ calm = FALSE

-------------------------------------------------------------------------------
(* What the transactions ask of the rows. *)

Fenced == intent.state \in Irreversible
PurgeUnfinished == Fenced /\ intent.state # "ERASED"
Formal == asset.usage = "ADOPTED"

ExplicitWhileBlocked == req.state = "BLOCKED_FOR_USE"

\* explicitMediaDeletion, and the checks of deletionItems and deletionBlocked:
\* every request that left DRAFT, also one that completed or failed.
Explicit == req.state # "DRAFT"

\* MediaPurge.eligible
Eligible ==
    /\ asset.state = "READY" \/ (Fenced /\ asset.state = "QUARANTINED")
    /\ ~Formal
    /\ due
    /\ ~Fenced => ~Explicit /\ (asset.usage = "STAGED" => sub # "OPEN")

MissingParts(objects) == {p \in Parts : objects[p] = "MISSING"}

Released == [intent EXCEPT !.holder = Nobody, !.live = FALSE]
Skipped == [Released EXCEPT !.state = "SKIPPED"]

-------------------------------------------------------------------------------
(* Requests of members, talents and reviewers. *)

MayAdoptRetired == sub # "CLOSED" /\ asset.state = "READY"

\* adoptSubmissionMedia and adoptMachineMedia, within a review that closes the submission.
MayAdopt == /\ sub # "CLOSED"
            /\ asset.state = "READY" /\ asset.usage = "STAGED"
            /\ ~Fenced

Adopt ==
    /\ MayAdopt
    /\ asset' = [asset EXCEPT !.usage = "ADOPTED"]
    /\ sub' = "CLOSED"
    /\ due' = FALSE
    /\ UNCHANGED <<intent, req, recovery, stored, journal, backup, pw, fw, publisher, calm>>

\* A submission is rejected, withdrawn, or approved without this asset, which
\* gets a new retention (syncMediaRetention).
CloseSubmission ==
    /\ sub # "CLOSED"
    /\ sub' = "CLOSED"
    /\ due' = (due /\ asset.usage # "STAGED")
    /\ UNCHANGED <<asset, intent, req, recovery, stored, journal, backup, pw, fw, publisher, calm>>

\* Media.retireDraft
RetireDraft ==
    /\ sub # "CLOSED" /\ asset.state = "READY" /\ asset.usage = "STAGED"
    /\ asset' = [asset EXCEPT !.usage = "RETIRED"]
    /\ due' = FALSE
    /\ UNCHANGED <<sub, intent, req, recovery, stored, journal, backup, pw, fw, publisher, calm>>

\* Media.quarantine, and quarantineCorrupt of an object that fails its digest.
Quarantine ==
    /\ asset.state = "READY" /\ asset.usage # "RETIRED"
    /\ asset' = [asset EXCEPT !.state = "QUARANTINED"]
    /\ UNCHANGED <<sub, due, intent, req, recovery, stored, journal, backup, pw, fw, publisher,
                   calm>>

\* The clock passes expiresAt, which is the staged row's retainUntil as well.
SubmissionExpires ==
    /\ sub = "OPEN"
    /\ sub' = "OVERDUE"
    /\ due' = (due \/ asset.usage = "STAGED")
    /\ UNCHANGED <<asset, intent, req, recovery, stored, journal, backup, pw, fw, publisher, calm>>

\* The clock passes the retainUntil of a retired row or of a closed submission.
RetentionEnds ==
    /\ ~due /\ asset.state # "ERASED"
    /\ asset.usage = "RETIRED" \/ (asset.usage = "STAGED" /\ sub = "CLOSED")
    /\ due' = TRUE
    /\ UNCHANGED <<asset, sub, intent, req, recovery, stored, journal, backup, pw, fw, publisher,
                   calm>>

\* Deletions.block
Block ==
    /\ req.state = "DRAFT" /\ asset.state # "ERASED"
    /\ req' = [req EXCEPT !.state = "BLOCKED_FOR_USE"]
    /\ UNCHANGED <<asset, sub, due, intent, recovery, stored, journal, backup, pw, fw, publisher,
                   calm>>

\* DeletionCleanup.start
StartCleanup ==
    /\ req.state = "BLOCKED_FOR_USE"
    /\ req' = [req EXCEPT !.state = "CLEANING", !.item = "PENDING"]
    /\ UNCHANGED <<asset, sub, due, intent, recovery, stored, journal, backup, pw, fw, publisher,
                   calm>>

\* The dependency cleanup reaches the asset's item, which waits for the
\* finalizer; it stands back while a purge of the asset is under way.
CleanItem ==
    /\ req.state = "CLEANING" /\ req.item = "PENDING" /\ ~PurgeUnfinished
    /\ req' = [req EXCEPT !.item = "WAITING_EXTERNAL"]
    /\ UNCHANGED <<asset, sub, due, intent, recovery, stored, journal, backup, pw, fw, publisher,
                   calm>>

-------------------------------------------------------------------------------
(* The purge worker. *)

PGoto(w, pc) == pw' = [pw EXCEPT ![w].pc = pc]

\* The end of the work at one claim, and of what the worker knew.
PLeave(w, pc) ==
    pw' = [pw EXCEPT ![w] = [pc |-> pc, epoch |-> pw[w].epoch, part |-> 1,
                             out |-> "UNKNOWN", gone |-> {}]]

\* What the worker has found out of the current object, still to be recorded
Report(w, out) == pw' = [pw EXCEPT ![w].pc = "RESULT", ![w].out = out]

Enabled(e) == ~recovery.open /\ recovery.epoch = e

\* MediaPurge.owned: a lease that somebody else has taken over, that ran out, or
\* that dates from before a restore is no longer one.
Owned(w) == /\ Enabled(pw[w].epoch)
            /\ intent.holder = w /\ intent.live
            /\ intent.epoch = recovery.epoch

\* mediaPurgeCandidates, and the first conditions of claim.
Candidate ==
    \/ /\ intent.state \notin {"NONE", "SKIPPED", "ERASED"}
       /\ ~intent.wait /\ ~intent.live
    \/ /\ intent.state = "NONE" /\ asset.state = "READY"
       /\ ~Formal /\ due /\ ~Explicit

\* claim, when an explicit deletion owns the asset: a reversible plan ends.
PurgeTakenOver(w) ==
    /\ pw[w].pc = "IDLE" /\ Enabled(pw[w].epoch)
    /\ Candidate /\ ~Fenced
    /\ asset.state = "ERASED" \/ Explicit
    /\ intent' = Skipped
    /\ UNCHANGED <<asset, sub, due, req, recovery, stored, journal, backup, pw, fw, publisher,
                   calm>>

\* claim, when the asset is not eligible: for good, or for the retry time.
PurgeDeferred(w) ==
    /\ pw[w].pc = "IDLE" /\ Enabled(pw[w].epoch)
    /\ Candidate /\ ~Fenced /\ asset.state # "ERASED" /\ ~Explicit
    /\ ~Eligible
    /\ intent' = IF Formal THEN Skipped
                 ELSE [Released EXCEPT !.state = "ELIGIBLE", !.wait = TRUE]
    /\ UNCHANGED <<asset, sub, due, req, recovery, stored, journal, backup, pw, fw, publisher,
                   calm>>

MayClaimUnlessExplicit == ~Explicit /\ (Fenced \/ Eligible)

\* An irreversible plan is taken up again even when a deletion request waits for it.
MayClaim == Fenced \/ (~Explicit /\ Eligible)

\* claim.  The answer of its commit may be lost: a lease with no worker.
PurgeClaim(w) ==
    /\ pw[w].pc = "IDLE" /\ Enabled(pw[w].epoch)
    /\ Candidate /\ asset.state # "ERASED" /\ MayClaim
    /\ intent' = [intent EXCEPT !.state = IF Fenced THEN @ ELSE "CLAIMED", !.holder = w,
                                !.live = TRUE, !.epoch = recovery.epoch]
    /\ PGoto(w, "CLAIMED") \/ (~calm /\ UNCHANGED pw)
    /\ UNCHANGED <<asset, sub, due, req, recovery, stored, journal, backup, fw, publisher, calm>>

PurgeWithoutJournal(w) ==
    /\ pw[w].pc = "CLAIMED"
    /\ PGoto(w, "JOURNALED")
    /\ UNCHANGED <<rows, recovery, stored, journal, backup, fw, publisher, calm>>

\* The safety journal; without its record nothing is begun, nor deferred.
PurgeWriteAhead(w) ==
    /\ pw[w].pc = "CLAIMED"
    /\ \/ journal' = journal \cup {"PURGE"} /\ PGoto(w, "JOURNALED")
       \/ ~calm /\ UNCHANGED journal /\ PLeave(w, "IDLE")
    /\ UNCHANGED <<rows, recovery, stored, backup, fw, publisher, calm>>

\* beginDelete, before the first object and again before every DELETE: the
\* fence after which no adoption can come.  The worker goes on with its own copy of
\* what is recorded of the objects, as the first of these transactions returned it.
Fence(w) ==
    /\ pw[w].pc \in {"JOURNALED", "FOUND"}
    /\ Owned(w) /\ Eligible
    /\ asset' = [asset EXCEPT !.usage = "RETIRED"]
    /\ sub' = IF sub = "OVERDUE" THEN "CLOSED" ELSE sub
    /\ intent' = [intent EXCEPT !.state = IF @ = "DELETE_UNKNOWN" THEN @ ELSE "DELETE_PENDING"]
    /\ pw' = [pw EXCEPT ![w].pc = IF @ = "FOUND" THEN "DELETE" ELSE "STAT",
                        ![w].part = IF pw[w].pc = "FOUND" THEN @ ELSE 1,
                        ![w].gone = IF pw[w].pc = "FOUND" THEN @ ELSE MissingParts(intent.objects)]
    /\ UNCHANGED <<due, req, recovery, stored, journal, backup, fw, publisher, calm>>

\* beginDelete gives the plan up when the asset is no longer eligible.
FenceYields(w) ==
    /\ pw[w].pc \in {"JOURNALED", "FOUND"}
    /\ Owned(w) /\ ~Eligible /\ ~Fenced
    /\ intent' = Skipped
    /\ PLeave(w, "IDLE")
    /\ UNCHANGED <<asset, sub, due, req, recovery, stored, journal, backup, fw, publisher, calm>>

\* beginDelete throws.
FenceRefused(w) ==
    /\ pw[w].pc \in {"JOURNALED", "FOUND"}
    /\ ~Owned(w) \/ (~Eligible /\ Fenced)
    /\ IF pw[w].pc = "FOUND" THEN Report(w, "UNKNOWN") ELSE PLeave(w, "DEFER")
    /\ UNCHANGED <<rows, recovery, stored, journal, backup, fw, publisher, calm>>

SeenHopefully(w) == {"UNKNOWN", "MISSING"}

\* What a stat of the current part may tell: the truth, or nothing.
Seen(w) == {out \in {"UNKNOWN", "MISSING"} :
               IF out = "MISSING" THEN pw[w].part \notin stored
               ELSE pw[w].part \in stored \/ ~calm}

OthersGone(w) == Parts \ {pw[w].part} \subseteq pw[w].gone

\* When the last of the objects is seen to be missing, the upload's namespace goes too.
Conclude(w, out) ==
    IF out = "MISSING" /\ OthersGone(w) THEN PGoto(w, "NAMESPACE") ELSE Report(w, out)

Stat(w) ==
    /\ pw[w].pc = "STAT"
    /\ \/ pw[w].part \in stored /\ PGoto(w, "FOUND")
       \/ \E out \in Seen(w) : (calm => out = "MISSING") /\ Conclude(w, out)
    /\ UNCHANGED <<rows, recovery, stored, journal, backup, fw, publisher, calm>>

\* deleteImmutableObject may fail before or after the object is gone.
DeleteObject(w) ==
    /\ pw[w].pc = "DELETE"
    /\ \/ stored' = stored \ {pw[w].part} /\ PGoto(w, "RECHECK")
       \/ ~calm /\ stored' \in {stored, stored \ {pw[w].part}} /\ Report(w, "UNKNOWN")
    /\ UNCHANGED <<rows, recovery, journal, backup, fw, publisher, calm>>

Recheck(w) ==
    /\ pw[w].pc = "RECHECK"
    /\ \E out \in Seen(w) : Conclude(w, out)
    /\ UNCHANGED <<rows, recovery, stored, journal, backup, fw, publisher, calm>>

\* What a purge of the whole namespace does: it takes the directory of every attempt
\* away, so that an attempt still to come cannot publish any more, and whatever objects
\* there are; a failure may come before, between or after.  A marker of a publication
\* whose end is not known forbids all of it.
NamespacePurged ==
    publisher # "MARKED" /\ publisher' = "NONE" /\ stored' = {}

NamespaceStays ==
    IF publisher = "MARKED" THEN UNCHANGED <<publisher, stored>>
    ELSE ~calm /\ publisher' \in {publisher, "NONE"} /\ stored' \in SUBSET stored

\* purgeOwnedNamespace
PurgeNamespace(w) ==
    /\ pw[w].pc = "NAMESPACE"
    /\ \/ NamespacePurged /\ Report(w, "MISSING")
       \/ NamespaceStays /\ Report(w, "UNKNOWN")
    /\ UNCHANGED <<rows, recovery, journal, backup, fw, calm>>

AnyMissing(objects) == \E p \in Parts : objects[p] = "MISSING"

AllMissing(objects) == \A p \in Parts : objects[p] = "MISSING"

\* objectResult.  When the answer of its commit is lost, or the transaction
\* fails, the worker records UNKNOWN instead or defers.
RecordResult(w) ==
    LET objects == [intent.objects EXCEPT ![pw[w].part] = pw[w].out]
        done == AllMissing(objects)
        last == pw[w].part = NParts
    IN /\ pw[w].pc = "RESULT" /\ Owned(w)
       /\ intent' = [intent EXCEPT !.objects = objects,
                       !.state = IF done THEN "DELETE_CONFIRMED" ELSE "DELETE_UNKNOWN"]
       /\ \/ ~last /\ pw' = [pw EXCEPT ![w].pc = "STAT", ![w].part = @ + 1,
                                       ![w].gone = MissingParts(objects)]
          \/ last /\ IF done THEN PGoto(w, "FINALIZE") ELSE PLeave(w, "DEFER")
          \/ ~calm /\ Report(w, "UNKNOWN")
       /\ UNCHANGED <<asset, sub, due, req, recovery, stored, journal, backup, fw, publisher, calm>>

ResultRefused(w) ==
    /\ pw[w].pc = "RESULT" /\ (~calm \/ ~Owned(w))
    /\ PLeave(w, "DEFER")
    /\ UNCHANGED <<rows, recovery, stored, journal, backup, fw, publisher, calm>>

MayFinalize(w) == /\ Owned(w) /\ intent.state = "DELETE_CONFIRMED"
                  /\ AllMissing(intent.objects) /\ ~Formal

FinalizePurge(w) ==
    /\ pw[w].pc = "FINALIZE" /\ MayFinalize(w)
    /\ asset' = [state |-> "ERASED", usage |-> "RETIRED"]
    /\ due' = FALSE
    /\ intent' = [Released EXCEPT !.state = "ERASED"]
    /\ PLeave(w, "IDLE")
    /\ UNCHANGED <<sub, req, recovery, stored, journal, backup, fw, publisher, calm>>

FinalizeFails(w) ==
    /\ pw[w].pc = "FINALIZE" /\ (~calm \/ ~MayFinalize(w))
    /\ PLeave(w, "DEFER")
    /\ UNCHANGED <<rows, recovery, stored, journal, backup, fw, publisher, calm>>

\* defer; it is refused to a worker that has lost its lease.
DeferPurge(w) ==
    /\ pw[w].pc = "DEFER"
    /\ intent' = IF Owned(w) THEN [Released EXCEPT !.wait = TRUE] ELSE intent
    /\ PLeave(w, "IDLE")
    /\ UNCHANGED <<asset, sub, due, req, recovery, stored, journal, backup, fw, publisher, calm>>

\* The process dies or is stopped, or a failed heartbeat has aborted its work.
PurgerCrash(w) ==
    /\ pw[w].pc # "IDLE" /\ ~calm
    /\ PLeave(w, "IDLE")
    /\ UNCHANGED <<rows, recovery, stored, journal, backup, fw, publisher, calm>>

\* 60 s pass without a heartbeat.
PurgeLeaseEnds ==
    /\ intent.live /\ (~calm \/ pw[intent.holder].pc = "IDLE")
    /\ intent' = [intent EXCEPT !.live = FALSE]
    /\ UNCHANGED <<asset, sub, due, req, recovery, stored, journal, backup, pw, fw, publisher,
                   calm>>

\* The retry time passes, or an administrator asks for it (reconcile).
RetryDue ==
    /\ intent.wait
    /\ intent' = [intent EXCEPT !.wait = FALSE]
    /\ UNCHANGED <<asset, sub, due, req, recovery, stored, journal, backup, pw, fw, publisher,
                   calm>>

-------------------------------------------------------------------------------
(* The finalizer of deletion requests. *)

FGoto(f, pc) == fw' = [fw EXCEPT ![f].pc = pc]
Unleased == [req EXCEPT !.holder = Nobody, !.live = FALSE]

\* DeletionFinalization.owned
FOwned(f) == req.state = "CLEANING" /\ req.holder = f /\ req.live

FEnabled(f) == recovery.epoch = fw[f].epoch

\* The heartbeat that finalizer.ts runs before and after every external call.
FFenced(f) == FEnabled(f) /\ FOwned(f)

AnyPurgeInTheWay == Fenced \/ intent.live

\* claim waits for a purge past its fence, and for one with a live lease.
PurgeInTheWay == PurgeUnfinished \/ intent.live

ClaimableRequest(f) ==
    /\ fw[f].pc = "IDLE" /\ FEnabled(f)
    /\ req.state = "CLEANING" /\ req.item # "PENDING" /\ ~req.live
    /\ ~PurgeInTheWay

AttemptsLeftOffByOne == req.attempts <= MaxAttempts

AttemptsLeft == req.attempts < MaxAttempts

FinalizerClaim(f) ==
    /\ ClaimableRequest(f) /\ AttemptsLeft
    /\ req' = [req EXCEPT !.attempts = @ + 1, !.holder = f, !.live = TRUE]
    /\ intent' = IF intent.state \in {"ELIGIBLE", "CLAIMED"} THEN Skipped ELSE intent
    /\ FGoto(f, "CLAIMED") \/ (~calm /\ UNCHANGED fw)
    /\ UNCHANGED <<asset, sub, due, recovery, stored, journal, backup, pw, publisher, calm>>

FinalizerExhausted(f) ==
    /\ ClaimableRequest(f) /\ ~AttemptsLeft
    /\ req' = [Unleased EXCEPT !.state = "FAILED"]
    /\ UNCHANGED <<asset, sub, due, intent, recovery, stored, journal, backup, pw, fw, publisher,
                   calm>>

FinalizerWriteAhead(f) ==
    /\ fw[f].pc = "CLAIMED"
    /\ \/ journal' = journal \cup {"DELETION"} /\ FGoto(f, "JOURNALED")
       \/ ~calm /\ UNCHANGED journal /\ FGoto(f, "IDLE")
    /\ UNCHANGED <<rows, recovery, stored, backup, pw, publisher, calm>>

\* mediaTasks, behind a heartbeat.
MediaTasks(f) ==
    /\ fw[f].pc = "JOURNALED"
    /\ FGoto(f, IF FFenced(f) /\ ~PurgeUnfinished THEN "TASK" ELSE "FAIL")
    /\ UNCHANGED <<rows, recovery, stored, journal, backup, pw, publisher, calm>>

\* The upload is read, and the objects are purged unless that was done before.
StartTask(f) ==
    /\ fw[f].pc = "TASK"
    /\ FGoto(f, IF ~FFenced(f) THEN "FAIL"
                ELSE IF asset.state = "ERASED" THEN "PURGED" ELSE "PURGE")
    /\ UNCHANGED <<rows, recovery, stored, journal, backup, pw, publisher, calm>>

\* The provider's purge.
PurgeObjects(f) ==
    /\ fw[f].pc = "PURGE"
    /\ \/ NamespacePurged /\ FGoto(f, "PURGED")
       \/ NamespaceStays /\ FGoto(f, "FAIL")
    /\ UNCHANGED <<rows, recovery, journal, backup, pw, calm>>

\* completeMediaPurge, behind a heartbeat; it renews the lease.
CompleteMediaPurge(f) ==
    /\ fw[f].pc = "PURGED"
    /\ FFenced(f) /\ intent.state \in {"NONE", "SKIPPED", "ERASED"}
    /\ asset' = [state |-> "ERASED", usage |-> "RETIRED"]
    /\ due' = FALSE
    /\ req' = [req EXCEPT !.item = "DONE"]
    /\ FGoto(f, "FINISH")
    /\ UNCHANGED <<sub, intent, recovery, stored, journal, backup, pw, publisher, calm>>

CompleteRefused(f) ==
    /\ fw[f].pc = "PURGED"
    /\ ~FFenced(f) \/ intent.state \notin {"NONE", "SKIPPED", "ERASED"}
    /\ FGoto(f, "FAIL")
    /\ UNCHANGED <<rows, recovery, stored, journal, backup, pw, publisher, calm>>

Finish(f) ==
    /\ fw[f].pc = "FINISH"
    /\ FFenced(f) /\ req.item = "DONE"
    /\ req' = [Unleased EXCEPT !.state = "COMPLETED"]
    /\ FGoto(f, "IDLE")
    /\ UNCHANGED <<asset, sub, due, intent, recovery, stored, journal, backup, pw, publisher, calm>>

\* finish leaves the request alone when the lease is lost, and calls fail otherwise.
FinishRefused(f) ==
    /\ fw[f].pc = "FINISH"
    /\ ~FFenced(f) \/ req.item # "DONE"
    /\ FGoto(f, IF FEnabled(f) /\ ~FOwned(f) THEN "IDLE" ELSE "FAIL")
    /\ UNCHANGED <<rows, recovery, stored, journal, backup, pw, publisher, calm>>

\* A transaction of the finalizer fails.
FinalizerError(f) ==
    /\ fw[f].pc \in {"JOURNALED", "TASK", "PURGED", "FINISH"} /\ ~calm
    /\ FGoto(f, "FAIL")
    /\ UNCHANGED <<rows, recovery, stored, journal, backup, pw, publisher, calm>>

\* fail: the one transaction that asks for the token only.
Fail(f) ==
    /\ fw[f].pc = "FAIL"
    /\ req' = IF req.state = "CLEANING" /\ req.holder = f
              THEN [Unleased EXCEPT !.state = IF req.attempts = MaxAttempts THEN "FAILED" ELSE @]
              ELSE req
    /\ FGoto(f, "IDLE")
    /\ UNCHANGED <<asset, sub, due, intent, recovery, stored, journal, backup, pw, publisher, calm>>

FinalizerCrash(f) ==
    /\ fw[f].pc # "IDLE" /\ ~calm
    /\ FGoto(f, "IDLE")
    /\ UNCHANGED <<rows, recovery, stored, journal, backup, pw, publisher, calm>>

DeletionLeaseEnds ==
    /\ req.live /\ (~calm \/ fw[req.holder].pc = "IDLE")
    /\ req' = [req EXCEPT !.live = FALSE]
    /\ UNCHANGED <<asset, sub, due, intent, recovery, stored, journal, backup, pw, fw, publisher,
                   calm>>

-------------------------------------------------------------------------------
(* The abandoned attempt: a worker that lost its claim of the upload while it worked. *)

\* publishSealed begins: the marker is written into the attempt's directory.
PublicationBegins ==
    /\ publisher = "COMING"
    /\ publisher' = "MARKED"
    /\ UNCHANGED <<rows, recovery, stored, journal, backup, pw, fw, calm>>

\* The attempt dies before it publishes; its publication ends, which removes the marker;
\* or somebody who has looked into the store removes it.  Nothing says that one does.
PublicationEnds ==
    /\ publisher # "NONE"
    /\ publisher' = "NONE"
    /\ UNCHANGED <<rows, recovery, stored, journal, backup, pw, fw, calm>>

-------------------------------------------------------------------------------
(* Backup and restore. *)

Snapshot == [asset |-> asset, sub |-> sub, due |-> due, intent |-> intent, req |-> req,
             stored |-> stored]

TakeBackup ==
    /\ backup = <<>> /\ recovery.epoch < MaxEpoch /\ ~calm
    /\ backup' = <<Snapshot>>
    /\ UNCHANGED <<rows, recovery, stored, journal, pw, fw, publisher, calm>>

AssetAsBackedUp(a) == a

QuarantinedAsset(a) == IF a.state = "READY" THEN [a EXCEPT !.state = "QUARANTINED"] ELSE a

\* The backup's database and objects come back, and prepareRecovery quarantines
\* every readable asset and ends every purge lease.  The objects come into a namespace of
\* their own, where no earlier attempt has a directory.  A backup that the bound on epochs
\* lets nobody use again is forgotten.
Restore ==
    /\ recovery.epoch < MaxEpoch /\ ~calm
    /\ \E b \in {backup[i] : i \in DOMAIN backup} :
         /\ asset' = QuarantinedAsset(b.asset)
         /\ sub' = b.sub /\ due' = b.due /\ req' = b.req
         /\ intent' = IF b.intent.state \in {"ERASED", "SKIPPED"} THEN b.intent
                      ELSE [b.intent EXCEPT !.holder = Nobody, !.live = FALSE]
         /\ stored' = b.stored
    /\ publisher' = "NONE"
    /\ recovery' = [recovery EXCEPT !.open = TRUE]
    /\ backup' = IF recovery.epoch + 1 < MaxEpoch THEN backup ELSE <<>>
    /\ UNCHANGED <<journal, pw, fw, calm>>

\* The workspace gets the recovery epoch of the new deployment.  Processes of the
\* old one may still be running, under the old epoch.
Approve ==
    /\ recovery.open
    /\ recovery' = [epoch |-> recovery.epoch + 1, open |-> FALSE]
    /\ UNCHANGED <<rows, stored, journal, backup, pw, fw, publisher, calm>>

\* A process is started again, with the configuration of the new deployment.
PurgerStarts(w) ==
    /\ pw[w].pc = "IDLE" /\ pw[w].epoch # recovery.epoch
    /\ pw' = [pw EXCEPT ![w].epoch = recovery.epoch]
    /\ UNCHANGED <<rows, recovery, stored, journal, backup, fw, publisher, calm>>

FinalizerStarts(f) ==
    /\ fw[f].pc = "IDLE" /\ fw[f].epoch # recovery.epoch
    /\ fw' = [fw EXCEPT ![f].epoch = recovery.epoch]
    /\ UNCHANGED <<rows, recovery, stored, journal, backup, pw, publisher, calm>>

-------------------------------------------------------------------------------

\* An assumption of the liveness properties, not an event of the system.
FailuresEnd ==
    /\ FailuresStop /\ ~calm
    /\ calm' = TRUE
    /\ UNCHANGED <<rows, recovery, stored, journal, backup, pw, fw, publisher>>

Member == \/ Adopt \/ CloseSubmission \/ RetireDraft \/ Quarantine
          \/ Block \/ StartCleanup

Clock == SubmissionExpires \/ RetentionEnds \/ PurgeLeaseEnds \/ RetryDue \/ DeletionLeaseEnds

PurgeStep(w) ==
    \/ PurgeTakenOver(w) \/ PurgeDeferred(w) \/ PurgeClaim(w) \/ PurgeWriteAhead(w)
    \/ Fence(w) \/ FenceYields(w) \/ FenceRefused(w) \/ Stat(w) \/ DeleteObject(w)
    \/ Recheck(w) \/ PurgeNamespace(w) \/ RecordResult(w) \/ ResultRefused(w)
    \/ FinalizePurge(w) \/ FinalizeFails(w) \/ DeferPurge(w) \/ PurgerStarts(w)

FinalizerStep(f) ==
    \/ FinalizerClaim(f) \/ FinalizerExhausted(f) \/ FinalizerWriteAhead(f) \/ MediaTasks(f)
    \/ StartTask(f) \/ PurgeObjects(f) \/ CompleteMediaPurge(f) \/ CompleteRefused(f)
    \/ Finish(f) \/ FinishRefused(f) \/ FinalizerError(f) \/ Fail(f) \/ FinalizerStarts(f)

\* Until it is approved a restored database is isolated from members and workers
\* (accessMode MAINTENANCE; docs/spec/11_OPERATIONS.md:58).
Next ==
    \/ /\ ~recovery.open
       /\ \/ Member
          \/ CleanItem
          \/ \E w \in Purgers : PurgeStep(w) \/ PurgerCrash(w)
          \/ \E f \in Finalizers : FinalizerStep(f) \/ FinalizerCrash(f)
          \/ TakeBackup \/ Restore
    \/ Clock
    \/ PublicationBegins \/ PublicationEnds
    \/ Approve
    \/ FailuresEnd

Spec == Init /\ [][Next]_vars

(***************************************************************************)
(* Fairness: both workers run in a loop, the clock goes on, a restored       *)
(* database is approved, and failures end.                                  *)
(***************************************************************************)
Fairness ==
    /\ WF_vars(~recovery.open /\ CleanItem) /\ WF_vars(Approve) /\ WF_vars(FailuresEnd)
    /\ WF_vars(PurgeLeaseEnds) /\ WF_vars(DeletionLeaseEnds) /\ WF_vars(RetryDue)
    /\ \A w \in Purgers : WF_vars(~recovery.open /\ PurgeStep(w))
    /\ \A f \in Finalizers : WF_vars(~recovery.open /\ FinalizerStep(f))

FairSpec == Spec /\ Fairness

-------------------------------------------------------------------------------
(* Properties. *)

\* Whatever a member may read, because the asset is READY, not retired and not
\* under deletion, still has all its objects: no purge, late worker or restore
\* leaves a readable asset without them (beginDelete's fence against adoption;
\* prepareRecovery's quarantine).
ReadableIsStored ==
    asset.state = "READY" /\ asset.usage # "RETIRED" /\ ~Explicit => stored = Parts

\* What the rows say is gone is gone: a part recorded as MISSING, and every part
\* of an erased asset; and an upload whose asset is erased has no publication left that
\* might put an object back (objectResult, finalize, completeMediaPurge, and the purge of
\* the namespace before the last object counts as missing).
MissingIsGone ==
    /\ \A p \in Parts : intent.objects[p] = "MISSING" => p \notin stored
    /\ asset.state = "ERASED" => stored = {} /\ publisher = "NONE"

\* The retention purge and the explicit deletion never own the objects together:
\* while a finalizer may purge them, no purge is past its fence, and no two
\* processes of one deployment are about to delete for both
\* (claim and mediaTasks of the finalizer; claim and beginDelete of the purge).
OneDeleter ==
    /\ \A f \in Finalizers :
         FFenced(f) /\ fw[f].pc \in {"TASK", "PURGE", "PURGED"} => ~PurgeUnfinished
    /\ \A f \in Finalizers, w \in Purgers :
         fw[f].pc = "PURGE" /\ pw[w].pc \in {"DELETE", "NAMESPACE"} => fw[f].epoch # pw[w].epoch

\* Where a safety journal is configured, nothing is deleted that it does not name, so that a
\* restore of an older backup can tell what it has brought back (writeAhead before beginDelete).
JournalFirst == stored # Parts => journal # {}

\* A purge past its fence is never undone, and its asset is never adopted, short of
\* a restore (assertMediaNotPurging; "Retiring is an irreversible adoption fence").
FenceHolds ==
    [][Fenced /\ recovery'.open = recovery.open =>
         intent'.state \in Irreversible /\ asset'.usage = "RETIRED"]_vars

\* A purge past its fence ends, also when its worker dies between two objects,
\* the store's answer is unknown, or a deletion request waits for it (claim,
\* objectResult, defer); unless the marker of a publication with an unknown end is in
\* its way ("an unresolved COS publishing marker blocks the final confirmation",
\* PR03E_ACCEPTANCE.md:37), which nothing in the program takes
\* away once its writer is dead.
PurgesEnd == PurgeUnfinished ~> ~PurgeUnfinished \/ publisher = "MARKED"

\* A deletion request in cleanup is finalized or fails: neither the purge it waits for,
\* unless a marker blocks that, nor its own dead workers hold it up for ever
\* (finalization's claim, fail).
DeletionsEnd ==
    req.state = "CLEANING" ~> req.state \in {"COMPLETED", "FAILED"} \/ publisher = "MARKED"

\* What PR03E_ACCEPTANCE.md says of an asset whose purge is blocked for a while:
\* "ELIGIBLE, backing off, never left out for good".  An asset past its retention
\* whose submission is closed is erased, unless it was adopted, a deletion
\* request has taken it over or a marker stands in the way.
RetentionIsEnforced ==
    due /\ sub = "CLOSED" ~> asset.state = "ERASED" \/ Formal \/ Explicit \/ publisher = "MARKED"
===============================================================================
