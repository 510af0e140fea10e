------------------------------- MODULE MCSafety -------------------------------
(***************************************************************************)
(* Safety of the background work: AiDispatch with two workers at one run, or  *)
(* with two runs that share the money of a day, MediaUpload with two workers, *)
(* and MediaPurge, in which either two purge workers meet or a backup comes   *)
(* back. A behaviour is of one of these scenes; what the scene does not touch *)
(* stays in its initial state. The scenes do not meet: they share a run of    *)
(* TLC.                                                                      *)
(***************************************************************************)
EXTENDS AiDispatch, TLC

CONSTANTS r1, r2, w1, w2, p, p1, p2, f1, u1, v1, v2, NoUpload, Nobody

VARIABLES
    scene,     \* which it is
    up, valid, made, rx, group, staged, sealed, marked, flying, remote, mw,        \* MediaUpload
    asset, sub, due, intent, req, recovery, stored, journal, backup,
    pw, fw, publisher, calm  \* MediaPurge

\* The second configuration of AiDispatch is cheaper per task and per day than the first.
TwoPrices == <<2, 1>>
TwoLimits == <<3, 2>>

\* The instances bring their theorems along, for SafetyProofs.
Uploading == INSTANCE MediaUploadProofs WITH
    Uploads <- {u1}, Workers <- {v1, v2}, NParts <- 2, MaxRenewals <- 1, MaxAttempts <- 2,
    MaxActive <- 1, MaxStored <- 1, asset <- made, wk <- mw

Purging == INSTANCE MediaPurgeProofs WITH
    NParts <- 2, Purgers <- {p1, p2}, Finalizers <- {f1}, MaxAttempts <- 2, MaxEpoch <- 2,
    FailuresStop <- FALSE

\* an asset without a preview, whose deletion is tried once, and one purge worker
Restoring == INSTANCE MediaPurgeProofs WITH
    NParts <- 1, Purgers <- {p}, Finalizers <- {f1}, MaxAttempts <- 1, MaxEpoch <- 2,
    FailuresStop <- FALSE

ASSUME SafetyConstants ==
    NoUpload # u1 /\ Purging!PurgeConstants /\ Restoring!PurgeConstants

uploadVars == <<up, valid, made, rx, group, staged, sealed, marked, flying, remote, mw>>
purgeVars == <<asset, sub, due, intent, req, recovery, stored, journal, backup, pw, fw,
               publisher, calm>>
safetyVars == <<scene, vars, uploadVars, purgeVars>>

\* The two workers of each kind change places, all at once: in a scene only those of one
\* kind do anything, so that this is as good as each pair on its own.
\* In the configuration the two workers of each scene are the same two values: one worker
\* process runs all of these loops.
Symmetry == Permutations(Workers)

SafetyInit ==
    /\ Init /\ Uploading!Init
    /\ \/ scene \in {"sending", "spending", "uploads"} /\ Purging!Init /\ publisher = "NONE"
       \/ scene = "purgers" /\ Purging!Init /\ publisher # "MARKED"
       \/ scene = "restore" /\ Restoring!Init

\* of the two runs, the one that has a task
SendScene ==
    /\ scene = "sending" /\ Next /\ run'[r2].state = "NONE"
    /\ UNCHANGED <<uploadVars, purgeVars>>

\* One day, one worker at a time, and sources that hold; an approval ends only with its
\* configuration.
SpendScene ==
    /\ scene = "spending" /\ Next
    /\ day' = day /\ basis' = basis /\ conf'.epoch = conf.epoch
    /\ conf.approved /\ ~conf'.approved => conf'.rev # conf.rev
    /\ \A v, w \in Workers : wk'[v].pc # "IDLE" /\ wk'[w].pc # "IDLE" => v = w
    /\ UNCHANGED <<uploadVars, purgeVars>>

UploadScene == scene = "uploads" /\ Uploading!Next /\ UNCHANGED <<vars, purgeVars>>

\* Markers of publications are left to the scene of the restore.
PurgeScene ==
    /\ scene = "purgers" /\ Purging!Next /\ backup' = backup /\ publisher' # "MARKED"
    /\ UNCHANGED <<vars, uploadVars>>

RestoreScene ==
    /\ scene = "restore" /\ Restoring!Next
    /\ backup = <<>> /\ backup' # <<>> => Restoring!Fenced \/ req.state = "CLEANING"
    /\ UNCHANGED <<vars, uploadVars>>

SafetyNext ==
    /\ UNCHANGED scene
    /\ SendScene \/ SpendScene \/ UploadScene \/ PurgeScene \/ RestoreScene

SafetySpec == SafetyInit /\ [][SafetyNext]_safetyVars

-------------------------------------------------------------------------------
(* Properties of the money, the uploads and the purge; those of the sending are AiDispatch's. *)

\* Money is never spent twice nor lost: the day's ledger is the sum of its runs' reservations
\* and settlements, and within the limit until a provider charges more than its bound
\* (ai-dispatch.ts reserve, finish, reconcile, sweep).
MoneyAddsUp == scene \in {"sending", "spending"} => LedgerIntegrity /\ SpendWithinLimit

\* An asset has all its objects and the sealed copy they came from, although claims are taken
\* over, uploads cancelled and cleaned up and PUTs delayed (lease, publishSealed).
ReadyIsComplete == Uploading!TypeOK /\ Uploading!ReadyIsComplete

\* What is recorded as purged has left nothing behind and never will ("Never pretend disk was
\* freed", media.ts:97), and from its receipt to its end an upload's bytes are there, for a
\* worker that takes over the claim of a dead one (media/worker.ts).
BytesAsRecorded == Uploading!PurgedIsEmpty /\ Uploading!ReceivedBytesStay

\* What a member may read is stored, in rows of the right shape: no purge, late worker or restore
\* leaves a readable asset without its objects (beginDelete, prepareRecovery).
ReadableIsStored ==
    IF scene = "restore" THEN Restoring!TypeOK /\ Restoring!ReadableIsStored
    ELSE Purging!TypeOK /\ Purging!ReadableIsStored

\* What the rows say is gone is gone, with no publication left that could put it back, and the
\* safety journal, where there is one, names every deletion before its first object goes
\* (objectResult, finalize, completeMediaPurge, purgeOwnedNamespace, writeAhead).
GoneAsRecorded ==
    IF scene = "restore" THEN Restoring!MissingIsGone /\ Restoring!JournalFirst
    ELSE Purging!MissingIsGone /\ Purging!JournalFirst

\* The retention purge and the explicit deletion never own the objects together (claim and
\* mediaTasks of the finalizer; claim and beginDelete of the purge).
OneDeleter == IF scene = "restore" THEN Restoring!OneDeleter ELSE Purging!OneDeleter

\* A purge past its fence is never undone, and its asset is never adopted, short of a restore
\* (assertMediaNotPurging; "Retiring is an irreversible adoption fence").
FenceHolds == Purging!FenceHolds
===============================================================================
