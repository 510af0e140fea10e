------------------------------ MODULE MediaUpload ------------------------------
(***************************************************************************)
(* The life of a private media upload, from its creation to the asset it    *)
(* becomes or to the cleanup of what it left behind: the commands and the   *)
(* expiry of media.ts, the HTTP handler that receives the bytes             *)
(* (media/http.ts), the worker that seals, decodes, publishes and cleans up *)
(* (media/worker.ts), and the files and objects of local-provider.ts and    *)
(* cos-provider.ts.                                                         *)
(*                                                                         *)
(* The database, the staging volume and the object store fail and commit    *)
(* independently: a transaction, a file operation and a request to the      *)
(* store are separate actions, any process may die between them, and a PUT  *)
(* may take effect after the worker that sent it has given up.              *)
(***************************************************************************)
EXTENDS Integers, FiniteSets

CONSTANTS
    Uploads,       \* uploads of one workspace, all of the same size
    Workers,       \* processes that run MediaWorker
    NoUpload,      \* what an idle worker works on
    NParts,        \* objects of an asset: original and preview
    MaxRenewals,   \* MEDIA_LIMITS.renewals
    MaxAttempts,   \* MEDIA_LIMITS.attempts
    MaxActive,     \* uploads under way at a time (workspaceActive, actorActive)
    MaxStored      \* uploads that may occupy storage (workspaceBytes, retainedBytes)

\* what the constants must satisfy
ASSUME UploadConstants ==
    /\ IsFiniteSet(Uploads) /\ NoUpload \notin Uploads
    /\ NParts \in Nat \ {0} /\ MaxRenewals \in Nat /\ MaxAttempts \in Nat \ {0}
    /\ MaxActive \in Nat \ {0} /\ MaxStored \in Nat \ {0}

VARIABLES
    up,         \* uploads rows
    valid,      \* whether the uploader, scope, source and person behind an upload still hold
    asset,      \* assets.objectToken, 0 while there is no asset
    rx,         \* the HTTP request that carries the bytes
    group,      \* the upload's private directory
    staged,     \* the ingest file in it
    sealed,     \* attempts whose work directory is complete
    marked,     \* attempts whose .cos-publishing marker is there
    flying,     \* PUT requests that may still take effect
    remote,     \* objects in the store
    wk          \* the workers' local state

rows == <<up, valid, asset>>
files == <<group, staged, sealed, marked>>
objects == <<flying, remote>>
vars == <<rows, rx, files, objects, wk>>

Attempts == 1..MaxAttempts
Objects == Attempts \X (1..NParts)       \* an object's key: lease token and part

Terminal == {"READY", "FAILED", "CANCELLED"}
UploadStates == Terminal \cup {"NONE", "OPEN", "RECEIVING", "UPLOADED", "QUEUED", "PROCESSING"}

UploadRows == [state: UploadStates, renewals: 0..MaxRenewals, attempts: 0..MaxAttempts,
               live: BOOLEAN, overdue: BOOLEAN, aged: BOOLEAN, purged: BOOLEAN]
NoRow == [state |-> "NONE", renewals |-> 0, attempts |-> 0, live |-> FALSE,
          overdue |-> FALSE, aged |-> FALSE, purged |-> FALSE]

\* attempts stands for the lease token of a PROCESSING row: every claim draws both anew.
WorkerStates == [pc: {"IDLE", "CLAIMED", "SEAL", "SEALED", "PUBLISH", "PUT", "PUTTING",
                      "CHECK", "RETRACT", "UNMARK", "FINISH", "DONE", "FAILING",
                      "PURGE", "QUARANTINED", "EMPTIED", "PURGED"},
                 u: Uploads \cup {NoUpload}, n: 0..MaxAttempts, part: 0..NParts]
Resting == [pc |-> "IDLE", u |-> NoUpload, n |-> 0, part |-> 0]

\* The rows, the files and the processes have the shapes of the data model.
TypeOK ==
    /\ up \in [Uploads -> UploadRows]
    /\ valid \in [Uploads -> BOOLEAN]
    /\ asset \in [Uploads -> 0..MaxAttempts]
    /\ rx \in [Uploads -> {"NONE", "ACCEPTED", "WRITING", "WRITTEN", "FAILING", "ENDED"}]
    /\ group \in [Uploads -> {"NONE", "ACTIVE", "TRASH", "REMOVED"}]
    /\ staged \in [Uploads -> {"NONE", "PARTIAL", "FULL"}]
    /\ sealed \in [Uploads -> SUBSET Attempts]
    /\ marked \in [Uploads -> SUBSET Attempts]
    /\ flying \in [Uploads -> SUBSET Objects]
    /\ remote \in [Uploads -> SUBSET Objects]
    /\ wk \in [Workers -> WorkerStates]

Init ==
    /\ up = [u \in Uploads |-> NoRow]
    /\ valid = [u \in Uploads |-> TRUE]
    /\ asset = [u \in Uploads |-> 0]
    /\ rx = [u \in Uploads |-> "NONE"]
    /\ group = [u \in Uploads |-> "NONE"]
    /\ staged = [u \in Uploads |-> "NONE"]
    /\ sealed = [u \in Uploads |-> {}]
    /\ marked = [u \in Uploads |-> {}]
    /\ flying = [u \in Uploads |-> {}]
    /\ remote = [u \in Uploads |-> {}]
    /\ wk = [w \in Workers |-> Resting]

-------------------------------------------------------------------------------
(* What the transactions ask of a row, and what they make of it. *)

Ended(u) == up[u].state \in Terminal
Active == {u \in Uploads : up[u].state # "NONE" /\ ~Ended(u)}
Unpurged == {u \in Uploads : up[u].state # "NONE" /\ ~up[u].purged}

\* Media.context
Context(u) == valid[u] /\ ~up[u].overdue

Fail(row) == [row EXCEPT !.state = "FAILED", !.live = FALSE]
SetUp(u, row) == up' = [up EXCEPT ![u] = row]

-------------------------------------------------------------------------------
(* Commands of the uploader, and the time and the changes around them. *)

\* Media.create, createTalent, createAgentUpload
Create(u) ==
    /\ up[u].state = "NONE"
    /\ Cardinality(Active) < MaxActive
    /\ Cardinality(Unpurged) < MaxStored
    /\ SetUp(u, [NoRow EXCEPT !.state = "OPEN"])
    /\ UNCHANGED <<valid, asset, rx, files, objects, wk>>

\* Media.renew
Renew(u) ==
    /\ up[u].state = "OPEN" /\ Context(u)
    /\ up[u].renewals < MaxRenewals
    /\ SetUp(u, [up[u] EXCEPT !.renewals = @ + 1])
    /\ UNCHANGED <<valid, asset, rx, files, objects, wk>>

\* Media.complete: the upload gets the hour of processing as its new deadline.
Complete(u) ==
    /\ up[u].state = "UPLOADED" /\ Context(u)
    /\ SetUp(u, [up[u] EXCEPT !.state = "QUEUED"])
    /\ UNCHANGED <<valid, asset, rx, files, objects, wk>>

\* Media.cancel; a member may cancel whatever has become of the context.
Cancel(u) ==
    /\ u \in Active
    /\ SetUp(u, [up[u] EXCEPT !.state = "CANCELLED", !.live = FALSE])
    /\ UNCHANGED <<valid, asset, rx, files, objects, wk>>

\* The uploader is disabled, or a scope, source, person or consent changes.
Invalidate(u) ==
    /\ u \in Active /\ valid[u]
    /\ valid' = [valid EXCEPT ![u] = FALSE]
    /\ UNCHANGED <<up, asset, rx, files, objects, wk>>

\* expiresAt passes.
Overdue(u) ==
    /\ u \in Active /\ ~up[u].overdue
    /\ SetUp(u, [up[u] EXCEPT !.overdue = TRUE])
    /\ UNCHANGED <<valid, asset, rx, files, objects, wk>>

\* leaseUntil passes.
LeaseEnds(u) ==
    /\ up[u].live
    /\ SetUp(u, [up[u] EXCEPT !.live = FALSE])
    /\ UNCHANGED <<valid, asset, rx, files, objects, wk>>

\* cleanupMs pass after the end.  The request that carried the bytes, which is
\* aborted after receiveMs, is over by then.
Age(u) ==
    /\ up[u].state \in {"FAILED", "CANCELLED"} /\ ~up[u].aged
    /\ rx[u] \notin {"ACCEPTED", "WRITING"}
    /\ SetUp(u, [up[u] EXCEPT !.aged = TRUE])
    /\ UNCHANGED <<valid, asset, rx, files, objects, wk>>

-------------------------------------------------------------------------------
(* The HTTP request that carries the bytes. *)

Rx(u, pc) == rx' = [rx EXCEPT ![u] = pc]

\* beginReceive: one-shot.  When the answer of its commit is lost nobody receives.
BeginReceive(u) ==
    /\ up[u].state = "OPEN" /\ Context(u)
    /\ SetUp(u, [up[u] EXCEPT !.state = "RECEIVING", !.live = TRUE])
    /\ Rx(u, "ACCEPTED") \/ Rx(u, "ENDED")
    /\ UNCHANGED <<valid, asset, files, objects, wk>>

\* receive makes the group, which nothing else does, and writes the ingest file.
OpenStaging(u) ==
    /\ rx[u] = "ACCEPTED"
    /\ group' = [group EXCEPT ![u] = "ACTIVE"]
    /\ staged' = [staged EXCEPT ![u] = "PARTIAL"]
    /\ Rx(u, "WRITING")
    /\ UNCHANGED <<rows, sealed, marked, objects, wk>>

\* The bytes are complete, synced and have the digest that was declared; or the
\* stream breaks, is aborted, or is not what was declared.
ReceiveBytes(u) ==
    /\ rx[u] = "WRITING"
    /\ \/ staged' = [staged EXCEPT ![u] = "FULL"] /\ Rx(u, "WRITTEN")
       \/ UNCHANGED staged /\ Rx(u, "FAILING")
    /\ UNCHANGED <<rows, group, sealed, marked, objects, wk>>

MayFinishReceiveAnyway(u) == Context(u)

MayFinishReceive(u) == up[u].state = "RECEIVING" /\ up[u].live /\ Context(u)

\* finishReceive; a lost answer makes the handler fail what has succeeded.
FinishReceive(u) ==
    /\ rx[u] = "WRITTEN" /\ MayFinishReceive(u)
    /\ SetUp(u, [up[u] EXCEPT !.state = "UPLOADED", !.live = FALSE])
    /\ Rx(u, "ENDED") \/ Rx(u, "FAILING")
    /\ UNCHANGED <<valid, asset, files, objects, wk>>

FinishReceiveRefused(u) ==
    /\ rx[u] = "WRITTEN" /\ ~MayFinishReceive(u)
    /\ Rx(u, "FAILING")
    /\ UNCHANGED <<rows, files, objects, wk>>

\* failReceive
FailReceive(u) ==
    /\ rx[u] = "FAILING"
    /\ SetUp(u, IF up[u].state = "RECEIVING" THEN Fail(up[u]) ELSE up[u])
    /\ Rx(u, "ENDED")
    /\ UNCHANGED <<valid, asset, files, objects, wk>>

\* The API process dies, or failReceive itself fails.
ReceiverDies(u) ==
    /\ rx[u] \in {"ACCEPTED", "WRITING", "WRITTEN", "FAILING"}
    /\ Rx(u, "ENDED")
    /\ UNCHANGED <<rows, files, objects, wk>>

-------------------------------------------------------------------------------
(* The worker: expiry and claim. *)

Goto(w, pc) == wk' = [wk EXCEPT ![w].pc = pc]
Rest(w) == wk' = [wk EXCEPT ![w] = Resting]

ExpiredBeforeReceipt(u) == up[u].state \in {"OPEN", "RECEIVING"} /\ up[u].overdue

Expired(u) == u \in Active /\ (up[u].overdue \/ (up[u].state = "RECEIVING" /\ ~up[u].live))

\* Media.expire, with which every cycle begins.
Expire(w) ==
    /\ wk[w].pc = "IDLE"
    /\ \E u \in Uploads : Expired(u)
    /\ up' = [u \in Uploads |-> IF Expired(u) THEN Fail(up[u]) ELSE up[u]]
    /\ UNCHANGED <<valid, asset, rx, files, objects, wk>>

Claimable(u) == up[u].state = "QUEUED" \/ (up[u].state = "PROCESSING" /\ ~up[u].live)

AttemptsLeftOffByOne(u) == up[u].attempts <= MaxAttempts

AttemptsLeft(u) == up[u].attempts < MaxAttempts

\* Media.claim; the answer of its commit may be lost.
Claim(w, u) ==
    /\ wk[w].pc = "IDLE"
    /\ Claimable(u) /\ Context(u) /\ AttemptsLeft(u)
    /\ SetUp(u, [up[u] EXCEPT !.state = "PROCESSING", !.attempts = @ + 1, !.live = TRUE])
    /\ \/ wk' = [wk EXCEPT ![w] = [pc |-> "CLAIMED", u |-> u, n |-> up[u].attempts + 1, part |-> 1]]
       \/ UNCHANGED wk
    /\ UNCHANGED <<valid, asset, rx, files, objects>>

\* claim, of an upload whose context or attempts have run out.
ClaimFails(w, u) ==
    /\ wk[w].pc = "IDLE"
    /\ Claimable(u) /\ ~(Context(u) /\ AttemptsLeft(u))
    /\ SetUp(u, Fail(up[u]))
    /\ UNCHANGED <<valid, asset, rx, files, objects, wk>>

-------------------------------------------------------------------------------
(* The worker: processing.  Its files are reached by their path, so that none *)
(* can be read or made once the group has been renamed.                       *)

OwnedByAnyToken(w) ==
    LET u == wk[w].u
    IN up[u].state = "PROCESSING" /\ up[u].live /\ Context(u)

\* Media.lease: the row is still under this worker's own lease.
Owned(w) ==
    LET u == wk[w].u
    IN up[u].state = "PROCESSING" /\ up[u].attempts = wk[w].n /\ up[u].live /\ Context(u)

InGroup(w) == group[wk[w].u] = "ACTIVE"

\* The heartbeats before sealing and before publishing.  Those of the timer
\* only keep the lease live, or abort what may be aborted below.
Heartbeat(w) ==
    /\ wk[w].pc \in {"CLAIMED", "SEALED"}
    /\ Goto(w, IF ~Owned(w) THEN "FAILING"
               ELSE IF wk[w].pc = "CLAIMED" THEN "SEAL" ELSE "PUBLISH")
    /\ UNCHANGED <<rows, rx, files, objects>>

\* seal and decode: a private copy in a work directory of its own, and its preview.
Seal(w) ==
    /\ wk[w].pc = "SEAL"
    /\ InGroup(w) /\ staged[wk[w].u] = "FULL"
    /\ sealed' = [sealed EXCEPT ![wk[w].u] = @ \cup {wk[w].n}]
    /\ Goto(w, "SEALED")
    /\ UNCHANGED <<rows, rx, group, staged, marked, objects>>

\* publishSealed leaves a durable marker before its first PUT.
Mark(w) ==
    /\ wk[w].pc = "PUBLISH" /\ InGroup(w)
    /\ marked' = [marked EXCEPT ![wk[w].u] = @ \cup {wk[w].n}]
    /\ Goto(w, "PUT")
    /\ UNCHANGED <<rows, rx, group, staged, sealed, objects>>

\* The sealed copy is read and its PUT leaves.
Put(w) ==
    /\ wk[w].pc = "PUT" /\ InGroup(w)
    /\ flying' = [flying EXCEPT ![wk[w].u] = @ \cup {<<wk[w].n, wk[w].part>>}]
    /\ Goto(w, "PUTTING")
    /\ UNCHANGED <<rows, rx, files, remote>>

\* A PUT takes effect, or never will; either way its sender may not learn it.
Land(u, o) ==
    /\ o \in flying[u]
    /\ flying' = [flying EXCEPT ![u] = @ \ {o}]
    /\ \/ remote' = [remote EXCEPT ![u] = @ \cup {o}]
       \/ UNCHANGED remote
    /\ UNCHANGED <<rows, rx, files, wk>>

Answered(w) ==
    /\ wk[w].pc = "PUTTING" /\ <<wk[w].n, wk[w].part>> \in remote[wk[w].u]
    /\ Goto(w, "CHECK")
    /\ UNCHANGED <<rows, rx, files, objects>>

\* After every PUT: has the group been purged meanwhile?  And the work may be
\* aborted, by a heartbeat that failed or a worker that stops.
Check(w) ==
    /\ wk[w].pc = "CHECK"
    /\ \/ /\ InGroup(w)
          /\ wk' = [wk EXCEPT ![w].pc = IF wk[w].part < NParts THEN "PUT" ELSE "UNMARK",
                              ![w].part = IF @ < NParts THEN @ + 1 ELSE @]
       \/ Goto(w, "RETRACT")
    /\ UNCHANGED <<rows, rx, files, objects>>

\* The object just published is deleted again, if the store answers.
Retract(w) ==
    /\ wk[w].pc = "RETRACT"
    /\ \/ remote' = [remote EXCEPT ![wk[w].u] = @ \ {<<wk[w].n, wk[w].part>>}]
       \/ UNCHANGED remote
    /\ Goto(w, "FAILING")
    /\ UNCHANGED <<rows, rx, files, flying>>

\* The marker is removed by its path: not when the group has moved.
Unmark(w) ==
    /\ wk[w].pc = "UNMARK"
    /\ marked' = IF InGroup(w) THEN [marked EXCEPT ![wk[w].u] = @ \ {wk[w].n}] ELSE marked
    /\ Goto(w, "FINISH")
    /\ UNCHANGED <<rows, rx, group, staged, sealed, objects>>

\* Media.finish: the asset names the objects by the row's lease token.
Finish(w) ==
    LET u == wk[w].u
    IN /\ wk[w].pc = "FINISH" /\ Owned(w)
       /\ asset' = [asset EXCEPT ![u] = up[u].attempts]
       /\ SetUp(u, [up[u] EXCEPT !.state = "READY", !.live = FALSE])
       /\ Goto(w, "DONE") \/ Goto(w, "FAILING")
       /\ UNCHANGED <<valid, rx, files, objects>>

\* removeStaging
RemoveStaging(w) ==
    /\ wk[w].pc = "DONE"
    /\ staged' = [staged EXCEPT ![wk[w].u] = "NONE"]
    /\ Rest(w)
    /\ UNCHANGED <<rows, rx, group, sealed, marked, objects>>

\* A step of the processing throws: the volume or the store fails, the file is
\* rejected, the group is gone, the lease is lost.
StepFails(w) ==
    /\ wk[w].pc \in {"SEAL", "PUBLISH", "PUT", "PUTTING", "FINISH"}
    /\ Goto(w, "FAILING")
    /\ UNCHANGED <<rows, rx, files, objects>>

\* Media.fail, under this worker's own live lease.
FailUpload(w) ==
    LET u == wk[w].u
    IN /\ wk[w].pc = "FAILING"
       /\ SetUp(u, IF up[u].state = "PROCESSING" /\ up[u].attempts = wk[w].n /\ up[u].live
                   THEN Fail(up[u]) ELSE up[u])
       /\ Rest(w)
       /\ UNCHANGED <<valid, asset, rx, files, objects>>

\* The process dies, or its last transaction fails.
Crash(w) ==
    /\ wk[w].pc # "IDLE"
    /\ Rest(w)
    /\ UNCHANGED <<rows, rx, files, objects>>

-------------------------------------------------------------------------------
(* The worker: cleanup of what a failed or cancelled upload has left. *)

PurgeableIfFailed(u) == up[u].state = "FAILED" /\ up[u].aged /\ asset[u] = 0

Purgeable(u) == up[u].state \in {"FAILED", "CANCELLED"} /\ up[u].aged /\ asset[u] = 0

\* Media.purgeAllowed
PurgeAllowed(w, u) ==
    /\ wk[w].pc = "IDLE"
    /\ Purgeable(u) /\ ~up[u].purged
    /\ wk' = [wk EXCEPT ![w] = [pc |-> "PURGE", u |-> u, n |-> 0, part |-> 0]]
    /\ UNCHANGED <<rows, rx, files, objects>>

MarkersForgotten(u) == FALSE

\* A marker in the renamed group: an outcome the store may still produce.
PublicationUnresolved(u) == marked[u] # {}

\* CosMediaProvider.purge renames the group, then looks for markers in it, which
\* nobody can make or remove there any more; it throws when it finds one.
Quarantine(w) ==
    LET u == wk[w].u
    IN /\ wk[w].pc = "PURGE"
       /\ group' = [group EXCEPT ![u] = IF @ = "ACTIVE" THEN "TRASH" ELSE @]
       /\ IF PublicationUnresolved(u) THEN Rest(w) ELSE Goto(w, "QUARANTINED")
       /\ UNCHANGED <<rows, rx, staged, sealed, marked, objects>>

\* What the store lists under the upload is deleted.
DeleteObjects(w) ==
    /\ wk[w].pc = "QUARANTINED"
    /\ remote' = [remote EXCEPT ![wk[w].u] = {}]
    /\ Goto(w, "EMPTIED")
    /\ UNCHANGED <<rows, rx, files, flying>>

\* A second listing must be empty; then the renamed group is removed.
RemoveTrash(w) ==
    LET u == wk[w].u
    IN /\ wk[w].pc = "EMPTIED" /\ remote[u] = {}
       /\ group' = [group EXCEPT ![u] = IF @ = "NONE" THEN @ ELSE "REMOVED"]
       /\ staged' = [staged EXCEPT ![u] = "NONE"]
       /\ sealed' = [sealed EXCEPT ![u] = {}]
       /\ marked' = [marked EXCEPT ![u] = {}]
       /\ Goto(w, "PURGED")
       /\ UNCHANGED <<rows, rx, objects>>

\* Media.markPurged
MarkPurged(w) ==
    LET u == wk[w].u
    IN /\ wk[w].pc = "PURGED" /\ Purgeable(u)
       /\ SetUp(u, [up[u] EXCEPT !.purged = TRUE])
       /\ Rest(w)
       /\ UNCHANGED <<valid, asset, rx, files, objects>>

\* The cleanup throws and is tried again in a later cycle.
PurgeFails(w) ==
    /\ wk[w].pc \in {"PURGE", "QUARANTINED", "EMPTIED", "PURGED"}
    /\ Rest(w)
    /\ UNCHANGED <<rows, rx, files, objects>>

-------------------------------------------------------------------------------
Command(u) == Create(u) \/ Renew(u) \/ Complete(u) \/ Cancel(u)

Surroundings(u) == \/ Invalidate(u) \/ Overdue(u) \/ LeaseEnds(u) \/ Age(u)
                   \/ \E o \in Objects : Land(u, o)

Receiver(u) == \/ BeginReceive(u) \/ OpenStaging(u) \/ ReceiveBytes(u) \/ FinishReceive(u)
               \/ FinishReceiveRefused(u) \/ FailReceive(u) \/ ReceiverDies(u)

Processing(w) ==
    \/ Heartbeat(w) \/ Seal(w) \/ Mark(w) \/ Put(w) \/ Answered(w) \/ Check(w)
    \/ Retract(w) \/ Unmark(w) \/ Finish(w) \/ RemoveStaging(w) \/ StepFails(w)
    \/ FailUpload(w)

Cleanup(w) == \/ Quarantine(w) \/ DeleteObjects(w) \/ RemoveTrash(w) \/ MarkPurged(w)
              \/ PurgeFails(w)

Next ==
    \/ \E u \in Uploads : Command(u) \/ Surroundings(u) \/ Receiver(u)
    \/ \E w \in Workers :
         \/ Expire(w) \/ Processing(w) \/ Cleanup(w) \/ Crash(w)
         \/ \E u \in Uploads : Claim(w, u) \/ ClaimFails(w, u) \/ PurgeAllowed(w, u)

Spec == Init /\ [][Next]_vars

(***************************************************************************)
(* Fairness: deadlines pass, a running worker takes its next step, and the  *)
(* cycle that begins with expire comes round again.  A cleanup that is      *)
(* tried again and again is not cut off for ever at the same step.          *)
(***************************************************************************)
Fairness ==
    /\ \A u \in Uploads :
         /\ WF_vars(Overdue(u)) /\ WF_vars(Age(u))
         /\ WF_vars(OpenStaging(u) \/ ReceiveBytes(u) \/ FinishReceive(u)
                    \/ FinishReceiveRefused(u) \/ FailReceive(u))
    /\ \A w \in Workers :
         /\ WF_vars(Processing(w) \/ Cleanup(w))
         /\ SF_vars(Expire(w))
         /\ SF_vars(DeleteObjects(w)) /\ SF_vars(RemoveTrash(w)) /\ SF_vars(MarkPurged(w))
         /\ SF_vars(Quarantine(w))
         /\ \A u \in Uploads : SF_vars(PurgeAllowed(w, u))

FairSpec == Spec /\ Fairness

-------------------------------------------------------------------------------
(* Properties. *)

\* An asset has all its objects, and the sealed copy they came from, although
\* claims are taken over, uploads cancelled and cleaned up and PUTs delayed: what
\* finish records is what this very worker has published (lease, publishSealed).
ReadyIsComplete ==
    \A u \in Uploads : asset[u] # 0 =>
      /\ up[u].state = "READY" /\ group[u] = "ACTIVE" /\ asset[u] \in sealed[u]
      /\ \A part \in 1..NParts : <<asset[u], part>> \in remote[u]

\* What is recorded as purged has left nothing behind and never will: no delayed
\* writer makes a file, no PUT on its way makes an object ("Never pretend disk was
\* freed", media.ts:97; "never claim physical purge", cos-provider.ts:103).
PurgedIsEmpty ==
    \A u \in Uploads : up[u].purged =>
      /\ group[u] \in {"NONE", "REMOVED"} /\ staged[u] = "NONE"
      /\ remote[u] = {} /\ flying[u] = {}

\* From its receipt to its end an upload's bytes are there, for a worker that takes
\* over the claim of a dead one.
ReceivedBytesStay ==
    \A u \in Uploads : up[u].state \in {"UPLOADED", "QUEUED", "PROCESSING"} =>
      group[u] = "ACTIVE" /\ staged[u] = "FULL"

\* Every upload ends: neither a broken stream nor a dead worker nor a lost answer
\* leaves it occupying a place among the active ones (expire, claim).
UploadsEnd == \A u \in Uploads : u \in Active ~> Ended(u)

\* A failed or cancelled upload is purged and gives its storage back, unless a PUT
\* of unknown outcome forbids it.
LeftoversGo ==
    \A u \in Uploads : up[u].state \in {"FAILED", "CANCELLED"} ~> up[u].purged \/ marked[u] # {}
===============================================================================
