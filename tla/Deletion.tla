-------------------------------- MODULE Deletion --------------------------------
(***************************************************************************)
(* The deletion of a person: the request with its plan (deletions.ts), the  *)
(* cleanup of what depends on the person (deletion-cleanup.ts) and the      *)
(* finalization that erases the person (deletion-finalization.ts and the    *)
(* DeletionFinalizer of apps/api/src/deletion). What depends on the person  *)
(* are frozen exports, each with a row that names the person as its         *)
(* dependency, and a private original.                                      *)
(*                                                                         *)
(* Every transaction is one action; its answer may be lost, its worker may  *)
(* die or be so slow that its lease ends. The objects are erased outside    *)
(* the database.                                                            *)
(***************************************************************************)
EXTENDS Integers, FiniteSets

CONSTANTS
    Exports,        \* exports that select the person, among others
    Asset,          \* the person's original
    Workers,        \* processes that run cleanup and finalization
    Nobody,         \* no token
    MaxAttempts,    \* MAX_ATTEMPTS of cleanup items and of finalizations
    StoreFailures   \* whether a transaction of a cleanup item may fail for the store

ASSUME DeletionConstants ==
    /\ IsFiniteSet(Exports) /\ Asset \notin Exports /\ Nobody \notin Workers
    /\ MaxAttempts \in Nat \ {0} /\ StoreFailures \in BOOLEAN

Items == (Exports \X {"EXPORT", "DEPENDENCY"}) \cup {<<Asset, "ASSET">>}
AssetItem == <<Asset, "ASSET">>

VARIABLES
    req,      \* deletionRequests row
    item,     \* deletionItems rows of the request
    export,   \* exports rows: LIVE while they hold the manifest
    dep,      \* whether the export's dependency on the person is there
    asset,    \* assets row
    object,   \* whether the objects of the asset are stored
    person,   \* whether the person is there, or only its tombstone
    basis,    \* the independent source a decision may retain the asset with
    active,   \* the member who started the cleanup is active and permitted
    wk,       \* the workers' local state
    calm      \* no worker dies any more and no answer is lost

records == <<export, dep, asset, person>>
world == <<basis, active, calm>>
deletionVars == <<req, item, records, object, wk, world>>

Ended == {"COMPLETED", "RETAINED_WITH_BASIS", "FAILED"}
ReqRows == [state: {"NONE", "DRAFT", "BLOCKED_FOR_USE", "CLEANING"} \cup Ended,
            frozen: BOOLEAN, cleaned: BOOLEAN, token: Workers \cup {Nobody}, live: BOOLEAN,
            ftoken: Workers \cup {Nobody}, flive: BOOLEAN, fattempts: 0..MaxAttempts]
NoReq == [state |-> "NONE", frozen |-> FALSE, cleaned |-> FALSE, token |-> Nobody,
          live |-> FALSE, ftoken |-> Nobody, flive |-> FALSE, fattempts |-> 0]

\* decision NONE: not an item of the request
ItemRows == [decision: {"NONE", "PENDING", "APPLY_PROPOSED", "RETAIN_WITH_BASIS"},
             state: {"NOT_STARTED", "PENDING", "DONE", "WAITING_EXTERNAL", "FAILED"},
             attempts: 0..MaxAttempts]
NoItem == [decision |-> "NONE", state |-> "NOT_STARTED", attempts |-> 0]

WorkerStates == [pc: {"IDLE", "LIST", "ITEM", "REPORT", "CLOSE",
                      "TASKS", "ERASE", "ERASED", "FINISH", "FFAIL"},
                 todo: SUBSET Items, it: Items]
Resting == [pc |-> "IDLE", todo |-> {}, it |-> AssetItem]

\* The rows and the workers have the shapes of the data model.
DeletionTypeOK ==
    /\ req \in ReqRows
    /\ item \in [Items -> ItemRows]
    /\ export \in [Exports -> {"NONE", "LIVE", "ERASED"}]
    /\ dep \in [Exports -> BOOLEAN]
    /\ asset \in {"READY", "DETACHED", "ERASED"}
    /\ object \in BOOLEAN /\ person \in {"ACTIVE", "ERASED"}
    /\ basis \in BOOLEAN /\ active \in BOOLEAN /\ calm \in BOOLEAN
    /\ wk \in [Workers -> WorkerStates]

DeletionInit ==
    /\ req = NoReq
    /\ item = [i \in Items |-> NoItem]
    /\ export = [e \in Exports |-> "NONE"] /\ dep = [e \in Exports |-> FALSE]
    /\ asset = "READY" /\ object = TRUE /\ person = "ACTIVE"
    /\ basis = TRUE /\ active = TRUE /\ calm = FALSE
    /\ wk = [w \in Workers |-> Resting]

-------------------------------------------------------------------------------
(* What the transactions ask. *)

\* deletionBlocked
Blocked == req.state \notin {"NONE", "DRAFT"}

Planned == {i \in Items : item[i].decision # "NONE"}
Retained == item[AssetItem].decision = "RETAIN_WITH_BASIS"

\* Deletions.scan: an export is found through its dependency on the person.
Scan == {i \in Items : i[1] \in Exports /\ dep[i[1]]} \cup {AssetItem}

\* Exports.validateDependencies: every dependency that is still there must hold. The
\* other subjects of an export are not being deleted.
Valid(e) == dep[e] => ~Blocked
Downloadable(e) == export[e] = "LIVE" /\ Valid(e)

\* A mutation of Retriable: one attempt too many.
RetriableOffByOne(i) == item[i].state \in {"PENDING", "FAILED"} /\ item[i].attempts <= MaxAttempts

Retriable(i) == item[i].state \in {"PENDING", "FAILED"} /\ item[i].attempts < MaxAttempts

Processable == {i \in Planned : Retriable(i)}
Unfinished == {i \in Planned : item[i].state # "DONE"}
Exhausted == {i \in Planned : item[i].state = "FAILED" /\ item[i].attempts = MaxAttempts}

\* actionPriority
Priority(i) ==
    CASE i[2] = "EXPORT" -> 50
      [] i[2] = "DEPENDENCY" -> 60
      [] i[2] = "ASSET" -> IF Retained THEN 90 ELSE 70

-------------------------------------------------------------------------------
(* The request, up to the start of the cleanup, and what changes meanwhile. *)

\* Exports.create, which selects the person
CreateExport(e) ==
    /\ export[e] = "NONE" /\ ~Blocked
    /\ export' = [export EXCEPT ![e] = "LIVE"]
    /\ dep' = [dep EXCEPT ![e] = TRUE]
    /\ UNCHANGED <<req, item, asset, person, object, wk, world>>

\* Deletions.create: a later draft takes the place of one that has become stale.
Draft ==
    /\ ~Blocked
    /\ req' = [NoReq EXCEPT !.state = "DRAFT"]
    /\ item' = [i \in Items |-> [NoItem EXCEPT
                   !.decision = IF i \notin Scan THEN "NONE"
                                ELSE IF i = AssetItem THEN "PENDING" ELSE "APPLY_PROPOSED"]]
    /\ UNCHANGED <<records, object, wk, world>>

\* A mutation of UpToDate: the draft is taken as it is.
TakenAsItIs == TRUE

\* Deletions.block scans again, and refuses a plan that is no longer what it finds.
UpToDate == Planned = Scan

Block ==
    /\ req.state = "DRAFT" /\ UpToDate
    /\ req' = [req EXCEPT !.state = "BLOCKED_FOR_USE"]
    /\ UNCHANGED <<item, records, object, wk, world>>

\* Deletions.decide
Decide(decision) ==
    /\ req.state = "BLOCKED_FOR_USE" /\ ~req.frozen
    /\ decision = "RETAIN_WITH_BASIS" => basis
    /\ item' = [item EXCEPT ![AssetItem].decision = decision]
    /\ UNCHANGED <<req, records, object, wk, world>>

\* Deletions.freezePlan
FreezePlan ==
    /\ req.state = "BLOCKED_FOR_USE" /\ ~req.frozen
    /\ \A i \in Planned : item[i].decision # "PENDING"
    /\ Retained => basis
    /\ req' = [req EXCEPT !.frozen = TRUE]
    /\ UNCHANGED <<item, records, object, wk, world>>

\* DeletionCleanup.start
Start ==
    /\ req.state = "BLOCKED_FOR_USE" /\ req.frozen /\ active
    /\ Retained => basis
    /\ req' = [req EXCEPT !.state = "CLEANING"]
    /\ item' = [i \in Items |-> IF i \in Planned THEN [item[i] EXCEPT !.state = "PENDING"]
                                ELSE item[i]]
    /\ UNCHANGED <<records, object, wk, world>>

\* The retaining source expires, is revised or is contained, which concerns nobody but a
\* plan that retains.
BasisLapses ==
    /\ basis /\ Retained /\ basis' = FALSE
    /\ UNCHANGED <<req, item, records, object, wk, active, calm>>

\* The member is disabled or loses the permission, or gets it back.
ChangeMember ==
    /\ active' = ~active
    /\ UNCHANGED <<req, item, records, object, wk, basis, calm>>

-------------------------------------------------------------------------------
(* The cleanup. *)

Goto(w, s) == wk' = [wk EXCEPT ![w] = s]
Free(r) == [r EXCEPT !.token = Nobody, !.live = FALSE]

\* DeletionCleanup.claim; that its answer is lost is a crash right after it.
Claim(w) ==
    /\ wk[w].pc = "IDLE" /\ req.state = "CLEANING" /\ ~req.cleaned /\ ~req.live
    /\ Processable # {}
    /\ req' = [req EXCEPT !.token = w, !.live = TRUE]
    /\ Goto(w, [Resting EXCEPT !.pc = "LIST"])
    /\ UNCHANGED <<item, records, object, world>>

\* The same transaction when there is nothing to process.
ClaimNothing(w) ==
    /\ wk[w].pc = "IDLE" /\ req.state = "CLEANING" /\ ~req.cleaned /\ ~req.live
    /\ Processable = {}
    /\ req' = [Free(req) EXCEPT !.cleaned = (Unfinished = {})]
    /\ UNCHANGED <<item, records, object, wk, world>>

\* DeletionCleanup.owned
Owned(w) == req.state = "CLEANING" /\ req.token = w /\ req.live

\* The first transaction of DeletionCleanup.process
List(w) ==
    /\ wk[w].pc = "LIST"
    /\ Goto(w, IF Owned(w) THEN [Resting EXCEPT !.pc = "ITEM", !.todo = Processable]
                           ELSE Resting)
    /\ UNCHANGED <<req, item, records, object, world>>

Now(w) == {i \in wk[w].todo : \A k \in wk[w].todo : Priority(i) <= Priority(k)}

\* Mutations of Outcome: the original is done with, or what is retained waits as well.
OutcomeDone(i) == "DONE"
OutcomeWaits(i) == IF i = AssetItem THEN "WAITING_EXTERNAL" ELSE "DONE"

\* DeletionCleanup.apply and the row it writes: originals wait for the finalization.
Outcome(i) == IF i = AssetItem /\ ~Retained THEN "WAITING_EXTERNAL" ELSE "DONE"

ApplyItem(i) ==
    /\ export' = IF i[2] = "EXPORT" THEN [export EXCEPT ![i[1]] = "ERASED"] ELSE export
    /\ dep' = IF i[2] = "DEPENDENCY" THEN [dep EXCEPT ![i[1]] = FALSE] ELSE dep
    /\ asset' = IF i = AssetItem /\ Retained THEN "DETACHED" ELSE asset
    /\ item' = [item EXCEPT ![i].state = Outcome(i), ![i].attempts = @ + 1]
    /\ req' = [req EXCEPT !.live = TRUE]
    /\ UNCHANGED <<person, object>>

Failing(w, i) == Goto(w, [Resting EXCEPT !.pc = "REPORT", !.it = i])
Refused(i) == ~active \/ (i = AssetItem /\ Retained /\ ~basis)

\* DeletionCleanup.processItem
CleanItem(w) ==
    /\ wk[w].pc = "ITEM" /\ Owned(w)
    /\ \E i \in Now(w) :
          /\ Retriable(i) /\ ~Refused(i)
          /\ ApplyItem(i)
          /\ \/ Goto(w, [wk[w] EXCEPT !.todo = @ \ {i}])
             \/ StoreFailures /\ Failing(w, i)
    /\ UNCHANGED world

\* processItem throws: refused, or by the store.
ItemFails(w) ==
    /\ wk[w].pc = "ITEM"
    /\ \E i \in Now(w) :
          /\ StoreFailures \/ (Owned(w) /\ Refused(i))
          /\ Failing(w, i)
    /\ UNCHANGED <<req, item, records, object, world>>

\* The lease is lost, or the list is at its end.
StopCleaning(w) ==
    /\ wk[w].pc = "ITEM"
    /\ ~Owned(w) \/ wk[w].todo = {}
    /\ Goto(w, [Resting EXCEPT !.pc = "CLOSE"])
    /\ UNCHANGED <<req, item, records, object, world>>

\* A mutation of MayReport: the item is not looked at.
MayReportDone(w) == req.token = w

\* What the catch of processItem asks: the token, and neither the state nor the time.
MayReport(w) == req.token = w /\ item[wk[w].it].state # "DONE"

\* The catch of processItem renews the lease; the list ends at the first failure.
ReportItem(w) ==
    /\ wk[w].pc = "REPORT"
    /\ IF MayReport(w)
       THEN /\ item' = [item EXCEPT ![wk[w].it].state = "FAILED",
                           ![wk[w].it].attempts = IF @ = MaxAttempts THEN @ ELSE @ + 1]
            /\ req' = [req EXCEPT !.live = TRUE]
       ELSE UNCHANGED <<item, req>>
    /\ Goto(w, [Resting EXCEPT !.pc = "CLOSE"])
    /\ UNCHANGED <<records, object, world>>

\* DeletionCleanup.finishCycle
CloseCycle(w) ==
    /\ wk[w].pc = "CLOSE"
    /\ req' = IF req.state = "CLEANING" /\ req.token = w
              THEN [Free(req) EXCEPT !.cleaned = @ \/ Unfinished = {}] ELSE req
    /\ Goto(w, Resting)
    /\ UNCHANGED <<item, records, object, world>>

-------------------------------------------------------------------------------
(* The finalization. *)

FreeF(r) == [r EXCEPT !.ftoken = Nobody, !.flive = FALSE]

\* A mutation of MayFinalize: it waits for the cleanup to have nothing left to do.
MayFinalizeCleaned == req.state = "CLEANING" /\ ~req.live /\ ~req.flive /\ req.cleaned

\* DeletionFinalization.claim waits for the cleanup to have nothing left to try.
MayFinalize == req.state = "CLEANING" /\ ~req.live /\ ~req.flive /\ Processable = {}

ClaimFinal(w) ==
    /\ wk[w].pc = "IDLE" /\ MayFinalize
    /\ Exhausted = {} /\ req.fattempts < MaxAttempts
    /\ req' = [req EXCEPT !.fattempts = @ + 1, !.ftoken = w, !.flive = TRUE]
    /\ Goto(w, [Resting EXCEPT !.pc = "TASKS"])
    /\ UNCHANGED <<item, records, object, world>>

\* The same transaction gives the request up.
GiveUp(w) ==
    /\ wk[w].pc = "IDLE" /\ MayFinalize
    /\ Exhausted # {} \/ req.fattempts = MaxAttempts
    /\ req' = [FreeF(req) EXCEPT !.state = "FAILED", !.fattempts = MaxAttempts]
    /\ UNCHANGED <<item, records, object, wk, world>>

\* DeletionFinalization.owned, its refusal of the member included
HoldsF(w) == req.state = "CLEANING" /\ req.ftoken = w /\ req.flive
OwnedF(w) == HoldsF(w) /\ active

\* mediaTasks, and the fence before an object is touched
Tasks(w) ==
    /\ wk[w].pc = "TASKS" /\ OwnedF(w)
    /\ Goto(w, [wk[w] EXCEPT !.pc = IF item[AssetItem].state = "WAITING_EXTERNAL"
                                    THEN "ERASE" ELSE "FINISH"])
    /\ UNCHANGED <<req, item, records, object, world>>

\* provider.purge; it may fail before or after the objects are gone.
EraseObject(w) ==
    /\ wk[w].pc = "ERASE"
    /\ \/ object' = FALSE /\ Goto(w, [wk[w] EXCEPT !.pc = "ERASED"])
       \/ ~calm /\ object' \in {object, FALSE} /\ Goto(w, [wk[w] EXCEPT !.pc = "FFAIL"])
    /\ UNCHANGED <<req, item, records, world>>

\* completeMediaPurge
AwaitsPurge == item[AssetItem].state = "WAITING_EXTERNAL"
CompletePurge(w) ==
    /\ wk[w].pc = "ERASED" /\ OwnedF(w)
    /\ asset' = "ERASED"
    /\ item' = IF AwaitsPurge THEN [item EXCEPT ![AssetItem].state = "DONE"] ELSE item
    /\ \/ Goto(w, [wk[w] EXCEPT !.pc = "FINISH"])
       \/ ~calm /\ Goto(w, [wk[w] EXCEPT !.pc = "FFAIL"])
    /\ UNCHANGED <<req, export, dep, person, object, world>>

\* DeletionFinalization.finish
AllDone == Unfinished = {}
Finish(w) ==
    /\ wk[w].pc = "FINISH" /\ OwnedF(w) /\ AllDone
    /\ person' = "ERASED"
    /\ req' = [FreeF(Free(req)) EXCEPT !.cleaned = TRUE,
                  !.state = IF Retained THEN "RETAINED_WITH_BASIS" ELSE "COMPLETED"]
    /\ \/ Goto(w, Resting)
       \/ ~calm /\ Goto(w, [wk[w] EXCEPT !.pc = "FFAIL"])
    /\ UNCHANGED <<item, export, dep, asset, object, world>>

\* A transaction of the finalization refuses, or the store does. `finish` does not report
\* the loss of its lease.
FinalFails(w) ==
    /\ wk[w].pc \in {"TASKS", "ERASED", "FINISH"}
    /\ ~OwnedF(w) \/ ~calm \/ (wk[w].pc = "FINISH" /\ ~AllDone)
    /\ Goto(w, IF wk[w].pc = "FINISH" /\ ~HoldsF(w) THEN Resting
                ELSE [wk[w] EXCEPT !.pc = "FFAIL"])
    /\ UNCHANGED <<req, item, records, object, world>>

\* DeletionFinalization.fail
FailFinal(w) ==
    /\ wk[w].pc = "FFAIL"
    /\ req' = IF req.state = "CLEANING" /\ req.ftoken = w
              THEN [FreeF(req) EXCEPT
                      !.state = IF req.fattempts = MaxAttempts THEN "FAILED" ELSE @]
              ELSE req
    /\ Goto(w, Resting)
    /\ UNCHANGED <<item, records, object, world>>

-------------------------------------------------------------------------------
(* Time and failures. *)

AtCleanup(w) == wk[w].pc \in {"LIST", "ITEM", "REPORT", "CLOSE"}
AtFinal(w) == wk[w].pc \in {"TASKS", "ERASE", "ERASED", "FINISH", "FFAIL"}

\* A lease ends; once nothing fails any more, not under a worker that is at work.
LeaseEnds ==
    /\ \/ /\ req.live /\ (~calm \/ ~\E w \in Workers : AtCleanup(w) /\ req.token = w)
          /\ req' = [req EXCEPT !.live = FALSE]
       \/ /\ req.flive /\ (~calm \/ ~\E w \in Workers : AtFinal(w) /\ req.ftoken = w)
          /\ req' = [req EXCEPT !.flive = FALSE]
    /\ UNCHANGED <<item, records, object, wk, world>>

Crash(w) ==
    /\ ~calm /\ wk[w].pc # "IDLE"
    /\ Goto(w, Resting)
    /\ UNCHANGED <<req, item, records, object, world>>

CalmDown ==
    /\ ~calm /\ calm' = TRUE
    /\ UNCHANGED <<req, item, records, object, wk, basis, active>>

-------------------------------------------------------------------------------
Around ==
    \/ \E e \in Exports : CreateExport(e)
    \/ Draft \/ Block \/ FreezePlan \/ Start \/ BasisLapses \/ ChangeMember
    \/ \E decision \in {"APPLY_PROPOSED", "RETAIN_WITH_BASIS"} : Decide(decision)
Cleaning(w) ==
    \/ Claim(w) \/ ClaimNothing(w) \/ List(w) \/ CleanItem(w) \/ ItemFails(w)
    \/ StopCleaning(w) \/ ReportItem(w) \/ CloseCycle(w)
Finalizing(w) ==
    \/ ClaimFinal(w) \/ GiveUp(w) \/ Tasks(w) \/ EraseObject(w) \/ CompletePurge(w)
    \/ Finish(w) \/ FinalFails(w) \/ FailFinal(w)

DeletionNext ==
    \/ Around \/ LeaseEnds \/ CalmDown
    \/ \E w \in Workers : Cleaning(w) \/ Finalizing(w) \/ Crash(w)

DeletionSpec == DeletionInit /\ [][DeletionNext]_deletionVars

(* A worker's loop runs the cleanup and the finalization in turn for as long as the
   service runs, and leases are times. Members owe nothing. *)
Fairness ==
    /\ WF_deletionVars(LeaseEnds) /\ WF_deletionVars(CalmDown)
    /\ \A w \in Workers : WF_deletionVars(Cleaning(w)) /\ WF_deletionVars(Finalizing(w))

FairSpec == DeletionSpec /\ Fairness

-------------------------------------------------------------------------------
(* Properties *)

\* From the moment the person is blocked, everything that depends on them is an item of
\* the request: what was made between the draft and the block is not forgotten.
PlanIsComplete == Blocked => Scan \subseteq Planned

\* A deletion that says it is complete is: no export holds the person, no dependency
\* names them, the originals are gone, or kept only where a member decided so, and the
\* person is a tombstone.
FinishedIsClean ==
    req.state \in {"COMPLETED", "RETAINED_WITH_BASIS"} =>
        /\ person = "ERASED"
        /\ \A e \in Exports : export[e] # "LIVE" /\ ~dep[e]
        /\ IF Retained THEN asset = "DETACHED" /\ object
           ELSE asset = "ERASED" /\ ~object

\* What is done stays done: no late report of a worker makes a finished item fail, and a
\* request that ended stays as it ended.
DoneStands ==
    [][/\ \A i \in Items : item[i].state = "DONE" => item'[i] = item[i]
       /\ req.state \in Ended => req'.state = req.state]_deletionVars

\* An original is erased, and the person with it, only in a cleanup that a member
\* started, and never an original the plan retains.
NothingUnplannedIsErased ==
    /\ (~object \/ asset = "ERASED") => ~Retained /\ req.state \in {"CLEANING"} \cup Ended
    /\ person = "ERASED" => req.state \in {"COMPLETED", "RETAINED_WITH_BASIS"}

\* A cleanup that was started ends, with its result or as FAILED, once workers stop
\* dying.
CleaningEnds == req.state = "CLEANING" ~> req.state \in Ended

\* WP5_DELETION_CLEANING.md:23: from the block on, every old export is refused.
OldExportsAreRefused == Blocked => \A e \in Exports : ~Downloadable(e)
===============================================================================
