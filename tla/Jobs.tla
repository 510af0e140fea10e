--------------------------------- MODULE Jobs ---------------------------------
(***************************************************************************)
(* The jobs a worker carries out for a member: an import turns the rows of  *)
(* a previewed batch into people (imports.ts), an export turns a frozen     *)
(* manifest into a file to download (exports.ts). Both are rows that a      *)
(* worker claims under a lease, with a token drawn anew, a bounded number   *)
(* of times.                                                                *)
(*                                                                         *)
(* Every transaction is one action. It may commit and its answer be lost:   *)
(* the worker then sees STORE_UNAVAILABLE, as when it did not commit. A     *)
(* worker may stop between two transactions, or be so slow that its lease   *)
(* ends and another worker takes over.                                      *)
(***************************************************************************)
EXTENDS Integers

CONSTANTS
    JobIds,       \* submitted jobs
    Workers,      \* processes that run the worker loop
    NoJob,        \* what an idle worker works on
    NRows,        \* selected rows of an import
    MaxAttempts   \* LIMITS.jobMaxAttempts, the 3 of exports.ts

ASSUME JobConstants ==
    NoJob \notin JobIds /\ NRows \in Nat \ {0} /\ MaxAttempts \in Nat \ {0}

VARIABLES
    kind,     \* IMPORT or EXPORT
    job,      \* jobs and exports rows
    rows,     \* imports.rows of the batch, GONE once a deletion emptied it
    people,   \* people ever created from a row
    basis,    \* source, revisions and epochs are those the job was frozen with
    member,   \* the member who submitted it is active and permitted
    wk        \* the workers' local state

data == <<kind, rows, people, basis, member>>
vars == <<kind, job, rows, people, basis, member, wk>>

Rows == 1..NRows
Tokens == 0..MaxAttempts      \* 0 is null; a claim draws its number as token

ImportStates == {"NONE", "QUEUED", "RUNNING", "SUCCEEDED", "FAILED"}
ExportStates == {"NONE", "QUEUED", "READY", "STALE", "FAILED", "ERASED"}
\* NONE, a refusal (below 500), a store error (503), and what maintenance writes
Codes == {"NONE", "DENIED", "STORE", "ATTEMPTS_EXHAUSTED", "RECOVERY", "ERASED_BY_DELETION"}

JobRows == [state: ImportStates \cup ExportStates, attempts: Tokens, token: Tokens,
            live: BOOLEAN, code: Codes]
NoRow == [state |-> "NONE", attempts |-> 0, token |-> 0, live |-> FALSE, code |-> "NONE"]

WorkerStates == [pc: {"IDLE", "ROW", "FINISH", "PRODUCE", "FAILING"}, j: JobIds \cup {NoJob},
                 token: Tokens, row: Rows, code: {"NONE", "DENIED", "STORE"}]
Resting == [pc |-> "IDLE", j |-> NoJob, token |-> 0, row |-> 1, code |-> "NONE"]

\* Rows and workers have the shapes of the data model; an import never has a
\* state of an export, and no job is claimed more often than it may be.
TypeOK ==
    /\ kind \in [JobIds -> {"IMPORT", "EXPORT"}]
    /\ job \in [JobIds -> JobRows]
    /\ \A j \in JobIds :
          job[j].state \in (IF kind[j] = "IMPORT" THEN ImportStates ELSE ExportStates)
    /\ rows \in [JobIds -> [Rows -> {"VALID", "IMPORTED", "GONE"}]]
    /\ people \in [JobIds -> [Rows -> Nat]]
    /\ basis \in [JobIds -> BOOLEAN] /\ member \in [JobIds -> BOOLEAN]
    /\ wk \in [Workers -> WorkerStates]

Init ==
    /\ kind \in [JobIds -> {"IMPORT", "EXPORT"}]
    /\ job = [j \in JobIds |-> NoRow]
    /\ rows = [j \in JobIds |-> [r \in Rows |-> "VALID"]]
    /\ people = [j \in JobIds |-> [r \in Rows |-> 0]]
    /\ basis = [j \in JobIds |-> TRUE] /\ member = [j \in JobIds |-> TRUE]
    /\ wk = [w \in Workers |-> Resting]

-------------------------------------------------------------------------------
(* What the transactions ask of a row, and what they make of it. *)

Import(j) == kind[j] = "IMPORT"
Underway(j) == job[j].state \in {"QUEUED", "RUNNING"}

\* A mutation of Admitted: the source is looked at when the job is submitted only.
AdmittedOnce(j) == member[j] /\ (job[j].state = "NONE" => basis[j])

Admitted(j) == basis[j] /\ member[j]

SetJob(j, row) == job' = [job EXCEPT ![j] = row]
SetWorker(w, s) == wk' = [wk EXCEPT ![w] = s]
Settled(j, state, code) ==
    [job[j] EXCEPT !.state = state, !.token = 0, !.live = FALSE, !.code = code]
Failing(w, code) == [wk[w] EXCEPT !.pc = "FAILING", !.code = code]

-------------------------------------------------------------------------------
(* The member, and what changes around a job. *)

\* Imports.commit of a previewed batch, Exports.create
Submit(j) ==
    /\ job[j].state = "NONE" /\ Admitted(j)
    /\ SetJob(j, [NoRow EXCEPT !.state = "QUEUED"])
    /\ UNCHANGED <<data, wk>>

\* Imports.resume: only what the store refused, and only over rows that are still there.
Resume(j) ==
    /\ Import(j) /\ job[j].state = "FAILED" /\ job[j].code = "STORE"
    /\ job[j].attempts < MaxAttempts
    /\ Admitted(j) /\ \A r \in Rows : rows[j][r] # "GONE"
    /\ SetJob(j, [job[j] EXCEPT !.state = "QUEUED", !.token = 0, !.live = FALSE,
                                !.code = "NONE"])
    /\ UNCHANGED <<data, wk>>

\* A source is contained or revised, a permission revoked, a deadline passes: none
\* of them is ever undone, revisions and epochs only grow.
Withdraw(j) ==
    /\ basis[j]
    /\ basis' = [basis EXCEPT ![j] = FALSE]
    /\ UNCHANGED <<kind, job, rows, people, member, wk>>

\* An administrator disables a member, or admits them again.
ChangeMember(j) ==
    /\ member' = [member EXCEPT ![j] = ~@]
    /\ UNCHANGED <<kind, job, rows, people, basis, wk>>

\* The cleanup of a contained source empties the batch, and erases the export.
Erase(j) ==
    /\ ~basis[j]
    /\ \/ /\ Import(j) /\ rows[j][1] # "GONE"
          /\ rows' = [rows EXCEPT ![j] = [r \in Rows |-> "GONE"]]
          /\ UNCHANGED job
       \/ /\ ~Import(j) /\ job[j].state \notin {"NONE", "ERASED"}
          /\ SetJob(j, Settled(j, "ERASED", "ERASED_BY_DELETION"))
          /\ UNCHANGED rows
    /\ UNCHANGED <<kind, people, basis, member, wk>>

\* The preparation of a recovery stops what a restored database believes under way.
Isolate(j) ==
    /\ \/ Import(j) /\ Underway(j) /\ SetJob(j, Settled(j, "FAILED", "RECOVERY"))
       \/ /\ ~Import(j) /\ job[j].state \notin {"NONE", "ERASED"}
          /\ SetJob(j, Settled(j, "STALE", "RECOVERY"))
    /\ UNCHANGED <<data, wk>>

\* leaseUntil passes.
LeaseEnds(j) ==
    /\ job[j].live
    /\ SetJob(j, [job[j] EXCEPT !.live = FALSE])
    /\ UNCHANGED <<data, wk>>

-------------------------------------------------------------------------------
(* The worker: claim, process, report. *)

\* A mutation of Claimable: a job whose worker died is nobody's.
ClaimableIfQueued(j) == job[j].state = "QUEUED" /\ ~job[j].live

\* An export stays QUEUED while it is worked on; only its lease tells.
Claimable(j) ==
    \/ Import(j) /\ job[j].state = "QUEUED"
    \/ Import(j) /\ job[j].state = "RUNNING" /\ ~job[j].live
    \/ ~Import(j) /\ job[j].state = "QUEUED" /\ ~job[j].live

\* A mutation of AttemptsLeft: one claim too many.
AttemptsLeftOffByOne(j) == job[j].attempts <= MaxAttempts

AttemptsLeft(j) == job[j].attempts < MaxAttempts

\* Imports.claim, Exports.claim. When the answer is lost, nobody works on the job.
Claim(w, j) ==
    /\ wk[w].pc = "IDLE" /\ Claimable(j) /\ AttemptsLeft(j)
    /\ LET n == job[j].attempts + 1 IN
       /\ SetJob(j, [job[j] EXCEPT !.state = IF Import(j) THEN "RUNNING" ELSE @,
                                   !.attempts = n, !.token = n, !.live = TRUE])
       /\ \/ UNCHANGED wk
          \/ SetWorker(w, [Resting EXCEPT !.pc = IF Import(j) THEN "ROW" ELSE "PRODUCE",
                                          !.j = j, !.token = n])
    /\ UNCHANGED data

\* The same transaction, for a job that was claimed too often.
Exhaust(w, j) ==
    /\ wk[w].pc = "IDLE" /\ Claimable(j) /\ ~AttemptsLeft(j)
    /\ SetJob(j, Settled(j, "FAILED", "ATTEMPTS_EXHAUSTED"))
    /\ UNCHANGED <<data, wk>>

\* Imports.owned, Exports.owned
Owned(w) ==
    LET j == wk[w].j IN
    /\ job[j].state = (IF Import(j) THEN "RUNNING" ELSE "QUEUED")
    /\ job[j].token = wk[w].token /\ job[j].live

\* The transaction finds another holder, or none: the worker leaves the job alone.
LeaseLost(w) ==
    /\ wk[w].pc \in {"ROW", "FINISH", "PRODUCE"} /\ ~Owned(w)
    /\ SetWorker(w, Resting)
    /\ UNCHANGED <<job, data>>

\* The transaction refuses: the member, the source or the row is no longer there.
Refused(w) ==
    LET j == wk[w].j IN
    /\ wk[w].pc \in {"ROW", "PRODUCE"} /\ Owned(w)
    /\ ~Admitted(j) \/ (wk[w].pc = "ROW" /\ rows[j][wk[w].row] = "GONE")
    /\ SetWorker(w, Failing(w, "DENIED"))
    /\ UNCHANGED <<job, data>>

\* The transaction does not commit.
StoreFails(w) ==
    /\ wk[w].pc \in {"ROW", "FINISH", "PRODUCE"}
    /\ SetWorker(w, Failing(w, "STORE"))
    /\ UNCHANGED <<job, data>>

\* What a worker does next after a transaction that committed; the answer may be lost.
Go(w, s) == SetWorker(w, s) \/ SetWorker(w, Failing(w, "STORE"))
NextRow(w) ==
    IF wk[w].row < NRows THEN [wk[w] EXCEPT !.row = @ + 1] ELSE [wk[w] EXCEPT !.pc = "FINISH"]

\* A mutation of CreateOnce: the row's checkpoint is not looked at.
CreateAgain(j, r) ==
    /\ rows' = [rows EXCEPT ![j][r] = "IMPORTED"]
    /\ people' = [people EXCEPT ![j][r] = @ + 1]

\* What one row's transaction does to the batch and to the people.
CreateOnce(j, r) ==
    IF rows[j][r] = "IMPORTED" THEN UNCHANGED <<rows, people>>
    ELSE /\ rows' = [rows EXCEPT ![j][r] = "IMPORTED"]
         /\ people' = [people EXCEPT ![j][r] = @ + 1]

\* One row of Imports.process; the lease is extended.
ProcessRow(w) ==
    LET j == wk[w].j IN
    /\ wk[w].pc = "ROW" /\ Owned(w) /\ Admitted(j) /\ rows[j][wk[w].row] # "GONE"
    /\ CreateOnce(j, wk[w].row)
    /\ Go(w, NextRow(w))
    /\ UNCHANGED <<kind, job, basis, member>>

\* The last transaction of Imports.process
Finish(w) ==
    /\ wk[w].pc = "FINISH" /\ Owned(w)
    /\ SetJob(wk[w].j, Settled(wk[w].j, "SUCCEEDED", "NONE"))
    /\ Go(w, Resting)
    /\ UNCHANGED data

\* Exports.process: the dependencies are validated in the transaction that makes it READY.
Produce(w) ==
    /\ wk[w].pc = "PRODUCE" /\ Owned(w) /\ Admitted(wk[w].j)
    /\ SetJob(wk[w].j, Settled(wk[w].j, "READY", "NONE"))
    /\ Go(w, Resting)
    /\ UNCHANGED data

\* Mutations of MayReport: the report is written over whatever the job has become,
\* or over the claim of the worker that took it.
MayReportAnyway(w) == TRUE
MayReportUnderway(w) == Underway(wk[w].j)

\* What the catch of process asks: an export's report does not ask for the time.
MayReport(w) ==
    LET j == wk[w].j IN
    IF Import(j) THEN Owned(w)
    ELSE job[j].state = "QUEUED" /\ job[j].token = wk[w].token

ReportedState(w) ==
    LET j == wk[w].j IN
    IF Import(j) THEN "FAILED"
    ELSE IF wk[w].code = "DENIED" THEN "STALE"
    ELSE IF job[j].attempts < MaxAttempts THEN "QUEUED" ELSE "FAILED"

\* The catch of process
Report(w) ==
    /\ wk[w].pc = "FAILING"
    /\ IF MayReport(w) THEN SetJob(wk[w].j, Settled(wk[w].j, ReportedState(w), wk[w].code))
                       ELSE UNCHANGED job
    /\ SetWorker(w, Resting)
    /\ UNCHANGED data

\* The process dies, or the transaction of its report fails.
Abandon(w) ==
    /\ wk[w].pc # "IDLE"
    /\ SetWorker(w, Resting)
    /\ UNCHANGED <<job, data>>

-------------------------------------------------------------------------------
Around(j) ==
    \/ Submit(j) \/ Resume(j) \/ Withdraw(j) \/ ChangeMember(j)
    \/ Erase(j) \/ Isolate(j) \/ LeaseEnds(j)
Take(w) == \E j \in JobIds : Claim(w, j) \/ Exhaust(w, j)
Work(w) ==
    \/ LeaseLost(w) \/ Refused(w) \/ StoreFails(w) \/ ProcessRow(w) \/ Finish(w)
    \/ Produce(w) \/ Report(w)

Next ==
    \/ \E j \in JobIds : Around(j)
    \/ \E w \in Workers : Take(w) \/ Work(w) \/ Abandon(w)

Spec == Init /\ [][Next]_vars

(* A lease is a time and passes; the loop of a worker polls for as long as the
   service runs, and a step under way ends, answered or not. Members and the
   store owe nothing. *)
Fairness ==
    /\ \A j \in JobIds : WF_vars(LeaseEnds(j))
    /\ \A w \in Workers : WF_vars(Take(w)) /\ WF_vars(Work(w))

FairSpec == Spec /\ Fairness

-------------------------------------------------------------------------------
(* Properties *)

\* A row becomes one person, whatever answer is lost and whoever takes over the
\* job, and an import that SUCCEEDED left none of its rows out (the row checkpoint
\* in Imports.process).
EachRowOnce ==
    \A j \in JobIds, r \in Rows :
        /\ people[j][r] <= 1
        /\ job[j].state = "SUCCEEDED" => people[j][r] = 1

\* From the step that withdraws what a job was frozen with, the job creates no person
\* and hands out no new file: each transaction asks again, not only the first.
WithdrawnMakesNothing ==
    [][\A j \in JobIds : ~basis[j] =>
          /\ people'[j] = people[j]
          /\ job'[j].state = "READY" => job[j].state = "READY"]_vars

\* What a job came to stands. A success is final and so is an erasure; a failed
\* import starts again only when the store was to blame, and an export that was
\* made, refused or given up is only withdrawn or erased, never made again.
After(j) ==
    IF job[j].state = "READY" THEN {"STALE", "ERASED"}
    ELSE IF job[j].state = "STALE" THEN {"ERASED"}
    ELSE IF job[j].state = "FAILED"
         THEN IF ~Import(j) THEN {"STALE", "ERASED"}
              ELSE IF job[j].code = "STORE" THEN {"QUEUED"} ELSE {}
    ELSE {}
OutcomesStand ==
    [][\A j \in JobIds :
          job[j].state \notin {"NONE", "QUEUED", "RUNNING"} /\ job'[j].state # job[j].state
              => job'[j].state \in After(j)]_vars

\* While a worker holds the live lease of a job, no other worker decides it: neither a
\* late report of an earlier holder nor an exhausted count. Only a deletion and a
\* recovery may end it over the holder's head.
Holds(w, j) ==
    /\ wk[w].pc # "IDLE" /\ wk[w].j = j /\ Underway(j)
    /\ job[j].live /\ job[j].token = wk[w].token
HolderDecides ==
    [][\A j \in JobIds, w \in Workers :
          Holds(w, j) /\ wk'[w] = wk[w] /\ job'[j] # job[j]
              => \/ job'[j] = [job[j] EXCEPT !.live = FALSE]
                 \/ job'[j].code \in {"RECOVERY", "ERASED_BY_DELETION"}]_vars

\* A row becomes one person, what a job came to stands, nobody decides it over its holder's head,
\* and from the step that withdraws what it was frozen with it creates no person and hands out no
\* file (imports.ts process, exports.ts).
JobsAnswerOnce ==
    [](TypeOK /\ EachRowOnce) /\ OutcomesStand /\ WithdrawnMakesNothing /\ HolderDecides

\* A submitted job does not stay QUEUED or RUNNING forever, whatever workers die.
JobsEnd == \A j \in JobIds : Underway(j) ~> ~Underway(j)
===============================================================================
