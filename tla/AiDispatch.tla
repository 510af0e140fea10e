------------------------------ MODULE AiDispatch ------------------------------
(***************************************************************************)
(* The AI cost ledger (ai-ledger.ts), the dispatcher that makes one network *)
(* call between two transactions (ai-dispatch.ts), the worker that sweeps   *)
(* and dispatches (ai/worker.ts), and the commands that meet them: create,  *)
(* cancel, reject, apply (ai-business.ts), reconcile, unfreeze, approve     *)
(* (ai-operations.ts), save a connection (ai-connection.ts), erase a task   *)
(* and isolate after a restore (ai-maintenance.ts).                         *)
(*                                                                         *)
(* Every database transaction is one action: PrismaStore takes one global   *)
(* advisory lock.  The network call, the crash of a worker and the lost     *)
(* answer of a commit fall between two transactions and are actions too.    *)
(* One workspace, one currency, and one requester per run are modelled.     *)
(***************************************************************************)
EXTENDS Integers, FiniteSets, Functions

CONSTANTS
    Runs,          \* request keys: an aiRuns row each, once reserved
    TestRuns,      \* the runs made by testConnection, which have no aiTasks row
    Workers,       \* worker processes
    NoRun,         \* what an idle worker works on
    PerTask,       \* perTaskLimitUnits, by configuration revision
    Daily,         \* dailyLimitUnits, by configuration revision
    Charges,       \* the amounts a provider or a bill may name
    MaxUnits,      \* the largest amount the ledger stores (2_000_000_000)
    MaxAttempts,   \* maxAttempts of the configuration
    Timeout,       \* timeoutMs, in ticks
    SweepAge,      \* the 130 s after which the worker gives an attempt up
    MaxDay,        \* bound: budget periods
    MaxRev,        \* bound: configuration revisions
    MaxEpoch       \* bound: recovery epochs

ASSUME ModelConstants ==
    /\ IsFiniteSet(Runs) /\ TestRuns \subseteq Runs /\ NoRun \notin Runs
    /\ MaxRev \in Nat \ {0} /\ MaxEpoch \in Nat \ {0} /\ MaxDay \in Nat
    /\ PerTask \in [1..MaxRev -> Nat \ {0}] /\ Daily \in [1..MaxRev -> Nat \ {0}]
    /\ Charges \subseteq Nat /\ MaxUnits \in Nat
    /\ MaxAttempts \in Nat \ {0}

\* validateAiConfig and ModelConnectionSchema: a task fits in a day, and the
\* longest request (120 s) ends before the sweep's age (130 s).
ASSUME CodeConstants ==
    /\ \A v \in 1..MaxRev : PerTask[v] <= Daily[v]
    /\ Timeout \in Nat \ {0} /\ SweepAge \in Nat /\ Timeout < SweepAge

VARIABLES
    day,        \* the budget period the clock is in
    conf,       \* the AI connection, its approval, and the recovery epoch
    budget,     \* aiBudgets, by day
    releases,   \* days with an aiBudgetReleases row
    run,        \* aiRuns
    att,        \* aiAttempts, by run and attemptNo
    meta,       \* runs with an aiResponseMetadata row
    task,       \* aiTasks.proposalState, by run
    basis,      \* whether the sources, grants, scopes and member of a run still hold
    wk,         \* the workers' local state
    isolating,  \* runs the isolation transaction has still to visit
    sends       \* history: requests that left for the provider, by run

ledger == <<budget, releases, run, att>>
vars == <<day, conf, budget, releases, run, att, meta, task, basis, wk, isolating, sends>>

NoCharge == -1      \* amountUnits undefined, settledUnits null

Unresolved == {"MAY_HAVE_EXECUTED", "UNKNOWN"}
OpenStates == {"QUEUED", "RUNNING", "UNKNOWN"}
ProposalStates == {"NONE", "PENDING", "REJECTED", "APPLIED", "ERASED"}
Outputs == {"NULL", "BAD", "EMPTY", "CHANGES"}

AttNos == 1..MaxAttempts
Days == 0..MaxDay

NoBudget == [reserved |-> 0, settled |-> 0, frozen |-> FALSE]
NoAiRun == [state |-> "NONE", day |-> 0, no |-> 0, rev |-> 1, epoch |-> 1,
            reserved |-> 0, settled |-> NoCharge, cancel |-> FALSE]
NoAttempt == [state |-> "ABSENT", age |-> 0, by |-> "NONE", amount |-> 0]
Resting == [pc |-> "IDLE", r |-> NoRun, n |-> 0, rev |-> 0, epoch |-> 0,
            out |-> "NONE", amount |-> NoCharge]

PCs == {"IDLE", "SWEPT", "CANDIDATE", "CONFIGURED", "REFUSED",
        "PREPARED", "SENT", "RECEIVED", "FAILED"}

(***************************************************************************)
(* The shape of the state.                                                  *)
(***************************************************************************)
Budgets == [reserved: Int, settled: Nat, frozen: BOOLEAN]
AiRuns == [state: OpenStates \cup {"NONE", "SUCCEEDED", "CANCELLED"},
           day: Days, no: Nat, rev: 1..MaxRev, epoch: 1..MaxEpoch,
           reserved: Nat, settled: Nat \cup {NoCharge}, cancel: BOOLEAN]
Attempts == [state: Unresolved \cup {"ABSENT", "SUCCEEDED", "NOT_EXECUTED"},
             age: 0..SweepAge, by: {"NONE", "PROVIDER", "REVIEWER"}, amount: Nat]
WorkerRecords == [pc: PCs, r: Runs \cup {NoRun}, n: 0..MaxAttempts, rev: 0..MaxRev,
                  epoch: 0..MaxEpoch, out: Outputs \cup {"NONE"}, amount: Charges \cup {NoCharge}]
WorkerStates == {s \in WorkerRecords :
                   /\ s.pc \notin {"IDLE", "SWEPT"} => s.r \in Runs
                   /\ s.pc = "CONFIGURED" => s.rev # 0
                   /\ s.pc \in {"PREPARED", "SENT", "RECEIVED", "FAILED"} => s.n # 0 /\ s.rev # 0}

\* The ledger's rows and the workers' local state have the shapes that
\* ai-ledger-model.ts and dispatchAi give them, and a worker past candidate
\* selection works on a run, past begin on an attempt.
TypeOK ==
    /\ day \in Days
    /\ conf \in [rev: 1..MaxRev, approved: BOOLEAN, epoch: 1..MaxEpoch]
    /\ budget \in [Days -> Budgets]
    /\ releases \subseteq Days
    /\ run \in [Runs -> AiRuns]
    /\ att \in [Runs -> [AttNos -> Attempts]]
    /\ meta \subseteq Runs
    /\ task \in [Runs -> ProposalStates]
    /\ basis \in [Runs -> {"CURRENT", "EDITED", "CHANGED"}]
    /\ wk \in [Workers -> WorkerStates]
    /\ isolating \subseteq Runs
    /\ sends \in [Runs -> Nat]

Init ==
    /\ day = 0
    /\ conf = [rev |-> 1, approved |-> TRUE, epoch |-> 1]
    /\ budget = [d \in Days |-> NoBudget]
    /\ releases = {}
    /\ run = [r \in Runs |-> NoAiRun]
    /\ att = [r \in Runs |-> [n \in AttNos |-> NoAttempt]]
    /\ meta = {}
    /\ task = [r \in Runs |-> "NONE"]
    /\ basis = [r \in Runs |-> "CURRENT"]
    /\ wk = [w \in Workers |-> Resting]
    /\ isolating = {}
    /\ sends = [r \in Runs |-> 0]

-------------------------------------------------------------------------------
(* The ledger's transaction primitives.                                      *)

Total(d) == budget[d].reserved + budget[d].settled
AnyFrozen == \E d \in Days : budget[d].frozen

\* AiLedger.current: the run was reserved under the configuration c and under
\* the recovery epoch the workspace is in.
Current(r, c) == /\ run[r].rev = c.rev
                 /\ run[r].epoch = conf.epoch /\ conf.epoch = c.epoch

CancelRunForgetsMoney(rec) ==
    IF rec.cancel \/ rec.state \notin OpenStates THEN rec
    ELSE [rec EXCEPT !.state = "CANCELLED", !.cancel = TRUE, !.settled = 0]

\* AiLedger.cancel, on the run's row: a queued run ends, one that may have been
\* sent only remembers the request.
CancelRun(rec) ==
    IF rec.cancel \/ rec.state \notin OpenStates THEN rec
    ELSE IF rec.state = "QUEUED"
         THEN [rec EXCEPT !.state = "CANCELLED", !.cancel = TRUE, !.settled = 0]
         ELSE [rec EXCEPT !.cancel = TRUE]

\* The reservation AiLedger.cancel gives back.
Released(rec) == IF rec.state = "QUEUED" /\ ~rec.cancel THEN rec.reserved ELSE 0

Cancel(r) ==
    /\ run' = [run EXCEPT ![r] = CancelRun(run[r])]
    /\ budget' = [budget EXCEPT ![run[r].day].reserved = @ - Released(run[r])]

\* AiLedger.unknown; not enabled (the transaction throws) on a settled attempt.
MarkUnknown(r, n) ==
    \/ /\ att[r][n].state = "UNKNOWN"
       /\ UNCHANGED <<att, run>>
    \/ /\ att[r][n].state = "MAY_HAVE_EXECUTED"
       /\ att' = [att EXCEPT ![r][n].state = "UNKNOWN"]
       /\ run' = [run EXCEPT ![r].state = "UNKNOWN"]

\* A settlement that proves nonexecution puts the run back in the queue, with
\* its reservation, unless its cancellation was asked for.
Requeues(rec, outcome) == outcome = "NOT_EXECUTED" /\ ~rec.cancel

SettledRun(rec, outcome, amount) ==
    IF Requeues(rec, outcome) THEN [rec EXCEPT !.state = "QUEUED"]
    ELSE [rec EXCEPT !.state = IF rec.cancel THEN "CANCELLED" ELSE "SUCCEEDED",
                     !.settled = amount]

SettledBudget(b, rec, outcome, amount) ==
    IF Requeues(rec, outcome) THEN b
    ELSE [reserved |-> b.reserved - rec.reserved,
          settled  |-> b.settled + amount,
          frozen   |-> b.frozen \/ amount > rec.reserved]

\* AiLedger.settle, where rec is the run's row as this transaction has left it.
\* The same settlement again changes nothing; another one throws.
Settle(r, n, rec, outcome, amount, by) ==
    LET a == att[r][n]
        b == SettledBudget(budget[rec.day], rec, outcome, amount)
    IN \/ /\ a.by = by /\ a.state = outcome /\ a.amount = amount
          /\ run' = [run EXCEPT ![r] = rec]
          /\ UNCHANGED <<att, budget>>
       \/ /\ a.by = "NONE" /\ a.state \in Unresolved
          /\ b.settled <= MaxUnits
          /\ att' = [att EXCEPT ![r][n] = [a EXCEPT !.state = outcome, !.by = by,
                                                    !.amount = amount]]
          /\ run' = [run EXCEPT ![r] = SettledRun(rec, outcome, amount)]
          /\ budget' = [budget EXCEPT ![rec.day] = b]

-------------------------------------------------------------------------------
(* Requests of members.                                                      *)

AffordableIgnoringReserved == budget[day].settled + PerTask[conf.rev] <= Daily[conf.rev]

\* The day's limit still holds this reservation.
AffordableToday == Total(day) + PerTask[conf.rev] <= Daily[conf.rev]

\* AiLedger.reserve, under AiBusiness.create (which needs an approved
\* configuration and inserts the task) or testConnection (which needs neither).
\* A request key that already has its run changes nothing.
Reserve(r) ==
    /\ run[r].state = "NONE"
    /\ r \in TestRuns \/ conf.approved
    /\ ~AnyFrozen
    /\ AffordableToday
    /\ budget' = [budget EXCEPT ![day].reserved = @ + PerTask[conf.rev]]
    /\ run' = [run EXCEPT ![r] =
                 [NoAiRun EXCEPT !.state = "QUEUED", !.day = day, !.rev = conf.rev,
                                 !.no = Cardinality({q \in Runs : run[q].state # "NONE"}),
                                 !.epoch = conf.epoch, !.reserved = PerTask[conf.rev]]]
    /\ UNCHANGED <<day, conf, releases, att, meta, task, basis, wk, isolating, sends>>

HasTask(r) == r \notin TestRuns /\ run[r].state # "NONE" /\ task[r] # "ERASED"

ProposalSurvives(p) == p

CancelledProposal(p) == IF p = "PENDING" THEN "REJECTED" ELSE p

\* AiBusiness.cancel.
CancelTask(r) ==
    /\ HasTask(r) /\ basis[r] # "CHANGED"
    /\ Cancel(r)
    /\ task' = [task EXCEPT ![r] = CancelledProposal(@)]
    /\ UNCHANGED <<day, conf, releases, att, meta, basis, wk, isolating, sends>>

\* AiBusiness.reject.
RejectProposal(r) ==
    /\ HasTask(r) /\ basis[r] # "CHANGED" /\ task[r] = "PENDING"
    /\ task' = [task EXCEPT ![r] = "REJECTED"]
    /\ UNCHANGED <<day, conf, ledger, meta, basis, wk, isolating, sends>>

\* AiBusiness.apply.
ApplyProposal(r) ==
    /\ HasTask(r) /\ basis[r] = "CURRENT" /\ conf.approved
    /\ run[r].state = "SUCCEEDED" \/ (run[r].state = "UNKNOWN" /\ r \in meta)
    /\ ~run[r].cancel /\ run[r].rev = conf.rev /\ run[r].epoch = conf.epoch
    /\ task[r] = "PENDING"
    /\ task' = [task EXCEPT ![r] = "APPLIED"]
    /\ UNCHANGED <<day, conf, ledger, meta, basis, wk, isolating, sends>>

\* eraseAi, the cleanup of a task under a deletion request.
EraseTask(r) ==
    /\ HasTask(r)
    /\ Cancel(r)
    /\ task' = [task EXCEPT ![r] = "ERASED"]
    /\ UNCHANGED <<day, conf, releases, att, meta, basis, wk, isolating, sends>>

\* A source, grant, scope or target behind a run is edited (access fails only
\* when it is strict), or its protection or the requester's membership changes
\* (access always fails).  Neither is ever undone for that run.
ChangeBasis(r) ==
    /\ run[r].state # "NONE"
    /\ \/ basis[r] = "CURRENT" /\ basis' = [basis EXCEPT ![r] = "EDITED"]
       \/ basis[r] # "CHANGED" /\ basis' = [basis EXCEPT ![r] = "CHANGED"]
    /\ UNCHANGED <<day, conf, ledger, meta, task, wk, isolating, sends>>

-------------------------------------------------------------------------------
(* Requests of the administrator.                                            *)

\* saveConnection: a new revision, and no approval survives it.
SaveConnection ==
    /\ conf.rev < MaxRev
    /\ conf' = [conf EXCEPT !.rev = @ + 1, !.approved = FALSE]
    /\ UNCHANGED <<day, ledger, meta, task, basis, wk, isolating, sends>>

\* AiOperations.approval, in both directions; also the reviewer losing the role.
ToggleApproval ==
    /\ conf' = [conf EXCEPT !.approved = ~@]
    /\ UNCHANGED <<day, ledger, meta, task, basis, wk, isolating, sends>>

ReconcileForgetsResponse(r, n, outcome, amount) ==
    /\ att[r][n].state = "UNKNOWN"
    /\ outcome = "NOT_EXECUTED" => amount = 0

\* What reconcile and settle demand of the reviewer's finding.
MayReconcile(r, n, outcome, amount) ==
    /\ att[r][n].state = "UNKNOWN"
    /\ outcome = "NOT_EXECUTED" => amount = 0
    /\ r \in meta => outcome # "NOT_EXECUTED"

RunStaysOpen(r) == run[r]

\* reconcile cancels the run first, unless a response was recorded.
RunToReconcile(r) == IF r \in meta THEN run[r] ELSE CancelRun(run[r])

\* AiOperations.reconcile.  The attempt is UNKNOWN, so the run is too and the
\* cancellation releases nothing.
Reconcile(r, n, outcome, amount) ==
    /\ MayReconcile(r, n, outcome, amount)
    /\ Settle(r, n, RunToReconcile(r), outcome, amount, "REVIEWER")
    /\ UNCHANGED <<day, conf, releases, meta, task, basis, wk, isolating, sends>>

\* AiOperations.unfreeze.
Unfreeze(d) ==
    /\ budget[d].frozen
    /\ \A r \in Runs, n \in AttNos : att[r][n].state \notin Unresolved
    /\ conf.approved
    /\ Total(day) <= Daily[conf.rev]
    /\ releases' = releases \cup {d}
    /\ budget' = [budget EXCEPT ![d].frozen = FALSE]
    /\ UNCHANGED <<day, conf, run, att, meta, task, basis, wk, isolating, sends>>

\* prepareRecovery opens a new recovery epoch on a restored database, with the
\* deployment in maintenance: no worker runs.  isolateAi then visits every run
\* in the same transaction; Next lets nothing else happen before it is done.
\* It also revokes every grant, which strict access to a task then refuses.
Isolate ==
    /\ conf.epoch < MaxEpoch
    /\ conf' = [conf EXCEPT !.epoch = @ + 1, !.approved = FALSE]
    /\ wk' = [w \in Workers |-> Resting]
    /\ isolating' = Runs
    /\ UNCHANGED <<day, ledger, meta, task, basis, sends>>

GivenUp(a) == IF a.state = "MAY_HAVE_EXECUTED" THEN [a EXCEPT !.state = "UNKNOWN"] ELSE a

IsolateRun(r) ==
    LET rec == CancelRun(run[r])
        hit == \E n \in AttNos : att[r][n].state = "MAY_HAVE_EXECUTED"
    IN /\ run' = [run EXCEPT ![r] = IF hit THEN [rec EXCEPT !.state = "UNKNOWN"] ELSE rec]
       /\ budget' = [budget EXCEPT ![run[r].day].reserved = @ - Released(run[r])]
       /\ att' = [att EXCEPT ![r] = [n \in AttNos |-> GivenUp(att[r][n])]]
       /\ task' = [task EXCEPT ![r] = CancelledProposal(@)]
       /\ basis' = [basis EXCEPT ![r] = IF @ = "CURRENT" THEN "EDITED" ELSE @]
       /\ isolating' = isolating \ {r}
       /\ UNCHANGED <<day, conf, releases, meta, wk, sends>>

-------------------------------------------------------------------------------
(* The worker: one cycle sweeps, picks the oldest queued run and dispatches it. *)

Goto(w, pc) == wk' = [wk EXCEPT ![w].pc = pc]
Rest(w) == wk' = [wk EXCEPT ![w] = Resting]

NeverDue(a) == FALSE

\* An attempt the sweep gives up.
Due(a) == a.state = "MAY_HAVE_EXECUTED" /\ a.age >= SweepAge

Sweep(w) ==
    /\ wk[w].pc = "IDLE"
    /\ att' = [r \in Runs |-> [n \in AttNos |->
                 IF Due(att[r][n]) THEN [att[r][n] EXCEPT !.state = "UNKNOWN"] ELSE att[r][n]]]
    /\ run' = [r \in Runs |-> IF \E n \in AttNos : Due(att[r][n])
                              THEN [run[r] EXCEPT !.state = "UNKNOWN"] ELSE run[r]]
    /\ Goto(w, "SWEPT")
    /\ UNCHANGED <<day, conf, budget, releases, meta, task, basis, isolating, sends>>

Queued == {r \in Runs : run[r].state = "QUEUED"}

NoCandidate(w) ==
    /\ wk[w].pc = "SWEPT" /\ Queued = {}
    /\ Rest(w)
    /\ UNCHANGED <<day, conf, ledger, meta, task, basis, isolating, sends>>

\* The candidates' transaction; the adapter is loaded under the revision of then.
\* A task that already has a proposal is no longer eligible.
Pick(w) ==
    /\ wk[w].pc = "SWEPT"
    /\ \E r \in Queued :
         /\ \A q \in Queued : run[r].no <= run[q].no
         /\ wk' = [wk EXCEPT ![w].pc = IF r \in TestRuns \/ task[r] = "NONE"
                                       THEN "CANDIDATE" ELSE "REFUSED",
                             ![w].r = r, ![w].rev = conf.rev, ![w].epoch = conf.epoch]
    /\ UNCHANGED <<day, conf, ledger, meta, task, basis, isolating, sends>>

\* A later transaction reads the configuration the dispatch will insist on.
Configure(w) ==
    /\ wk[w].pc = "CANDIDATE"
    /\ \/ /\ wk[w].r \in TestRuns \/ conf.approved
          /\ wk' = [wk EXCEPT ![w].pc = "CONFIGURED", ![w].rev = conf.rev, ![w].epoch = conf.epoch]
       \/ /\ (wk[w].r \notin TestRuns /\ ~conf.approved) \/ conf.rev # wk[w].rev
          /\ Goto(w, "REFUSED")
    /\ UNCHANGED <<day, conf, ledger, meta, task, basis, isolating, sends>>

\* policy.authorize: the configuration is still c and approved, and strict
\* access rebuilds the same input.  A connection test needs no approval.
Authorized(r, c) ==
    /\ conf.rev = c.rev /\ conf.epoch = c.epoch
    /\ basis[r] = "CURRENT"
    /\ r \in TestRuns \/ (conf.approved /\ task[r] # "ERASED")

NextNoOffByOne(r) == Cardinality({n \in AttNos : att[r][n].state # "ABSENT"})

NextNo(r) == Cardinality({n \in AttNos : att[r][n].state # "ABSENT"}) + 1

MayBegin(w) ==
    LET r == wk[w].r
    IN /\ Authorized(r, wk[w])
       /\ Current(r, wk[w])
       /\ run[r].state = "QUEUED" /\ ~run[r].cancel
       /\ run[r].day = day
       /\ ~AnyFrozen
       /\ run[r].reserved <= PerTask[wk[w].rev] /\ Total(day) <= Daily[wk[w].rev]
       /\ \A n \in AttNos : att[r][n].state \in {"ABSENT", "NOT_EXECUTED"}
       /\ NextNo(r) <= MaxAttempts

\* The first transaction of dispatchAi.  When the commit's answer is lost, the
\* worker gives up and the attempt stays behind.
Begin(w) ==
    LET r == wk[w].r
        n == NextNo(r)
    IN /\ wk[w].pc = "CONFIGURED"
       /\ MayBegin(w)
       /\ att' = [att EXCEPT ![r][n] = [NoAttempt EXCEPT !.state = "MAY_HAVE_EXECUTED"]]
       /\ run' = [run EXCEPT ![r].state = "RUNNING"]
       /\ \/ wk' = [wk EXCEPT ![w].pc = "PREPARED", ![w].n = n]
          \/ Rest(w)
       /\ UNCHANGED <<day, conf, budget, releases, meta, task, basis, isolating, sends>>

Refuse(w) ==
    /\ wk[w].pc = "CONFIGURED" /\ ~MayBegin(w)
    /\ Goto(w, "REFUSED")
    /\ UNCHANGED <<day, conf, ledger, meta, task, basis, isolating, sends>>

RefusedStaysQueued(r) == UNCHANGED <<run, budget>>

\* What becomes of a run whose dispatch was refused: it is cancelled, but only
\* while it is queued, since another worker may have sent it by now.
CloseRefused(r) ==
    IF run[r].state = "QUEUED" THEN Cancel(r) ELSE UNCHANGED <<run, budget>>

GiveUp(w) ==
    /\ wk[w].pc = "REFUSED"
    /\ CloseRefused(wk[w].r)
    /\ Rest(w)
    /\ UNCHANGED <<day, conf, releases, att, meta, task, basis, isolating, sends>>

NoSendWindow(a) == TRUE

\* The request may leave only this soon after its attempt was committed.
SendWindow(a) == a.age < Timeout

Send(w) ==
    LET r == wk[w].r
    IN /\ wk[w].pc = "PREPARED"
       /\ SendWindow(att[r][wk[w].n])
       /\ sends' = [sends EXCEPT ![r] = @ + 1]
       /\ Goto(w, "SENT")
       /\ UNCHANGED <<day, conf, ledger, meta, task, basis, isolating>>

Receive(w) ==
    /\ wk[w].pc = "SENT"
    /\ \E out \in Outputs, amount \in Charges \cup {NoCharge} :
         wk' = [wk EXCEPT ![w].pc = "RECEIVED", ![w].out = out, ![w].amount = amount]
    /\ UNCHANGED <<day, conf, ledger, meta, task, basis, isolating, sends>>

\* The closed send window, the timeout, the abort of a stopping worker, a
\* network error, and the failure of the second transaction.
Fail(w) ==
    /\ wk[w].pc \in {"PREPARED", "SENT", "RECEIVED"}
    /\ Goto(w, "FAILED")
    /\ UNCHANGED <<day, conf, ledger, meta, task, basis, isolating, sends>>

Accepts(w) == ~run[wk[w].r].cancel /\ wk[w].out # "NULL"

\* proposalCurrent, the second authorization, and acceptOutput's own demands.
MayAccept(w) ==
    LET r == wk[w].r
    IN /\ Current(r, wk[w]) /\ run[r].state = "RUNNING"
       /\ Authorized(r, wk[w])
       /\ r \in TestRuns \/ (task[r] = "NONE" /\ wk[w].out # "BAD")

\* The second transaction of dispatchAi: the proposal, the response's metadata,
\* and the settlement, or UNKNOWN when the response names no charge.
Complete(w) ==
    LET r == wk[w].r
        n == wk[w].n
    IN /\ wk[w].pc = "RECEIVED"
       /\ Accepts(w) => MayAccept(w)
       /\ task' = IF Accepts(w) /\ r \notin TestRuns /\ wk[w].out = "CHANGES"
                  THEN [task EXCEPT ![r] = "PENDING"] ELSE task
       /\ meta' = meta \cup {r}
       /\ \/ wk[w].amount = NoCharge /\ MarkUnknown(r, n) /\ UNCHANGED budget
          \/ wk[w].amount # NoCharge
             /\ Settle(r, n, run[r], "SUCCEEDED", wk[w].amount, "PROVIDER")
       /\ \/ Rest(w)
          \/ Goto(w, "FAILED")    \* committed, but the answer was lost
       /\ UNCHANGED <<day, conf, releases, basis, isolating, sends>>

\* The third transaction of dispatchAi, after any failure: what was received is
\* recorded together with UNKNOWN, or not at all.
RecordFailure(w) ==
    /\ wk[w].pc = "FAILED"
    /\ meta' = IF wk[w].out # "NONE" THEN meta \cup {wk[w].r} ELSE meta
    /\ MarkUnknown(wk[w].r, wk[w].n)
    /\ Rest(w)
    /\ UNCHANGED <<day, conf, budget, releases, task, basis, isolating, sends>>

RecordFailureRefused(w) ==
    /\ wk[w].pc = "FAILED"
    /\ att[wk[w].r][wk[w].n].state \notin Unresolved
    /\ Goto(w, "REFUSED")
    /\ UNCHANGED <<day, conf, ledger, meta, task, basis, isolating, sends>>

\* The process dies, is stopped before an attempt exists, or meets a transient
\* failure of the store that ends its cycle.
Crash(w) ==
    /\ wk[w].pc # "IDLE"
    /\ Rest(w)
    /\ UNCHANGED <<day, conf, ledger, meta, task, basis, isolating, sends>>

-------------------------------------------------------------------------------
(* Time. *)

Older(a) == IF a.state = "ABSENT" \/ a.age = SweepAge THEN a ELSE [a EXCEPT !.age = @ + 1]

\* Ages stop at SweepAge: nothing tells two older attempts apart.
Tick ==
    /\ att' = [r \in Runs |-> [n \in AttNos |-> Older(att[r][n])]]
    /\ UNCHANGED <<day, conf, budget, releases, run, meta, task, basis, wk, isolating, sends>>

\* Midnight (UTC) may fall between any two ticks.
NextDay ==
    /\ day < MaxDay
    /\ day' = day + 1
    /\ UNCHANGED <<conf, ledger, meta, task, basis, wk, isolating, sends>>

-------------------------------------------------------------------------------

Advance(w) == \/ Sweep(w) \/ NoCandidate(w) \/ Pick(w) \/ Configure(w) \/ Begin(w)
              \/ Refuse(w) \/ GiveUp(w) \/ Send(w) \/ Receive(w) \/ Fail(w)
              \/ Complete(w) \/ RecordFailure(w) \/ RecordFailureRefused(w)

Member(r) == \/ Reserve(r) \/ CancelTask(r) \/ RejectProposal(r) \/ ApplyProposal(r)
             \/ EraseTask(r) \/ ChangeBasis(r)

Administrator ==
    \/ SaveConnection \/ ToggleApproval \/ Isolate
    \/ \E d \in Days : Unfreeze(d)
    \/ \E r \in Runs, n \in AttNos, outcome \in {"SUCCEEDED", "NOT_EXECUTED"},
          amount \in Charges \cup {0} : Reconcile(r, n, outcome, amount)

Next ==
    \/ /\ isolating = {}
       /\ \/ \E w \in Workers : Advance(w) \/ Crash(w)
          \/ \E r \in Runs : Member(r)
          \/ Administrator
          \/ Tick
          \/ NextDay
    \/ \E r \in isolating : IsolateRun(r)

Spec == Init /\ [][Next]_vars

(***************************************************************************)
(* Fairness: the clock ticks, the isolation transaction ends, a live worker *)
(* takes its next step (each wait has a timer), and neither crashes nor     *)
(* transient failures keep a cycle from its end for ever.                   *)
(***************************************************************************)
Fairness ==
    /\ WF_vars(isolating = {} /\ Tick)
    /\ WF_vars(\E r \in isolating : IsolateRun(r))
    /\ \A w \in Workers :
         /\ WF_vars(isolating = {} /\ Advance(w))
         /\ SF_vars(isolating = {} /\ Pick(w))
         /\ SF_vars(isolating = {} /\ Configure(w))
         /\ SF_vars(isolating = {} /\ (Begin(w) \/ Refuse(w)))
         /\ SF_vars(isolating = {} /\ GiveUp(w))

FairSpec == Spec /\ Fairness

-------------------------------------------------------------------------------
(* Properties. *)

RunsOf(d) == {r \in Runs : run[r].state # "NONE" /\ run[r].day = d}
Unsettled(d) == {r \in RunsOf(d) : run[r].settled = NoCharge}

Reservations == [r \in Runs |-> run[r].reserved]
Settlements == [r \in Runs |-> run[r].settled]

\* What inspectAiLedger counts as a relation failure of a budget does not occur:
\* each day's reserved and settled units are those of its runs.
BudgetsMatchRuns ==
    \A d \in Days :
      /\ budget[d].reserved = SumFunctionOnSet(Reservations, Unsettled(d))
      /\ budget[d].settled = SumFunctionOnSet(Settlements, RunsOf(d) \ Unsettled(d))

\* What inspectAiLedger counts as a relation failure of a run or an attempt does
\* not occur: a run's state says exactly which of its attempts is unresolved.
RunsMatchAttempts ==
    \A r \in Runs :
      LET open == {n \in AttNos : att[r][n].state \in Unresolved}
      IN /\ \A m, n \in open : m = n
         /\ run[r].state = "RUNNING" =>
              \E n \in open : att[r][n].state = "MAY_HAVE_EXECUTED"
         /\ run[r].state = "UNKNOWN" => \E n \in open : att[r][n].state = "UNKNOWN"
         /\ run[r].state \notin {"RUNNING", "UNKNOWN"} => open = {}
         /\ run[r].state = "QUEUED" =>
              \A n \in AttNos : att[r][n].state \in {"ABSENT", "NOT_EXECUTED"}
         /\ run[r].settled = NoCharge <=> run[r].state \in OpenStates \cup {"NONE"}
         /\ \A n \in AttNos : att[r][n].by = "NONE" <=>
              att[r][n].state \in Unresolved \cup {"ABSENT"}

LedgerIntegrity == BudgetsMatchRuns /\ RunsMatchAttempts

(***************************************************************************)
(* Why a run is never sent twice: an inductive invariant.  A run has one     *)
(* attempt at most, since a settlement that proves nonexecution always finds *)
(* the run cancelled; the worker that holds the attempt holds it alone; and  *)
(* before the sweep's age nobody but that worker can decide it.              *)
(***************************************************************************)
Holding(w) == wk[w].pc \in {"PREPARED", "SENT", "RECEIVED", "FAILED"}

OneAttempt(r) ==
    LET a == att[r][1]
    IN /\ \A n \in AttNos : n # 1 => att[r][n].state = "ABSENT" /\ att[r][n].by = "NONE"
       /\ run[r].state = "RUNNING" <=> a.state = "MAY_HAVE_EXECUTED"
       /\ run[r].state = "UNKNOWN" <=> a.state = "UNKNOWN"
       /\ run[r].state \in {"NONE", "QUEUED"} => a.state = "ABSENT" /\ ~run[r].cancel
       /\ a.state = "NOT_EXECUTED" => run[r].cancel
       /\ a.by = "NONE" <=> a.state \in Unresolved \cup {"ABSENT"}
       /\ run[r].settled = NoCharge <=> run[r].state \in OpenStates \cup {"NONE"}

AnswerRecorded(r) ==
    /\ r \in meta => att[r][1].state \notin {"ABSENT", "NOT_EXECUTED"}
    /\ task[r] = "PENDING" => r \in meta /\ ~run[r].cancel

SendsCounted(r) == /\ sends[r] \in {0, 1}
                   /\ att[r][1].state = "ABSENT" => sends[r] = 0

RunInv(r) == OneAttempt(r) /\ AnswerRecorded(r) /\ SendsCounted(r)

AttemptHeld(w) ==
    LET a == att[wk[w].r][1]
    IN Holding(w) => /\ wk[w].n = 1
                     /\ a.state # "ABSENT"
                     /\ wk[w].pc = "PREPARED" =>
                          /\ sends[wk[w].r] = 0
                          /\ a.state = "MAY_HAVE_EXECUTED" \/ a.age = SweepAge

HeldAlone == \A v, w \in Workers : Holding(v) /\ Holding(w) /\ wk[v].r = wk[w].r => v = w

NobodyWorksInIsolation == isolating # {} => \A w \in Workers : wk[w].pc = "IDLE"

DispatchInv ==
    /\ TypeOK
    /\ \A r \in Runs : RunInv(r)
    /\ \A w \in Workers : AttemptHeld(w)
    /\ HeldAlone
    /\ NobodyWorksInIsolation

Excess(r) == IF run[r].settled > run[r].reserved THEN run[r].settled - run[r].reserved ELSE 0
Overruns == [r \in Runs |-> Excess(r)]

\* However reservations, settlements, cancellations and sweeps interleave, what a
\* day has reserved and spent passes the highest limit the workspace has had
\* only by what single calls cost beyond their own reservations (reserve, settle).
SpendWithinLimit ==
    \A d \in Days : \E v \in 1..conf.rev :
      Total(d) <= Daily[v] + SumFunctionOnSet(Overruns, RunsOf(d))

\* A request leaves only while its attempt is still the undecided one: never
\* after the sweep, the isolation or a reviewer has given the attempt up, so a
\* bill or a proof of nonexecution that settles it stays true (dispatchAi's send
\* window against the worker's sweep age).
SendOnlyWhileUndecided ==
    [][\A w \in Workers : wk[w].pc = "PREPARED" /\ wk'[w].pc = "SENT" =>
         att[wk[w].r][wk[w].n].state = "MAY_HAVE_EXECUTED"]_vars

\* No run sends twice, whatever is swept, reconciled, retried or lost
\* ("No automatic resend follows a human reconciliation", ai-operations.ts:55).
NoSecondSend == \A r \in Runs : sends[r] <= 1

\* A response that was recorded and a settlement as not executed exclude each
\* other in either order (reconcile's guard, and the rollback of a late record).
ResponseRulesOutNonexecution ==
    \A r \in meta, n \in AttNos : att[r][n].state # "NOT_EXECUTED"

\* A run whose cancellation was asked for has no proposal left to adopt, whether
\* the member cancelled before, during or after the answer, or an administrator
\* reconciled or isolated (dispatchAi: "A cancelled task never creates a proposal").
CancelledHasNoProposal == \A r \in Runs : run[r].cancel => task[r] # "PENDING"

Phase(r) == CASE run[r].state = "NONE" -> "IDLE"
              [] run[r].state = "QUEUED" -> "QUEUED"
              [] run[r].state \in {"RUNNING", "UNKNOWN"} -> "OPEN"
              [] OTHER -> "CLOSED"

Calls == INSTANCE AiCalls WITH phase <- [r \in Runs |-> Phase(r)]

\* The ledger implements calls that are sent at most once, only while open, and
\* never opened again after they were closed (ai-ledger.ts:17-20).
SentAtMostOnce == Calls!Spec

\* An attempt that may have been executed does not stay in doubt without a
\* notice to the administrator, even when its worker has died (AiWorker.cycle).
AttemptsAreGivenUp ==
    \A r \in Runs, n \in AttNos :
      att[r][n].state = "MAY_HAVE_EXECUTED" ~> att[r][n].state # "MAY_HAVE_EXECUTED"

\* A queued run is sent or ended: it does not hold its reservation for ever
\* because its day has passed, a budget is frozen or its basis has changed.
QueuedRunsLeave == \A r \in Runs : run[r].state = "QUEUED" ~> run[r].state # "QUEUED"
===============================================================================
