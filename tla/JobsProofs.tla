------------------------------ MODULE JobsProofs ------------------------------
(***************************************************************************)
(* Theorems about Jobs for every set of jobs and of workers, every number   *)
(* of rows and every bound on the attempts.                                 *)
(***************************************************************************)
EXTENDS Jobs, TLAPS

-------------------------------------------------------------------------------
(* The inductive invariant *)

\* The checkpoint of a row tells whether a person was made of it.
RowsCounted ==
    \A j \in JobIds, r \in Rows :
        /\ people[j][r] <= 1
        /\ rows[j][r] = "VALID" => people[j][r] = 0
        /\ rows[j][r] = "IMPORTED" => people[j][r] = 1
        /\ job[j].state = "SUCCEEDED" => people[j][r] = 1

\* A worker passes a row only when its person exists. That stays true when the worker has
\* lost its lease, since people are not taken back.
WorkerInv(w) ==
    wk[w].pc # "IDLE" =>
        /\ wk[w].j \in JobIds
        /\ wk[w].token \in 1..job[wk[w].j].attempts
        /\ wk[w].pc \in {"ROW", "FINISH"} => Import(wk[w].j)
        /\ wk[w].pc = "PRODUCE" => ~Import(wk[w].j)
        /\ wk[w].pc = "ROW" => \A r \in 1..(wk[w].row - 1) : people[wk[w].j][r] = 1
        /\ wk[w].pc = "FINISH" => \A r \in Rows : people[wk[w].j][r] = 1

\* No two workers ever hold one token of a job: attempts only grow.
TokensDiffer ==
    \A v, w \in Workers :
        v # w /\ wk[v].pc # "IDLE" /\ wk[w].pc # "IDLE" /\ wk[v].j = wk[w].j
            => wk[v].token # wk[w].token

\* An import that waits has no lease: only an export is worked on while it is QUEUED.
\* A job that was not submitted was not claimed.
QueuedIsFree ==
    \A j \in JobIds :
        /\ Import(j) /\ job[j].state = "QUEUED" => ~job[j].live
        /\ job[j].state = "NONE" => job[j].attempts = 0

JobsInv ==
    /\ TypeOK /\ RowsCounted /\ QueuedIsFree
    /\ \A w \in Workers : WorkerInv(w)
    /\ TokensDiffer

LEMMA JobBounds ==
    NoJob \notin JobIds /\ NRows \in Nat /\ NRows > 0 /\ MaxAttempts \in Nat /\ MaxAttempts > 0
BY JobConstants

LEMMA JobsInvInit == Init => JobsInv
<1> SUFFICES ASSUME Init PROVE JobsInv
  OBVIOUS
<1>1. NoRow \in JobRows BY JobBounds DEF NoRow, JobRows, Tokens, ImportStates, Codes
<1>2. Resting \in WorkerStates BY JobBounds DEF Resting, WorkerStates, Tokens, Rows
<1>3. NoRow.state = "NONE" /\ NoRow.attempts = 0 /\ Resting.pc = "IDLE" BY DEF NoRow, Resting
<1> HIDE DEF NoRow, Resting
<1>4. \A j \in JobIds : job[j].state = "NONE" BY <1>3 DEF Init
<1>5. TypeOK BY <1>1, <1>2, <1>4 DEF Init, TypeOK, ImportStates, ExportStates
<1>6. RowsCounted BY <1>4 DEF Init, RowsCounted
<1>7. QueuedIsFree BY <1>3, <1>4 DEF Init, QueuedIsFree
<1>8. \A w \in Workers : wk[w].pc = "IDLE" BY <1>3 DEF Init
<1> QED BY <1>5, <1>6, <1>7, <1>8 DEF JobsInv, WorkerInv, TokensDiffer

-------------------------------------------------------------------------------
(* What a step may do to a job's row and to a worker *)

States(j) == IF Import(j) THEN ImportStates ELSE ExportStates

\* a row a step may leave behind
RowMayBe(j, row) ==
    /\ row \in JobRows /\ row.state \in States(j)
    /\ row.attempts >= job[j].attempts
    /\ Import(j) /\ row.state = "QUEUED" => ~row.live
    /\ row.state = "NONE" => row.attempts = 0
    /\ row.state = "SUCCEEDED" => \A r \in Rows : people[j][r] = 1

LEMMA JobWritten ==
    ASSUME JobsInv, NEW j \in JobIds, NEW row, RowMayBe(j, row), SetJob(j, row),
           UNCHANGED <<kind, rows, people>>
    PROVE  /\ job' \in [JobIds -> JobRows]
           /\ \A i \in JobIds : job'[i].state \in (IF kind[i] = "IMPORT" THEN ImportStates ELSE ExportStates)
           /\ \A i \in JobIds : job'[i].attempts >= job[i].attempts
           /\ RowsCounted' /\ QueuedIsFree'
<1>1. TypeOK BY DEF JobsInv
<1>2. job'[j] = row /\ \A i \in JobIds \ {j} : job'[i] = job[i] BY <1>1 DEF SetJob, TypeOK
<1>3. job' \in [JobIds -> JobRows] BY <1>1 DEF SetJob, TypeOK, RowMayBe
<1>4. \A i \in JobIds : job'[i].state \in (IF kind[i] = "IMPORT" THEN ImportStates ELSE ExportStates)
  BY <1>1, <1>2 DEF TypeOK, RowMayBe, States, Import
<1>5. \A i \in JobIds : job'[i].attempts >= job[i].attempts
  <2>1. \A i \in JobIds : job[i].attempts \in Tokens BY <1>1 DEF TypeOK, JobRows
  <2>2. \A i \in JobIds : job[i].attempts >= job[i].attempts BY <2>1, JobBounds DEF Tokens
  <2> QED BY <1>2, <2>2 DEF RowMayBe
<1>6. RowsCounted' BY <1>2 DEF JobsInv, RowsCounted, RowMayBe
<1>7. QueuedIsFree' BY <1>2 DEF JobsInv, QueuedIsFree, RowMayBe, Import
<1> QED BY <1>3, <1>4, <1>5, <1>6, <1>7

LEMMA JobStands ==
    ASSUME JobsInv, UNCHANGED <<kind, job, rows, people>>
    PROVE  RowsCounted' /\ QueuedIsFree'
BY DEF JobsInv, RowsCounted, QueuedIsFree, Import

\* Workers stay as they are, rest, or go on with what they hold.
LEMMA WorkersGoOn ==
    ASSUME JobsInv, UNCHANGED kind, job' \in [JobIds -> JobRows],
           \A j \in JobIds : job'[j].attempts >= job[j].attempts,
           \A j \in JobIds, r \in Rows : people[j][r] = 1 => people'[j][r] = 1,
           \A w \in Workers :
                \/ wk'[w] = wk[w]
                \/ wk'[w].pc = "IDLE"
                \/ /\ wk[w].pc # "IDLE" /\ wk'[w].j = wk[w].j /\ wk'[w].token = wk[w].token
                   /\ WorkerInv(w)'
    PROVE  (\A w \in Workers : WorkerInv(w)') /\ TokensDiffer'
<1>1. ASSUME NEW w \in Workers PROVE WorkerInv(w)'
  <2>1. CASE wk'[w] = wk[w] /\ wk[w].pc # "IDLE"
    <3>1. WorkerInv(w) BY DEF JobsInv
    <3>2. wk[w] \in WorkerStates /\ wk[w].j \in JobIds BY <2>1, <3>1 DEF WorkerInv, JobsInv, TypeOK
    <3>3. job[wk[w].j].attempts \in Tokens /\ job'[wk[w].j].attempts \in Tokens
      BY <3>2 DEF JobsInv, TypeOK, JobRows
    <3>4. wk[w].token \in 1..job'[wk[w].j].attempts
      BY <2>1, <3>1, <3>2, <3>3, JobBounds DEF WorkerInv, Tokens
    <3>5. 1..(wk[w].row - 1) \subseteq Rows
      BY <3>2, JobBounds DEF WorkerStates, Rows
    <3> QED BY <2>1, <3>1, <3>2, <3>4, <3>5 DEF WorkerInv, Import
  <2>2. CASE wk'[w].pc = "IDLE" BY <2>2 DEF WorkerInv
  <2> QED BY <2>1, <2>2
<1>2. TokensDiffer'
  <2> SUFFICES ASSUME NEW v \in Workers, NEW w \in Workers, v # w,
                      wk'[v].pc # "IDLE", wk'[w].pc # "IDLE", wk'[v].j = wk'[w].j
               PROVE  wk'[v].token # wk'[w].token
    BY DEF TokensDiffer
  <2>1. wk[v].pc # "IDLE" /\ wk'[v].j = wk[v].j /\ wk'[v].token = wk[v].token
    OBVIOUS
  <2>2. wk[w].pc # "IDLE" /\ wk'[w].j = wk[w].j /\ wk'[w].token = wk[w].token
    OBVIOUS
  <2> QED BY <2>1, <2>2 DEF JobsInv, TokensDiffer
<1> QED BY <1>1, <1>2

\* The rows that the steps write.
LEMMA SettledRow ==
    ASSUME JobsInv, NEW j \in JobIds, NEW s \in States(j), NEW code \in Codes
    PROVE  /\ Settled(j, s, code) \in JobRows
           /\ Settled(j, s, code).state = s /\ Settled(j, s, code).code = code
           /\ Settled(j, s, code).attempts = job[j].attempts
           /\ Settled(j, s, code).live = FALSE /\ Settled(j, s, code).token = 0
<1>1. job[j] \in JobRows /\ 0 \in Tokens BY JobBounds DEF JobsInv, TypeOK, Tokens
<1>2. s \in ImportStates \cup ExportStates BY DEF States
<1> QED BY <1>1, <1>2 DEF Settled, JobRows

LEMMA SettledMayBe ==
    ASSUME JobsInv, NEW j \in JobIds, NEW s \in States(j), NEW code \in Codes,
           s # "NONE", s = "SUCCEEDED" => \A r \in Rows : people[j][r] = 1
    PROVE  RowMayBe(j, Settled(j, s, code))
<1> DEFINE row == Settled(j, s, code)
<1>1. job[j].attempts \in Tokens BY DEF JobsInv, TypeOK, JobRows
<1>2. job[j].attempts >= job[j].attempts BY <1>1, JobBounds DEF Tokens
<1>3. row \in JobRows /\ row.state = s /\ row.attempts = job[j].attempts /\ row.live = FALSE
  <2>1. job[j] \in JobRows /\ 0 \in Tokens BY JobBounds DEF JobsInv, TypeOK, Tokens
  <2>2. s \in ImportStates \cup ExportStates BY DEF States
  <2> QED BY <2>1, <2>2 DEF Settled, JobRows
<1> HIDE DEF row
<1>4. RowMayBe(j, row) BY <1>2, <1>3 DEF RowMayBe
<1> QED BY <1>4 DEF row

\* A step that settles a job and lets no worker begin anything keeps the invariant.
LEMMA SettlingKeeps ==
    ASSUME JobsInv, NEW j \in JobIds, NEW row, RowMayBe(j, row), SetJob(j, row),
           UNCHANGED data, wk' \in [Workers -> WorkerStates],
           \A w \in Workers :
                \/ wk'[w] = wk[w]
                \/ wk'[w].pc = "IDLE"
                \/ /\ wk[w].pc # "IDLE" /\ wk'[w].j = wk[w].j /\ wk'[w].token = wk[w].token
                   /\ WorkerInv(w)'
    PROVE  JobsInv'
<1>1. /\ job' \in [JobIds -> JobRows]
      /\ \A i \in JobIds : job'[i].state \in (IF kind[i] = "IMPORT" THEN ImportStates ELSE ExportStates)
      /\ \A i \in JobIds : job'[i].attempts >= job[i].attempts
      /\ RowsCounted' /\ QueuedIsFree'
  BY JobWritten DEF data
<1>2. TypeOK' BY <1>1 DEF JobsInv, TypeOK, data
<1>3. (\A w \in Workers : WorkerInv(w)') /\ TokensDiffer' BY <1>1, WorkersGoOn DEF data
<1> QED BY <1>1, <1>2, <1>3 DEF JobsInv

-------------------------------------------------------------------------------
(* One lemma per action *)

LEMMA SubmitKeeps ==
    ASSUME JobsInv, NEW j \in JobIds, Submit(j)
    PROVE  JobsInv'
<1> DEFINE row == [NoRow EXCEPT !.state = "QUEUED"]
<1>1. row \in JobRows
  <2>1. NoRow \in JobRows BY JobBounds DEF NoRow, JobRows, Tokens, ImportStates, Codes
  <2> QED BY <2>1 DEF JobRows, ImportStates
<1>2. row.state = "QUEUED" /\ row.attempts = 0 /\ row.live = FALSE BY DEF NoRow
<1>3. SetJob(j, row) /\ UNCHANGED <<data, wk>> /\ job[j].attempts = 0
  BY DEF Submit, JobsInv, QueuedIsFree
<1> HIDE DEF row
<1>4. RowMayBe(j, row) BY <1>1, <1>2, <1>3 DEF RowMayBe, States, ImportStates, ExportStates
<1> QED BY <1>3, <1>4, SettlingKeeps DEF JobsInv, TypeOK

LEMMA ResumeKeeps ==
    ASSUME JobsInv, NEW j \in JobIds, Resume(j)
    PROVE  JobsInv'
<1> DEFINE row == [job[j] EXCEPT !.state = "QUEUED", !.token = 0, !.live = FALSE, !.code = "NONE"]
<1>1. job[j] \in JobRows /\ 0 \in Tokens BY JobBounds DEF JobsInv, TypeOK, Tokens
<1>2. /\ row \in JobRows
      /\ row.state = "QUEUED" /\ row.attempts = job[j].attempts /\ row.live = FALSE
  BY <1>1 DEF JobRows, ImportStates, Codes
<1>3. SetJob(j, row) /\ UNCHANGED <<data, wk>> BY DEF Resume
<1>4. job[j].attempts >= job[j].attempts BY <1>1, JobBounds DEF JobRows, Tokens
<1> HIDE DEF row
<1>5. RowMayBe(j, row) BY <1>2, <1>3, <1>4 DEF RowMayBe, States, ImportStates, ExportStates
<1> QED BY <1>3, <1>5, SettlingKeeps DEF JobsInv, TypeOK

\* what is around a job: the source, the member
LEMMA AroundKeeps ==
    ASSUME JobsInv, NEW j \in JobIds, Withdraw(j) \/ ChangeMember(j)
    PROVE  JobsInv'
<1>1. UNCHANGED <<kind, job, rows, people, wk>> BY DEF Withdraw, ChangeMember
<1>2. basis' \in [JobIds -> BOOLEAN] /\ member' \in [JobIds -> BOOLEAN]
  BY DEF Withdraw, ChangeMember, JobsInv, TypeOK
<1>3. TypeOK' BY <1>1, <1>2 DEF JobsInv, TypeOK
<1> QED BY <1>1, <1>3
        DEF JobsInv, RowsCounted, QueuedIsFree, WorkerInv, TokensDiffer, Import

LEMMA EraseKeeps ==
    ASSUME JobsInv, NEW j \in JobIds, Erase(j)
    PROVE  JobsInv'
<1>1. CASE /\ Import(j) /\ UNCHANGED <<kind, job, people, basis, member, wk>>
           /\ rows' = [rows EXCEPT ![j] = [r \in Rows |-> "GONE"]]
  <2>1. rows' \in [JobIds -> [Rows -> {"VALID", "IMPORTED", "GONE"}]]
    BY <1>1 DEF JobsInv, TypeOK
  <2>2. TypeOK' BY <1>1, <2>1 DEF JobsInv, TypeOK
  <2>3. \A i \in JobIds, r \in Rows : rows'[i][r] = rows[i][r] \/ rows'[i][r] = "GONE"
    BY <1>1 DEF JobsInv, TypeOK
  <2>4. RowsCounted' BY <1>1, <2>3 DEF JobsInv, RowsCounted
  <2> QED BY <1>1, <2>2, <2>4 DEF JobsInv, QueuedIsFree, WorkerInv, TokensDiffer, Import
<1>2. CASE /\ ~Import(j) /\ SetJob(j, Settled(j, "ERASED", "ERASED_BY_DELETION"))
           /\ UNCHANGED <<data, wk>>
  <2>1. "ERASED" \in States(j) /\ "ERASED_BY_DELETION" \in Codes
    BY <1>2 DEF States, ExportStates, Codes
  <2>2. RowMayBe(j, Settled(j, "ERASED", "ERASED_BY_DELETION")) BY <2>1, SettledMayBe
  <2> QED BY <1>2, <2>2, SettlingKeeps DEF JobsInv, TypeOK
<1> QED BY <1>1, <1>2 DEF Erase, data

LEMMA IsolateKeeps ==
    ASSUME JobsInv, NEW j \in JobIds, Isolate(j)
    PROVE  JobsInv'
<1>1. UNCHANGED <<data, wk>> BY DEF Isolate
<1>2. CASE Import(j) /\ SetJob(j, Settled(j, "FAILED", "RECOVERY"))
  <2>1. "FAILED" \in States(j) /\ "RECOVERY" \in Codes BY <1>2 DEF States, ImportStates, Codes
  <2>2. RowMayBe(j, Settled(j, "FAILED", "RECOVERY")) BY <2>1, SettledMayBe
  <2> QED BY <1>1, <1>2, <2>2, SettlingKeeps DEF JobsInv, TypeOK
<1>3. CASE ~Import(j) /\ SetJob(j, Settled(j, "STALE", "RECOVERY"))
  <2>1. "STALE" \in States(j) /\ "RECOVERY" \in Codes BY <1>3 DEF States, ExportStates, Codes
  <2>2. RowMayBe(j, Settled(j, "STALE", "RECOVERY")) BY <2>1, SettledMayBe
  <2> QED BY <1>1, <1>3, <2>2, SettlingKeeps DEF JobsInv, TypeOK
<1> QED BY <1>2, <1>3 DEF Isolate

LEMMA LeaseEndsKeeps ==
    ASSUME JobsInv, NEW j \in JobIds, LeaseEnds(j)
    PROVE  JobsInv'
<1> DEFINE row == [job[j] EXCEPT !.live = FALSE]
<1>1. job[j] \in JobRows /\ job[j].state \in States(j) BY DEF JobsInv, TypeOK, States, Import
<1>2. /\ row \in JobRows
      /\ row.state = job[j].state /\ row.attempts = job[j].attempts /\ row.live = FALSE
  BY <1>1 DEF JobRows
<1>3. job[j].attempts >= job[j].attempts BY <1>1, JobBounds DEF JobRows, Tokens
<1>4. SetJob(j, row) /\ UNCHANGED <<data, wk>> BY DEF LeaseEnds
<1> HIDE DEF row
<1>5. RowMayBe(j, row)
  BY <1>1, <1>2, <1>3 DEF RowMayBe, JobsInv, RowsCounted, QueuedIsFree
<1> QED BY <1>4, <1>5, SettlingKeeps DEF JobsInv, TypeOK

\* A worker that rests leaves the workers' invariants alone.
LEMMA RestingKeeps ==
    ASSUME JobsInv, NEW w \in Workers, SetWorker(w, Resting)
    PROVE  /\ wk' \in [Workers -> WorkerStates]
           /\ \A v \in Workers : wk'[v] = wk[v] \/ wk'[v].pc = "IDLE"
<1>1. Resting \in WorkerStates
  BY JobBounds DEF Resting, WorkerStates, Tokens, Rows
<1>2. Resting.pc = "IDLE" BY DEF Resting
<1> HIDE DEF Resting
<1>3. wk' = [wk EXCEPT ![w] = Resting] BY DEF SetWorker
<1> QED BY <1>1, <1>2, <1>3 DEF JobsInv, TypeOK

\* So does one that fails: it keeps its job and its token for the report.
LEMMA FailingKeeps ==
    ASSUME JobsInv, NEW w \in Workers, wk[w].pc # "IDLE",
           NEW code \in {"DENIED", "STORE"}, SetWorker(w, Failing(w, code)),
           UNCHANGED kind, job' \in [JobIds -> JobRows],
           \A j \in JobIds : job'[j].attempts >= job[j].attempts
    PROVE  /\ wk' \in [Workers -> WorkerStates]
           /\ \A v \in Workers :
                \/ wk'[v] = wk[v]
                \/ /\ wk[v].pc # "IDLE" /\ wk'[v].j = wk[v].j /\ wk'[v].token = wk[v].token
                   /\ WorkerInv(v)'
<1> DEFINE s == [wk[w] EXCEPT !.pc = "FAILING", !.code = code]
<1>1. wk[w] \in WorkerStates /\ WorkerInv(w) BY DEF JobsInv, TypeOK
<1>2. s \in WorkerStates /\ s.pc = "FAILING" /\ s.j = wk[w].j /\ s.token = wk[w].token
  BY <1>1 DEF WorkerStates
<1>3. wk' = [wk EXCEPT ![w] = s] BY DEF SetWorker, Failing
<1> HIDE DEF s
<1>4. wk' \in [Workers -> WorkerStates] /\ wk'[w] = s
      /\ \A v \in Workers \ {w} : wk'[v] = wk[v]
  BY <1>2, <1>3 DEF JobsInv, TypeOK
<1>5. wk[w].token \in 1..job'[wk[w].j].attempts
  <2>1. job[wk[w].j].attempts \in Tokens /\ job'[wk[w].j].attempts \in Tokens
    BY <1>1 DEF WorkerInv, JobsInv, TypeOK, JobRows
  <2>2. job'[wk[w].j].attempts >= job[wk[w].j].attempts BY <1>1 DEF WorkerInv
  <2> QED BY <1>1, <2>1, <2>2, JobBounds DEF WorkerInv, Tokens
<1>6. WorkerInv(w)' BY <1>1, <1>2, <1>4, <1>5 DEF WorkerInv
<1> QED BY <1>2, <1>4, <1>6

LEMMA ClaimKeeps ==
    ASSUME JobsInv, NEW w \in Workers, NEW j \in JobIds, Claim(w, j)
    PROVE  JobsInv'
<1> DEFINE n == job[j].attempts + 1
           t == IF Import(j) THEN "RUNNING" ELSE job[j].state
           row == [job[j] EXCEPT !.state = t, !.attempts = n, !.token = n, !.live = TRUE]
           pc == IF Import(j) THEN "ROW" ELSE "PRODUCE"
           s == [pc |-> pc, j |-> j, token |-> n, row |-> 1, code |-> "NONE"]
<1>1. TypeOK /\ job[j] \in JobRows /\ job[j].state \in States(j)
  BY DEF JobsInv, TypeOK, States, Import
<1>2. job[j].attempts \in 0..MaxAttempts /\ n \in 1..MaxAttempts /\ n >= job[j].attempts
  BY <1>1, JobBounds DEF Claim, AttemptsLeft, JobRows, Tokens
<1>3. n \in Tokens /\ t \in States(j) /\ 1 \in Rows
  BY <1>1, <1>2, JobBounds DEF Tokens, States, ImportStates, Rows
<1>4. /\ row \in JobRows /\ row.state = t /\ row.attempts = n /\ row.live = TRUE
  <2> HIDE DEF n, t
  <2>1. t \in ImportStates \cup ExportStates BY <1>3 DEF States
  <2> QED BY <1>1, <1>3, <2>1 DEF JobRows
<1>5. SetJob(j, row) /\ UNCHANGED data /\ wk[w].pc = "IDLE"
      /\ (wk' = wk \/ wk' = [wk EXCEPT ![w] = s])
  BY <1>1 DEF Claim, SetJob, SetWorker, Resting, JobRows
<1>6. t \notin {"NONE", "SUCCEEDED"} /\ (Import(j) => t # "QUEUED")
  BY DEF Claim, Claimable
<1>7. s \in WorkerStates
  <2>1. pc \in {"ROW", "PRODUCE"} OBVIOUS
  <2> HIDE DEF pc, n
  <2> QED BY <1>3, <2>1 DEF WorkerStates
<1>8. s.pc = pc /\ s.j = j /\ s.token = n /\ s.row = 1 OBVIOUS
<1> HIDE DEF row, s, t
<1>9. RowMayBe(j, row) BY <1>2, <1>3, <1>4, <1>6 DEF RowMayBe
<1>10. /\ job' \in [JobIds -> JobRows]
       /\ \A i \in JobIds : job'[i].state \in (IF kind[i] = "IMPORT" THEN ImportStates ELSE ExportStates)
       /\ \A i \in JobIds : job'[i].attempts >= job[i].attempts
       /\ RowsCounted' /\ QueuedIsFree'
  BY <1>5, <1>9, JobWritten DEF data
<1>11. job'[j].attempts = n BY <1>1, <1>4, <1>5 DEF SetJob, TypeOK
<1>12. wk' \in [Workers -> WorkerStates] BY <1>1, <1>5, <1>7 DEF TypeOK
<1>13. TypeOK' BY <1>1, <1>5, <1>10, <1>12 DEF TypeOK, data
<1>14. \A v \in Workers \ {w} : wk'[v] = wk[v] BY <1>1, <1>5 DEF TypeOK
<1>15. CASE wk' = wk
  BY <1>5, <1>10, <1>13, <1>15, WorkersGoOn DEF data, JobsInv
<1>16. CASE wk' = [wk EXCEPT ![w] = s]
  <2>1. wk'[w] = s BY <1>1, <1>16 DEF TypeOK
  <2>2. WorkerInv(w)'
    <3>1. n \in 1..job'[j].attempts BY <1>2, <1>11
    <3>2. pc = "ROW" => Import(j) BY DEF pc
    <3>3. pc \in {"ROW", "PRODUCE"} /\ (pc = "PRODUCE" => ~Import(j)) OBVIOUS
    <3>4. 1..(wk'[w].row - 1) = {} BY <1>8, <2>1
    <3> HIDE DEF n, pc
    <3> QED BY <1>5, <1>8, <2>1, <3>1, <3>2, <3>3, <3>4 DEF WorkerInv, Import, data
  <2>3. ASSUME NEW v \in Workers \ {w} PROVE WorkerInv(v)' /\ (wk[v].pc # "IDLE" /\ wk[v].j = j => wk[v].token # n)
    <3>1. WorkerInv(v) /\ wk[v] \in WorkerStates BY <1>1 DEF JobsInv, TypeOK
    <3>2. ASSUME wk[v].pc # "IDLE"
          PROVE  wk[v].token \in 1..job'[wk[v].j].attempts
      <4>1. job[wk[v].j].attempts \in Tokens /\ job'[wk[v].j].attempts \in Tokens
        BY <1>1, <1>10, <3>1, <3>2 DEF WorkerInv, TypeOK, JobRows
      <4>2. job'[wk[v].j].attempts >= job[wk[v].j].attempts BY <1>10, <3>1, <3>2 DEF WorkerInv
      <4> QED BY <3>1, <3>2, <4>1, <4>2, JobBounds DEF WorkerInv, Tokens
    <3>3. WorkerInv(v)'
      BY <1>5, <1>14, <3>1, <3>2 DEF WorkerInv, Import, data
    <3>4. wk[v].pc # "IDLE" /\ wk[v].j = j => wk[v].token # n
      BY <1>2, <3>1 DEF WorkerInv
    <3> QED BY <3>3, <3>4
  <2>4. TokensDiffer'
    <3> HIDE DEF n
    <3> QED BY <1>8, <1>14, <2>1, <2>3 DEF JobsInv, TokensDiffer
  <2> QED BY <1>10, <1>13, <2>2, <2>3, <2>4 DEF JobsInv
<1> QED BY <1>5, <1>15, <1>16

LEMMA ExhaustKeeps ==
    ASSUME JobsInv, NEW w \in Workers, NEW j \in JobIds, Exhaust(w, j)
    PROVE  JobsInv'
<1>1. "FAILED" \in States(j) /\ "ATTEMPTS_EXHAUSTED" \in Codes
  BY DEF States, ImportStates, ExportStates, Codes
<1>2. RowMayBe(j, Settled(j, "FAILED", "ATTEMPTS_EXHAUSTED")) BY <1>1, SettledMayBe
<1>3. SetJob(j, Settled(j, "FAILED", "ATTEMPTS_EXHAUSTED")) /\ UNCHANGED <<data, wk>>
  BY DEF Exhaust
<1> QED BY <1>2, <1>3, SettlingKeeps DEF JobsInv, TypeOK

\* The steps of a worker that leave every job and every batch as it is.
LEMMA LettingGoKeeps ==
    ASSUME JobsInv, NEW w \in Workers,
           LeaseLost(w) \/ Refused(w) \/ StoreFails(w) \/ Abandon(w)
    PROVE  JobsInv'
<1>1. UNCHANGED <<job, data>> /\ wk[w].pc # "IDLE" /\
      (SetWorker(w, Resting) \/ \E code \in {"DENIED", "STORE"} : SetWorker(w, Failing(w, code)))
  BY DEF LeaseLost, Refused, StoreFails, Abandon
<1>2. /\ job' \in [JobIds -> JobRows]
      /\ \A j \in JobIds : job'[j].attempts >= job[j].attempts
  <2>1. \A j \in JobIds : job[j].attempts \in Tokens BY DEF JobsInv, TypeOK, JobRows
  <2>2. \A n \in Tokens : n >= n BY JobBounds DEF Tokens
  <2> QED BY <1>1, <2>1, <2>2 DEF JobsInv, TypeOK
<1>3. /\ wk' \in [Workers -> WorkerStates]
      /\ \A v \in Workers :
            \/ wk'[v] = wk[v] \/ wk'[v].pc = "IDLE"
            \/ /\ wk[v].pc # "IDLE" /\ wk'[v].j = wk[v].j /\ wk'[v].token = wk[v].token
               /\ WorkerInv(v)'
  <2>1. CASE SetWorker(w, Resting) BY <2>1, RestingKeeps
  <2>2. CASE \E code \in {"DENIED", "STORE"} : SetWorker(w, Failing(w, code))
    BY <1>1, <1>2, <2>2, FailingKeeps DEF data
  <2> QED BY <1>1, <2>1, <2>2
<1>4. TypeOK' BY <1>1, <1>3 DEF JobsInv, TypeOK, data
<1>5. RowsCounted' /\ QueuedIsFree' BY <1>1, JobStands DEF data
<1>6. (\A v \in Workers : WorkerInv(v)') /\ TokensDiffer'
  BY <1>1, <1>2, <1>3, WorkersGoOn DEF data
<1> QED BY <1>4, <1>5, <1>6 DEF JobsInv

\* What comes after a transaction that committed: the worker goes on, or takes it for lost.
LEMMA EndsOrFails ==
    ASSUME JobsInv, NEW w \in Workers, wk[w].pc # "IDLE", Go(w, Resting),
           NEW j \in JobIds, NEW row, RowMayBe(j, row), SetJob(j, row), UNCHANGED data
    PROVE  JobsInv'
<1>1. /\ job' \in [JobIds -> JobRows]
      /\ \A i \in JobIds : job'[i].attempts >= job[i].attempts
  BY JobWritten DEF data
<1>2. /\ wk' \in [Workers -> WorkerStates]
      /\ \A v \in Workers :
            \/ wk'[v] = wk[v] \/ wk'[v].pc = "IDLE"
            \/ /\ wk[v].pc # "IDLE" /\ wk'[v].j = wk[v].j /\ wk'[v].token = wk[v].token
               /\ WorkerInv(v)'
  <2>1. CASE SetWorker(w, Resting) BY <2>1, RestingKeeps
  <2>2. CASE SetWorker(w, Failing(w, "STORE"))
    BY <1>1, <2>2, FailingKeeps DEF data
  <2> QED BY <2>1, <2>2 DEF Go
<1> QED BY <1>2, SettlingKeeps

LEMMA FinishKeeps ==
    ASSUME JobsInv, NEW w \in Workers, Finish(w)
    PROVE  JobsInv'
<1> DEFINE j == wk[w].j
<1>1. /\ wk[w].pc = "FINISH" /\ SetJob(j, Settled(j, "SUCCEEDED", "NONE"))
      /\ Go(w, Resting) /\ UNCHANGED data
  BY DEF Finish
<1>2. j \in JobIds /\ Import(j) /\ \A r \in Rows : people[j][r] = 1
  BY <1>1 DEF JobsInv, WorkerInv
<1>3. "SUCCEEDED" \in States(j) /\ "NONE" \in Codes
  BY <1>2 DEF States, ImportStates, Codes
<1> HIDE DEF j
<1>4. RowMayBe(j, Settled(j, "SUCCEEDED", "NONE")) BY <1>2, <1>3, SettledMayBe
<1> QED BY <1>1, <1>2, <1>4, EndsOrFails

LEMMA ProduceKeeps ==
    ASSUME JobsInv, NEW w \in Workers, Produce(w)
    PROVE  JobsInv'
<1> DEFINE j == wk[w].j
<1>1. /\ wk[w].pc = "PRODUCE" /\ SetJob(j, Settled(j, "READY", "NONE"))
      /\ Go(w, Resting) /\ UNCHANGED data
  BY DEF Produce
<1>2. j \in JobIds /\ ~Import(j) BY <1>1 DEF JobsInv, WorkerInv
<1>3. "READY" \in States(j) /\ "NONE" \in Codes BY <1>2 DEF States, ExportStates, Codes
<1> HIDE DEF j
<1>4. RowMayBe(j, Settled(j, "READY", "NONE")) BY <1>2, <1>3, SettledMayBe
<1> QED BY <1>1, <1>2, <1>4, EndsOrFails

LEMMA ReportKeeps ==
    ASSUME JobsInv, NEW w \in Workers, Report(w)
    PROVE  JobsInv'
<1> DEFINE j == wk[w].j
           t == ReportedState(w)
           code == wk[w].code
<1>1. wk[w].pc = "FAILING" /\ SetWorker(w, Resting) /\ UNCHANGED data BY DEF Report
<1>2. j \in JobIds /\ code \in {"NONE", "DENIED", "STORE"}
  BY <1>1 DEF JobsInv, WorkerInv, TypeOK, WorkerStates
<1>3. /\ wk' \in [Workers -> WorkerStates]
      /\ \A v \in Workers : wk'[v] = wk[v] \/ wk'[v].pc = "IDLE"
  BY <1>1, RestingKeeps
<1>4. CASE MayReport(w)
  <2>1. SetJob(j, Settled(j, t, code)) BY <1>4 DEF Report
  <2>2. t \in States(j) /\ code \in Codes /\ t \notin {"NONE", "SUCCEEDED"}
    BY <1>2 DEF ReportedState, States, ImportStates, ExportStates, Codes
  <2> HIDE DEF j, t, code
  <2>3. RowMayBe(j, Settled(j, t, code)) BY <1>2, <2>2, SettledMayBe
  <2> QED BY <1>1, <1>2, <1>3, <2>1, <2>3, SettlingKeeps
<1>5. CASE ~MayReport(w)
  <2>1. UNCHANGED <<job, data>> BY <1>5 DEF Report
  <2>2. TypeOK' BY <1>3, <2>1 DEF JobsInv, TypeOK, data
  <2>3. RowsCounted' /\ QueuedIsFree' BY <2>1, JobStands DEF data
  <2>4. \A i \in JobIds : job'[i].attempts >= job[i].attempts
    <3>1. \A i \in JobIds : job[i].attempts \in Tokens BY DEF JobsInv, TypeOK, JobRows
    <3> QED BY <2>1, <3>1, JobBounds DEF Tokens
  <2>5. (\A v \in Workers : WorkerInv(v)') /\ TokensDiffer'
    BY <1>3, <2>1, <2>4, WorkersGoOn DEF data, JobsInv, TypeOK
  <2> QED BY <2>2, <2>3, <2>5 DEF JobsInv
<1> QED BY <1>4, <1>5

\* the transaction of one row, and the checkpoint it writes
LEMMA ProcessRowKeeps ==
    ASSUME JobsInv, NEW w \in Workers, ProcessRow(w)
    PROVE  JobsInv'
<1> DEFINE j == wk[w].j
           r == wk[w].row
<1>1. TypeOK /\ WorkerInv(w) /\ wk[w] \in WorkerStates BY DEF JobsInv, TypeOK
<1>2. /\ wk[w].pc = "ROW" /\ rows[j][r] # "GONE" /\ CreateOnce(j, r) /\ Go(w, NextRow(w))
      /\ UNCHANGED <<kind, job, basis, member>> /\ Owned(w)
  BY DEF ProcessRow
<1>3. j \in JobIds /\ r \in Rows /\ Import(j) BY <1>1, <1>2 DEF WorkerInv, WorkerStates
<1>4. job[j].state = "RUNNING" BY <1>2, <1>3 DEF Owned
<1>5. /\ rows' \in [JobIds -> [Rows -> {"VALID", "IMPORTED", "GONE"}]]
      /\ people' \in [JobIds -> [Rows -> Nat]]
      /\ rows'[j][r] = "IMPORTED" /\ people'[j][r] = 1
      /\ \A i \in JobIds, q \in Rows :
            i # j \/ q # r => rows'[i][q] = rows[i][q] /\ people'[i][q] = people[i][q]
  <2>1. CASE rows[j][r] = "IMPORTED"
    <3>1. UNCHANGED <<rows, people>> BY <1>2, <2>1 DEF CreateOnce
    <3> QED BY <1>1, <1>3, <2>1, <3>1 DEF JobsInv, TypeOK, RowsCounted
  <2>2. CASE rows[j][r] = "VALID"
    <3>1. /\ rows' = [rows EXCEPT ![j][r] = "IMPORTED"]
          /\ people' = [people EXCEPT ![j][r] = @ + 1]
      BY <1>2, <2>2 DEF CreateOnce
    <3>2. people[j][r] = 0 BY <1>3, <2>2 DEF JobsInv, RowsCounted
    <3> QED BY <1>1, <1>3, <3>1, <3>2 DEF TypeOK
  <2> QED BY <1>1, <1>2, <1>3, <2>1, <2>2 DEF TypeOK
<1>6. \A i \in JobIds, q \in Rows : people[i][q] = 1 => people'[i][q] = 1 BY <1>5
<1>7. RowsCounted' BY <1>2, <1>5 DEF JobsInv, RowsCounted
<1>8. /\ job' \in [JobIds -> JobRows]
      /\ \A i \in JobIds : job'[i].attempts >= job[i].attempts
  <2>1. \A i \in JobIds : job[i].attempts \in Tokens BY <1>1 DEF TypeOK, JobRows
  <2> QED BY <1>1, <1>2, <2>1, JobBounds DEF TypeOK, Tokens
<1>9. /\ wk' \in [Workers -> WorkerStates]
      /\ \A v \in Workers :
            \/ wk'[v] = wk[v]
            \/ /\ wk[v].pc # "IDLE" /\ wk'[v].j = wk[v].j /\ wk'[v].token = wk[v].token
               /\ WorkerInv(v)'
  <2>1. CASE SetWorker(w, Failing(w, "STORE")) BY <1>2, <1>8, <2>1, FailingKeeps
  <2>2. CASE SetWorker(w, NextRow(w))
    <3> DEFINE s == NextRow(w)
    <3>1. r \in 1..NRows BY <1>3 DEF Rows
    <3>2. /\ s \in WorkerStates /\ s.j = j /\ s.token = wk[w].token
          /\ \/ s.pc = "ROW" /\ s.row = r + 1
             \/ s.pc = "FINISH" /\ s.row = r /\ r = NRows
      <4>1. CASE r < NRows
        <5> DEFINE k == r + 1
                   s1 == [wk[w] EXCEPT !.row = k]
        <5>1. s = s1 BY <4>1 DEF NextRow
        <5>2. k \in Rows BY <3>1, <4>1, JobBounds DEF Rows
        <5> HIDE DEF k
        <5>3. s1 \in WorkerStates /\ s1.j = j /\ s1.token = wk[w].token
              /\ s1.pc = "ROW" /\ s1.row = k
          BY <1>1, <1>2, <5>2 DEF WorkerStates
        <5> QED BY <5>1, <5>3 DEF k
      <4>2. CASE ~(r < NRows)
        <5> DEFINE s2 == [wk[w] EXCEPT !.pc = "FINISH"]
        <5>1. s = s2 BY <4>2 DEF NextRow
        <5>2. s2 \in WorkerStates /\ s2.j = j /\ s2.token = wk[w].token
              /\ s2.pc = "FINISH" /\ s2.row = r
          BY <1>1 DEF WorkerStates
        <5> QED BY <3>1, <4>2, <5>1, <5>2, JobBounds
      <4> QED BY <4>1, <4>2
    <3>3. wk' = [wk EXCEPT ![w] = s] BY <2>2 DEF SetWorker
    <3> HIDE DEF s
    <3>4. wk' \in [Workers -> WorkerStates] /\ wk'[w] = s
          /\ \A v \in Workers \ {w} : wk'[v] = wk[v]
      BY <1>1, <3>2, <3>3 DEF TypeOK
    <3>5. \A q \in 1..r : people'[j][q] = 1
      <4> SUFFICES ASSUME NEW q \in 1..r PROVE people'[j][q] = 1
        OBVIOUS
      <4>1. q \in Rows BY <3>1, JobBounds DEF Rows
      <4>2. CASE q = r BY <1>5, <4>2
      <4>3. CASE q # r
        <5>1. q \in 1..(r - 1) BY <3>1, <4>3, JobBounds
        <5> QED BY <1>1, <1>2, <1>3, <1>6, <4>1, <5>1 DEF WorkerInv
      <4> QED BY <4>2, <4>3
    <3>6. WorkerInv(w)'
      <4>1. wk[w].token \in 1..job'[j].attempts BY <1>1, <1>2 DEF WorkerInv
      <4>2. CASE s.pc = "ROW" /\ s.row = r + 1
        <5>1. 1..(s.row - 1) = 1..r BY <3>1, <4>2, JobBounds
        <5> QED BY <1>2, <1>3, <3>2, <3>4, <3>5, <4>1, <4>2, <5>1 DEF WorkerInv, Import
      <4>3. CASE s.pc = "FINISH" /\ r = NRows
        <5>1. \A q \in Rows : people'[j][q] = 1 BY <3>5, <4>3 DEF Rows
        <5> QED BY <1>2, <1>3, <3>2, <3>4, <4>1, <4>3, <5>1 DEF WorkerInv, Import
      <4> QED BY <3>2, <4>2, <4>3
    <3> QED BY <1>2, <3>2, <3>4, <3>6
  <2> QED BY <1>2, <2>1, <2>2 DEF Go
<1>10. TypeOK' BY <1>1, <1>2, <1>5, <1>9 DEF TypeOK
<1>11. QueuedIsFree' BY <1>2 DEF JobsInv, QueuedIsFree, Import
<1>12. (\A v \in Workers : WorkerInv(v)') /\ TokensDiffer'
  BY <1>2, <1>6, <1>8, <1>9, WorkersGoOn
<1> QED BY <1>7, <1>10, <1>11, <1>12 DEF JobsInv

LEMMA JobsInvNext == JobsInv /\ [Next]_vars => JobsInv'
<1> SUFFICES ASSUME JobsInv, [Next]_vars PROVE JobsInv'
  OBVIOUS
<1>1. ASSUME NEW j \in JobIds, Around(j) PROVE JobsInv'
  BY <1>1, SubmitKeeps, ResumeKeeps, AroundKeeps, EraseKeeps, IsolateKeeps, LeaseEndsKeeps
     DEF Around
<1>2. ASSUME NEW w \in Workers, Take(w) PROVE JobsInv'
  BY <1>2, ClaimKeeps, ExhaustKeeps DEF Take
<1>3. ASSUME NEW w \in Workers, Work(w) \/ Abandon(w) PROVE JobsInv'
  BY <1>3, LettingGoKeeps, ProcessRowKeeps, FinishKeeps, ProduceKeeps, ReportKeeps DEF Work
<1>4. CASE UNCHANGED vars
  BY <1>4 DEF vars, JobsInv, TypeOK, RowsCounted, QueuedIsFree, WorkerInv, TokensDiffer, Import
<1> QED BY <1>1, <1>2, <1>3, <1>4 DEF Next

-------------------------------------------------------------------------------
(* The action properties: what one step does to one job *)

\* The steps that write to a job, by what they may write: with the state it leaves and
\* comes to, the code it is given and who writes.
Step(j) ==
    \/ job'[j] = job[j]
    \/ job'[j] = [job[j] EXCEPT !.live = FALSE]
    \/ job[j].state = "NONE" /\ job'[j].state = "QUEUED"
    \/ /\ Import(j) /\ job[j].state = "FAILED" /\ job[j].code = "STORE"
       /\ job'[j].state = "QUEUED"
    \/ /\ ~Import(j) /\ job[j].state # "NONE"
       /\ job'[j].state = "ERASED" /\ job'[j].code = "ERASED_BY_DELETION"
    \/ /\ ~Import(j) /\ job[j].state \notin {"NONE", "ERASED"}
       /\ job'[j].state = "STALE" /\ job'[j].code = "RECOVERY"
    \/ Import(j) /\ Underway(j) /\ job'[j].state = "FAILED" /\ job'[j].code = "RECOVERY"
    \/ \* a worker decides: the one that claims it, when nobody holds it, or its holder
       /\ Underway(j) /\ job'[j].state # "NONE"
       /\ \/ ~job[j].live /\ job'[j].state # "READY"
          \/ \E w \in Workers :
                /\ wk[w].pc # "IDLE" /\ wk[w].j = j /\ wk[w].token = job[j].token
                /\ wk'[w].pc \in {"IDLE", "FAILING"} /\ wk'[w] # wk[w]
       /\ job'[j].state = "READY" => basis[j]

\* Where none of the actions above writes, the job stays.
LEMMA OnlyWrites ==
    ASSUME JobsInv, NEW i \in JobIds, NEW row, SetJob(i, row)
    PROVE  job'[i] = row /\ \A j \in JobIds \ {i} : job'[j] = job[j]
BY DEF SetJob, JobsInv, TypeOK

\* A worker that settles a job it holds, and goes to rest or fails.
LEMMA HolderSteps ==
    ASSUME JobsInv, NEW w \in Workers, wk[w].pc # "IDLE",
           wk[w].pc = "FAILING" => SetWorker(w, Resting),
           Go(w, Resting), Underway(wk[w].j), job[wk[w].j].token = wk[w].token,
           NEW s \in States(wk[w].j), NEW code \in Codes, s # "NONE",
           SetJob(wk[w].j, Settled(wk[w].j, s, code)), s = "READY" => basis[wk[w].j]
    PROVE  \A j \in JobIds : Step(j)
<1> DEFINE i == wk[w].j
<1>1. i \in JobIds /\ wk[w] \in WorkerStates BY DEF JobsInv, WorkerInv, TypeOK
<1>2. job'[i].state = s
  <2>1. job'[i] = Settled(i, s, code) BY <1>1, OnlyWrites
  <2>2. job[i] \in JobRows BY <1>1 DEF JobsInv, TypeOK
  <2> QED BY <2>1, <2>2 DEF Settled, JobRows
<1>3. \A j \in JobIds \ {i} : job'[j] = job[j] BY <1>1, OnlyWrites
<1>4. wk'[w].pc \in {"IDLE", "FAILING"} /\ wk'[w] # wk[w]
  <2>1. wk' = [wk EXCEPT ![w] = Resting] \/ wk' = [wk EXCEPT ![w] = Failing(w, "STORE")]
    BY DEF Go, SetWorker
  <2>2. Resting.pc = "IDLE" /\ Failing(w, "STORE").pc = "FAILING"
    BY <1>1 DEF Resting, Failing, WorkerStates
  <2> HIDE DEF Resting, Failing
  <2>3. wk'[w] = Resting \/ wk'[w] = Failing(w, "STORE") BY <2>1 DEF JobsInv, TypeOK
  <2>4. wk[w].pc = "FAILING" => wk'[w] = Resting BY DEF SetWorker, JobsInv, TypeOK
  <2> QED BY <2>2, <2>3, <2>4
<1>5. Step(i) BY <1>1, <1>2, <1>4 DEF Step
<1> QED BY <1>3, <1>5 DEF Step

LEMMA AroundSteps ==
    ASSUME JobsInv, NEW i \in JobIds, Around(i)
    PROVE  \A j \in JobIds : Step(j)
<1>1. job[i] \in JobRows BY DEF JobsInv, TypeOK
<1>2. CASE Submit(i)
  <2> DEFINE row == [NoRow EXCEPT !.state = "QUEUED"]
  <2>1. row.state = "QUEUED" BY DEF NoRow
  <2>2. SetJob(i, row) /\ job[i].state = "NONE" BY <1>2 DEF Submit
  <2> HIDE DEF row
  <2>3. job'[i] = row /\ \A j \in JobIds \ {i} : job'[j] = job[j] BY <2>2, OnlyWrites
  <2> QED BY <2>1, <2>2, <2>3 DEF Step
<1>3. CASE Resume(i)
  <2> DEFINE row == [job[i] EXCEPT !.state = "QUEUED", !.token = 0, !.live = FALSE, !.code = "NONE"]
  <2>1. row.state = "QUEUED" BY <1>1 DEF JobRows
  <2>2. SetJob(i, row) /\ Import(i) /\ job[i].state = "FAILED" /\ job[i].code = "STORE"
    BY <1>3 DEF Resume
  <2> HIDE DEF row
  <2>3. job'[i] = row /\ \A j \in JobIds \ {i} : job'[j] = job[j] BY <2>2, OnlyWrites
  <2> QED BY <2>1, <2>2, <2>3 DEF Step
<1>4. CASE Withdraw(i) \/ ChangeMember(i)
  BY <1>4 DEF Withdraw, ChangeMember, Step
<1>5. CASE Erase(i)
  <2>1. CASE UNCHANGED job BY <2>1 DEF Step
  <2>2. CASE /\ ~Import(i) /\ job[i].state # "NONE"
             /\ SetJob(i, Settled(i, "ERASED", "ERASED_BY_DELETION"))
    <3> DEFINE row == Settled(i, "ERASED", "ERASED_BY_DELETION")
    <3>1. row.state = "ERASED" /\ row.code = "ERASED_BY_DELETION"
      BY <1>1 DEF Settled, JobRows
    <3> HIDE DEF row
    <3>2. job'[i] = row /\ \A j \in JobIds \ {i} : job'[j] = job[j] BY <2>2, OnlyWrites DEF row
    <3> QED BY <2>2, <3>1, <3>2 DEF Step
  <2> QED BY <1>5, <2>1, <2>2 DEF Erase
<1>6. CASE Isolate(i)
  <2>1. CASE Import(i) /\ Underway(i) /\ SetJob(i, Settled(i, "FAILED", "RECOVERY"))
    <3> DEFINE row == Settled(i, "FAILED", "RECOVERY")
    <3>1. row.state = "FAILED" /\ row.code = "RECOVERY" BY <1>1 DEF Settled, JobRows
    <3> HIDE DEF row
    <3>2. job'[i] = row /\ \A j \in JobIds \ {i} : job'[j] = job[j] BY <2>1, OnlyWrites DEF row
    <3> QED BY <2>1, <3>1, <3>2 DEF Step
  <2>2. CASE /\ ~Import(i) /\ job[i].state \notin {"NONE", "ERASED"}
             /\ SetJob(i, Settled(i, "STALE", "RECOVERY"))
    <3> DEFINE row == Settled(i, "STALE", "RECOVERY")
    <3>1. row.state = "STALE" /\ row.code = "RECOVERY" BY <1>1 DEF Settled, JobRows
    <3> HIDE DEF row
    <3>2. job'[i] = row /\ \A j \in JobIds \ {i} : job'[j] = job[j] BY <2>2, OnlyWrites DEF row
    <3> QED BY <2>2, <3>1, <3>2 DEF Step
  <2> QED BY <1>6, <2>1, <2>2 DEF Isolate
<1>7. CASE LeaseEnds(i)
  <2>1. SetJob(i, [job[i] EXCEPT !.live = FALSE]) BY <1>7 DEF LeaseEnds
  <2>2. /\ job'[i] = [job[i] EXCEPT !.live = FALSE]
        /\ \A j \in JobIds \ {i} : job'[j] = job[j]
    BY <2>1, OnlyWrites
  <2> QED BY <2>2 DEF Step
<1> QED BY <1>2, <1>3, <1>4, <1>5, <1>6, <1>7 DEF Around

LEMMA TakeSteps ==
    ASSUME JobsInv, NEW w \in Workers, Take(w)
    PROVE  \A j \in JobIds : Step(j)
<1>1. PICK i \in JobIds : Claim(w, i) \/ Exhaust(w, i) BY DEF Take
<1>2. job[i] \in JobRows /\ Underway(i) /\ ~job[i].live
  BY <1>1 DEF JobsInv, TypeOK, QueuedIsFree, Claim, Exhaust, Claimable, Underway
<1>3. CASE Claim(w, i)
  <2> DEFINE n == job[i].attempts + 1
             t == IF Import(i) THEN "RUNNING" ELSE job[i].state
             row == [job[i] EXCEPT !.state = t, !.attempts = n, !.token = n, !.live = TRUE]
  <2>1. SetJob(i, row) BY <1>2, <1>3 DEF Claim, JobRows
  <2>2. row.state = t /\ t \in {"RUNNING", "QUEUED"}
    BY <1>2, <1>3 DEF Claim, Claimable, JobRows
  <2> HIDE DEF row, t
  <2>3. job'[i] = row /\ \A j \in JobIds \ {i} : job'[j] = job[j] BY <2>1, OnlyWrites
  <2> QED BY <1>2, <2>2, <2>3 DEF Step
<1>4. CASE Exhaust(w, i)
  <2> DEFINE row == Settled(i, "FAILED", "ATTEMPTS_EXHAUSTED")
  <2>1. row.state = "FAILED" BY <1>2 DEF Settled, JobRows
  <2> HIDE DEF row
  <2>2. job'[i] = row /\ \A j \in JobIds \ {i} : job'[j] = job[j]
    BY <1>4, OnlyWrites DEF Exhaust, row
  <2> QED BY <1>2, <2>1, <2>2 DEF Step
<1> QED BY <1>1, <1>3, <1>4

LEMMA WorkSteps ==
    ASSUME JobsInv, NEW w \in Workers, Work(w) \/ Abandon(w)
    PROVE  \A j \in JobIds : Step(j)
<1> DEFINE i == wk[w].j
<1>1. CASE LeaseLost(w) \/ Refused(w) \/ StoreFails(w) \/ ProcessRow(w) \/ Abandon(w)
  BY <1>1 DEF LeaseLost, Refused, StoreFails, ProcessRow, Abandon, Step
<1>2. CASE Finish(w)
  <2>1. wk[w].pc = "FINISH" /\ Import(i) BY <1>2 DEF Finish, JobsInv, WorkerInv
  <2>2. Underway(i) /\ job[i].token = wk[w].token
    BY <1>2, <2>1 DEF Finish, Owned, Underway
  <2>3. "SUCCEEDED" \in States(i) /\ "NONE" \in Codes
    BY <2>1 DEF States, ImportStates, Codes
  <2> QED BY <1>2, <2>1, <2>2, <2>3, HolderSteps DEF Finish
<1>3. CASE Produce(w)
  <2>1. wk[w].pc = "PRODUCE" /\ ~Import(i) BY <1>3 DEF Produce, JobsInv, WorkerInv
  <2>2. Underway(i) /\ job[i].token = wk[w].token /\ basis[i]
    BY <1>3, <2>1 DEF Produce, Owned, Underway, Admitted
  <2>3. "READY" \in States(i) /\ "NONE" \in Codes
    BY <2>1 DEF States, ExportStates, Codes
  <2> QED BY <1>3, <2>1, <2>2, <2>3, HolderSteps DEF Produce
<1>4. CASE Report(w)
  <2>1. wk[w].pc = "FAILING" /\ SetWorker(w, Resting) /\ i \in JobIds
    BY <1>4 DEF Report, JobsInv, WorkerInv
  <2>2. CASE MayReport(w)
    <3> DEFINE t == ReportedState(w)
               code == wk[w].code
    <3>1. SetJob(i, Settled(i, t, code)) BY <1>4, <2>2 DEF Report
    <3>2. Underway(i) /\ job[i].token = wk[w].token
      BY <2>2 DEF MayReport, Owned, Underway
    <3>3. t \in States(i) /\ t \notin {"NONE", "READY"}
      BY <2>1 DEF ReportedState, States, ImportStates, ExportStates
    <3>4. code \in Codes BY DEF JobsInv, TypeOK, WorkerStates, Codes
    <3>5. Go(w, Resting) BY <2>1 DEF Go
    <3> HIDE DEF t, code
    <3> QED BY <2>1, <3>1, <3>2, <3>3, <3>4, <3>5, HolderSteps
  <2>3. CASE ~MayReport(w)
    BY <1>4, <2>3 DEF Report, Step
  <2> QED BY <2>2, <2>3
<1> QED BY <1>1, <1>2, <1>3, <1>4 DEF Work

LEMMA NextSteps == JobsInv /\ [Next]_vars => \A j \in JobIds : Step(j)
<1> SUFFICES ASSUME JobsInv, [Next]_vars PROVE \A j \in JobIds : Step(j)
  OBVIOUS
<1>1. CASE UNCHANGED vars BY <1>1 DEF vars, Step
<1> QED BY <1>1, AroundSteps, TakeSteps, WorkSteps DEF Next

\* A person is created in one step only, and it asks for the source.
LEMMA PeopleSteps ==
    ASSUME JobsInv, [Next]_vars, NEW j \in JobIds, ~basis[j]
    PROVE  people'[j] = people[j]
<1>1. CASE people' = people BY <1>1
<1>2. ASSUME NEW w \in Workers, ProcessRow(w) PROVE people'[j] = people[j]
  <2>1. wk[w].j # j /\ CreateOnce(wk[w].j, wk[w].row) BY <1>2 DEF ProcessRow, Admitted
  <2> QED BY <2>1 DEF CreateOnce, JobsInv, TypeOK
<1>3. ASSUME NEW w \in Workers, Take(w) \/ Work(w) \/ Abandon(w), ~ProcessRow(w)
      PROVE  people' = people
  BY <1>3 DEF Take, Work, Abandon, Claim, Exhaust, LeaseLost, Refused, StoreFails, Finish,
              Produce, Report, data
<1>4. ASSUME NEW i \in JobIds, Around(i) PROVE people' = people
  BY <1>4 DEF Around, Submit, Resume, Withdraw, ChangeMember, Erase, Isolate, LeaseEnds, data
<1> QED BY <1>1, <1>2, <1>3, <1>4 DEF Next, vars

-------------------------------------------------------------------------------
(* Theorems *)

\* The inductive invariant: rows, workers and tokens agree with the people that exist.
THEOREM JobsInvariant == Spec => []JobsInv
<1>1. Init => JobsInv BY JobsInvInit
<1>2. JobsInv /\ [Next]_vars => JobsInv' BY JobsInvNext
<1> QED BY <1>1, <1>2, PTL DEF Spec

\* A row becomes one person, and an import that succeeded left none out (imports.ts process).
THEOREM RowsBecomeOnePerson == Spec => []EachRowOnce
<1>1. JobsInv => EachRowOnce BY DEF JobsInv, RowsCounted, EachRowOnce
<1> QED BY <1>1, JobsInvariant, PTL

\* What a job came to is not undone by a late or a second worker (imports.ts, exports.ts).
THEOREM OutcomesAreKept == Spec => OutcomesStand
<1> DEFINE A == \A j \in JobIds :
        job[j].state \notin {"NONE", "QUEUED", "RUNNING"} /\ job'[j].state # job[j].state
            => job'[j].state \in After(j)
<1>1. JobsInv /\ [Next]_vars => [A]_vars
  <2> SUFFICES ASSUME JobsInv, [Next]_vars, NEW j \in JobIds,
                      job[j].state \notin {"NONE", "QUEUED", "RUNNING"},
                      job'[j].state # job[j].state
               PROVE  job'[j].state \in After(j)
    OBVIOUS
  <2>1. Step(j) BY NextSteps
  <2>2. job[j] \in JobRows /\ job[j].state \in States(j) BY DEF JobsInv, TypeOK, States, Import
  <2>3. [job[j] EXCEPT !.live = FALSE].state = job[j].state BY <2>2 DEF JobRows
  <2> QED BY <2>1, <2>2, <2>3 DEF Step, After, Underway, States, ImportStates, ExportStates
<1> QED BY <1>1, JobsInvariant, PTL DEF Spec, OutcomesStand

\* From the step that withdraws its source, a job makes nothing (imports.ts authority,
\* exports.ts validate, asked in every transaction).
THEOREM WithdrawnJobsMakeNothing == Spec => WithdrawnMakesNothing
<1> DEFINE A == \A j \in JobIds : ~basis[j] =>
        /\ people'[j] = people[j]
        /\ job'[j].state = "READY" => job[j].state = "READY"
<1>1. JobsInv /\ [Next]_vars => [A]_vars
  <2> SUFFICES ASSUME JobsInv, [Next]_vars, NEW j \in JobIds, ~basis[j]
               PROVE  /\ people'[j] = people[j]
                      /\ job'[j].state = "READY" => job[j].state = "READY"
    OBVIOUS
  <2>1. Step(j) BY NextSteps
  <2>2. job[j] \in JobRows BY DEF JobsInv, TypeOK
  <2>3. [job[j] EXCEPT !.live = FALSE].state = job[j].state BY <2>2 DEF JobRows
  <2>4. job'[j].state = "READY" => job[j].state = "READY" BY <2>1, <2>3 DEF Step
  <2> QED BY <2>4, PeopleSteps
<1> QED BY <1>1, JobsInvariant, PTL DEF Spec, WithdrawnMakesNothing

\* While a worker holds the live lease of a job no other worker decides it (imports.ts owned,
\* exports.ts owned and the catch of process).
THEOREM HoldersDecide == Spec => HolderDecides
<1> DEFINE A == \A j \in JobIds, w \in Workers :
        Holds(w, j) /\ wk'[w] = wk[w] /\ job'[j] # job[j]
            => \/ job'[j] = [job[j] EXCEPT !.live = FALSE]
               \/ job'[j].code \in {"RECOVERY", "ERASED_BY_DELETION"}
<1>1. JobsInv /\ [Next]_vars => [A]_vars
  <2> SUFFICES ASSUME JobsInv, [Next]_vars, NEW j \in JobIds, NEW w \in Workers,
                      Holds(w, j), wk'[w] = wk[w], job'[j] # job[j]
               PROVE  \/ job'[j] = [job[j] EXCEPT !.live = FALSE]
                      \/ job'[j].code \in {"RECOVERY", "ERASED_BY_DELETION"}
    OBVIOUS
  <2>1. Step(j) BY NextSteps
  <2>2. ASSUME NEW v \in Workers, wk[v].pc # "IDLE", wk[v].j = j, wk[v].token = job[j].token
        PROVE  v = w
    BY <2>2 DEF Holds, JobsInv, TokensDiffer
  <2> QED BY <2>1, <2>2 DEF Step, Holds, Underway
<1> QED BY <1>1, JobsInvariant, PTL DEF Spec, HolderDecides

\* All that the run of Jobs asks of a job, for every instance of it.
THEOREM JobsAnswer == Spec => JobsAnswerOnce
<1>1. JobsInv => TypeOK /\ EachRowOnce BY DEF JobsInv, RowsCounted, EachRowOnce
<1> QED BY <1>1, JobsInvariant, OutcomesAreKept, WithdrawnJobsMakeNothing, HoldersDecide, PTL
        DEF JobsAnswerOnce
===============================================================================
