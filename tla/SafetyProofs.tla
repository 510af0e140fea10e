----------------------------- MODULE SafetyProofs -----------------------------
(***************************************************************************)
(* Theorems about AiDispatch for every number of runs, workers, attempts,   *)
(* revisions, days and amounts of money; and at the end, from those of      *)
(* MediaUploadProofs and MediaPurgeProofs, about the other scenes that       *)
(* MCSafety puts next to it.                                                *)
(***************************************************************************)
EXTENDS MCSafety, Sequences, FiniteSetTheorems, TLAPS

\* The number dispatchAi gives the next attempt is a positive integer.
LEMMA NextNoPositive == ASSUME NEW r \in Runs, MaxAttempts \in Nat
                        PROVE  NextNo(r) \in Nat /\ NextNo(r) > 0
<1> DEFINE S == {n \in AttNos : att[r][n].state # "ABSENT"}
<1>1. IsFiniteSet(AttNos) BY FS_Interval DEF AttNos
<1>2. IsFiniteSet(S) BY <1>1, FS_Subset
<1>3. Cardinality(S) \in Nat BY <1>2, FS_CardinalityType
<1> QED BY <1>3 DEF NextNo

LEMMA RunCountNat == Cardinality({q \in Runs : run[q].state # "NONE"}) \in Nat
<1>1. IsFiniteSet({q \in Runs : run[q].state # "NONE"}) BY ModelConstants, FS_Subset
<1> QED BY <1>1, FS_CardinalityType

LEMMA CancelRunTyped == ASSUME NEW rec \in AiRuns
                        PROVE  CancelRun(rec) \in AiRuns /\ Released(rec) \in Nat
                               /\ CancelRun(rec).day = rec.day
BY DEF CancelRun, Released, AiRuns, OpenStates, Days, NoCharge

LEMMA TypeInit == Init => TypeOK
<1> SUFFICES ASSUME Init PROVE TypeOK OBVIOUS
<1> QED BY ModelConstants, CodeConstants
        DEF Init, TypeOK, Days, AttNos, NoBudget, NoAiRun, NoAttempt, Resting, Budgets, AiRuns,
            Attempts, WorkerStates, WorkerRecords, PCs, ProposalStates, NoCharge, OpenStates, Unresolved

LEMMA CancelTyped == ASSUME TypeOK, NEW r \in Runs, Cancel(r)
                     PROVE  run' \in [Runs -> AiRuns] /\ budget' \in [Days -> Budgets]
<1> DEFINE d == run[r].day
           b == [budget[d] EXCEPT !.reserved = @ - Released(run[r])]
<1>1. run \in [Runs -> AiRuns] /\ budget \in [Days -> Budgets] BY DEF TypeOK
<1>2. run[r] \in AiRuns /\ d \in Days BY <1>1 DEF AiRuns
<1>3. CancelRun(run[r]) \in AiRuns /\ Released(run[r]) \in Nat BY <1>2, CancelRunTyped
<1>4. b \in Budgets BY <1>1, <1>2, <1>3 DEF Budgets
<1>5. run' = [run EXCEPT ![r] = CancelRun(run[r])] /\ budget' = [budget EXCEPT ![d] = b]
  BY DEF Cancel
<1> HIDE DEF d, b
<1> QED BY <1>1, <1>2, <1>3, <1>4, <1>5

LEMMA RestingTyped == Resting \in WorkerStates
BY ModelConstants DEF Resting, WorkerStates, WorkerRecords, PCs, NoCharge

LEMMA TypeReserve == ASSUME TypeOK, NEW r \in Runs, Reserve(r) PROVE TypeOK'
<1> DEFINE b == [budget[day] EXCEPT !.reserved = @ + PerTask[conf.rev]]
           k == Cardinality({q \in Runs : run[q].state # "NONE"})
           rec == [NoAiRun EXCEPT !.state = "QUEUED", !.day = day, !.rev = conf.rev, !.no = k,
                                  !.epoch = conf.epoch, !.reserved = PerTask[conf.rev]]
<1>1. run \in [Runs -> AiRuns] /\ budget \in [Days -> Budgets] /\ day \in Days
      /\ conf.rev \in 1..MaxRev /\ conf.epoch \in 1..MaxEpoch
  BY DEF TypeOK
<1>2. PerTask[conf.rev] \in Nat BY <1>1, ModelConstants
<1>3. b \in Budgets BY <1>1, <1>2 DEF Budgets
<1>4. k \in Nat BY RunCountNat
<1>5. budget' = [budget EXCEPT ![day] = b] /\ run' = [run EXCEPT ![r] = rec] BY DEF Reserve
<1> HIDE DEF k
<1>6. rec \in AiRuns BY <1>1, <1>2, <1>4 DEF AiRuns, NoAiRun, OpenStates, NoCharge
<1> HIDE DEF b, rec
<1>7. budget' \in [Days -> Budgets] /\ run' \in [Runs -> AiRuns] BY <1>1, <1>3, <1>5, <1>6
<1> QED BY <1>7 DEF TypeOK, Reserve

LEMMA TypeBegin == ASSUME TypeOK, NEW w \in Workers, Begin(w) PROVE TypeOK'
<1> DEFINE r == wk[w].r
           n == NextNo(r)
           a == [NoAttempt EXCEPT !.state = "MAY_HAVE_EXECUTED"]
           me == [wk[w] EXCEPT !.pc = "PREPARED", !.n = n]
<1>1. /\ wk \in [Workers -> WorkerStates] /\ run \in [Runs -> AiRuns]
      /\ att \in [Runs -> [AttNos -> Attempts]]
  BY DEF TypeOK
<1>2. wk[w] \in WorkerStates /\ r \in Runs /\ wk[w].rev # 0
  BY <1>1 DEF Begin, WorkerStates
<1>3. n \in AttNos /\ n # 0
  <2>1. n \in Nat /\ n > 0 BY <1>2, NextNoPositive, ModelConstants
  <2>2. n <= MaxAttempts BY DEF Begin, MayBegin
  <2> HIDE DEF n
  <2> QED BY <2>1, <2>2, ModelConstants DEF AttNos
<1>4. /\ att' = [att EXCEPT ![r] = [att[r] EXCEPT ![n] = a]]
      /\ run' = [run EXCEPT ![r] = [run[r] EXCEPT !.state = "RUNNING"]]
      /\ wk' = [wk EXCEPT ![w] = me] \/ wk' = [wk EXCEPT ![w] = Resting]
  BY DEF Begin, Rest
<1> HIDE DEF n
<1>5. a \in Attempts BY CodeConstants DEF Attempts, NoAttempt, Unresolved
<1>6. [run[r] EXCEPT !.state = "RUNNING"] \in AiRuns BY <1>1, <1>2 DEF AiRuns, OpenStates
<1>7. me \in WorkerStates
  <2>1. wk[w] \in WorkerRecords BY <1>2 DEF WorkerStates
  <2>a. n \in 0..MaxAttempts BY <1>3, ModelConstants DEF AttNos
  <2>2. me \in WorkerRecords BY <2>1, <2>a DEF WorkerRecords, PCs
  <2>3. me.pc = "PREPARED" /\ me.r = r /\ me.n = n /\ me.rev = wk[w].rev
    BY <2>1 DEF WorkerRecords
  <2> HIDE DEF me
  <2> QED BY <1>2, <1>3, <2>2, <2>3 DEF WorkerStates
<1> HIDE DEF a, me
<1>8. /\ att' \in [Runs -> [AttNos -> Attempts]] /\ run' \in [Runs -> AiRuns]
      /\ wk' \in [Workers -> WorkerStates]
  BY <1>1, <1>2, <1>3, <1>4, <1>5, <1>6, <1>7, RestingTyped
<1> QED BY <1>8 DEF TypeOK, Begin

LEMMA GotoTyped ==
  ASSUME NEW s \in WorkerStates, NEW pc \in PCs,
         pc \notin {"IDLE", "SWEPT"} => s.r \in Runs,
         pc = "CONFIGURED" => s.rev # 0,
         pc \in {"PREPARED", "SENT", "RECEIVED", "FAILED"} => s.n # 0 /\ s.rev # 0
  PROVE  [s EXCEPT !.pc = pc] \in WorkerStates
<1> DEFINE me == [s EXCEPT !.pc = pc]
<1>1. s \in WorkerRecords BY DEF WorkerStates
<1>2. me \in WorkerRecords BY <1>1 DEF WorkerRecords
<1>3. me.pc = pc /\ me.r = s.r /\ me.n = s.n /\ me.rev = s.rev BY <1>1 DEF WorkerRecords
<1> HIDE DEF me
<1>4. me \in WorkerStates BY <1>2, <1>3 DEF WorkerStates
<1> QED BY <1>4 DEF me

\* Every move of a worker that keeps what it works on keeps its shape.
LEMMA MovesTyped ==
  ASSUME TypeOK, NEW w \in Workers, NEW pc \in PCs, Goto(w, pc),
         pc \notin {"IDLE", "SWEPT"} => wk[w].pc \notin {"IDLE", "SWEPT"},
         pc # "CONFIGURED",
         pc \in {"PREPARED", "SENT", "RECEIVED", "FAILED"} =>
            wk[w].pc \in {"PREPARED", "SENT", "RECEIVED", "FAILED"}
  PROVE  wk' \in [Workers -> WorkerStates]
<1>1. wk \in [Workers -> WorkerStates] BY DEF TypeOK
<1>2. [wk[w] EXCEPT !.pc = pc] \in WorkerStates BY <1>1, GotoTyped DEF WorkerStates
<1>3. wk' = [wk EXCEPT ![w] = [wk[w] EXCEPT !.pc = pc]] BY DEF Goto
<1> QED BY <1>1, <1>2, <1>3

LEMMA RestTyped == ASSUME TypeOK, NEW w \in Workers, Rest(w)
                   PROVE  wk' \in [Workers -> WorkerStates]
BY RestingTyped DEF TypeOK, Rest

LEMMA MarkUnknownTyped ==
  ASSUME TypeOK, NEW r \in Runs, NEW n \in AttNos, MarkUnknown(r, n)
  PROVE  run' \in [Runs -> AiRuns] /\ att' \in [Runs -> [AttNos -> Attempts]]
<1> DEFINE a == [att[r][n] EXCEPT !.state = "UNKNOWN"]
           rec == [run[r] EXCEPT !.state = "UNKNOWN"]
<1>1. run \in [Runs -> AiRuns] /\ att \in [Runs -> [AttNos -> Attempts]] BY DEF TypeOK
<1>0. att[r][n] \in Attempts BY <1>1
<1>2. a \in Attempts BY <1>0 DEF Attempts, Unresolved
<1>3. rec \in AiRuns BY <1>1 DEF AiRuns, OpenStates
<1>4. \/ att' = att /\ run' = run
      \/ att' = [att EXCEPT ![r] = [att[r] EXCEPT ![n] = a]] /\ run' = [run EXCEPT ![r] = rec]
  BY DEF MarkUnknown
<1> HIDE DEF a, rec
<1> QED BY <1>1, <1>2, <1>3, <1>4

LEMMA SettleTyped ==
  ASSUME TypeOK, NEW r \in Runs, NEW n \in AttNos, NEW rec \in AiRuns, NEW amount \in Nat,
         NEW outcome \in {"SUCCEEDED", "NOT_EXECUTED"}, NEW by \in {"PROVIDER", "REVIEWER"},
         Settle(r, n, rec, outcome, amount, by)
  PROVE  /\ run' \in [Runs -> AiRuns] /\ att' \in [Runs -> [AttNos -> Attempts]]
         /\ budget' \in [Days -> Budgets]
<1> DEFINE b == SettledBudget(budget[rec.day], rec, outcome, amount)
           a == [att[r][n] EXCEPT !.state = outcome, !.by = by, !.amount = amount]
           fin == SettledRun(rec, outcome, amount)
           d == rec.day
<1>1. /\ run \in [Runs -> AiRuns] /\ att \in [Runs -> [AttNos -> Attempts]]
      /\ budget \in [Days -> Budgets]
  BY DEF TypeOK
<1>0. att[r][n] \in Attempts BY <1>1
<1>2. a \in Attempts BY <1>0 DEF Attempts
<1>3. fin \in AiRuns BY DEF SettledRun, AiRuns, OpenStates
<1>4. d \in Days /\ rec.reserved \in Nat BY DEF AiRuns
<1>5. b \in Budgets
  <2>1. budget[d] \in Budgets BY <1>1, <1>4
  <2>2. /\ budget[d].reserved \in Int /\ budget[d].settled \in Nat
        /\ budget[d].frozen \in BOOLEAN
    BY <2>1 DEF Budgets
  <2>3. budget[d].reserved - rec.reserved \in Int /\ budget[d].settled + amount \in Nat
    BY <2>2, <1>4
  <2>4. (budget[d].frozen \/ amount > rec.reserved) \in BOOLEAN OBVIOUS
  <2> DEFINE x == budget[d].reserved - rec.reserved
             y == budget[d].settled + amount
             z == budget[d].frozen \/ amount > rec.reserved
  <2>5. b = budget[d] \/ b = [reserved |-> x, settled |-> y, frozen |-> z]
    BY DEF SettledBudget
  <2> HIDE DEF b, x, y, z
  <2>6. x \in Int /\ y \in Nat BY <2>3 DEF x, y
  <2>7. z \in BOOLEAN BY <2>4 DEF z
  <2> QED BY <2>1, <2>5, <2>6, <2>7 DEF Budgets
<1>6. \/ run' = [run EXCEPT ![r] = rec] /\ att' = att /\ budget' = budget
      \/ /\ att' = [att EXCEPT ![r] = [att[r] EXCEPT ![n] = a]]
         /\ run' = [run EXCEPT ![r] = fin]
         /\ budget' = [budget EXCEPT ![d] = b]
  BY DEF Settle
<1> HIDE DEF a, b, fin, d
<1>7. run' \in [Runs -> AiRuns] BY <1>1, <1>3, <1>6
<1>8. att' \in [Runs -> [AttNos -> Attempts]]
  <2> DEFINE g == [att[r] EXCEPT ![n] = a]
  <2>1. att[r] \in [AttNos -> Attempts] BY <1>1
  <2>2. g \in [AttNos -> Attempts] BY <1>2, <2>1
  <2>3. att' = att \/ att' = [att EXCEPT ![r] = g] BY <1>6
  <2> HIDE DEF g
  <2>4. CASE att' = att BY <1>1, <2>4
  <2>5. CASE att' = [att EXCEPT ![r] = g] BY <1>1, <2>2, <2>5
  <2> QED BY <2>3, <2>4, <2>5
<1>9. budget' \in [Days -> Budgets] BY <1>1, <1>4, <1>5, <1>6
<1> QED BY <1>7, <1>8, <1>9

\* The fields of a worker that has an attempt in hand.
LEMMA InHand ==
  ASSUME TypeOK, NEW w \in Workers, wk[w].pc \in {"PREPARED", "SENT", "RECEIVED", "FAILED"}
  PROVE  /\ wk[w].r \in Runs /\ wk[w].n \in AttNos
         /\ wk[w].rev \in 1..MaxRev
         /\ wk[w].amount # NoCharge => wk[w].amount \in Charges
<1>1. wk[w] \in WorkerStates BY DEF TypeOK
<1>2. wk[w].r \in Runs /\ wk[w].n # 0 /\ wk[w].rev # 0 BY <1>1 DEF WorkerStates
<1>3. wk[w].n \in 0..MaxAttempts /\ wk[w].rev \in 0..MaxRev /\ wk[w].amount \in Charges \cup {NoCharge}
  BY <1>1 DEF WorkerStates, WorkerRecords
<1>4. wk[w].n \in AttNos BY <1>2, <1>3, ModelConstants DEF AttNos
<1>5. wk[w].rev \in 1..MaxRev BY <1>2, <1>3, ModelConstants
<1> QED BY <1>2, <1>3, <1>4, <1>5

LEMMA TypeMember == ASSUME TypeOK, NEW r \in Runs, Member(r) PROVE TypeOK'
<1>1. CASE Reserve(r) BY <1>1, TypeReserve
<1>2. CASE CancelTask(r)
  <2>1. run' \in [Runs -> AiRuns] /\ budget' \in [Days -> Budgets]
    BY <1>2, CancelTyped DEF CancelTask
  <2>2. task' \in [Runs -> ProposalStates]
    BY <1>2 DEF CancelTask, TypeOK, CancelledProposal, ProposalStates
  <2> QED BY <1>2, <2>1, <2>2 DEF TypeOK, CancelTask
<1>3. CASE RejectProposal(r)
  BY <1>3 DEF RejectProposal, TypeOK, ledger, ProposalStates
<1>4. CASE ApplyProposal(r)
  BY <1>4 DEF ApplyProposal, TypeOK, ledger, ProposalStates
<1>5. CASE EraseTask(r)
  <2>1. run' \in [Runs -> AiRuns] /\ budget' \in [Days -> Budgets]
    BY <1>5, CancelTyped DEF EraseTask
  <2>2. task' \in [Runs -> ProposalStates] BY <1>5 DEF EraseTask, TypeOK, ProposalStates
  <2> QED BY <1>5, <2>1, <2>2 DEF TypeOK, EraseTask
<1>6. CASE ChangeBasis(r)
  BY <1>6 DEF ChangeBasis, TypeOK, ledger
<1> QED BY <1>1, <1>2, <1>3, <1>4, <1>5, <1>6 DEF Member

LEMMA TypeAdministrator == ASSUME TypeOK, Administrator PROVE TypeOK'
<1>0. conf \in [rev: 1..MaxRev, approved: BOOLEAN, epoch: 1..MaxEpoch] BY DEF TypeOK
<1>1. CASE SaveConnection
  <2>1. conf' \in [rev: 1..MaxRev, approved: BOOLEAN, epoch: 1..MaxEpoch]
    <3>1. conf.rev \in 1..MaxRev /\ conf.rev < MaxRev BY <1>0, <1>1 DEF SaveConnection
    <3>2. conf.rev + 1 \in 1..MaxRev BY <3>1, ModelConstants
    <3>3. conf' = [conf EXCEPT !.rev = conf.rev + 1, !.approved = FALSE]
      BY <1>1 DEF SaveConnection
    <3> QED BY <1>0, <3>2, <3>3
  <2> QED BY <1>1, <2>1 DEF SaveConnection, TypeOK, ledger
<1>2. CASE ToggleApproval
  <2>1. conf' \in [rev: 1..MaxRev, approved: BOOLEAN, epoch: 1..MaxEpoch]
    BY <1>0, <1>2 DEF ToggleApproval
  <2> QED BY <1>2, <2>1 DEF ToggleApproval, TypeOK, ledger
<1>3. CASE Isolate
  <2>1. conf' \in [rev: 1..MaxRev, approved: BOOLEAN, epoch: 1..MaxEpoch]
    <3>1. conf.epoch \in 1..MaxEpoch /\ conf.epoch < MaxEpoch BY <1>0, <1>3 DEF Isolate
    <3>2. conf.epoch + 1 \in 1..MaxEpoch BY <3>1, ModelConstants
    <3>3. conf' = [conf EXCEPT !.epoch = conf.epoch + 1, !.approved = FALSE]
      BY <1>3 DEF Isolate
    <3> QED BY <1>0, <3>2, <3>3
  <2>2. wk' \in [Workers -> WorkerStates] BY <1>3, RestingTyped DEF Isolate
  <2> QED BY <1>3, <2>1, <2>2 DEF Isolate, TypeOK, ledger
<1>4. ASSUME NEW d \in Days, Unfreeze(d) PROVE TypeOK'
  <2> DEFINE b == [budget[d] EXCEPT !.frozen = FALSE]
  <2>1. budget \in [Days -> Budgets] BY DEF TypeOK
  <2>2. b \in Budgets BY <2>1 DEF Budgets
  <2>3. budget' = [budget EXCEPT ![d] = b] BY <1>4 DEF Unfreeze
  <2> HIDE DEF b
  <2>4. budget' \in [Days -> Budgets] BY <2>1, <2>2, <2>3
  <2> QED BY <1>4, <2>4 DEF Unfreeze, TypeOK
<1>5. ASSUME NEW r \in Runs, NEW n \in AttNos, NEW outcome \in {"SUCCEEDED", "NOT_EXECUTED"},
             NEW amount \in Charges \cup {0}, Reconcile(r, n, outcome, amount)
      PROVE  TypeOK'
  <2>1. run[r] \in AiRuns BY DEF TypeOK
  <2>2. RunToReconcile(r) \in AiRuns BY <2>1, CancelRunTyped DEF RunToReconcile
  <2>3. amount \in Nat BY ModelConstants
  <2>4. Settle(r, n, RunToReconcile(r), outcome, amount, "REVIEWER") BY <1>5 DEF Reconcile
  <2>5. /\ run' \in [Runs -> AiRuns] /\ att' \in [Runs -> [AttNos -> Attempts]]
        /\ budget' \in [Days -> Budgets]
    BY <2>2, <2>3, <2>4, SettleTyped
  <2> QED BY <1>5, <2>5 DEF Reconcile, TypeOK
<1> QED BY <1>1, <1>2, <1>3, <1>4, <1>5 DEF Administrator

LEMMA TypeIsolateRun == ASSUME TypeOK, NEW r \in isolating, IsolateRun(r) PROVE TypeOK'
<1> DEFINE d == run[r].day
           b == [budget[d] EXCEPT !.reserved = @ - Released(run[r])]
           hit == \E n \in AttNos : att[r][n].state = "MAY_HAVE_EXECUTED"
           rec == IF hit THEN [CancelRun(run[r]) EXCEPT !.state = "UNKNOWN"] ELSE CancelRun(run[r])
           row == [n \in AttNos |-> GivenUp(att[r][n])]
<1>1. /\ run \in [Runs -> AiRuns] /\ att \in [Runs -> [AttNos -> Attempts]]
      /\ budget \in [Days -> Budgets] /\ r \in Runs
  BY DEF TypeOK
<1>2. run[r] \in AiRuns /\ d \in Days BY <1>1 DEF AiRuns
<1>3. CancelRun(run[r]) \in AiRuns /\ Released(run[r]) \in Nat BY <1>2, CancelRunTyped
<1>4. b \in Budgets
  <2>1. budget[d] \in Budgets BY <1>1, <1>2
  <2>2. budget[d].reserved - Released(run[r]) \in Int BY <2>1, <1>3 DEF Budgets
  <2> HIDE DEF d
  <2> QED BY <2>1, <2>2 DEF Budgets
<1>5. [CancelRun(run[r]) EXCEPT !.state = "UNKNOWN"] \in AiRuns BY <1>3 DEF AiRuns, OpenStates
<1>6. rec \in AiRuns BY <1>3, <1>5
<1>7. row \in [AttNos -> Attempts]
  <2>1. ASSUME NEW n \in AttNos PROVE GivenUp(att[r][n]) \in Attempts
    <3>1. att[r][n] \in Attempts BY <1>1
    <3> QED BY <3>1 DEF GivenUp, Attempts, Unresolved
  <2> QED BY <2>1
<1>8. /\ run' = [run EXCEPT ![r] = rec] /\ budget' = [budget EXCEPT ![d] = b]
      /\ att' = [att EXCEPT ![r] = row]
  BY DEF IsolateRun
<1> HIDE DEF d, b, hit, rec, row
<1>9. /\ run' \in [Runs -> AiRuns] /\ budget' \in [Days -> Budgets]
      /\ att' \in [Runs -> [AttNos -> Attempts]]
  BY <1>1, <1>2, <1>4, <1>6, <1>7, <1>8
<1>10. task' \in [Runs -> ProposalStates]
  BY DEF IsolateRun, TypeOK, CancelledProposal, ProposalStates
<1>11. basis' \in [Runs -> {"CURRENT", "EDITED", "CHANGED"}] BY DEF IsolateRun, TypeOK
<1> QED BY <1>9, <1>10, <1>11 DEF IsolateRun, TypeOK

LEMMA TypeSweep == ASSUME TypeOK, NEW w \in Workers, Sweep(w) PROVE TypeOK'
<1>1. run \in [Runs -> AiRuns] /\ att \in [Runs -> [AttNos -> Attempts]] BY DEF TypeOK
<1>2. run' \in [Runs -> AiRuns]
  <2>1. ASSUME NEW r \in Runs PROVE [run[r] EXCEPT !.state = "UNKNOWN"] \in AiRuns
    <3>1. run[r] \in AiRuns BY <1>1
    <3> QED BY <3>1 DEF AiRuns, OpenStates
  <2>2. run' = [r \in Runs |-> IF \E n \in AttNos : Due(att[r][n])
                               THEN [run[r] EXCEPT !.state = "UNKNOWN"] ELSE run[r]]
    BY DEF Sweep
  <2> QED BY <1>1, <2>1, <2>2
<1>3. att' \in [Runs -> [AttNos -> Attempts]]
  <2>1. ASSUME NEW r \in Runs, NEW n \in AttNos
        PROVE  [att[r][n] EXCEPT !.state = "UNKNOWN"] \in Attempts /\ att[r][n] \in Attempts
    <3>1. att[r][n] \in Attempts BY <1>1
    <3> QED BY <3>1 DEF Attempts, Unresolved
  <2>2. att' = [r \in Runs |-> [n \in AttNos |->
                 IF Due(att[r][n]) THEN [att[r][n] EXCEPT !.state = "UNKNOWN"] ELSE att[r][n]]]
    BY DEF Sweep
  <2> QED BY <2>1, <2>2
<1>4. wk' \in [Workers -> WorkerStates] BY MovesTyped DEF Sweep, PCs
<1> QED BY <1>2, <1>3, <1>4 DEF Sweep, TypeOK

LEMMA TypePick == ASSUME TypeOK, NEW w \in Workers, Pick(w) PROVE TypeOK'
<1>1. wk \in [Workers -> WorkerStates] /\ conf.rev \in 1..MaxRev /\ conf.epoch \in 1..MaxEpoch
  BY DEF TypeOK
<1>2. PICK r \in Runs :
        wk' = [wk EXCEPT ![w].pc = IF r \in TestRuns \/ task[r] = "NONE"
                                   THEN "CANDIDATE" ELSE "REFUSED",
                         ![w].r = r, ![w].rev = conf.rev, ![w].epoch = conf.epoch]
  BY DEF Pick, Queued
<1> DEFINE pc == IF r \in TestRuns \/ task[r] = "NONE" THEN "CANDIDATE" ELSE "REFUSED"
           me == [wk[w] EXCEPT !.pc = pc, !.r = r, !.rev = conf.rev, !.epoch = conf.epoch]
<1>3. pc \in {"CANDIDATE", "REFUSED"} OBVIOUS
<1>4. wk' = [wk EXCEPT ![w] = me] BY <1>2
<1> HIDE DEF pc
<1>5. conf.rev \in 0..MaxRev /\ conf.epoch \in 0..MaxEpoch BY <1>1, ModelConstants
<1>6. wk[w] \in WorkerRecords BY <1>1 DEF WorkerStates
<1>7. me \in WorkerRecords BY <1>3, <1>5, <1>6 DEF WorkerRecords, PCs
<1>8. me.pc = pc /\ me.r = r BY <1>6 DEF WorkerRecords
<1> HIDE DEF me
<1>9. me \in WorkerStates BY <1>3, <1>7, <1>8 DEF WorkerStates
<1>10. wk' \in [Workers -> WorkerStates] BY <1>1, <1>4, <1>9
<1> QED BY <1>10 DEF Pick, TypeOK, ledger

LEMMA TypeConfigure == ASSUME TypeOK, NEW w \in Workers, Configure(w) PROVE TypeOK'
<1>1. wk \in [Workers -> WorkerStates] /\ conf.rev \in 1..MaxRev /\ conf.epoch \in 1..MaxEpoch
  BY DEF TypeOK
<1> DEFINE me == [wk[w] EXCEPT !.pc = "CONFIGURED", !.rev = conf.rev, !.epoch = conf.epoch]
<1>2. wk[w].pc = "CANDIDATE" BY DEF Configure
<1>3. wk[w].r \in Runs /\ wk[w] \in WorkerRecords BY <1>1, <1>2 DEF WorkerStates
<1>4. conf.rev \in 0..MaxRev /\ conf.epoch \in 0..MaxEpoch /\ conf.rev # 0
  BY <1>1, ModelConstants
<1>5. me \in WorkerRecords BY <1>3, <1>4 DEF WorkerRecords, PCs
<1>6. me.pc = "CONFIGURED" /\ me.r = wk[w].r /\ me.rev = conf.rev
  BY <1>3 DEF WorkerRecords
<1>7. wk' = [wk EXCEPT ![w] = me] \/ Goto(w, "REFUSED") BY DEF Configure
<1> HIDE DEF me
<1>8. me \in WorkerStates BY <1>3, <1>4, <1>5, <1>6 DEF WorkerStates
<1>9. CASE wk' = [wk EXCEPT ![w] = me]
  <2>1. wk' \in [Workers -> WorkerStates] BY <1>1, <1>8, <1>9
  <2> QED BY <2>1 DEF Configure, TypeOK, ledger
<1>10. CASE Goto(w, "REFUSED")
  <2>1. wk' \in [Workers -> WorkerStates] BY <1>2, <1>10, MovesTyped DEF PCs
  <2> QED BY <2>1 DEF Configure, TypeOK, ledger
<1> QED BY <1>7, <1>9, <1>10

LEMMA TypeSend == ASSUME TypeOK, NEW w \in Workers, Send(w) PROVE TypeOK'
<1>1. wk' \in [Workers -> WorkerStates] BY MovesTyped DEF Send, PCs
<1>2. sends' \in [Runs -> Nat]
  <2>1. sends \in [Runs -> Nat] /\ wk[w].r \in Runs BY InHand DEF Send, TypeOK
  <2>2. sends[wk[w].r] + 1 \in Nat BY <2>1
  <2>3. sends' = [sends EXCEPT ![wk[w].r] = sends[wk[w].r] + 1] BY DEF Send
  <2> QED BY <2>1, <2>2, <2>3
<1> QED BY <1>1, <1>2 DEF Send, TypeOK, ledger

LEMMA TypeReceive == ASSUME TypeOK, NEW w \in Workers, Receive(w) PROVE TypeOK'
<1>1. PICK out \in Outputs, amount \in Charges \cup {NoCharge} :
        wk' = [wk EXCEPT ![w].pc = "RECEIVED", ![w].out = out, ![w].amount = amount]
  BY DEF Receive
<1> DEFINE me == [wk[w] EXCEPT !.pc = "RECEIVED", !.out = out, !.amount = amount]
<1>2. wk \in [Workers -> WorkerStates] /\ wk[w].pc = "SENT" BY DEF TypeOK, Receive
<1>3. wk[w] \in WorkerRecords /\ wk[w].r \in Runs /\ wk[w].n # 0 /\ wk[w].rev # 0
  BY <1>2 DEF WorkerStates
<1>4. me \in WorkerRecords BY <1>3 DEF WorkerRecords, PCs, Outputs
<1>5. me.pc = "RECEIVED" /\ me.r = wk[w].r /\ me.n = wk[w].n /\ me.rev = wk[w].rev
  BY <1>3 DEF WorkerRecords
<1>6. wk' = [wk EXCEPT ![w] = me] BY <1>1
<1> HIDE DEF me
<1>7. me \in WorkerStates BY <1>3, <1>4, <1>5 DEF WorkerStates
<1>8. wk' \in [Workers -> WorkerStates] BY <1>2, <1>6, <1>7
<1> QED BY <1>8 DEF Receive, TypeOK, ledger

LEMMA TypeComplete == ASSUME TypeOK, NEW w \in Workers, Complete(w) PROVE TypeOK'
<1> DEFINE r == wk[w].r
           n == wk[w].n
<1>1. wk[w].pc = "RECEIVED" BY DEF Complete
<1>2. r \in Runs /\ n \in AttNos /\ (wk[w].amount # NoCharge => wk[w].amount \in Nat)
  BY <1>1, InHand, ModelConstants
<1>3. wk' \in [Workers -> WorkerStates]
  <2>1. CASE Rest(w) BY <2>1, RestTyped
  <2>2. CASE Goto(w, "FAILED") BY <1>1, <2>2, MovesTyped DEF PCs
  <2> QED BY <2>1, <2>2 DEF Complete
<1>4. meta' \subseteq Runs BY <1>2 DEF Complete, TypeOK
<1>5. task' \in [Runs -> ProposalStates] BY DEF Complete, TypeOK, ProposalStates
<1>6. /\ run' \in [Runs -> AiRuns] /\ att' \in [Runs -> [AttNos -> Attempts]]
      /\ budget' \in [Days -> Budgets]
  <2>1. CASE MarkUnknown(r, n) /\ UNCHANGED budget
    BY <1>2, <2>1, MarkUnknownTyped DEF TypeOK
  <2>2. CASE wk[w].amount # NoCharge /\ Settle(r, n, run[r], "SUCCEEDED", wk[w].amount, "PROVIDER")
    <3>1. run[r] \in AiRuns BY <1>2 DEF TypeOK
    <3> QED BY <1>2, <2>2, <3>1, SettleTyped
  <2> QED BY <2>1, <2>2 DEF Complete
<1> QED BY <1>3, <1>4, <1>5, <1>6 DEF Complete, TypeOK

LEMMA TypeAdvance == ASSUME TypeOK, NEW w \in Workers, Advance(w) PROVE TypeOK'
<1>1. CASE NoCandidate(w)
  <2>1. wk' \in [Workers -> WorkerStates] BY <1>1, RestTyped DEF NoCandidate
  <2> QED BY <1>1, <2>1 DEF NoCandidate, TypeOK, ledger
<1>2. CASE Refuse(w)
  <2>1. wk' \in [Workers -> WorkerStates] BY <1>2, MovesTyped DEF Refuse, PCs
  <2> QED BY <1>2, <2>1 DEF Refuse, TypeOK, ledger
<1>3. CASE GiveUp(w)
  <2>1. wk' \in [Workers -> WorkerStates] BY <1>3, RestTyped DEF GiveUp
  <2>2. wk[w] \in WorkerStates /\ wk[w].pc = "REFUSED" BY <1>3 DEF TypeOK, GiveUp
  <2>3. wk[w].r \in Runs BY <2>2 DEF WorkerStates
  <2>4. run' \in [Runs -> AiRuns] /\ budget' \in [Days -> Budgets]
    <3>1. CASE Cancel(wk[w].r) BY <2>3, <3>1, CancelTyped
    <3>2. CASE UNCHANGED <<run, budget>> BY <3>2 DEF TypeOK
    <3> QED BY <1>3, <3>1, <3>2 DEF GiveUp, CloseRefused
  <2> QED BY <1>3, <2>1, <2>4 DEF GiveUp, TypeOK
<1>4. CASE Fail(w)
  <2>1. wk' \in [Workers -> WorkerStates] BY <1>4, MovesTyped DEF Fail, PCs
  <2> QED BY <1>4, <2>1 DEF Fail, TypeOK, ledger
<1>5. CASE RecordFailure(w)
  <2>1. wk' \in [Workers -> WorkerStates] BY <1>5, RestTyped DEF RecordFailure
  <2>2. wk[w].r \in Runs /\ wk[w].n \in AttNos BY <1>5, InHand DEF RecordFailure
  <2>3. MarkUnknown(wk[w].r, wk[w].n) BY <1>5 DEF RecordFailure
  <2>4. run' \in [Runs -> AiRuns] /\ att' \in [Runs -> [AttNos -> Attempts]]
    BY <2>2, <2>3, MarkUnknownTyped
  <2>5. meta' \subseteq Runs BY <1>5, <2>2 DEF RecordFailure, TypeOK
  <2> QED BY <1>5, <2>1, <2>4, <2>5 DEF RecordFailure, TypeOK
<1>6. CASE RecordFailureRefused(w)
  <2>1. wk' \in [Workers -> WorkerStates] BY <1>6, MovesTyped DEF RecordFailureRefused, PCs
  <2> QED BY <1>6, <2>1 DEF RecordFailureRefused, TypeOK, ledger
<1> QED BY <1>1, <1>2, <1>3, <1>4, <1>5, <1>6, TypeSweep, TypePick, TypeConfigure, TypeBegin,
           TypeSend, TypeReceive, TypeComplete DEF Advance

LEMMA TypeTick == ASSUME TypeOK, Tick PROVE TypeOK'
<1>1. att \in [Runs -> [AttNos -> Attempts]] BY DEF TypeOK
<1>2. ASSUME NEW r \in Runs, NEW n \in AttNos PROVE Older(att[r][n]) \in Attempts
  <2>1. att[r][n] \in Attempts BY <1>1
  <2>2. att[r][n].age \in 0..SweepAge BY <2>1 DEF Attempts
  <2>3. att[r][n].age # SweepAge => att[r][n].age + 1 \in 0..SweepAge
    BY <2>2, CodeConstants
  <2> QED BY <2>1, <2>3 DEF Older, Attempts
<1>3. att' \in [Runs -> [AttNos -> Attempts]] BY <1>2 DEF Tick
<1> QED BY <1>3 DEF Tick, TypeOK

LEMMA TypeNext == ASSUME TypeOK, [Next]_vars PROVE TypeOK'
<1>1. CASE UNCHANGED vars BY <1>1 DEF TypeOK, vars
<1>2. ASSUME NEW w \in Workers, Crash(w) PROVE TypeOK'
  <2>1. wk' \in [Workers -> WorkerStates] BY <1>2, RestTyped DEF Crash
  <2> QED BY <1>2, <2>1 DEF Crash, TypeOK, ledger
<1>3. CASE NextDay
  <2>1. day \in Days /\ day < MaxDay /\ day' = day + 1 BY <1>3 DEF NextDay, TypeOK
  <2>2. day' \in Days BY <2>1, ModelConstants DEF Days
  <2> QED BY <1>3, <2>2 DEF NextDay, TypeOK, ledger
<1> QED BY <1>1, <1>2, <1>3, TypeAdvance, TypeMember, TypeAdministrator, TypeTick,
           TypeIsolateRun DEF Next

\* The rows of the ledger and the local state of the workers keep their shapes,
\* whatever the number of runs, workers, attempts, revisions and days.
THEOREM TypeCorrect == Spec => []TypeOK
<1>1. TypeOK /\ [Next]_vars => TypeOK' BY TypeNext
<1> QED BY <1>1, TypeInit, PTL DEF Spec

-------------------------------------------------------------------------------
(* DispatchInv is inductive, and what follows from it: no run is sent twice,  *)
(* a request leaves only while its attempt is undecided, and a cancelled run  *)
(* keeps no proposal.                                                         *)

LEMMA OneIsAttNo == 1 \in AttNos
BY ModelConstants DEF AttNos

\* The part of the invariant about one run depends on the run's own rows alone.
LEMMA RunFrame ==
  ASSUME NEW r \in Runs, RunInv(r), run'[r] = run[r], att'[r] = att[r],
         (r \in meta') = (r \in meta), sends'[r] = sends[r],
         task'[r] = task[r] \/ task'[r] # "PENDING"
  PROVE  RunInv(r)'
<1>1. OneAttempt(r)' BY DEF RunInv, OneAttempt
<1>2. AnswerRecorded(r)' BY DEF RunInv, AnswerRecorded
<1>3. SendsCounted(r)' BY DEF RunInv, SendsCounted
<1> QED BY <1>1, <1>2, <1>3 DEF RunInv

\* No worker takes an attempt in hand or goes back to the moment before sending.
HandsKept ==
    \A v \in Workers : Holding(v)' =>
        /\ Holding(v) /\ wk'[v].r = wk[v].r /\ wk'[v].n = wk[v].n
        /\ wk'[v].pc = "PREPARED" => wk[v].pc = "PREPARED"

\* What a worker knows of the attempt in its hand stays true.
AttemptsKept ==
    \A v \in Workers : Holding(v)' =>
        LET r == wk[v].r
        IN /\ att'[r][1].state # "ABSENT"
           /\ wk'[v].pc = "PREPARED" =>
                /\ sends'[r] = sends[r]
                /\ \/ att'[r][1] = att[r][1]
                   \/ att'[r][1].state = "MAY_HAVE_EXECUTED" \/ att'[r][1].age = SweepAge

LEMMA HandsFrame ==
  ASSUME \A w \in Workers : AttemptHeld(w), HeldAlone, HandsKept, AttemptsKept
  PROVE  (\A w \in Workers : AttemptHeld(w))' /\ HeldAlone'
<1>1. ASSUME NEW w \in Workers PROVE AttemptHeld(w)'
  <2> SUFFICES ASSUME Holding(w)' PROVE AttemptHeld(w)' BY DEF AttemptHeld
  <2>1. /\ Holding(w) /\ wk'[w].r = wk[w].r /\ wk'[w].n = wk[w].n
        /\ wk'[w].pc = "PREPARED" => wk[w].pc = "PREPARED"
    BY DEF HandsKept
  <2>2. AttemptHeld(w) OBVIOUS
  <2> QED BY <2>1, <2>2 DEF AttemptHeld, AttemptsKept
<1>2. HeldAlone' BY DEF HeldAlone, HandsKept
<1> QED BY <1>1, <1>2

\* Steps that touch neither the ledger's runs and attempts nor the workers.
LEMMA QuietStep ==
  ASSUME DispatchInv, TypeOK', UNCHANGED <<run, att, meta, sends, wk, isolating>>,
         \A r \in Runs : task'[r] = task[r] \/ task'[r] # "PENDING"
  PROVE  DispatchInv'
<1>1. ASSUME NEW r \in Runs PROVE RunInv(r)' BY RunFrame DEF DispatchInv
<1>2. HandsKept BY DEF HandsKept, Holding
<1>3. AttemptsKept BY DEF AttemptsKept, DispatchInv, AttemptHeld, Holding
<1>4. (\A w \in Workers : AttemptHeld(w))' /\ HeldAlone'
  BY <1>2, <1>3, HandsFrame DEF DispatchInv
<1>5. NobodyWorksInIsolation' BY DEF DispatchInv, NobodyWorksInIsolation
<1> QED BY <1>1, <1>4, <1>5 DEF DispatchInv

\* Steps of a worker that touch nothing but its own state.
LEMMA LocalStep ==
  ASSUME DispatchInv, TypeOK', isolating = {}, HandsKept,
         UNCHANGED <<run, att, meta, task, sends, isolating>>
  PROVE  DispatchInv'
<1>1. ASSUME NEW r \in Runs PROVE RunInv(r)' BY RunFrame DEF DispatchInv
<1>3. AttemptsKept BY DEF AttemptsKept, DispatchInv, AttemptHeld, HandsKept
<1>4. (\A w \in Workers : AttemptHeld(w))' /\ HeldAlone'
  BY <1>3, HandsFrame DEF DispatchInv
<1>5. NobodyWorksInIsolation' BY DEF NobodyWorksInIsolation
<1> QED BY <1>1, <1>4, <1>5 DEF DispatchInv

LEMMA GotoKeeps ==
  ASSUME TypeOK, NEW w \in Workers, NEW pc, Goto(w, pc), pc # "PREPARED",
         pc \in {"SENT", "RECEIVED", "FAILED"} => Holding(w)
  PROVE  HandsKept
<1>1. wk \in [Workers -> WorkerStates] BY DEF TypeOK
<1>2. wk[w] \in WorkerRecords BY <1>1 DEF WorkerStates
<1>3. wk'[w] = [wk[w] EXCEPT !.pc = pc] /\ \A v \in Workers \ {w} : wk'[v] = wk[v]
  BY <1>1 DEF Goto
<1>4. wk'[w].pc = pc /\ wk'[w].r = wk[w].r /\ wk'[w].n = wk[w].n
  BY <1>2, <1>3 DEF WorkerRecords
<1> QED BY <1>3, <1>4 DEF HandsKept, Holding

LEMMA RestKeeps == ASSUME TypeOK, NEW w \in Workers, Rest(w) PROVE HandsKept
BY DEF TypeOK, Rest, Resting, HandsKept, Holding

LEMMA InvPick == ASSUME DispatchInv, isolating = {}, TypeOK', NEW w \in Workers, Pick(w)
                 PROVE  DispatchInv'
<1>1. wk \in [Workers -> WorkerStates] BY DEF DispatchInv, TypeOK
<1>2. wk[w] \in WorkerRecords BY <1>1 DEF WorkerStates
<1>3. PICK r \in Runs :
        wk' = [wk EXCEPT ![w].pc = IF r \in TestRuns \/ task[r] = "NONE"
                                   THEN "CANDIDATE" ELSE "REFUSED",
                         ![w].r = r, ![w].rev = conf.rev, ![w].epoch = conf.epoch]
  BY DEF Pick, Queued
<1>4. wk'[w].pc \in {"CANDIDATE", "REFUSED"} /\ \A v \in Workers \ {w} : wk'[v] = wk[v]
  BY <1>1, <1>2, <1>3 DEF WorkerRecords
<1>5. HandsKept BY <1>4 DEF HandsKept, Holding
<1> QED BY <1>5, LocalStep DEF Pick, ledger

LEMMA InvConfigure == ASSUME DispatchInv, isolating = {}, TypeOK', NEW w \in Workers, Configure(w)
                      PROVE  DispatchInv'
<1>1. wk \in [Workers -> WorkerStates] BY DEF DispatchInv, TypeOK
<1>2. wk[w] \in WorkerRecords BY <1>1 DEF WorkerStates
<1>3. \/ wk' = [wk EXCEPT ![w].pc = "CONFIGURED", ![w].rev = conf.rev, ![w].epoch = conf.epoch]
      \/ wk' = [wk EXCEPT ![w].pc = "REFUSED"]
  BY DEF Configure, Goto
<1>4. wk'[w].pc \in {"CONFIGURED", "REFUSED"} /\ \A v \in Workers \ {w} : wk'[v] = wk[v]
  BY <1>1, <1>2, <1>3 DEF WorkerRecords
<1>5. HandsKept BY <1>4 DEF HandsKept, Holding
<1> QED BY <1>5, LocalStep DEF Configure, ledger

LEMMA InvReceive == ASSUME DispatchInv, isolating = {}, TypeOK', NEW w \in Workers, Receive(w)
                    PROVE  DispatchInv'
<1>1. wk \in [Workers -> WorkerStates] /\ wk[w].pc = "SENT" BY DEF DispatchInv, TypeOK, Receive
<1>2. wk[w] \in WorkerRecords BY <1>1 DEF WorkerStates
<1>3. PICK out \in Outputs, amount \in Charges \cup {NoCharge} :
        wk' = [wk EXCEPT ![w].pc = "RECEIVED", ![w].out = out, ![w].amount = amount]
  BY DEF Receive
<1>4. /\ wk'[w].pc = "RECEIVED" /\ wk'[w].r = wk[w].r /\ wk'[w].n = wk[w].n
      /\ \A v \in Workers \ {w} : wk'[v] = wk[v]
  BY <1>1, <1>2, <1>3 DEF WorkerRecords
<1>5. HandsKept BY <1>1, <1>4 DEF HandsKept, Holding
<1> QED BY <1>5, LocalStep DEF Receive, ledger

LEMMA InvSend == ASSUME DispatchInv, isolating = {}, TypeOK', NEW w \in Workers, Send(w)
                 PROVE  DispatchInv'
<1> DEFINE r == wk[w].r
<1>1. /\ wk \in [Workers -> WorkerStates] /\ wk[w].pc = "PREPARED"
      /\ sends \in [Runs -> Nat]
  BY DEF DispatchInv, TypeOK, Send
<1>2. r \in Runs /\ Holding(w) BY <1>1, InHand DEF DispatchInv, Holding
<1>3. Goto(w, "SENT") /\ sends' = [sends EXCEPT ![r] = @ + 1] BY DEF Send
<1>4. HandsKept BY <1>2, <1>3, GotoKeeps DEF DispatchInv
<1>5. sends[r] = 0 /\ att[r][1].state # "ABSENT"
  BY <1>1, <1>2 DEF DispatchInv, AttemptHeld
<1>6. sends'[r] = 1 /\ \A q \in Runs \ {r} : sends'[q] = sends[q] BY <1>1, <1>2, <1>3, <1>5
<1>7. wk'[w].pc = "SENT"
  BY <1>1, <1>3 DEF Goto, WorkerStates, WorkerRecords
<1>8. ASSUME NEW q \in Runs PROVE RunInv(q)'
  <2>1. CASE q # r BY <1>6, <2>1, RunFrame DEF Send, ledger, DispatchInv
  <2>2. CASE q = r
    <3>1. OneAttempt(q)' BY DEF DispatchInv, RunInv, OneAttempt, Send, ledger
    <3>2. AnswerRecorded(q)' BY DEF DispatchInv, RunInv, AnswerRecorded, Send, ledger
    <3>3. SendsCounted(q)' BY <1>5, <1>6, <2>2 DEF SendsCounted, Send, ledger
    <3> QED BY <3>1, <3>2, <3>3 DEF RunInv
  <2> QED BY <2>1, <2>2
<1>9. AttemptsKept
  <2> SUFFICES ASSUME NEW v \in Workers, Holding(v)'
               PROVE  /\ att'[wk[v].r][1].state # "ABSENT"
                      /\ wk'[v].pc = "PREPARED" =>
                           sends'[wk[v].r] = sends[wk[v].r] /\ att'[wk[v].r][1] = att[wk[v].r][1]
    BY DEF AttemptsKept
  <2>1. Holding(v) /\ wk'[v].r = wk[v].r BY <1>4 DEF HandsKept
  <2>2. wk[v].r \in Runs BY <2>1, InHand DEF DispatchInv, Holding
  <2>3. att' = att BY DEF Send, ledger
  <2>4. att[wk[v].r][1].state # "ABSENT" BY <2>1 DEF DispatchInv, AttemptHeld
  <2>5. wk'[v].pc = "PREPARED" => v # w BY <1>7
  <2>6. v # w => wk[v].r # r BY <1>2, <2>1 DEF DispatchInv, HeldAlone
  <2> QED BY <1>6, <2>2, <2>3, <2>4, <2>5, <2>6
<1>10. (\A v \in Workers : AttemptHeld(v))' /\ HeldAlone'
  BY <1>4, <1>9, HandsFrame DEF DispatchInv
<1>11. NobodyWorksInIsolation' BY DEF Send, NobodyWorksInIsolation
<1> QED BY <1>8, <1>10, <1>11 DEF DispatchInv

LEMMA InvBegin == ASSUME DispatchInv, isolating = {}, TypeOK', NEW w \in Workers, Begin(w)
                  PROVE  DispatchInv'
<1> DEFINE r == wk[w].r
           n == NextNo(r)
           a == [NoAttempt EXCEPT !.state = "MAY_HAVE_EXECUTED"]
<1>1. /\ wk \in [Workers -> WorkerStates] /\ wk[w].pc = "CONFIGURED"
      /\ run \in [Runs -> AiRuns] /\ att \in [Runs -> [AttNos -> Attempts]]
  BY DEF DispatchInv, TypeOK, Begin
<1>2. r \in Runs BY <1>1 DEF WorkerStates
<1>3. /\ run[r].state = "QUEUED" /\ ~run[r].cancel
      /\ \A m \in AttNos : att[r][m].state = "ABSENT"
  BY <1>2, OneIsAttNo DEF Begin, MayBegin, DispatchInv, RunInv, OneAttempt
<1>4. n = 1
  <2> DEFINE S == {m \in AttNos : att[r][m].state # "ABSENT"}
  <2>1. S = {} BY <1>3
  <2>2. Cardinality(S) = 0 BY <2>1, FS_EmptySet
  <2>3. n = Cardinality(S) + 1 BY DEF NextNo
  <2> HIDE DEF n, S
  <2> QED BY <2>2, <2>3
<1>5. /\ att' = [att EXCEPT ![r] = [att[r] EXCEPT ![n] = a]]
      /\ run' = [run EXCEPT ![r] = [run[r] EXCEPT !.state = "RUNNING"]]
      /\ wk' = [wk EXCEPT ![w].pc = "PREPARED", ![w].n = n] \/ Rest(w)
  BY DEF Begin
<1> HIDE DEF n
<1>6. att'[r][1] = a /\ \A m \in AttNos : m # 1 => att'[r][m] = att[r][m]
  BY <1>1, <1>2, <1>4, <1>5, OneIsAttNo
<1>7. a.state = "MAY_HAVE_EXECUTED" /\ a.by = "NONE" BY DEF NoAttempt
<1>8. \A q \in Runs \ {r} : att'[q] = att[q] /\ run'[q] = run[q] BY <1>1, <1>5
<1>9. /\ run'[r].state = "RUNNING" /\ run'[r].cancel = run[r].cancel
      /\ run'[r].settled = run[r].settled
  BY <1>1, <1>2, <1>5 DEF AiRuns
<1> HIDE DEF a
<1>10. ASSUME NEW q \in Runs PROVE RunInv(q)'
  <2>1. CASE q # r BY <1>8, <2>1, RunFrame DEF Begin, DispatchInv
  <2>2. CASE q = r
    <3>0. OneAttempt(r) /\ AnswerRecorded(r) /\ SendsCounted(r)
      BY <1>2 DEF DispatchInv, RunInv
    <3>1. OneAttempt(q)'
      BY <1>3, <1>6, <1>7, <1>9, <2>2, <3>0 DEF OneAttempt, Unresolved, OpenStates
    <3>2. AnswerRecorded(q)'
      BY <1>6, <1>7, <1>9, <2>2, <3>0 DEF AnswerRecorded, Begin
    <3>3. SendsCounted(q)' BY <1>6, <1>7, <2>2, <3>0 DEF SendsCounted, Begin
    <3> QED BY <3>1, <3>2, <3>3 DEF RunInv
  <2> QED BY <2>1, <2>2
<1>11. \A v \in Workers : Holding(v) => wk[v].r # r
  BY <1>3, OneIsAttNo DEF DispatchInv, AttemptHeld
<1>12. \A v \in Workers \ {w} : wk'[v] = wk[v] BY <1>1, <1>5 DEF Rest
<1>13. Holding(w)' => wk'[w].pc = "PREPARED" /\ wk'[w].n = 1 /\ wk'[w].r = r
  <2>1. wk[w] \in WorkerRecords BY <1>1 DEF WorkerStates
  <2>2. CASE Rest(w) BY <1>1, <2>2 DEF Rest, Holding, Resting
  <2>3. CASE wk' = [wk EXCEPT ![w].pc = "PREPARED", ![w].n = n]
    BY <1>1, <1>4, <2>1, <2>3 DEF WorkerRecords
  <2> QED BY <1>5, <2>2, <2>3
<1>14. ASSUME NEW v \in Workers PROVE AttemptHeld(v)'
  <2> SUFFICES ASSUME Holding(v)' PROVE AttemptHeld(v)' BY DEF AttemptHeld
  <2>1. CASE v = w
    <3>1. sends'[r] = 0 BY <1>2, <1>3, OneIsAttNo DEF Begin, DispatchInv, RunInv, SendsCounted
    <3> QED BY <1>6, <1>7, <1>13, <2>1, <3>1 DEF AttemptHeld
  <2>2. CASE v # w
    <3>1. wk'[v] = wk[v] /\ Holding(v) BY <1>12, <2>2 DEF Holding
    <3>2. wk[v].r \in Runs /\ wk[v].r # r BY <1>11, <3>1, InHand DEF DispatchInv, Holding
    <3>3. att'[wk[v].r] = att[wk[v].r] /\ sends' = sends BY <1>8, <3>2 DEF Begin
    <3>4. AttemptHeld(v) BY DEF DispatchInv
    <3> QED BY <3>1, <3>3, <3>4 DEF AttemptHeld
  <2> QED BY <2>1, <2>2
<1>15. HeldAlone'
  BY <1>11, <1>12, <1>13 DEF HeldAlone, DispatchInv, Holding
<1>16. NobodyWorksInIsolation' BY DEF Begin, NobodyWorksInIsolation
<1> QED BY <1>10, <1>14, <1>15, <1>16 DEF DispatchInv

LEMMA InvTick == ASSUME DispatchInv, isolating = {}, TypeOK', Tick PROVE DispatchInv'
<1>1. att \in [Runs -> [AttNos -> Attempts]] BY DEF DispatchInv, TypeOK
<1>2. \A r \in Runs, n \in AttNos : att'[r][n] = Older(att[r][n]) BY DEF Tick
<1>3. ASSUME NEW r \in Runs, NEW n \in AttNos
      PROVE  /\ att'[r][n].state = att[r][n].state /\ att'[r][n].by = att[r][n].by
             /\ att[r][n].state # "ABSENT" /\ att[r][n].age = SweepAge => att'[r][n].age = SweepAge
  <2>1. att[r][n] \in Attempts BY <1>1
  <2> QED BY <1>2, <2>1 DEF Older, Attempts
<1>4. ASSUME NEW r \in Runs PROVE RunInv(r)'
  <2>0. OneAttempt(r) /\ AnswerRecorded(r) /\ SendsCounted(r) BY DEF DispatchInv, RunInv
  <2>1. OneAttempt(r)' BY <1>3, <2>0, OneIsAttNo DEF OneAttempt, Tick
  <2>2. AnswerRecorded(r)' BY <1>3, <2>0, OneIsAttNo DEF AnswerRecorded, Tick
  <2>3. SendsCounted(r)' BY <1>3, <2>0, OneIsAttNo DEF SendsCounted, Tick
  <2> QED BY <2>1, <2>2, <2>3 DEF RunInv
<1>5. HandsKept BY DEF Tick, HandsKept, Holding
<1>6. AttemptsKept
  <2> SUFFICES ASSUME NEW v \in Workers, Holding(v)'
               PROVE  /\ att'[wk[v].r][1].state # "ABSENT"
                      /\ wk'[v].pc = "PREPARED" =>
                           /\ sends'[wk[v].r] = sends[wk[v].r]
                           /\ \/ att'[wk[v].r][1].state = "MAY_HAVE_EXECUTED"
                              \/ att'[wk[v].r][1].age = SweepAge
    BY DEF AttemptsKept
  <2>1. Holding(v) /\ wk' = wk BY DEF Tick, Holding
  <2>2. wk[v].r \in Runs BY <2>1, InHand DEF DispatchInv, Holding
  <2>3. AttemptHeld(v) BY DEF DispatchInv
  <2> QED BY <1>3, <2>1, <2>2, <2>3, OneIsAttNo DEF AttemptHeld, Tick
<1>7. (\A w \in Workers : AttemptHeld(w))' /\ HeldAlone'
  BY <1>5, <1>6, HandsFrame DEF DispatchInv
<1>8. NobodyWorksInIsolation' BY DEF Tick, NobodyWorksInIsolation
<1> QED BY <1>4, <1>7, <1>8 DEF DispatchInv

LEMMA InvReserve == ASSUME DispatchInv, isolating = {}, TypeOK', NEW r \in Runs, Reserve(r)
                    PROVE  DispatchInv'
<1> DEFINE rec == [NoAiRun EXCEPT !.state = "QUEUED", !.day = day, !.rev = conf.rev,
                     !.no = Cardinality({q \in Runs : run[q].state # "NONE"}),
                     !.epoch = conf.epoch, !.reserved = PerTask[conf.rev]]
<1>1. run \in [Runs -> AiRuns] BY DEF DispatchInv, TypeOK
<1>2. run' = [run EXCEPT ![r] = rec] BY DEF Reserve
<1>3. run[r].state = "NONE" BY DEF Reserve
<1>4. rec.state = "QUEUED" /\ ~rec.cancel /\ rec.settled = NoCharge BY DEF NoAiRun
<1> HIDE DEF rec
<1>5. run'[r] = rec /\ \A q \in Runs \ {r} : run'[q] = run[q] BY <1>1, <1>2
<1>6. ASSUME NEW q \in Runs PROVE RunInv(q)'
  <2>1. CASE q # r BY <1>5, <2>1, RunFrame DEF Reserve, DispatchInv
  <2>2. CASE q = r
    <3>0. OneAttempt(r) /\ AnswerRecorded(r) /\ SendsCounted(r) BY DEF DispatchInv, RunInv
    <3>1. OneAttempt(q)'
      BY <1>3, <1>4, <1>5, <2>2, <3>0 DEF OneAttempt, Unresolved, OpenStates, Reserve
    <3>2. AnswerRecorded(q)' BY <1>4, <1>5, <2>2, <3>0 DEF AnswerRecorded, Reserve
    <3>3. SendsCounted(q)' BY <2>2, <3>0 DEF SendsCounted, Reserve
    <3> QED BY <3>1, <3>2, <3>3 DEF RunInv
  <2> QED BY <2>1, <2>2
<1>7. HandsKept BY DEF Reserve, HandsKept, Holding
<1>8. AttemptsKept BY DEF AttemptsKept, DispatchInv, AttemptHeld, Holding, Reserve
<1>9. (\A w \in Workers : AttemptHeld(w))' /\ HeldAlone'
  BY <1>7, <1>8, HandsFrame DEF DispatchInv
<1>10. NobodyWorksInIsolation' BY DEF Reserve, NobodyWorksInIsolation
<1> QED BY <1>6, <1>9, <1>10 DEF DispatchInv

\* Cancelling a run on which no proposal waits, and what the workers then hold.
LEMMA CancelStep ==
  ASSUME DispatchInv, NEW r \in Runs, Cancel(r), UNCHANGED <<att, meta, sends>>, HandsKept,
         task'[r] # "PENDING", \A q \in Runs : task'[q] = task[q] \/ task'[q] # "PENDING"
  PROVE  /\ \A q \in Runs : RunInv(q)'
         /\ (\A w \in Workers : AttemptHeld(w))' /\ HeldAlone'
<1>1. run \in [Runs -> AiRuns] BY DEF DispatchInv, TypeOK
<1>2. run[r] \in AiRuns BY <1>1
<1>3. run' = [run EXCEPT ![r] = CancelRun(run[r])] BY DEF Cancel
<1>4. run'[r] = CancelRun(run[r]) /\ \A q \in Runs \ {r} : run'[q] = run[q] BY <1>1, <1>3
<1>5. OneAttempt(r) /\ AnswerRecorded(r) /\ SendsCounted(r) BY DEF DispatchInv, RunInv
<1>6. \/ run'[r] = run[r]
      \/ /\ run[r].state = "QUEUED" /\ run'[r].state = "CANCELLED" /\ run'[r].cancel
         /\ run'[r].settled = 0
      \/ /\ run[r].state \in {"RUNNING", "UNKNOWN"} /\ run'[r].state = run[r].state
         /\ run'[r].cancel /\ run'[r].settled = run[r].settled
  BY <1>2, <1>4 DEF CancelRun, AiRuns, OpenStates
<1>7. ASSUME NEW q \in Runs PROVE RunInv(q)'
  <2>1. CASE q # r BY <1>4, <2>1, RunFrame DEF DispatchInv
  <2>2. CASE q = r
    <3>1. OneAttempt(q)'
      BY <1>5, <1>6, <2>2 DEF OneAttempt, Unresolved, OpenStates, NoCharge
    <3>2. AnswerRecorded(q)' BY <1>5, <2>2 DEF AnswerRecorded
    <3>3. SendsCounted(q)' BY <1>5, <2>2 DEF SendsCounted
    <3> QED BY <3>1, <3>2, <3>3 DEF RunInv
  <2> QED BY <2>1, <2>2
<1>8. AttemptsKept BY DEF AttemptsKept, DispatchInv, AttemptHeld, HandsKept
<1>9. (\A w \in Workers : AttemptHeld(w))' /\ HeldAlone'
  BY <1>8, HandsFrame DEF DispatchInv
<1> QED BY <1>7, <1>9

LEMMA InvMember == ASSUME DispatchInv, isolating = {}, TypeOK', NEW r \in Runs, Member(r)
                   PROVE  DispatchInv'
<1>0. task \in [Runs -> ProposalStates] BY DEF DispatchInv, TypeOK
<1>1. CASE Reserve(r) BY <1>1, InvReserve
<1>2. CASE CancelTask(r) \/ EraseTask(r)
  <2>1. task'[r] # "PENDING" /\ \A q \in Runs : task'[q] = task[q] \/ task'[q] # "PENDING"
    BY <1>0, <1>2 DEF CancelTask, EraseTask, CancelledProposal
  <2>2. HandsKept BY <1>2 DEF CancelTask, EraseTask, HandsKept, Holding
  <2>3. Cancel(r) /\ UNCHANGED <<att, meta, sends, isolating, wk>>
    BY <1>2 DEF CancelTask, EraseTask
  <2>4. /\ \A q \in Runs : RunInv(q)'
        /\ (\A w \in Workers : AttemptHeld(w))' /\ HeldAlone'
    BY <2>1, <2>2, <2>3, CancelStep
  <2>5. NobodyWorksInIsolation' BY <2>3 DEF NobodyWorksInIsolation
  <2> QED BY <2>4, <2>5 DEF DispatchInv
<1>3. CASE RejectProposal(r) \/ ApplyProposal(r) \/ ChangeBasis(r)
  <2>1. \A q \in Runs : task'[q] = task[q] \/ task'[q] # "PENDING"
    BY <1>0, <1>3 DEF RejectProposal, ApplyProposal, ChangeBasis
  <2>2. UNCHANGED <<run, att, meta, sends, wk, isolating>>
    BY <1>3 DEF RejectProposal, ApplyProposal, ChangeBasis, ledger
  <2> QED BY <2>1, <2>2, QuietStep
<1> QED BY <1>1, <1>2, <1>3 DEF Member

LEMMA InvGiveUp == ASSUME DispatchInv, isolating = {}, TypeOK', NEW w \in Workers, GiveUp(w)
                   PROVE  DispatchInv'
<1>1. HandsKept BY RestKeeps DEF GiveUp, DispatchInv
<1>2. wk[w].r \in Runs
  <2>1. wk[w] \in WorkerStates /\ wk[w].pc = "REFUSED" BY DEF GiveUp, DispatchInv, TypeOK
  <2> QED BY <2>1 DEF WorkerStates
<1>3. CASE run[wk[w].r].state = "QUEUED"
  <2>1. task[wk[w].r] # "PENDING"
    BY <1>2, <1>3 DEF DispatchInv, RunInv, OneAttempt, AnswerRecorded
  <2>2. Cancel(wk[w].r) BY <1>3 DEF GiveUp, CloseRefused
  <2>3. /\ \A q \in Runs : RunInv(q)'
        /\ (\A v \in Workers : AttemptHeld(v))' /\ HeldAlone'
    BY <1>1, <1>2, <2>1, <2>2, CancelStep DEF GiveUp
  <2>4. NobodyWorksInIsolation' BY DEF GiveUp, NobodyWorksInIsolation
  <2> QED BY <2>3, <2>4 DEF DispatchInv
<1>4. CASE run[wk[w].r].state # "QUEUED"
  BY <1>1, <1>4, LocalStep DEF GiveUp, CloseRefused
<1> QED BY <1>3, <1>4

LEMMA InvSweep == ASSUME DispatchInv, isolating = {}, TypeOK', NEW w \in Workers, Sweep(w)
                  PROVE  DispatchInv'
<1>1. /\ run \in [Runs -> AiRuns] /\ att \in [Runs -> [AttNos -> Attempts]]
      /\ wk[w].pc = "IDLE" /\ wk' = [wk EXCEPT ![w].pc = "SWEPT"]
  BY DEF DispatchInv, TypeOK, Sweep, Goto
<1>2. ASSUME NEW r \in Runs, NEW n \in AttNos
      PROVE  /\ ~Due(att[r][n]) => att'[r][n] = att[r][n]
             /\ Due(att[r][n]) => /\ att'[r][n].state = "UNKNOWN"
                                  /\ att'[r][n].by = att[r][n].by
                                  /\ att'[r][n].age = SweepAge
  <2>1. att[r][n] \in Attempts BY <1>1
  <2>2. att'[r][n] = IF Due(att[r][n]) THEN [att[r][n] EXCEPT !.state = "UNKNOWN"] ELSE att[r][n]
    BY DEF Sweep
  <2>3. Due(att[r][n]) => att[r][n].age = SweepAge BY <2>1, CodeConstants DEF Due, Attempts
  <2> QED BY <2>1, <2>2, <2>3 DEF Attempts
<1>3. ASSUME NEW r \in Runs PROVE RunInv(r)'
  <2>0. OneAttempt(r) /\ AnswerRecorded(r) /\ SendsCounted(r) BY DEF DispatchInv, RunInv
  <2>1. \A n \in AttNos : Due(att[r][n]) => n = 1 BY <2>0 DEF OneAttempt, Due
  <2>2. run'[r] = IF \E n \in AttNos : Due(att[r][n])
                  THEN [run[r] EXCEPT !.state = "UNKNOWN"] ELSE run[r]
    BY DEF Sweep
  <2>3. CASE Due(att[r][1])
    <3>1. run'[r] = [run[r] EXCEPT !.state = "UNKNOWN"] BY <2>2, <2>3, OneIsAttNo
    <3>2. /\ run'[r].state = "UNKNOWN" /\ run'[r].cancel = run[r].cancel
          /\ run'[r].settled = run[r].settled
      BY <1>1, <3>1 DEF AiRuns
    <3>3. att[r][1].state = "MAY_HAVE_EXECUTED" BY <2>3 DEF Due
    <3>4. /\ att'[r][1].state = "UNKNOWN" /\ att'[r][1].by = att[r][1].by
          /\ \A n \in AttNos : n # 1 => att'[r][n] = att[r][n]
      BY <1>2, <2>1, <2>3, OneIsAttNo
    <3>5. OneAttempt(r)'
      BY <2>0, <3>2, <3>3, <3>4 DEF OneAttempt, Unresolved, OpenStates
    <3>6. AnswerRecorded(r)' BY <2>0, <3>2, <3>3, <3>4 DEF AnswerRecorded, Sweep
    <3>7. SendsCounted(r)' BY <2>0, <3>3, <3>4 DEF SendsCounted, Sweep
    <3> QED BY <3>5, <3>6, <3>7 DEF RunInv
  <2>4. CASE ~Due(att[r][1])
    <3>1. run'[r] = run[r] BY <2>1, <2>2, <2>4
    <3>2. \A n \in AttNos : att'[r][n] = att[r][n] BY <1>2, <2>1, <2>4
    <3>3. OneAttempt(r)' BY <2>0, <3>1, <3>2, OneIsAttNo DEF OneAttempt
    <3>4. AnswerRecorded(r)' BY <2>0, <3>1, <3>2, OneIsAttNo DEF AnswerRecorded, Sweep
    <3>5. SendsCounted(r)' BY <2>0, <3>1, <3>2, OneIsAttNo DEF SendsCounted, Sweep
    <3> QED BY <3>3, <3>4, <3>5 DEF RunInv
  <2> QED BY <2>3, <2>4
<1>4. HandsKept BY <1>1, GotoKeeps DEF Sweep, DispatchInv
<1>5. AttemptsKept
  <2> SUFFICES ASSUME NEW v \in Workers, Holding(v)'
               PROVE  /\ att'[wk[v].r][1].state # "ABSENT"
                      /\ wk'[v].pc = "PREPARED" =>
                           /\ sends'[wk[v].r] = sends[wk[v].r]
                           /\ \/ att'[wk[v].r][1] = att[wk[v].r][1]
                              \/ att'[wk[v].r][1].age = SweepAge
    BY DEF AttemptsKept
  <2>1. Holding(v) BY <1>4 DEF HandsKept
  <2>2. wk[v].r \in Runs BY <2>1, InHand DEF DispatchInv, Holding
  <2>3. AttemptHeld(v) BY DEF DispatchInv
  <2> QED BY <1>2, <2>1, <2>2, <2>3, OneIsAttNo DEF AttemptHeld, Sweep
<1>6. (\A v \in Workers : AttemptHeld(v))' /\ HeldAlone'
  BY <1>4, <1>5, HandsFrame DEF DispatchInv
<1>7. NobodyWorksInIsolation' BY DEF Sweep, NobodyWorksInIsolation
<1> QED BY <1>3, <1>6, <1>7 DEF DispatchInv

\* After a decision about the attempt of r, no worker is about to send it.
LEMMA DecisionFrame ==
  ASSUME DispatchInv, NEW r \in Runs, HandsKept, sends' = sends,
         \A q \in Runs \ {r} : att'[q] = att[q],
         att'[r][1].state # "ABSENT", att'[r][1].age = att[r][1].age,
         \A v \in Workers : wk'[v].pc = "PREPARED" /\ wk[v].r = r =>
            att[r][1].state # "MAY_HAVE_EXECUTED"
  PROVE  (\A w \in Workers : AttemptHeld(w))' /\ HeldAlone'
<1>1. AttemptsKept
  <2> SUFFICES ASSUME NEW v \in Workers, Holding(v)'
               PROVE  /\ att'[wk[v].r][1].state # "ABSENT"
                      /\ wk'[v].pc = "PREPARED" =>
                           \/ att'[wk[v].r][1] = att[wk[v].r][1]
                           \/ att'[wk[v].r][1].age = SweepAge
    BY DEF AttemptsKept
  <2>1. Holding(v) /\ (wk'[v].pc = "PREPARED" => wk[v].pc = "PREPARED") BY DEF HandsKept
  <2>2. wk[v].r \in Runs BY <2>1, InHand DEF DispatchInv, Holding
  <2>3. AttemptHeld(v) BY DEF DispatchInv
  <2> QED BY <2>1, <2>2, <2>3 DEF AttemptHeld
<1> QED BY <1>1, HandsFrame DEF DispatchInv

LEMMA MarkUnknownStep ==
  ASSUME DispatchInv, NEW r \in Runs, MarkUnknown(r, 1), sends' = sends,
         \A q \in Runs \ {r} : (q \in meta') = (q \in meta) /\ task'[q] = task[q],
         r \in meta => r \in meta',
         task'[r] = "PENDING" => r \in meta' /\ ~run[r].cancel
  PROVE  /\ \A q \in Runs : RunInv(q)'
         /\ \A q \in Runs \ {r} : att'[q] = att[q]
         /\ att'[r][1].state # "ABSENT" /\ att'[r][1].age = att[r][1].age
<1>1. run \in [Runs -> AiRuns] /\ att \in [Runs -> [AttNos -> Attempts]]
  BY DEF DispatchInv, TypeOK
<1>2. run[r] \in AiRuns /\ att[r][1] \in Attempts BY <1>1, OneIsAttNo
<1>3. OneAttempt(r) /\ AnswerRecorded(r) /\ SendsCounted(r) BY DEF DispatchInv, RunInv
<1>4. att[r][1].state \in Unresolved BY DEF MarkUnknown, Unresolved
<1>5. /\ att'[r][1].state = "UNKNOWN" /\ att'[r][1].by = att[r][1].by
      /\ att'[r][1].age = att[r][1].age
      /\ \A n \in AttNos : n # 1 => att'[r][n] = att[r][n]
      /\ \A q \in Runs \ {r} : att'[q] = att[q] /\ run'[q] = run[q]
  <2> DEFINE a == [att[r][1] EXCEPT !.state = "UNKNOWN"]
  <2>1. a.state = "UNKNOWN" /\ a.by = att[r][1].by /\ a.age = att[r][1].age
    BY <1>2 DEF Attempts
  <2>2. \/ att[r][1].state = "UNKNOWN" /\ att' = att /\ run' = run
        \/ /\ att' = [att EXCEPT ![r] = [att[r] EXCEPT ![1] = a]]
           /\ run' = [run EXCEPT ![r] = [run[r] EXCEPT !.state = "UNKNOWN"]]
    BY DEF MarkUnknown
  <2> HIDE DEF a
  <2> QED BY <1>1, <2>1, <2>2, OneIsAttNo
<1>6. /\ run'[r].state = "UNKNOWN" /\ run'[r].cancel = run[r].cancel
      /\ run'[r].settled = run[r].settled
  BY <1>1, <1>2, <1>3 DEF MarkUnknown, AiRuns, OneAttempt
<1>7. ASSUME NEW q \in Runs PROVE RunInv(q)'
  <2>1. CASE q # r BY <1>5, <2>1, RunFrame DEF DispatchInv
  <2>2. CASE q = r
    <3>1. OneAttempt(q)'
      BY <1>3, <1>4, <1>5, <1>6, <2>2 DEF OneAttempt, Unresolved, OpenStates
    <3>2. AnswerRecorded(q)' BY <1>5, <1>6, <2>2 DEF AnswerRecorded
    <3>3. SendsCounted(q)' BY <1>3, <1>5, <2>2 DEF SendsCounted
    <3> QED BY <3>1, <3>2, <3>3 DEF RunInv
  <2> QED BY <2>1, <2>2
<1> QED BY <1>5, <1>7

LEMMA SettleStep ==
  ASSUME DispatchInv, NEW r \in Runs, NEW rec \in AiRuns, NEW amount \in Nat,
         NEW outcome \in {"SUCCEEDED", "NOT_EXECUTED"}, NEW by \in {"PROVIDER", "REVIEWER"},
         Settle(r, 1, rec, outcome, amount, by), sends' = sends,
         rec.cancel = run[r].cancel \/ rec.cancel,
         att[r][1].state = outcome => rec = run[r],
         \A q \in Runs \ {r} : (q \in meta') = (q \in meta) /\ task'[q] = task[q],
         r \in meta => r \in meta',
         r \in meta' => outcome # "NOT_EXECUTED",
         outcome = "NOT_EXECUTED" => rec.cancel,
         task'[r] = "PENDING" => r \in meta' /\ ~rec.cancel
  PROVE  /\ \A q \in Runs : RunInv(q)'
         /\ \A q \in Runs \ {r} : att'[q] = att[q]
         /\ att'[r][1].state # "ABSENT" /\ att'[r][1].age = att[r][1].age
<1> DEFINE a == [att[r][1] EXCEPT !.state = outcome, !.by = by, !.amount = amount]
           fin == SettledRun(rec, outcome, amount)
<1>1. run \in [Runs -> AiRuns] /\ att \in [Runs -> [AttNos -> Attempts]]
  BY DEF DispatchInv, TypeOK
<1>2. run[r] \in AiRuns /\ att[r][1] \in Attempts BY <1>1, OneIsAttNo
<1>3. OneAttempt(r) /\ AnswerRecorded(r) /\ SendsCounted(r) BY DEF DispatchInv, RunInv
<1>4. \/ att[r][1].state = outcome /\ run' = [run EXCEPT ![r] = rec] /\ att' = att
      \/ /\ att[r][1].state \in Unresolved
         /\ att' = [att EXCEPT ![r] = [att[r] EXCEPT ![1] = a]]
         /\ run' = [run EXCEPT ![r] = fin]
  BY DEF Settle
<1>5. CASE att[r][1].state = outcome /\ run' = [run EXCEPT ![r] = rec] /\ att' = att
  <2>1. rec = run[r] BY <1>5
  <2>2. run' = run BY <1>1, <1>5, <2>1
  <2>3. ASSUME NEW q \in Runs PROVE RunInv(q)'
    <3>1. CASE q # r BY <1>5, <2>2, <3>1, RunFrame DEF DispatchInv
    <3>2. CASE q = r
      <4>1. OneAttempt(q)' BY <1>3, <1>5, <2>2, <3>2 DEF OneAttempt
      <4>2. AnswerRecorded(q)' BY <1>5, <2>1, <2>2, <3>2 DEF AnswerRecorded
      <4>3. SendsCounted(q)' BY <1>3, <1>5, <3>2 DEF SendsCounted
      <4> QED BY <4>1, <4>2, <4>3 DEF RunInv
    <3> QED BY <3>1, <3>2
  <2> QED BY <1>5, <2>3
<1>6. CASE /\ att[r][1].state \in Unresolved
           /\ att' = [att EXCEPT ![r] = [att[r] EXCEPT ![1] = a]]
           /\ run' = [run EXCEPT ![r] = fin]
  <2>1. a.state = outcome /\ a.by = by /\ a.age = att[r][1].age BY <1>2 DEF Attempts
  <2>2. /\ fin.state \in {"CANCELLED", "SUCCEEDED"} /\ fin.settled = amount
        /\ fin.cancel = rec.cancel
    BY DEF SettledRun, Requeues, AiRuns
  <2> HIDE DEF a, fin
  <2>3. /\ att'[r][1] = a /\ run'[r] = fin
        /\ \A n \in AttNos : n # 1 => att'[r][n] = att[r][n]
        /\ \A q \in Runs \ {r} : att'[q] = att[q] /\ run'[q] = run[q]
    BY <1>1, <1>6, OneIsAttNo
  <2>4. ASSUME NEW q \in Runs PROVE RunInv(q)'
    <3>1. CASE q # r BY <2>3, <3>1, RunFrame DEF DispatchInv
    <3>2. CASE q = r
      <4>0. amount # NoCharge BY DEF NoCharge
      <4>1. OneAttempt(q)'
        BY <1>3, <2>1, <2>2, <2>3, <3>2, <4>0 DEF OneAttempt, Unresolved, OpenStates
      <4>2. AnswerRecorded(q)' BY <2>1, <2>2, <2>3, <3>2 DEF AnswerRecorded
      <4>3. SendsCounted(q)' BY <1>3, <2>1, <2>3, <3>2 DEF SendsCounted
      <4> QED BY <4>1, <4>2, <4>3 DEF RunInv
    <3> QED BY <3>1, <3>2
  <2> QED BY <2>1, <2>3, <2>4
<1> QED BY <1>4, <1>5, <1>6

LEMMA InvReconcile ==
  ASSUME DispatchInv, isolating = {}, TypeOK', NEW r \in Runs, NEW n \in AttNos,
         NEW outcome \in {"SUCCEEDED", "NOT_EXECUTED"}, NEW amount \in Charges \cup {0},
         Reconcile(r, n, outcome, amount)
  PROVE  DispatchInv'
<1> DEFINE rec == RunToReconcile(r)
<1>1. run \in [Runs -> AiRuns] /\ att[r][n].state = "UNKNOWN"
  BY DEF DispatchInv, TypeOK, Reconcile, MayReconcile
<1>0. amount \in Nat BY ModelConstants
<1>2. run[r] \in AiRuns /\ amount \in Nat BY <1>0, <1>1
<1>3. OneAttempt(r) /\ AnswerRecorded(r) BY DEF DispatchInv, RunInv
<1>4. n = 1 /\ run[r].state = "UNKNOWN" BY <1>1, <1>3 DEF OneAttempt
<1>5. rec \in AiRuns BY <1>2, CancelRunTyped DEF RunToReconcile
<1>6. /\ rec.cancel = run[r].cancel \/ rec.cancel
      /\ r \in meta => rec = run[r]
      /\ r \notin meta => rec.cancel
  BY <1>2, <1>4 DEF RunToReconcile, CancelRun, AiRuns, OpenStates
<1>7. /\ Settle(r, 1, rec, outcome, amount, "REVIEWER")
      /\ r \in meta => outcome # "NOT_EXECUTED"
      /\ UNCHANGED <<meta, task, wk, isolating, sends>>
  BY <1>4 DEF Reconcile, MayReconcile
<1> HIDE DEF rec
<1>8. /\ \A q \in Runs : RunInv(q)'
      /\ \A q \in Runs \ {r} : att'[q] = att[q]
      /\ att'[r][1].state # "ABSENT" /\ att'[r][1].age = att[r][1].age
  <2>1. task'[r] = "PENDING" => r \in meta' /\ ~rec.cancel
    BY <1>3, <1>6, <1>7 DEF AnswerRecorded
  <2>2. outcome = "NOT_EXECUTED" => rec.cancel BY <1>6, <1>7
  <2>3. att[r][1].state # outcome BY <1>1, <1>4
  <2> QED BY <1>2, <1>5, <1>6, <1>7, <2>1, <2>2, <2>3, SettleStep
<1>9. HandsKept BY <1>7 DEF HandsKept, Holding
<1>10. (\A w \in Workers : AttemptHeld(w))' /\ HeldAlone'
  BY <1>1, <1>4, <1>7, <1>8, <1>9, DecisionFrame
<1>11. NobodyWorksInIsolation' BY <1>7 DEF NobodyWorksInIsolation
<1> QED BY <1>8, <1>10, <1>11 DEF DispatchInv

LEMMA InvRecordFailure ==
  ASSUME DispatchInv, isolating = {}, TypeOK', NEW w \in Workers, RecordFailure(w)
  PROVE  DispatchInv'
<1>1. PICK r \in Runs : r = wk[w].r BY InHand DEF RecordFailure, DispatchInv
<1>2. Holding(w) /\ wk[w].n = 1 BY DEF Holding, RecordFailure, DispatchInv, AttemptHeld
<1>3. HandsKept BY RestKeeps DEF RecordFailure, DispatchInv
<1>4. MarkUnknown(r, 1) BY <1>1, <1>2 DEF RecordFailure
<1>5. meta' = meta \/ meta' = meta \cup {r} BY <1>1 DEF RecordFailure
<1>6. /\ \A q \in Runs : RunInv(q)'
      /\ \A q \in Runs \ {r} : att'[q] = att[q]
      /\ att'[r][1].state # "ABSENT" /\ att'[r][1].age = att[r][1].age
  <2>1. task'[r] = "PENDING" => r \in meta' /\ ~run[r].cancel
    BY <1>5 DEF RecordFailure, DispatchInv, RunInv, AnswerRecorded
  <2> QED BY <1>4, <1>5, <2>1, MarkUnknownStep DEF RecordFailure
<1>7. \A v \in Workers : wk'[v].pc = "PREPARED" => wk[v].r # r
  <2> SUFFICES ASSUME NEW v \in Workers, wk'[v].pc = "PREPARED" PROVE wk[v].r # r OBVIOUS
  <2>1. Holding(v) /\ wk[v].pc = "PREPARED" BY <1>3 DEF HandsKept, Holding
  <2> QED BY <1>1, <1>2, <2>1 DEF DispatchInv, HeldAlone, RecordFailure
<1>8. (\A v \in Workers : AttemptHeld(v))' /\ HeldAlone'
  BY <1>3, <1>6, <1>7, DecisionFrame DEF RecordFailure
<1>9. NobodyWorksInIsolation' BY DEF RecordFailure, NobodyWorksInIsolation
<1> QED BY <1>6, <1>8, <1>9 DEF DispatchInv

LEMMA InvComplete ==
  ASSUME DispatchInv, isolating = {}, TypeOK', NEW w \in Workers, Complete(w)
  PROVE  DispatchInv'
<1>1. PICK r \in Runs : r = wk[w].r BY InHand DEF Complete, DispatchInv
<1>2. Holding(w) /\ wk[w].n = 1 BY DEF Holding, Complete, DispatchInv, AttemptHeld
<1>3. HandsKept /\ wk'[w].pc # "PREPARED"
  <2>1. wk \in [Workers -> WorkerStates] BY DEF DispatchInv, TypeOK
  <2>2. wk[w] \in WorkerRecords BY <2>1 DEF WorkerStates
  <2>3. CASE Rest(w) BY <2>1, <2>3, RestKeeps DEF DispatchInv, Rest, Resting
  <2>4. CASE Goto(w, "FAILED")
    <3>1. HandsKept BY <1>2, <2>4, GotoKeeps DEF DispatchInv
    <3> QED BY <2>1, <2>2, <2>4, <3>1 DEF Goto, WorkerRecords
  <2> QED BY <2>3, <2>4 DEF Complete
<1>4. /\ meta' = meta \cup {r}
      /\ (task' = [task EXCEPT ![r] = "PENDING"] /\ Accepts(w)) \/ task' = task
      /\ task \in [Runs -> ProposalStates]
      /\ UNCHANGED <<isolating, sends>>
  BY <1>1 DEF Complete, DispatchInv, TypeOK
<1>5. /\ \A q \in Runs \ {r} : (q \in meta') = (q \in meta) /\ task'[q] = task[q]
      /\ r \in meta => r \in meta'
      /\ task'[r] = "PENDING" => r \in meta' /\ ~run[r].cancel
  <2>1. Accepts(w) => ~run[r].cancel BY <1>1 DEF Accepts
  <2>2. AnswerRecorded(r) BY DEF DispatchInv, RunInv
  <2> QED BY <1>4, <2>1, <2>2 DEF AnswerRecorded
<1>6. /\ \A q \in Runs : RunInv(q)'
      /\ \A q \in Runs \ {r} : att'[q] = att[q]
      /\ att'[r][1].state # "ABSENT" /\ att'[r][1].age = att[r][1].age
  <2>1. CASE MarkUnknown(r, 1) BY <1>4, <1>5, <2>1, MarkUnknownStep
  <2>2. CASE wk[w].amount # NoCharge
             /\ Settle(r, 1, run[r], "SUCCEEDED", wk[w].amount, "PROVIDER")
    <3>1. run[r] \in AiRuns BY DEF DispatchInv, TypeOK
    <3>2. wk[w].amount \in Nat BY <2>2, InHand, ModelConstants DEF Complete, DispatchInv
    <3> QED BY <1>4, <1>5, <2>2, <3>1, <3>2, SettleStep
  <2> QED BY <1>1, <1>2, <2>1, <2>2 DEF Complete
<1>7. \A v \in Workers : wk'[v].pc = "PREPARED" => wk[v].r # r
  <2> SUFFICES ASSUME NEW v \in Workers, wk'[v].pc = "PREPARED" PROVE wk[v].r # r OBVIOUS
  <2>1. Holding(v) /\ wk[v].pc = "PREPARED" BY <1>3 DEF HandsKept, Holding
  <2> QED BY <1>1, <1>2, <1>3, <2>1 DEF DispatchInv, HeldAlone
<1>8. (\A v \in Workers : AttemptHeld(v))' /\ HeldAlone'
  BY <1>3, <1>4, <1>6, <1>7, DecisionFrame
<1>9. NobodyWorksInIsolation' BY <1>4 DEF NobodyWorksInIsolation
<1> QED BY <1>6, <1>8, <1>9 DEF DispatchInv

LEMMA InvIsolate == ASSUME DispatchInv, TypeOK', Isolate PROVE DispatchInv'
<1>1. \A v \in Workers : wk'[v] = Resting BY DEF Isolate
<1>2. ASSUME NEW r \in Runs PROVE RunInv(r)' BY RunFrame DEF Isolate, ledger, DispatchInv
<1>3. HandsKept /\ AttemptsKept BY <1>1 DEF HandsKept, AttemptsKept, Holding, Resting
<1>4. (\A v \in Workers : AttemptHeld(v))' /\ HeldAlone'
  BY <1>3, HandsFrame DEF DispatchInv
<1>5. NobodyWorksInIsolation' BY <1>1 DEF NobodyWorksInIsolation, Resting
<1> QED BY <1>2, <1>4, <1>5 DEF DispatchInv

LEMMA InvIsolateRun ==
  ASSUME DispatchInv, TypeOK', NEW r \in isolating, IsolateRun(r)
  PROVE  DispatchInv'
<1> DEFINE hit == \E n \in AttNos : att[r][n].state = "MAY_HAVE_EXECUTED"
           rec == IF hit THEN [CancelRun(run[r]) EXCEPT !.state = "UNKNOWN"] ELSE CancelRun(run[r])
<1>1. /\ run \in [Runs -> AiRuns] /\ att \in [Runs -> [AttNos -> Attempts]]
      /\ task \in [Runs -> ProposalStates] /\ r \in Runs
  BY DEF DispatchInv, TypeOK
<1>2. run[r] \in AiRuns /\ att[r][1] \in Attempts BY <1>1, OneIsAttNo
<1>3. OneAttempt(r) /\ AnswerRecorded(r) /\ SendsCounted(r) BY <1>1 DEF DispatchInv, RunInv
<1>4. hit <=> att[r][1].state = "MAY_HAVE_EXECUTED" BY <1>3, OneIsAttNo DEF OneAttempt
<1>5. /\ run' = [run EXCEPT ![r] = rec]
      /\ att' = [att EXCEPT ![r] = [n \in AttNos |-> GivenUp(att[r][n])]]
      /\ task' = [task EXCEPT ![r] = CancelledProposal(@)]
      /\ UNCHANGED <<meta, wk, sends>> /\ isolating' = isolating \ {r}
  BY DEF IsolateRun
<1>6. /\ \A n \in AttNos : n # 1 => att'[r][n] = att[r][n]
      /\ hit => att'[r][1].state = "UNKNOWN" /\ att'[r][1].by = att[r][1].by
      /\ ~hit => att'[r][1] = att[r][1]
  <2>1. \A n \in AttNos : att'[r][n] = GivenUp(att[r][n]) BY <1>1, <1>5
  <2> HIDE DEF hit
  <2> QED BY <1>2, <1>3, <1>4, <2>1, OneIsAttNo DEF GivenUp, OneAttempt, Attempts
<1>7. /\ hit => run'[r].state = "UNKNOWN" /\ run'[r].cancel /\ run'[r].settled = run[r].settled
      /\ ~hit => \/ run'[r] = run[r]
                 \/ /\ run[r].state = "QUEUED" /\ run'[r].state = "CANCELLED"
                    /\ run'[r].cancel /\ run'[r].settled = 0
                 \/ /\ run[r].state \in {"RUNNING", "UNKNOWN"} /\ run'[r].state = run[r].state
                    /\ run'[r].cancel /\ run'[r].settled = run[r].settled
  <2>1. run'[r] = rec BY <1>1, <1>5
  <2>2. CASE hit
    <3>1. run[r].state = "RUNNING" BY <1>3, <1>4, <2>2 DEF OneAttempt
    <3>2. CancelRun(run[r]) \in AiRuns BY <1>2, CancelRunTyped
    <3>3. CancelRun(run[r]).cancel /\ CancelRun(run[r]).settled = run[r].settled
      BY <1>2, <3>1 DEF CancelRun, AiRuns, OpenStates
    <3>4. rec = [CancelRun(run[r]) EXCEPT !.state = "UNKNOWN"] BY <2>2
    <3> HIDE DEF rec, hit
    <3> QED BY <2>1, <2>2, <3>2, <3>3, <3>4 DEF AiRuns
  <2>3. CASE ~hit
    <3>1. rec = CancelRun(run[r]) BY <2>3
    <3> HIDE DEF rec, hit
    <3> QED BY <1>2, <2>1, <2>3, <3>1 DEF CancelRun, AiRuns, OpenStates
  <2> QED BY <2>2, <2>3
<1>8. task'[r] # "PENDING" /\ \A q \in Runs \ {r} : task'[q] = task[q]
  BY <1>1, <1>5 DEF CancelledProposal
<1>9. \A q \in Runs \ {r} : att'[q] = att[q] /\ run'[q] = run[q] BY <1>1, <1>5
<1> HIDE DEF hit, rec
<1>10. ASSUME NEW q \in Runs PROVE RunInv(q)'
  <2>1. CASE q # r BY <1>5, <1>8, <1>9, <2>1, RunFrame DEF DispatchInv
  <2>2. CASE q = r
    <3>1. OneAttempt(r)'
      <4>1. CASE hit
        BY <1>3, <1>4, <1>6, <1>7, <4>1 DEF OneAttempt, Unresolved, OpenStates
      <4>2. CASE ~hit
        BY <1>3, <1>4, <1>6, <1>7, <4>2 DEF OneAttempt, Unresolved, OpenStates, NoCharge
      <4> QED BY <4>1, <4>2
    <3>2. AnswerRecorded(r)' BY <1>3, <1>4, <1>5, <1>6, <1>8 DEF AnswerRecorded
    <3>3. SendsCounted(r)' BY <1>3, <1>4, <1>5, <1>6 DEF SendsCounted
    <3> QED BY <2>2, <3>1, <3>2, <3>3 DEF RunInv
  <2> QED BY <2>1, <2>2
<1>11. \A v \in Workers : wk'[v].pc = "IDLE"
  BY <1>5 DEF DispatchInv, NobodyWorksInIsolation
<1>12. HandsKept /\ AttemptsKept BY <1>11 DEF HandsKept, AttemptsKept, Holding
<1>13. (\A v \in Workers : AttemptHeld(v))' /\ HeldAlone'
  BY <1>12, HandsFrame DEF DispatchInv
<1>14. NobodyWorksInIsolation' BY <1>11 DEF NobodyWorksInIsolation
<1> QED BY <1>10, <1>13, <1>14 DEF DispatchInv

LEMMA InvAdvance == ASSUME DispatchInv, isolating = {}, TypeOK', NEW w \in Workers,
                           Advance(w) \/ Crash(w)
                    PROVE  DispatchInv'
<1>1. CASE NoCandidate(w) \/ Crash(w)
  <2>1. HandsKept BY <1>1, RestKeeps DEF NoCandidate, Crash, DispatchInv
  <2> QED BY <1>1, <2>1, LocalStep DEF NoCandidate, Crash, ledger
<1>2. CASE Refuse(w) \/ RecordFailureRefused(w)
  <2>1. Goto(w, "REFUSED") BY <1>2 DEF Refuse, RecordFailureRefused
  <2>2. HandsKept BY <2>1, GotoKeeps DEF DispatchInv
  <2> QED BY <1>2, <2>2, LocalStep DEF Refuse, RecordFailureRefused, ledger
<1>3. CASE Fail(w)
  <2>1. Goto(w, "FAILED") /\ Holding(w) BY <1>3 DEF Fail, Holding
  <2>2. HandsKept BY <2>1, GotoKeeps DEF DispatchInv
  <2> QED BY <1>3, <2>2, LocalStep DEF Fail, ledger
<1> QED BY <1>1, <1>2, <1>3, InvSweep, InvPick, InvConfigure, InvBegin, InvGiveUp, InvSend,
           InvReceive, InvComplete, InvRecordFailure DEF Advance

LEMMA InvNext == ASSUME DispatchInv, [Next]_vars PROVE DispatchInv'
<1>0. TypeOK' BY TypeNext DEF DispatchInv
<1>1. CASE UNCHANGED vars BY <1>0, <1>1, QuietStep DEF vars
<1>2. ASSUME isolating = {}, Administrator PROVE DispatchInv'
  <2>1. CASE SaveConnection \/ ToggleApproval
    BY <1>0, <2>1, QuietStep DEF SaveConnection, ToggleApproval, ledger
  <2>2. ASSUME NEW d \in Days, Unfreeze(d) PROVE DispatchInv'
    BY <1>0, <2>2, QuietStep DEF Unfreeze
  <2> QED BY <1>0, <1>2, <2>1, <2>2, InvIsolate, InvReconcile DEF Administrator
<1>3. CASE NextDay BY <1>0, <1>3, QuietStep DEF NextDay, ledger
<1> QED BY <1>0, <1>1, <1>2, <1>3, InvAdvance, InvMember, InvTick, InvIsolateRun DEF Next

LEMMA InvInit == Init => DispatchInv
<1> SUFFICES ASSUME Init PROVE DispatchInv OBVIOUS
<1>1. ASSUME NEW r \in Runs PROVE RunInv(r)
  BY OneIsAttNo DEF Init, RunInv, OneAttempt, AnswerRecorded, SendsCounted, NoAiRun, NoAttempt,
     Unresolved, OpenStates
<1>2. \A w \in Workers : ~Holding(w) BY DEF Init, Holding, Resting
<1> QED BY <1>1, <1>2, TypeInit
        DEF DispatchInv, Init, AttemptHeld, HeldAlone, NobodyWorksInIsolation

\* A run has one attempt, held by one worker at most, and nobody else decides it
\* before the sweep's age: however many workers, members, administrators and
\* restores meet.
THEOREM DispatchInvariant == Spec => []DispatchInv
<1>1. DispatchInv /\ [Next]_vars => DispatchInv' BY InvNext
<1> QED BY <1>1, InvInit, PTL DEF Spec

\* No run's request leaves twice (ai-operations.ts:55), for any number of
\* attempts the configuration allows.
THEOREM NoRunIsSentTwice == Spec => []NoSecondSend
<1>1. DispatchInv => NoSecondSend
  BY DEF DispatchInv, RunInv, SendsCounted, NoSecondSend
<1> QED BY <1>1, DispatchInvariant, PTL

\* A recorded response and a settlement as not executed exclude each other.
THEOREM RecordedResponsesStand == Spec => []ResponseRulesOutNonexecution
<1>1. DispatchInv => ResponseRulesOutNonexecution
  <2> SUFFICES ASSUME DispatchInv, NEW r \in meta, NEW n \in AttNos
               PROVE  att[r][n].state # "NOT_EXECUTED"
    BY DEF ResponseRulesOutNonexecution
  <2>1. r \in Runs BY DEF DispatchInv, TypeOK
  <2>2. OneAttempt(r) /\ AnswerRecorded(r) BY <2>1 DEF DispatchInv, RunInv
  <2> QED BY <2>2 DEF OneAttempt, AnswerRecorded
<1> QED BY <1>1, DispatchInvariant, PTL

\* A run whose cancellation was asked for has no proposal left to adopt.
THEOREM CancelledRunsProposeNothing == Spec => []CancelledHasNoProposal
<1>1. DispatchInv => CancelledHasNoProposal
  BY DEF DispatchInv, RunInv, AnswerRecorded, CancelledHasNoProposal
<1> QED BY <1>1, DispatchInvariant, PTL

\* The part of the ledger's own integrity check (inspectAiLedger) that relates
\* runs to their attempts never fails.
THEOREM RunsAgreeWithAttempts == Spec => []RunsMatchAttempts
<1>1. DispatchInv => RunsMatchAttempts
  <2> SUFFICES ASSUME DispatchInv, NEW r \in Runs
               PROVE  LET open == {n \in AttNos : att[r][n].state \in Unresolved}
                      IN /\ \A m, n \in open : m = n
                         /\ run[r].state = "RUNNING" =>
                              \E n \in open : att[r][n].state = "MAY_HAVE_EXECUTED"
                         /\ run[r].state = "UNKNOWN" => \E n \in open : att[r][n].state = "UNKNOWN"
                         /\ run[r].state \notin {"RUNNING", "UNKNOWN"} => open = {}
                         /\ run[r].state = "QUEUED" =>
                              \A n \in AttNos : att[r][n].state \in {"ABSENT", "NOT_EXECUTED"}
                         /\ run[r].settled = NoCharge <=> run[r].state \in OpenStates \cup {"NONE"}
                         /\ \A n \in AttNos : att[r][n].by = "NONE" <=>
                              att[r][n].state \in Unresolved \cup {"ABSENT"}
    BY DEF RunsMatchAttempts
  <2> DEFINE open == {n \in AttNos : att[r][n].state \in Unresolved}
  <2>1. OneAttempt(r) BY DEF DispatchInv, RunInv
  <2>2. \A n \in open : n = 1 BY <2>1 DEF OneAttempt, Unresolved
  <2>3. 1 \in open <=> run[r].state \in {"RUNNING", "UNKNOWN"}
    BY <2>1, OneIsAttNo DEF OneAttempt, Unresolved
  <2>4. \A n \in AttNos : att[r][n].by = "NONE" <=>
          att[r][n].state \in Unresolved \cup {"ABSENT"}
    BY <2>1 DEF OneAttempt
  <2>5. run[r].state = "QUEUED" => \A n \in AttNos : att[r][n].state = "ABSENT"
    BY <2>1 DEF OneAttempt
  <2>6. /\ run[r].state = "RUNNING" => att[r][1].state = "MAY_HAVE_EXECUTED"
        /\ run[r].state = "UNKNOWN" => att[r][1].state = "UNKNOWN"
        /\ run[r].settled = NoCharge <=> run[r].state \in OpenStates \cup {"NONE"}
    BY <2>1 DEF OneAttempt
  <2> HIDE DEF open
  <2>7. run[r].state \notin {"RUNNING", "UNKNOWN"} => open = {} BY <2>2, <2>3
  <2>8. \A m, n \in open : m = n BY <2>2
  <2>9. /\ run[r].state = "RUNNING" => \E n \in open : att[r][n].state = "MAY_HAVE_EXECUTED"
        /\ run[r].state = "UNKNOWN" => \E n \in open : att[r][n].state = "UNKNOWN"
    BY <2>3, <2>6
  <2> QED BY <2>4, <2>5, <2>6, <2>7, <2>8, <2>9 DEF open
<1> QED BY <1>1, DispatchInvariant, PTL

\* A request leaves only while its attempt is still undecided.
THEOREM SendsAreUndecided == Spec => SendOnlyWhileUndecided
<1> DEFINE A == \A w \in Workers : wk[w].pc = "PREPARED" /\ wk'[w].pc = "SENT" =>
                  att[wk[w].r][wk[w].n].state = "MAY_HAVE_EXECUTED"
<1>1. DispatchInv /\ [Next]_vars => [A]_vars
  <2> SUFFICES ASSUME DispatchInv, Next, NEW w \in Workers,
                      wk[w].pc = "PREPARED", wk'[w].pc = "SENT"
               PROVE  att[wk[w].r][wk[w].n].state = "MAY_HAVE_EXECUTED"
    OBVIOUS
  <2>1. Send(w)
    <3>1. wk \in [Workers -> WorkerStates] BY DEF DispatchInv, TypeOK
    <3>a. wk' # wk OBVIOUS
    <3>b. ~Isolate BY <3>1 DEF Isolate, Resting
    <3>c. \A r \in Runs : ~Member(r)
      BY <3>a DEF Member, Reserve, CancelTask, RejectProposal, ApplyProposal, EraseTask, ChangeBasis
    <3>d. ~Administrator
      BY <3>a, <3>b DEF Administrator, SaveConnection, ToggleApproval, Unfreeze, Reconcile
    <3>e. ~Tick /\ ~NextDay /\ \A r \in isolating : ~IsolateRun(r)
      BY <3>a DEF Tick, NextDay, IsolateRun
    <3>2. PICK v \in Workers : Advance(v) \/ Crash(v) BY <3>c, <3>d, <3>e DEF Next
    <3>3. v = w
      <4>1. CASE Rest(v) BY <3>1, <4>1 DEF Rest
      <4>2. ASSUME NEW pc, Goto(v, pc) PROVE v = w BY <3>1, <4>2 DEF Goto
      <4>3. CASE Pick(v) BY <3>1, <4>3 DEF Pick
      <4>4. CASE Configure(v) BY <3>1, <4>2, <4>4 DEF Configure
      <4>5. CASE Begin(v) BY <3>1, <4>1, <4>5 DEF Begin
      <4>6. CASE Receive(v) BY <3>1, <4>6 DEF Receive
      <4>7. CASE Complete(v) BY <4>1, <4>2, <4>7 DEF Complete
      <4> QED BY <3>2, <4>1, <4>2, <4>3, <4>4, <4>5, <4>6, <4>7
              DEF Advance, Crash, Sweep, NoCandidate, Refuse, GiveUp, Send, Fail, RecordFailure,
                  RecordFailureRefused
    <3>4. wk[w] \in WorkerRecords BY <3>1 DEF WorkerStates
    <3>5. ~Fail(w) BY <3>1, <3>4 DEF Fail, Goto, WorkerRecords
    <3>6. ~Crash(w) BY <3>1 DEF Crash, Rest, Resting
    <3> QED BY <3>2, <3>3, <3>5, <3>6
            DEF Advance, Sweep, NoCandidate, Pick, Configure, Begin, Refuse, GiveUp, Receive,
                Complete, RecordFailure, RecordFailureRefused
  <2>2. wk[w].r \in Runs /\ wk[w].n \in AttNos BY InHand DEF DispatchInv
  <2>3. wk[w].n = 1 /\ (att[wk[w].r][1].state = "MAY_HAVE_EXECUTED" \/ att[wk[w].r][1].age = SweepAge)
    BY DEF DispatchInv, AttemptHeld, Holding
  <2>4. att[wk[w].r][wk[w].n].age < Timeout BY <2>1 DEF Send, SendWindow
  <2>5. SweepAge \in Nat /\ Timeout \in Nat /\ Timeout < SweepAge BY CodeConstants
  <2>6. att[wk[w].r][1].age # SweepAge BY <2>3, <2>4, <2>5
  <2> QED BY <2>3, <2>6
<1>2. Spec => [][A]_vars BY <1>1, DispatchInvariant, PTL DEF Spec
<1> QED BY <1>2 DEF SendOnlyWhileUndecided

-------------------------------------------------------------------------------
(* Sums over a finite set, whichever element CHOOSE takes first.              *)

\* g adds up f over every subset of S, one element after another
One(s) == CHOOSE x \in s : TRUE
Adds(f, S, g) ==
    g = [s \in SUBSET S |-> IF s = {} THEN 0 ELSE f[One(s)] + g[s \ {One(s)}]]

LEMMA OneIsIn == ASSUME NEW s, s # {} PROVE One(s) \in s
BY DEF One

\* What is true of some subset of a finite set is true of one that has no smaller.
LEMMA SmallestSubset ==
    ASSUME NEW S, IsFiniteSet(S), NEW Bad, Bad \subseteq SUBSET S, Bad # {}
    PROVE  \E T \in Bad : \A U \in Bad : U \subseteq T => U = T
<1>1. IsWellFoundedOn(StrictSubsetOrdering(S), FiniteSubsetsOf(S))
  BY FS_StrictSubsetOrderingWellFounded
<1>2. Bad \subseteq FiniteSubsetsOf(S) BY FS_FiniteSubsetsOfFinite
<1>3. \E T \in Bad : \A U \in Bad : ~(<<U, T>> \in StrictSubsetOrdering(S))
  <2> DEFINE R == StrictSubsetOrdering(S)
             F == FiniteSubsetsOf(S)
  <2>1. IsWellFoundedOn(R, F) /\ Bad \subseteq F BY <1>1, <1>2
  <2> HIDE DEF R, F
  <2>2. \E T \in Bad : \A U \in Bad : ~(<<U, T>> \in R) BY <2>1, WFMin
  <2> QED BY <2>2 DEF R
<1> QED BY <1>3 DEF StrictSubsetOrdering

LEMMA AddsOnce ==
    ASSUME NEW f, NEW A, NEW B, NEW g, NEW h, IsFiniteSet(A), Adds(f, A, g), Adds(f, B, h),
           NEW T \in SUBSET A, T \subseteq B
    PROVE  g[T] = h[T]
<1> DEFINE Bad == {U \in SUBSET A : U \subseteq B /\ g[U] # h[U]}
<1> SUFFICES ASSUME Bad # {} PROVE FALSE
  OBVIOUS
<1>1. PICK U \in Bad : \A V \in Bad : V \subseteq U => V = U
  <2>1. Bad \subseteq SUBSET A BY DEF Bad
  <2> HIDE DEF Bad
  <2> QED BY <2>1, SmallestSubset
<1>2. U # {} BY DEF Adds
<1>3. One(U) \in U BY <1>2, OneIsIn
<1>4. /\ g[U] = f[One(U)] + g[U \ {One(U)}] /\ h[U] = f[One(U)] + h[U \ {One(U)}]
      /\ U \ {One(U)} \in SUBSET A /\ U \ {One(U)} \subseteq B
  BY <1>2 DEF Adds
<1>5. U \ {One(U)} \notin Bad BY <1>1, <1>3
<1> QED BY <1>4, <1>5

LEMMA AddsSomehow ==
    ASSUME NEW f, NEW A, IsFiniteSet(A)
    PROVE  \E g : Adds(f, A, g)
<1> DEFINE Bad == {U \in SUBSET A : ~\E g : Adds(f, U, g)}
<1> SUFFICES ASSUME Bad # {} PROVE FALSE
  OBVIOUS
<1>1. PICK T \in Bad : \A U \in Bad : U \subseteq T => U = T
  <2>1. Bad \subseteq SUBSET A BY DEF Bad
  <2> HIDE DEF Bad
  <2> QED BY <2>1, SmallestSubset
<1> DEFINE G(U) == CHOOSE g : Adds(f, U, g)
           V(s) == IF s = {} THEN 0 ELSE f[One(s)] + G(s \ {One(s)})[s \ {One(s)}]
           h == [s \in SUBSET T |-> V(s)]
<1>2. ASSUME NEW U, U \subseteq T, U # T PROVE Adds(f, U, G(U)) /\ IsFiniteSet(U)
  <2>1. U \notin Bad /\ U \in SUBSET A BY <1>1, <1>2
  <2>2. \E g : Adds(f, U, g) BY <2>1
  <2>3. IsFiniteSet(U) BY <2>1, FS_Subset
  <2> HIDE DEF Bad
  <2> QED BY <2>2, <2>3
<1> HIDE DEF G
<1>3. ASSUME NEW U, U \subseteq T, U # T PROVE V(U) = G(U)[U]
  <2>1. CASE U = {} BY <1>2, <1>3, <2>1 DEF Adds
  <2>2. CASE U # {}
    <3> DEFINE W == U \ {One(U)}
    <3>1. W \subseteq U /\ W \subseteq T /\ W # T BY <1>3, <2>2, OneIsIn
    <3>2. Adds(f, U, G(U)) /\ Adds(f, W, G(W)) /\ IsFiniteSet(U) BY <1>2, <1>3, <3>1
    <3>3. G(U)[W] = G(W)[W] BY <3>1, <3>2, AddsOnce
    <3>4. G(U)[U] = f[One(U)] + G(U)[W] BY <2>2, <3>2 DEF Adds
    <3> QED BY <2>2, <3>3, <3>4
  <2> QED BY <2>1, <2>2
<1>4. ASSUME NEW s \in SUBSET T
      PROVE  V(s) = IF s = {} THEN 0 ELSE f[One(s)] + h[s \ {One(s)}]
  <2>1. CASE s # {}
    <3> DEFINE u == s \ {One(s)}
    <3>1. u \in SUBSET T /\ u # T BY <2>1, OneIsIn
    <3>2. h[u] = V(u) BY <3>1
    <3>3. V(u) = G(u)[u] BY <1>3, <3>1
    <3>4. V(s) = f[One(s)] + G(u)[u] BY <2>1
    <3> HIDE DEF V, h, u
    <3>5. h[u] = G(u)[u] BY <3>2, <3>3
    <3>6. V(s) = f[One(s)] + h[u] BY <3>4, <3>5
    <3> QED BY <3>6, <2>1 DEF u
  <2> QED BY <2>1
<1>5. Adds(f, T, h)
  <2>1. h = [s \in SUBSET T |-> IF s = {} THEN 0 ELSE f[One(s)] + h[s \ {One(s)}]]
    <3> HIDE DEF V
    <3>1. \A s \in SUBSET T : V(s) = IF s = {} THEN 0 ELSE f[One(s)] + h[s \ {One(s)}]
      BY <1>4
    <3> QED BY <3>1, Zenon
  <2> QED BY <2>1 DEF Adds
<1> QED BY <1>1, <1>5

LEMMA SumIs ==
    ASSUME NEW f, NEW S, IsFiniteSet(S)
    PROVE  \E g : Adds(f, S, g) /\ SumFunctionOnSet(f, S) = g[S]
<1> DEFINE g == CHOOSE g : Adds(f, S, g)
<1>1. Adds(f, S, g) BY AddsSomehow
<1>2. SumFunctionOnSet(f, S) = g[S]
  BY DEF SumFunctionOnSet, FoldFunctionOnSet, MapThenFoldSet, Adds, One
<1> QED BY <1>1, <1>2

LEMMA SumOfNone == ASSUME NEW f PROVE SumFunctionOnSet(f, {}) = 0
<1>1. IsFiniteSet({}) BY FS_EmptySet
<1>2. PICK g : Adds(f, {}, g) /\ SumFunctionOnSet(f, {}) = g[{}] BY <1>1, SumIs
<1>3. {} \in SUBSET {} OBVIOUS
<1> QED BY <1>2, <1>3 DEF Adds

LEMMA SumStep ==
    ASSUME NEW f, NEW S, IsFiniteSet(S), S # {}
    PROVE  SumFunctionOnSet(f, S) = f[One(S)] + SumFunctionOnSet(f, S \ {One(S)})
<1> DEFINE U == S \ {One(S)}
<1>1. IsFiniteSet(U) BY FS_Subset
<1>2. PICK g : Adds(f, S, g) /\ SumFunctionOnSet(f, S) = g[S] BY SumIs
<1>3. PICK h : Adds(f, U, h) /\ SumFunctionOnSet(f, U) = h[U] BY <1>1, SumIs
<1>4. h[U] = g[U] BY <1>1, <1>2, <1>3, AddsOnce
<1>5. g[S] = f[One(S)] + g[U] BY <1>2 DEF Adds
<1> QED BY <1>2, <1>3, <1>4, <1>5

\* A sum of integers is one, and of natural numbers one of them.
LEMMA SumTyped ==
    ASSUME NEW f, NEW S, IsFiniteSet(S), NEW N, N \in {Int, Nat}, \A x \in S : f[x] \in N
    PROVE  SumFunctionOnSet(f, S) \in N
<1> DEFINE Bad == {U \in SUBSET S : SumFunctionOnSet(f, U) \notin N}
<1> SUFFICES ASSUME Bad # {} PROVE FALSE
  OBVIOUS
<1>1. PICK U \in Bad : \A V \in Bad : V \subseteq U => V = U
  <2>1. Bad \subseteq SUBSET S BY DEF Bad
  <2> HIDE DEF Bad
  <2> QED BY <2>1, SmallestSubset
<1>2. U # {} BY SumOfNone
<1>3. One(U) \in U /\ U \in SUBSET S /\ IsFiniteSet(U) BY <1>2, OneIsIn, FS_Subset
<1>4. U \ {One(U)} \notin Bad /\ U \ {One(U)} \in SUBSET S BY <1>1, <1>3
<1>5. SumFunctionOnSet(f, U \ {One(U)}) \in N /\ f[One(U)] \in N BY <1>3, <1>4
<1>6. SumFunctionOnSet(f, U) = f[One(U)] + SumFunctionOnSet(f, U \ {One(U)})
  BY <1>2, <1>3, SumStep
<1>7. SumFunctionOnSet(f, U) \in N BY <1>5, <1>6
<1> QED BY <1>7

\* Any element may be taken out first.
LEMMA SumOut ==
    ASSUME NEW f, NEW S, IsFiniteSet(S), \A x \in S : f[x] \in Int, NEW y \in S
    PROVE  SumFunctionOnSet(f, S) = f[y] + SumFunctionOnSet(f, S \ {y})
<1> DEFINE Sum(T) == SumFunctionOnSet(f, T)
           Bad == {U \in SUBSET S : \E z \in U : Sum(U) # f[z] + Sum(U \ {z})}
<1> SUFFICES ASSUME Bad # {} PROVE FALSE
  <2>1. S \notin Bad OBVIOUS
  <2> QED BY <2>1
<1>1. PICK U \in Bad : \A V \in Bad : V \subseteq U => V = U
  <2>1. Bad \subseteq SUBSET S BY DEF Bad
  <2> HIDE DEF Bad
  <2> QED BY <2>1, SmallestSubset
<1>2. PICK z \in U : Sum(U) # f[z] + Sum(U \ {z}) OBVIOUS
<1> DEFINE x == One(U)
           W == U \ {x}
<1>3. x \in U /\ U \in SUBSET S /\ IsFiniteSet(U) BY <1>2, OneIsIn, FS_Subset
<1>4. Sum(U) = f[x] + Sum(W) BY <1>3, SumStep
<1>5. z # x BY <1>2, <1>4
<1>6. W \notin Bad /\ W \in SUBSET S BY <1>1, <1>3
<1>7. Sum(W) = f[z] + Sum(W \ {z}) BY <1>5, <1>6
<1>8. U \ {z} \notin Bad /\ U \ {z} \in SUBSET S BY <1>1, <1>2
<1>9. x \in U \ {z} BY <1>3, <1>5
<1>10. Sum(U \ {z}) = f[x] + Sum((U \ {z}) \ {x}) BY <1>8, <1>9
<1>11. (U \ {z}) \ {x} = W \ {z} OBVIOUS
<1>12. f[x] \in Int /\ f[z] \in Int BY <1>3
<1>13. IsFiniteSet(W \ {z}) BY <1>3, FS_Subset
<1>14. Sum(W \ {z}) \in Int BY <1>3, <1>13, SumTyped
<1> HIDE DEF Sum, W, x
<1>15. Sum(U) = f[x] + (f[z] + Sum(W \ {z})) BY <1>4, <1>7
<1>16. Sum(U \ {z}) = f[x] + Sum(W \ {z}) BY <1>10, <1>11
<1>17. Sum(U) = f[z] + Sum(U \ {z}) BY <1>12, <1>14, <1>15, <1>16
<1> QED BY <1>2, <1>17

\* Functions that agree on a set have the same sum over it.
LEMMA SumSame ==
    ASSUME NEW f, NEW g, NEW S, IsFiniteSet(S), \A x \in S : f[x] = g[x]
    PROVE  SumFunctionOnSet(f, S) = SumFunctionOnSet(g, S)
<1> DEFINE Bad == {U \in SUBSET S : SumFunctionOnSet(f, U) # SumFunctionOnSet(g, U)}
<1> SUFFICES ASSUME Bad # {} PROVE FALSE
  OBVIOUS
<1>1. PICK U \in Bad : \A V \in Bad : V \subseteq U => V = U
  <2>1. Bad \subseteq SUBSET S BY DEF Bad
  <2> HIDE DEF Bad
  <2> QED BY <2>1, SmallestSubset
<1>2. U # {} BY SumOfNone
<1>3. One(U) \in U /\ U \in SUBSET S /\ IsFiniteSet(U) BY <1>2, OneIsIn, FS_Subset
<1>4. U \ {One(U)} \notin Bad /\ U \ {One(U)} \in SUBSET S BY <1>1, <1>3
<1>5. SumFunctionOnSet(f, U \ {One(U)}) = SumFunctionOnSet(g, U \ {One(U)}) /\ f[One(U)] = g[One(U)]
  BY <1>3, <1>4
<1>6. /\ SumFunctionOnSet(f, U) = f[One(U)] + SumFunctionOnSet(f, U \ {One(U)})
      /\ SumFunctionOnSet(g, U) = g[One(U)] + SumFunctionOnSet(g, U \ {One(U)})
  BY <1>2, <1>3, SumStep
<1> QED BY <1>5, <1>6

-------------------------------------------------------------------------------
(* The ledger: every budget is the sum of its runs, and within its limit.     *)

LedgerInv == BudgetsMatchRuns /\ SpendWithinLimit

LEMMA SumsTyped ==
    ASSUME TypeOK, NEW S \in SUBSET Runs
    PROVE  /\ IsFiniteSet(S)
           /\ \A r \in Runs : /\ Reservations[r] = run[r].reserved /\ run[r].reserved \in Nat
                              /\ Settlements[r] = run[r].settled /\ run[r].settled \in Int
                              /\ Overruns[r] = Excess(r) /\ Excess(r) \in Nat
           /\ SumFunctionOnSet(Reservations, S) \in Int
           /\ SumFunctionOnSet(Settlements, S) \in Int
           /\ SumFunctionOnSet(Overruns, S) \in Int
<1>1. IsFiniteSet(S) BY ModelConstants, FS_Subset
<1>2. ASSUME NEW r \in Runs
      PROVE  /\ Reservations[r] = run[r].reserved /\ run[r].reserved \in Nat
             /\ Settlements[r] = run[r].settled /\ run[r].settled \in Int
             /\ Overruns[r] = Excess(r) /\ Excess(r) \in Nat
  <2>1. run[r] \in AiRuns BY DEF TypeOK
  <2>2. run[r].reserved \in Nat /\ run[r].settled \in Int BY <2>1 DEF AiRuns, NoCharge
  <2>3. run[r].settled > run[r].reserved => run[r].settled - run[r].reserved \in Nat
    BY <2>2
  <2>4. Excess(r) \in Nat BY <2>3 DEF Excess
  <2> QED BY <2>2, <2>4 DEF Reservations, Settlements, Overruns
<1>3. /\ \A r \in S : Reservations[r] \in Int
      /\ \A r \in S : Settlements[r] \in Int
      /\ \A r \in S : Overruns[r] \in Int
  BY <1>2
<1> QED BY <1>1, <1>2, <1>3, SumTyped

\* Runs and budgets whose amounts do not change add up to the same; the limits that the
\* workspace has had only become more.
LEMMA MoneyStays ==
    ASSUME TypeOK, TypeOK', LedgerInv, conf'.rev >= conf.rev,
           \A r \in Runs : /\ run'[r].day = run[r].day /\ run'[r].reserved = run[r].reserved
                           /\ run'[r].settled = run[r].settled
                           /\ run'[r].state = "NONE" <=> run[r].state = "NONE",
           \A d \in Days : /\ budget'[d].reserved = budget[d].reserved
                           /\ budget'[d].settled = budget[d].settled
    PROVE  LedgerInv'
<1>1. \A d : RunsOf(d)' = RunsOf(d) /\ Unsettled(d)' = Unsettled(d)
  BY DEF RunsOf, Unsettled
<1>2. Reservations' = Reservations /\ Settlements' = Settlements
  BY DEF Reservations, Settlements
<1>3. Overruns' = Overruns BY DEF Overruns, Excess
<1>4. BudgetsMatchRuns' BY <1>1, <1>2 DEF LedgerInv, BudgetsMatchRuns
<1>5. SpendWithinLimit'
  <2> SUFFICES ASSUME NEW d \in Days
               PROVE  \E v \in 1..(conf'.rev) :
                        Total(d)' <= Daily[v] + SumFunctionOnSet(Overruns', RunsOf(d)')
    BY DEF SpendWithinLimit
  <2>1. Total(d)' = Total(d) BY DEF Total
  <2>2. PICK v \in 1..conf.rev : Total(d) <= Daily[v] + SumFunctionOnSet(Overruns, RunsOf(d))
    BY DEF LedgerInv, SpendWithinLimit
  <2>3. v \in 1..(conf'.rev) BY DEF TypeOK
  <2> QED BY <1>1, <1>3, <2>1, <2>2, <2>3
<1> QED BY <1>4, <1>5 DEF LedgerInv

\* One run takes the money that was reserved for it, or its part of it, or more.
LEMMA MoneySettles ==
    ASSUME TypeOK, TypeOK', LedgerInv, conf' = conf, NEW r \in Runs, NEW amount \in Nat,
           run[r].state # "NONE", run[r].settled = NoCharge,
           run'[r].state # "NONE", run'[r].settled = amount,
           run'[r].day = run[r].day, run'[r].reserved = run[r].reserved,
           \A q \in Runs \ {r} : run'[q] = run[q],
           budget'[run[r].day].reserved = budget[run[r].day].reserved - run[r].reserved,
           budget'[run[r].day].settled = budget[run[r].day].settled + amount,
           \A d \in Days \ {run[r].day} : budget'[d] = budget[d]
    PROVE  LedgerInv'
<1> DEFINE day0 == run[r].day
           Sum(f, S) == SumFunctionOnSet(f, S)
<1>1. day0 \in Days BY DEF TypeOK, AiRuns
<1>2. \A d : RunsOf(d)' = RunsOf(d)
  BY DEF RunsOf
<1>3. \A d : r \in RunsOf(d) <=> d = day0 BY DEF RunsOf
<1>4. /\ r \in Unsettled(day0) /\ Unsettled(day0)' = Unsettled(day0) \ {r}
      /\ \A d \in Days \ {day0} : Unsettled(d)' = Unsettled(d)
  <2>1. /\ \A d : Unsettled(d)' = {q \in RunsOf(d) : run'[q].settled = NoCharge}
        /\ \A d : Unsettled(d) = {q \in RunsOf(d) : run[q].settled = NoCharge}
        /\ \A d : RunsOf(d) \subseteq Runs
    BY <1>2 DEF Unsettled, RunsOf
  <2>2. run'[r].settled # NoCharge BY DEF NoCharge
  <2>3. Unsettled(day0)' = Unsettled(day0) \ {r} /\ r \in Unsettled(day0)
    BY <1>1, <1>3, <2>1, <2>2
  <2>4. \A d \in Days \ {day0} : Unsettled(d)' = Unsettled(d)
    BY <1>3, <2>1
  <2> QED BY <2>3, <2>4
<1>5. /\ \A q \in Runs : Reservations'[q] = Reservations[q]
      /\ \A q \in Runs \ {r} : Settlements'[q] = Settlements[q] /\ Overruns'[q] = Overruns[q]
  BY DEF Reservations, Settlements, Overruns, Excess
<1>6. \A S \in SUBSET Runs :
          /\ IsFiniteSet(S) /\ Sum(Reservations', S) = Sum(Reservations, S)
          /\ r \notin S => /\ Sum(Settlements', S) = Sum(Settlements, S)
                           /\ Sum(Overruns', S) = Sum(Overruns, S)
  <2> SUFFICES ASSUME NEW S \in SUBSET Runs
               PROVE  /\ IsFiniteSet(S) /\ Sum(Reservations', S) = Sum(Reservations, S)
                      /\ r \notin S => /\ Sum(Settlements', S) = Sum(Settlements, S)
                                       /\ Sum(Overruns', S) = Sum(Overruns, S)
    OBVIOUS
  <2>1. IsFiniteSet(S) BY ModelConstants, FS_Subset
  <2>2. Sum(Reservations', S) = Sum(Reservations, S) BY <1>5, <2>1, SumSame
  <2>3. ASSUME r \notin S PROVE Sum(Settlements', S) = Sum(Settlements, S)
    BY <1>5, <2>1, <2>3, SumSame
  <2>4. ASSUME r \notin S PROVE Sum(Overruns', S) = Sum(Overruns, S)
    BY <1>5, <2>1, <2>4, SumSame
  <2> QED BY <2>1, <2>2, <2>3, <2>4
<1>7. \A d : RunsOf(d) \in SUBSET Runs /\ Unsettled(d) \in SUBSET Runs
  BY DEF RunsOf, Unsettled
<1>8. /\ run[r].reserved \in Nat /\ \A q \in Runs : Reservations[q] \in Int /\ Settlements'[q] \in Int
      /\ \A q \in Runs : Overruns[q] \in Int /\ Overruns'[q] \in Int
      /\ Reservations[r] = run[r].reserved /\ Settlements'[r] = amount
      /\ Overruns[r] = 0
      /\ Overruns'[r] = IF amount > run[r].reserved THEN amount - run[r].reserved ELSE 0
  <2>1. run[r].reserved \in Nat /\ run'[r].reserved = run[r].reserved BY DEF TypeOK, AiRuns
  <2>2. ~(NoCharge > run[r].reserved) BY <2>1 DEF NoCharge
  <2>3. \A q \in Runs : Reservations[q] \in Int /\ Overruns[q] \in Int
    BY SumsTyped
  <2>4. \A q \in Runs : Settlements'[q] \in Int /\ Overruns'[q] \in Int
    <3>1. \A q \in Runs : run'[q].settled \in Int /\ run'[q].reserved \in Nat
      BY DEF TypeOK, AiRuns, NoCharge
    <3>2. \A q \in Runs : Excess(q)' \in Int BY <3>1 DEF Excess
    <3> QED BY <3>1, <3>2 DEF Settlements, Overruns
  <2> QED BY <2>1, <2>2, <2>3, <2>4 DEF Reservations, Settlements, Overruns, Excess
<1>9. BudgetsMatchRuns'
  <2> SUFFICES ASSUME NEW d \in Days
               PROVE  /\ budget'[d].reserved = Sum(Reservations', Unsettled(d)')
                      /\ budget'[d].settled = Sum(Settlements', RunsOf(d)' \ Unsettled(d)')
    BY DEF BudgetsMatchRuns
  <2>1. /\ budget[d].reserved = Sum(Reservations, Unsettled(d))
        /\ budget[d].settled = Sum(Settlements, RunsOf(d) \ Unsettled(d))
    BY DEF LedgerInv, BudgetsMatchRuns
  <2>2. CASE d # day0
    <3>1. r \notin RunsOf(d) \ Unsettled(d) BY <1>3, <2>2
    <3>2. /\ RunsOf(d)' \ Unsettled(d)' = RunsOf(d) \ Unsettled(d)
          /\ Unsettled(d)' = Unsettled(d)
      BY <1>2, <1>4, <2>2
    <3> QED BY <1>6, <1>7, <2>1, <2>2, <3>1, <3>2
  <2>3. CASE d = day0
    <3>1. Sum(Reservations, Unsettled(d)) = run[r].reserved + Sum(Reservations, Unsettled(d) \ {r})
      BY <1>4, <1>6, <1>7, <1>8, <2>3, SumOut
    <3>2. Sum(Reservations, Unsettled(d) \ {r}) \in Int BY <1>7, SumsTyped
    <3>3. Sum(Reservations', Unsettled(d)') = Sum(Reservations, Unsettled(d) \ {r})
      BY <1>4, <1>6, <1>7, <2>3
    <3> DEFINE S == RunsOf(d)' \ Unsettled(d)'
    <3>4. S \in SUBSET Runs /\ r \in S /\ S \ {r} = RunsOf(d) \ Unsettled(d) /\ IsFiniteSet(S)
      BY <1>2, <1>3, <1>4, <1>6, <1>7, <2>3
    <3>5. Sum(Settlements', S) = Settlements'[r] + Sum(Settlements', S \ {r})
      <4> HIDE DEF S
      <4> QED BY <1>8, <3>4, SumOut
    <3>6. Sum(Settlements', S \ {r}) = Sum(Settlements, RunsOf(d) \ Unsettled(d))
      <4> HIDE DEF S
      <4>1. S \ {r} \in SUBSET Runs /\ r \notin S \ {r} BY <3>4
      <4> QED BY <1>6, <3>4, <4>1
    <3>7. budget[d].settled \in Nat BY DEF TypeOK, Budgets
    <3> HIDE DEF S
    <3>8. budget'[d].settled = Sum(Settlements', S)
      BY <1>8, <2>1, <2>3, <3>5, <3>6, <3>7
    <3>9. budget'[d].reserved = Sum(Reservations', Unsettled(d)')
      BY <1>8, <2>1, <2>3, <3>1, <3>2, <3>3
    <3> QED BY <3>8, <3>9 DEF S
  <2> QED BY <2>2, <2>3
<1>10. SpendWithinLimit'
  <2> SUFFICES ASSUME NEW d \in Days
               PROVE  \E v \in 1..(conf'.rev) : Total(d)' <= Daily[v] + Sum(Overruns', RunsOf(d)')
    BY DEF SpendWithinLimit
  <2>1. PICK v \in 1..conf.rev : Total(d) <= Daily[v] + Sum(Overruns, RunsOf(d))
    BY DEF LedgerInv, SpendWithinLimit
  <2>2. CASE d # day0
    <3>1. Total(d)' = Total(d) BY <2>2 DEF Total
    <3>2. Sum(Overruns', RunsOf(d)') = Sum(Overruns, RunsOf(d)) BY <1>2, <1>3, <1>6, <1>7, <2>2
    <3> QED BY <2>1, <3>1, <3>2
  <2>3. CASE d = day0
    <3> DEFINE S == RunsOf(d) \ {r}
    <3>1. /\ S \in SUBSET Runs /\ r \notin S /\ r \in RunsOf(d)
          /\ RunsOf(d) \in SUBSET Runs /\ IsFiniteSet(RunsOf(d))
      BY <1>3, <1>6, <1>7, <2>3
    <3>2. Sum(Overruns, RunsOf(d)) = Overruns[r] + Sum(Overruns, S) BY <1>8, <3>1, SumOut
    <3>3. Sum(Overruns', RunsOf(d)) = Overruns'[r] + Sum(Overruns', S)
      BY <1>8, <3>1, SumOut
    <3>4. Sum(Overruns', S) = Sum(Overruns, S) BY <1>6, <3>1
    <3>5. Sum(Overruns, S) \in Int BY <3>1, SumsTyped
    <3>6. /\ budget[d].reserved \in Int /\ budget[d].settled \in Int
          /\ Total(d)' = Total(d) - run[r].reserved + amount
      <4>1. budget[d].reserved \in Int /\ budget[d].settled \in Int BY DEF TypeOK, Budgets
      <4> QED BY <1>8, <2>3, <4>1 DEF Total
    <3>7. Daily[v] \in Int
      <4>1. conf.rev \in 1..MaxRev /\ MaxRev \in Nat BY ModelConstants DEF TypeOK
      <4>2. v \in 1..MaxRev BY <4>1
      <4> QED BY <4>2, ModelConstants
    <3> HIDE DEF S
    <3>8. Total(d) \in Int BY <3>6 DEF Total
    <3>9. Total(d)' <= Daily[v] + Sum(Overruns', RunsOf(d))
      BY <1>8, <2>1, <3>2, <3>3, <3>4, <3>5, <3>6, <3>7, <3>8
    <3> QED BY <1>2, <3>9
  <2> QED BY <2>2, <2>3
<1> QED BY <1>9, <1>10 DEF LedgerInv

LEMMA MoneyReserved ==
    ASSUME TypeOK, TypeOK', LedgerInv, NEW r \in Runs, Reserve(r)
    PROVE  LedgerInv'
<1> DEFINE price == PerTask[conf.rev]
           Sum(f, S) == SumFunctionOnSet(f, S)
<1>1. /\ day \in Days /\ conf.rev \in 1..MaxRev /\ conf' = conf /\ run[r].state = "NONE"
      /\ price \in Nat /\ Daily[conf.rev] \in Nat
      /\ Total(day) + price <= Daily[conf.rev]
  BY ModelConstants DEF TypeOK, Reserve, AffordableToday
<1> PICK today \in Days : today = day BY <1>1
<1>2. /\ run'[r].state = "QUEUED" /\ run'[r].day = today /\ run'[r].reserved = price
      /\ run'[r].settled = NoCharge
      /\ \A q \in Runs \ {r} : run'[q] = run[q]
  BY DEF TypeOK, Reserve, NoAiRun
<1>3. /\ budget'[today].reserved = budget[today].reserved + price
      /\ budget'[today].settled = budget[today].settled
      /\ \A d \in Days \ {today} : budget'[d] = budget[d]
      /\ \A d \in Days : budget[d].reserved \in Int /\ budget[d].settled \in Int
  BY <1>1 DEF TypeOK, Reserve, Budgets
<1> HIDE DEF price
<1>4. /\ \A d : r \notin RunsOf(d) /\ r \notin Unsettled(d)
      /\ RunsOf(today)' = RunsOf(today) \cup {r} /\ Unsettled(today)' = Unsettled(today) \cup {r}
      /\ \A d \in Days \ {today} : RunsOf(d)' = RunsOf(d) /\ Unsettled(d)' = Unsettled(d)
  <2>1. /\ \A d : RunsOf(d) = {q \in Runs : run[q].state # "NONE" /\ run[q].day = d}
        /\ \A d : Unsettled(d) = {q \in RunsOf(d) : run[q].settled = NoCharge}
        /\ \A d : RunsOf(d)' = {q \in Runs : run'[q].state # "NONE" /\ run'[q].day = d}
        /\ \A d : Unsettled(d)' = {q \in RunsOf(d)' : run'[q].settled = NoCharge}
    BY DEF RunsOf, Unsettled
  <2>2. \A d : r \notin RunsOf(d) /\ r \notin Unsettled(d) BY <1>1, <2>1
  <2>3. RunsOf(today)' = RunsOf(today) \cup {r} BY <1>2, <2>1
  <2>4. Unsettled(today)' = Unsettled(today) \cup {r} BY <1>2, <2>1, <2>3
  <2>5. \A d \in Days \ {today} : RunsOf(d)' = RunsOf(d) BY <1>1, <1>2, <2>1
  <2>6. \A d \in Days \ {today} : Unsettled(d)' = Unsettled(d) BY <1>2, <2>1, <2>2, <2>5
  <2> QED BY <2>2, <2>3, <2>4, <2>5, <2>6
<1>5. \A q \in Runs \ {r} : /\ Reservations'[q] = Reservations[q]
                           /\ Settlements'[q] = Settlements[q] /\ Overruns'[q] = Overruns[q]
  BY <1>2 DEF Reservations, Settlements, Overruns, Excess
<1>6. ASSUME NEW S \in SUBSET Runs, r \notin S
      PROVE  /\ IsFiniteSet(S) /\ IsFiniteSet(S \cup {r})
             /\ Sum(Reservations', S) = Sum(Reservations, S)
             /\ Sum(Settlements', S) = Sum(Settlements, S)
             /\ Sum(Overruns', S) = Sum(Overruns, S)
             /\ Sum(Reservations, S) \in Int /\ Sum(Overruns, S) \in Int
  <2>1. IsFiniteSet(S) /\ IsFiniteSet(S \cup {r})
    <3>1. S \cup {r} \subseteq Runs BY <1>6
    <3> QED BY <3>1, ModelConstants, FS_Subset
  <2>2. Sum(Reservations', S) = Sum(Reservations, S) BY <1>5, <1>6, <2>1, SumSame
  <2>3. Sum(Settlements', S) = Sum(Settlements, S) BY <1>5, <1>6, <2>1, SumSame
  <2>4. Sum(Overruns', S) = Sum(Overruns, S) BY <1>5, <1>6, <2>1, SumSame
  <2> QED BY <1>6, <2>1, <2>2, <2>3, <2>4, SumsTyped
<1>7. \A d : RunsOf(d) \in SUBSET Runs /\ Unsettled(d) \in SUBSET Runs
  BY DEF RunsOf, Unsettled
<1>8. /\ \A q \in Runs : Reservations'[q] \in Int /\ Overruns'[q] \in Int
      /\ Reservations'[r] = price /\ Overruns'[r] = 0
  <2>1. \A q \in Runs : run'[q].settled \in Int /\ run'[q].reserved \in Nat
    BY DEF TypeOK, AiRuns, NoCharge
  <2>2. \A q \in Runs : Excess(q)' \in Int BY <2>1 DEF Excess
  <2>3. Excess(r)' = 0 BY <1>2, <2>1 DEF Excess, NoCharge
  <2> QED BY <1>2, <2>1, <2>2, <2>3 DEF Reservations, Overruns
<1>9. ASSUME NEW S \in SUBSET Runs, r \notin S
      PROVE  /\ Sum(Reservations', S \cup {r}) = price + Sum(Reservations, S)
             /\ Sum(Overruns', S \cup {r}) = Sum(Overruns, S)
  <2> DEFINE T == S \cup {r}
  <2>1. T \ {r} = S /\ r \in T /\ T \subseteq Runs BY <1>9
  <2>2. IsFiniteSet(T) BY <1>6, <1>9
  <2> HIDE DEF T
  <2>3. Sum(Reservations', T) = Reservations'[r] + Sum(Reservations', T \ {r})
    BY <1>8, <2>1, <2>2, SumOut
  <2>4. Sum(Overruns', T) = Overruns'[r] + Sum(Overruns', T \ {r})
    BY <1>8, <2>1, <2>2, SumOut
  <2>5. Sum(Reservations', T) = price + Sum(Reservations, S) BY <1>6, <1>8, <1>9, <2>1, <2>3
  <2>6. Sum(Overruns, S) \in Int /\ Sum(Overruns', S) = Sum(Overruns, S) BY <1>6, <1>9
  <2>7. Sum(Overruns', T) = 0 + Sum(Overruns, S) BY <1>8, <2>1, <2>4, <2>6
  <2>8. Sum(Overruns', T) = Sum(Overruns, S) BY <2>6, <2>7
  <2> QED BY <2>5, <2>8 DEF T
<1>10. BudgetsMatchRuns'
  <2> SUFFICES ASSUME NEW d \in Days
               PROVE  /\ budget'[d].reserved = Sum(Reservations', Unsettled(d)')
                      /\ budget'[d].settled = Sum(Settlements', RunsOf(d)' \ Unsettled(d)')
    BY DEF BudgetsMatchRuns
  <2>1. /\ budget[d].reserved = Sum(Reservations, Unsettled(d))
        /\ budget[d].settled = Sum(Settlements, RunsOf(d) \ Unsettled(d))
    BY DEF LedgerInv, BudgetsMatchRuns
  <2> DEFINE S == RunsOf(d) \ Unsettled(d)
  <2>2. RunsOf(d)' \ Unsettled(d)' = S BY <1>4 DEF S
  <2>3. S \in SUBSET Runs /\ r \notin S BY <1>4, <1>7
  <2> HIDE DEF S
  <2>4. budget'[d].settled = budget[d].settled BY <1>3
  <2>5. budget'[d].settled = Sum(Settlements', S) BY <1>6, <2>1, <2>3, <2>4 DEF S
  <2>6. CASE d # today BY <1>3, <1>4, <1>6, <1>7, <2>1, <2>2, <2>5, <2>6
  <2>7. CASE d = today
    <3>1. budget'[d].reserved = budget[d].reserved + price BY <1>3, <2>7
    <3>2. Sum(Reservations', Unsettled(d)') = price + Sum(Reservations, Unsettled(d))
      BY <1>4, <1>7, <1>9, <2>7
    <3>3. budget'[d].reserved = Sum(Reservations', Unsettled(d)')
      <4>1. budget[d].reserved \in Int BY <1>3
      <4> QED BY <1>1, <2>1, <3>1, <3>2, <4>1
    <3> QED BY <2>2, <2>5, <3>3
  <2> QED BY <2>6, <2>7
<1>11. SpendWithinLimit'
  <2> SUFFICES ASSUME NEW d \in Days
               PROVE  \E v \in 1..(conf'.rev) : Total(d)' <= Daily[v] + Sum(Overruns', RunsOf(d)')
    BY DEF SpendWithinLimit
  <2>1. PICK v \in 1..conf.rev : Total(d) <= Daily[v] + Sum(Overruns, RunsOf(d))
    BY DEF LedgerInv, SpendWithinLimit
  <2>2. CASE d # today
    <3>1. Total(d)' = Total(d) BY <1>3, <2>2 DEF Total
    <3>2. Sum(Overruns', RunsOf(d)') = Sum(Overruns, RunsOf(d)) BY <1>4, <1>6, <1>7, <2>2
    <3> QED BY <1>1, <2>1, <3>1, <3>2
  <2>3. CASE d = today
    <3>1. Total(d)' = Total(d) + price BY <1>1, <1>3, <2>3 DEF Total
    <3>2. Sum(Overruns', RunsOf(d)') = Sum(Overruns, RunsOf(d)) BY <1>4, <1>7, <1>9, <2>3
    <3>3. Sum(Overruns, RunsOf(d)) \in Nat
      <4>1. IsFiniteSet(RunsOf(d)) /\ \A q \in RunsOf(d) : Overruns[q] \in Nat
        BY <1>7, SumsTyped
      <4> QED BY <4>1, SumTyped
    <3>4. conf.rev \in 1..(conf'.rev) BY <1>1, ModelConstants
    <3>5. Total(d) + price <= Daily[conf.rev] BY <1>1, <2>3
    <3>6. Total(d) \in Int BY <1>3 DEF Total
    <3>7. Total(d)' <= Daily[conf.rev] + Sum(Overruns', RunsOf(d)')
      BY <1>1, <3>1, <3>2, <3>3, <3>5, <3>6
    <3> QED BY <3>4, <3>7
  <2> QED BY <2>2, <2>3
<1> QED BY <1>10, <1>11 DEF LedgerInv

LEMMA LedgerCancel ==
    ASSUME DispatchInv, TypeOK', LedgerInv, NEW r \in Runs, Cancel(r), conf' = conf
    PROVE  LedgerInv'
<1>1. TypeOK /\ run[r] \in AiRuns /\ run[r].day \in Days /\ OneAttempt(r)
  BY DEF DispatchInv, TypeOK, AiRuns, RunInv
<1>2. /\ run' = [run EXCEPT ![r] = CancelRun(run[r])]
      /\ budget' = [budget EXCEPT ![run[r].day].reserved = @ - Released(run[r])]
  BY DEF Cancel
<1>3. /\ run'[r] = CancelRun(run[r]) /\ \A q \in Runs \ {r} : run'[q] = run[q]
      /\ budget'[run[r].day].reserved = budget[run[r].day].reserved - Released(run[r])
      /\ budget'[run[r].day].settled = budget[run[r].day].settled
      /\ \A d \in Days \ {run[r].day} : budget'[d] = budget[d]
      /\ \A d \in Days : budget[d].reserved \in Int /\ budget[d].settled \in Nat
  BY <1>1, <1>2 DEF TypeOK, Budgets
<1>4. CASE run[r].state = "QUEUED"
  <2>1. ~run[r].cancel /\ run[r].settled = NoCharge
    BY <1>1, <1>4 DEF OneAttempt, OpenStates
  <2>2. /\ run'[r].state = "CANCELLED" /\ run'[r].settled = 0 /\ run'[r].day = run[r].day
        /\ run'[r].reserved = run[r].reserved
    BY <1>1, <1>3, <1>4, <2>1 DEF CancelRun, OpenStates, AiRuns
  <2>3. Released(run[r]) = run[r].reserved BY <1>4, <2>1 DEF Released
  <2>4. budget'[run[r].day].settled = budget[run[r].day].settled + 0 BY <1>1, <1>3
  <2> QED BY <1>1, <1>3, <1>4, <2>1, <2>2, <2>3, <2>4, MoneySettles
<1>5. CASE run[r].state # "QUEUED"
  <2>1. Released(run[r]) = 0 BY <1>5 DEF Released
  <2>2. /\ run'[r].day = run[r].day /\ run'[r].reserved = run[r].reserved
        /\ run'[r].settled = run[r].settled /\ run'[r].state = run[r].state
    BY <1>1, <1>3, <1>5 DEF CancelRun, AiRuns
  <2>3. \A d \in Days : /\ budget'[d].reserved = budget[d].reserved
                        /\ budget'[d].settled = budget[d].settled
    BY <1>3, <2>1
  <2>4. conf'.rev >= conf.rev BY DEF DispatchInv, TypeOK
  <2> QED BY <1>1, <1>3, <2>2, <2>3, <2>4, MoneyStays
<1> QED BY <1>4, <1>5

\* Steps that leave the runs' amounts and the budgets' alone.
LEMMA LedgerQuiet ==
    ASSUME DispatchInv, TypeOK', LedgerInv, conf' = conf, budget' = budget,
           \A r \in Runs : /\ run'[r].day = run[r].day /\ run'[r].reserved = run[r].reserved
                           /\ run'[r].settled = run[r].settled
                           /\ run'[r].state = "NONE" <=> run[r].state = "NONE"
    PROVE  LedgerInv'
<1>1. conf'.rev >= conf.rev BY DEF DispatchInv, TypeOK
<1> QED BY <1>1, MoneyStays DEF DispatchInv

LEMMA LedgerUnknown ==
    ASSUME DispatchInv, TypeOK', LedgerInv, conf' = conf, budget' = budget, NEW r \in Runs,
           NEW n \in AttNos, MarkUnknown(r, n)
    PROVE  LedgerInv'
<1>1. run \in [Runs -> AiRuns] /\ OneAttempt(r) BY DEF DispatchInv, TypeOK, RunInv
<1>2. CASE att[r][n].state = "MAY_HAVE_EXECUTED"
  <2>1. n = 1 BY <1>1, <1>2 DEF OneAttempt
  <2>2. run[r].state = "RUNNING" BY <1>1, <1>2, <2>1 DEF OneAttempt
  <2>3. run' = [run EXCEPT ![r].state = "UNKNOWN"] BY <1>2 DEF MarkUnknown
  <2>4. \A q \in Runs : /\ run'[q].day = run[q].day /\ run'[q].reserved = run[q].reserved
                        /\ run'[q].settled = run[q].settled
                        /\ run'[q].state = "NONE" <=> run[q].state = "NONE"
    BY <1>1, <2>2, <2>3 DEF AiRuns
  <2> QED BY <2>4, LedgerQuiet
<1>3. CASE att[r][n].state # "MAY_HAVE_EXECUTED"
  BY <1>3, LedgerQuiet DEF MarkUnknown
<1> QED BY <1>2, <1>3

LEMMA LedgerSettle ==
    ASSUME DispatchInv, TypeOK', LedgerInv, conf' = conf, NEW r \in Runs, NEW n \in AttNos,
           NEW rec \in AiRuns, rec.day = run[r].day, rec.reserved = run[r].reserved,
           rec.settled = run[r].settled, rec.state = run[r].state,
           run[r].state # "NONE",
           NEW outcome \in {"SUCCEEDED", "NOT_EXECUTED"}, NEW amount \in Nat, NEW by,
           Settle(r, n, rec, outcome, amount, by)
    PROVE  LedgerInv'
<1>1. run \in [Runs -> AiRuns] /\ OneAttempt(r) /\ run[r] \in AiRuns /\ TypeOK /\ run[r].day \in Days
  BY DEF DispatchInv, TypeOK, RunInv, AiRuns
<1>2. CASE run' = [run EXCEPT ![r] = rec] /\ budget' = budget
  <2>1. \A q \in Runs : /\ run'[q].day = run[q].day /\ run'[q].reserved = run[q].reserved
                        /\ run'[q].settled = run[q].settled
                        /\ run'[q].state = "NONE" <=> run[q].state = "NONE"
    BY <1>1, <1>2
  <2> QED BY <1>2, <2>1, LedgerQuiet
<1>3. CASE /\ att[r][n].state \in Unresolved
           /\ run' = [run EXCEPT ![r] = SettledRun(rec, outcome, amount)]
           /\ budget' = [budget EXCEPT ![rec.day] =
                            SettledBudget(budget[rec.day], rec, outcome, amount)]
  <2>1. n = 1 BY <1>1, <1>3 DEF OneAttempt, Unresolved
  <2>2. run[r].state \in {"RUNNING", "UNKNOWN"} BY <1>1, <1>3, <2>1 DEF OneAttempt, Unresolved
  <2>3. run[r].settled = NoCharge BY <1>1, <2>2 DEF OneAttempt, OpenStates
  <2>4. CASE Requeues(rec, outcome)
    <3>1. run' = [run EXCEPT ![r] = [rec EXCEPT !.state = "QUEUED"]]
      BY <1>3, <2>4 DEF SettledRun
    <3>2. budget' = budget BY <1>1, <1>3, <2>4 DEF SettledBudget, TypeOK
    <3>3. \A q \in Runs : /\ run'[q].day = run[q].day /\ run'[q].reserved = run[q].reserved
                          /\ run'[q].settled = run[q].settled
                          /\ run'[q].state = "NONE" <=> run[q].state = "NONE"
      BY <1>1, <3>1 DEF AiRuns
    <3> QED BY <3>2, <3>3, LedgerQuiet
  <2>5. CASE ~Requeues(rec, outcome)
    <3>1. run'[r] = [rec EXCEPT !.state = IF rec.cancel THEN "CANCELLED" ELSE "SUCCEEDED",
                                !.settled = amount]
      BY <1>1, <1>3, <2>5 DEF SettledRun
    <3>2. /\ run'[r].state # "NONE" /\ run'[r].settled = amount
          /\ run'[r].day = run[r].day /\ run'[r].reserved = run[r].reserved
      BY <3>1 DEF AiRuns
    <3>3. \A q \in Runs \ {r} : run'[q] = run[q] BY <1>1, <1>3
    <3>4. /\ budget'[run[r].day] = SettledBudget(budget[run[r].day], rec, outcome, amount)
          /\ \A d \in Days \ {run[r].day} : budget'[d] = budget[d]
      BY <1>1, <1>3 DEF TypeOK
    <3>5. /\ budget'[run[r].day].reserved = budget[run[r].day].reserved - run[r].reserved
          /\ budget'[run[r].day].settled = budget[run[r].day].settled + amount
      BY <2>5, <3>4 DEF SettledBudget
    <3> QED BY <1>1, <2>3, <3>2, <3>3, <3>4, <3>5, MoneySettles
  <2> QED BY <2>4, <2>5
<1> QED BY <1>2, <1>3 DEF Settle

LEMMA LedgerReconcile ==
    ASSUME DispatchInv, TypeOK', LedgerInv, NEW r \in Runs, NEW n \in AttNos,
           NEW outcome \in {"SUCCEEDED", "NOT_EXECUTED"}, NEW amount \in Charges \cup {0},
           Reconcile(r, n, outcome, amount)
    PROVE  LedgerInv'
<1> DEFINE rec == RunToReconcile(r)
<1>1. /\ run[r] \in AiRuns /\ OneAttempt(r) /\ amount \in Nat /\ att[r][n].state = "UNKNOWN"
      /\ Settle(r, n, rec, outcome, amount, "REVIEWER") /\ conf' = conf
  BY ModelConstants DEF DispatchInv, TypeOK, RunInv, Reconcile, MayReconcile
<1>2. run[r].state = "UNKNOWN" BY <1>1 DEF OneAttempt
<1>3. /\ rec \in AiRuns /\ rec.day = run[r].day /\ rec.reserved = run[r].reserved
      /\ rec.settled = run[r].settled /\ rec.state = run[r].state
  BY <1>1, <1>2 DEF RunToReconcile, CancelRun, AiRuns
<1> HIDE DEF rec
<1> QED BY <1>1, <1>2, <1>3, LedgerSettle

LEMMA LedgerIsolateRun ==
    ASSUME DispatchInv, TypeOK', LedgerInv, NEW r \in isolating, IsolateRun(r)
    PROVE  LedgerInv'
<1>1. /\ r \in Runs /\ run \in [Runs -> AiRuns] /\ run[r] \in AiRuns /\ OneAttempt(r)
      /\ run[r].day \in Days
  BY DEF DispatchInv, TypeOK, RunInv, AiRuns
<1> DEFINE hit == \E n \in AttNos : att[r][n].state = "MAY_HAVE_EXECUTED"
<1>2. /\ run' = [run EXCEPT ![r] = IF hit THEN [CancelRun(run[r]) EXCEPT !.state = "UNKNOWN"]
                                         ELSE CancelRun(run[r])]
      /\ budget' = [budget EXCEPT ![run[r].day].reserved = @ - Released(run[r])]
      /\ conf' = conf
  BY DEF IsolateRun
<1>3. CASE hit
  <2>1. run[r].state = "RUNNING" BY <1>1, <1>3 DEF OneAttempt
  <2>2. Released(run[r]) = 0 BY <2>1 DEF Released
  <2>3. /\ run'[r].day = run[r].day /\ run'[r].reserved = run[r].reserved
        /\ run'[r].settled = run[r].settled /\ run'[r].state = "UNKNOWN"
    BY <1>1, <1>2, <1>3, <2>1 DEF CancelRun, AiRuns
  <2>4. \A q \in Runs \ {r} : run'[q] = run[q] BY <1>1, <1>2
  <2>5. \A d \in Days : /\ budget'[d].reserved = budget[d].reserved
                        /\ budget'[d].settled = budget[d].settled
    BY <1>1, <1>2, <2>2 DEF DispatchInv, TypeOK, Budgets
  <2>6. conf'.rev >= conf.rev BY <1>2 DEF DispatchInv, TypeOK
  <2> HIDE DEF hit
  <2>7. TypeOK BY DEF DispatchInv
  <2> QED BY <2>1, <2>3, <2>4, <2>5, <2>6, <2>7, MoneyStays
<1>4. CASE ~hit
  <2>1. Cancel(r) BY <1>2, <1>4 DEF Cancel
  <2> QED BY <1>1, <1>2, <2>1, LedgerCancel
<1> QED BY <1>3, <1>4

LEMMA LedgerAdvance ==
    ASSUME DispatchInv, TypeOK', LedgerInv, NEW w \in Workers, Advance(w) \/ Crash(w)
    PROVE  LedgerInv'
<1>1. /\ run \in [Runs -> AiRuns] /\ \A r \in Runs : OneAttempt(r)
      /\ wk[w] \in WorkerStates
  BY DEF DispatchInv, TypeOK, RunInv
<1>2. wk[w].pc \notin {"IDLE", "SWEPT"} => wk[w].r \in Runs
  BY <1>1 DEF WorkerStates
<1>3. Holding(w) => wk[w].n \in AttNos
  BY OneIsAttNo DEF DispatchInv, AttemptHeld
<1>4. CASE UNCHANGED <<conf, budget, run>> BY <1>4, LedgerQuiet
<1>5. CASE Sweep(w)
  <2>1. \A r \in Runs : (\E n \in AttNos : Due(att[r][n])) => run[r].state = "RUNNING"
    BY <1>1 DEF Due, OneAttempt
  <2>2. \A r \in Runs : run'[r] = IF \E n \in AttNos : Due(att[r][n])
                                 THEN [run[r] EXCEPT !.state = "UNKNOWN"] ELSE run[r]
    BY <1>5 DEF Sweep
  <2>3. ASSUME NEW r \in Runs
        PROVE  /\ run'[r].day = run[r].day /\ run'[r].reserved = run[r].reserved
               /\ run'[r].settled = run[r].settled
               /\ run'[r].state = "NONE" <=> run[r].state = "NONE"
    <3>1. CASE \E n \in AttNos : Due(att[r][n])
      <4>1. run'[r] = [run[r] EXCEPT !.state = "UNKNOWN"] /\ run[r] \in AiRuns
        BY <1>1, <2>2, <3>1
      <4> QED BY <2>1, <3>1, <4>1 DEF AiRuns
    <3>2. CASE ~\E n \in AttNos : Due(att[r][n]) BY <2>2, <3>2
    <3> QED BY <3>1, <3>2
  <2> QED BY <1>5, <2>3, LedgerQuiet DEF Sweep
<1>6. CASE Begin(w)
  <2> DEFINE r == wk[w].r
  <2>1. r \in Runs /\ run[r].state = "QUEUED" /\ run' = [run EXCEPT ![r].state = "RUNNING"]
    BY <1>2, <1>6 DEF Begin, MayBegin
  <2> HIDE DEF r
  <2>2. \A q \in Runs : /\ run'[q].day = run[q].day /\ run'[q].reserved = run[q].reserved
                        /\ run'[q].settled = run[q].settled
                        /\ run'[q].state = "NONE" <=> run[q].state = "NONE"
    BY <1>1, <2>1 DEF AiRuns
  <2> QED BY <1>6, <2>2, LedgerQuiet DEF Begin
<1>7. CASE GiveUp(w)
  <2>1. wk[w].r \in Runs BY <1>2, <1>7 DEF GiveUp
  <2>2. CASE run[wk[w].r].state = "QUEUED"
    BY <1>7, <2>1, <2>2, LedgerCancel DEF GiveUp, CloseRefused
  <2>3. CASE run[wk[w].r].state # "QUEUED"
    BY <1>4, <1>7, <2>3 DEF GiveUp, CloseRefused
  <2> QED BY <2>2, <2>3
<1>8. CASE Complete(w)
  <2> DEFINE r == wk[w].r
             n == wk[w].n
  <2>1. r \in Runs /\ n \in AttNos /\ conf' = conf
    BY <1>2, <1>3, <1>8 DEF Complete, Holding
  <2>2. \/ MarkUnknown(r, n) /\ budget' = budget
        \/ wk[w].amount # NoCharge /\ Settle(r, n, run[r], "SUCCEEDED", wk[w].amount, "PROVIDER")
    BY <1>8 DEF Complete
  <2>3. wk[w].amount # NoCharge => wk[w].amount \in Nat
    <3>1. wk[w].amount \in Charges \cup {NoCharge} BY <1>1 DEF WorkerStates, WorkerRecords
    <3> QED BY <3>1, ModelConstants
  <2>4. run[r].state # "NONE" /\ run[r] \in AiRuns
    <3>1. att[r][1].state # "ABSENT" /\ OneAttempt(r)
      BY <1>1, <1>8, <2>1 DEF DispatchInv, AttemptHeld, Holding, Complete
    <3> QED BY <1>1, <2>1, <3>1 DEF OneAttempt
  <2> HIDE DEF r, n
  <2>5. CASE MarkUnknown(r, n) /\ budget' = budget BY <2>1, <2>5, LedgerUnknown
  <2>6. CASE wk[w].amount # NoCharge /\ Settle(r, n, run[r], "SUCCEEDED", wk[w].amount, "PROVIDER")
    BY <2>1, <2>3, <2>4, <2>6, LedgerSettle
  <2> QED BY <2>2, <2>5, <2>6
<1>9. CASE RecordFailure(w)
  <2>1. wk[w].r \in Runs /\ wk[w].n \in AttNos
    BY <1>2, <1>3, <1>9 DEF RecordFailure, Holding
  <2> QED BY <1>9, <2>1, LedgerUnknown DEF RecordFailure
<1> QED BY <1>4, <1>5, <1>6, <1>7, <1>8, <1>9
        DEF Advance, Crash, NoCandidate, Pick, Configure, Refuse, Send, Receive, Fail,
            RecordFailureRefused, ledger

LEMMA LedgerNext == ASSUME DispatchInv, LedgerInv, [Next]_vars PROVE LedgerInv'
<1>1. TypeOK /\ TypeOK' BY TypeNext DEF DispatchInv
<1>2. conf.rev \in Nat BY <1>1, ModelConstants DEF TypeOK
<1>3. CASE UNCHANGED <<conf, budget, run>> BY <1>1, <1>3, LedgerQuiet
<1>4. ASSUME NEW r \in Runs, Member(r) PROVE LedgerInv'
  <2>1. CASE Reserve(r) BY <1>1, <2>1, MoneyReserved
  <2>2. CASE CancelTask(r) \/ EraseTask(r)
    BY <1>1, <2>2, LedgerCancel DEF CancelTask, EraseTask
  <2>3. CASE RejectProposal(r) \/ ApplyProposal(r) \/ ChangeBasis(r)
    BY <1>3, <2>3 DEF RejectProposal, ApplyProposal, ChangeBasis, ledger
  <2> QED BY <1>4, <2>1, <2>2, <2>3 DEF Member
<1>5. ASSUME Administrator PROVE LedgerInv'
  <2>1. CASE SaveConnection \/ ToggleApproval \/ Isolate
    <3>1. conf'.rev >= conf.rev
      <4>1. conf \in [rev: 1..MaxRev, approved: BOOLEAN, epoch: 1..MaxEpoch]
        BY <1>1 DEF TypeOK
      <4>2. conf'.rev \in {conf.rev, conf.rev + 1}
        BY <2>1, <4>1 DEF SaveConnection, ToggleApproval, Isolate
      <4> QED BY <1>2, <4>2
    <3>2. UNCHANGED ledger BY <2>1 DEF SaveConnection, ToggleApproval, Isolate
    <3> QED BY <1>1, <3>1, <3>2, MoneyStays DEF ledger
  <2>2. ASSUME NEW d \in Days, Unfreeze(d) PROVE LedgerInv'
    <3>1. \A e \in Days : /\ budget'[e].reserved = budget[e].reserved
                          /\ budget'[e].settled = budget[e].settled
      BY <1>1, <2>2 DEF Unfreeze, TypeOK, Budgets
    <3>2. conf' = conf /\ run' = run BY <2>2 DEF Unfreeze
    <3> QED BY <1>1, <1>2, <3>1, <3>2, MoneyStays
  <2> QED BY <1>1, <1>5, <2>1, <2>2, LedgerReconcile DEF Administrator
<1>6. CASE Tick \/ NextDay BY <1>3, <1>6 DEF Tick, NextDay, ledger
<1>7. CASE UNCHANGED vars BY <1>3, <1>7 DEF vars
<1> QED BY <1>1, <1>4, <1>5, <1>6, <1>7, LedgerAdvance, LedgerIsolateRun DEF Next

LEMMA LedgerInit == Init => LedgerInv
<1> SUFFICES ASSUME Init PROVE LedgerInv OBVIOUS
<1>1. \A d : RunsOf(d) = {} /\ Unsettled(d) = {} BY DEF Init, RunsOf, Unsettled, NoAiRun
<1>2. BudgetsMatchRuns BY <1>1, SumOfNone DEF Init, BudgetsMatchRuns, NoBudget
<1>3. SpendWithinLimit
  <2> SUFFICES ASSUME NEW d \in Days
               PROVE  \E v \in 1..conf.rev :
                        Total(d) <= Daily[v] + SumFunctionOnSet(Overruns, RunsOf(d))
    BY DEF SpendWithinLimit
  <2>1. Total(d) = 0 /\ conf.rev = 1 BY DEF Init, Total, NoBudget
  <2>2. 1 \in 1..conf.rev /\ Daily[1] \in Nat BY <2>1, ModelConstants
  <2> QED BY <1>1, <2>1, <2>2, SumOfNone
<1> QED BY <1>2, <1>3 DEF LedgerInv

\* However reservations, settlements, cancellations, sweeps and restores interleave, each
\* day's reserved and settled units are those of its runs.
THEOREM BudgetsAgreeWithRuns == Spec => []BudgetsMatchRuns
<1>1. DispatchInv /\ LedgerInv /\ [Next]_vars => LedgerInv' BY LedgerNext
<1>2. LedgerInv => BudgetsMatchRuns BY DEF LedgerInv
<1> QED BY <1>1, <1>2, LedgerInit, DispatchInvariant, PTL DEF Spec

\* What a day has reserved and spent passes the highest limit the workspace has had only by
\* what single calls cost beyond their own reservations.
THEOREM SpendingIsLimited == Spec => []SpendWithinLimit
<1>1. DispatchInv /\ LedgerInv /\ [Next]_vars => LedgerInv' BY LedgerNext
<1>2. LedgerInv => SpendWithinLimit BY DEF LedgerInv
<1> QED BY <1>1, <1>2, LedgerInit, DispatchInvariant, PTL DEF Spec

-------------------------------------------------------------------------------
(* The ledger, its worker and its commands implement AiCalls: every step of   *)
(* AiDispatch is a step of AiCalls or leaves the calls as they were.          *)

LEMMA PhaseOf ==
  ASSUME NEW r \in Runs
  PROVE  /\ run[r].state = "NONE" => Phase(r) = "IDLE"
         /\ run[r].state = "QUEUED" => Phase(r) = "QUEUED"
         /\ run[r].state \in {"RUNNING", "UNKNOWN"} => Phase(r) = "OPEN"
         /\ run[r].state \in {"SUCCEEDED", "CANCELLED"} => Phase(r) = "CLOSED"
BY DEF Phase

\* A step that moves no run from one phase to another.
LEMMA PhasesStay ==
  ASSUME \A r \in Runs : Phase(r)' = Phase(r), sends' = sends
  PROVE  UNCHANGED Calls!vars
BY DEF Calls!vars

\* A step that moves one run forward.
LEMMA PhaseMoves ==
  ASSUME NEW r \in Runs, \A q \in Runs \ {r} : Phase(q)' = Phase(q), sends' = sends,
         \/ Phase(r) = "IDLE" /\ Phase(r)' = "QUEUED"
         \/ Phase(r) = "QUEUED" /\ Phase(r)' = "OPEN"
         \/ Phase(r) \in {"QUEUED", "OPEN"} /\ Phase(r)' = "CLOSED"
  PROVE  Calls!Next
<1> DEFINE phase == [q \in Runs |-> Phase(q)]
<1>1. phase' = [phase EXCEPT ![r] = Phase(r)'] OBVIOUS
<1>2. phase[r] = Phase(r) OBVIOUS
<1>3. CASE Phase(r) = "IDLE" /\ Phase(r)' = "QUEUED"
  <2>1. Calls!Request(r) BY <1>1, <1>2, <1>3 DEF Calls!Request
  <2> QED BY <2>1 DEF Calls!Next
<1>4. CASE Phase(r) = "QUEUED" /\ Phase(r)' = "OPEN"
  <2>1. Calls!Open(r) BY <1>1, <1>2, <1>4 DEF Calls!Open
  <2> QED BY <2>1 DEF Calls!Next
<1>5. CASE Phase(r) \in {"QUEUED", "OPEN"} /\ Phase(r)' = "CLOSED"
  <2>1. Calls!Close(r) BY <1>1, <1>2, <1>5 DEF Calls!Close
  <2> QED BY <2>1 DEF Calls!Next
<1> QED BY <1>3, <1>4, <1>5

CallsStep == Calls!Next \/ UNCHANGED Calls!vars

\* Steps that leave the state of every run's row as it was.
LEMMA StateStays ==
  ASSUME \A r \in Runs : run'[r].state = run[r].state, sends' = sends
  PROVE  CallsStep
<1>1. \A r \in Runs : Phase(r)' = Phase(r) BY DEF Phase
<1> QED BY <1>1, PhasesStay DEF CallsStep

\* Steps that may move the state of one run's row.
LEMMA StateMoves ==
  ASSUME NEW r \in Runs, \A q \in Runs \ {r} : run'[q].state = run[q].state, sends' = sends,
         \/ run'[r].state = run[r].state
         \/ run[r].state = "NONE" /\ run'[r].state = "QUEUED"
         \/ run[r].state = "QUEUED" /\ run'[r].state = "RUNNING"
         \/ run[r].state = "RUNNING" /\ run'[r].state = "UNKNOWN"
         \/ /\ run[r].state \in {"QUEUED", "RUNNING", "UNKNOWN"}
            /\ run'[r].state \in {"SUCCEEDED", "CANCELLED"}
  PROVE  CallsStep
<1>1. \A q \in Runs \ {r} : Phase(q)' = Phase(q) BY DEF Phase
<1>2. CASE run'[r].state = run[r].state BY <1>2, StateStays
<1>3. CASE run[r].state = "NONE" /\ run'[r].state = "QUEUED"
  <2>1. Phase(r) = "IDLE" /\ Phase(r)' = "QUEUED" BY <1>3 DEF Phase
  <2> QED BY <1>1, <2>1, PhaseMoves DEF CallsStep
<1>4. CASE run[r].state = "QUEUED" /\ run'[r].state = "RUNNING"
  <2>1. Phase(r) = "QUEUED" /\ Phase(r)' = "OPEN" BY <1>4 DEF Phase
  <2> QED BY <1>1, <2>1, PhaseMoves DEF CallsStep
<1>5. CASE run[r].state = "RUNNING" /\ run'[r].state = "UNKNOWN"
  <2>1. Phase(r)' = Phase(r) BY <1>5 DEF Phase
  <2> QED BY <1>1, <2>1, PhasesStay DEF CallsStep
<1>6. CASE /\ run[r].state \in {"QUEUED", "RUNNING", "UNKNOWN"}
           /\ run'[r].state \in {"SUCCEEDED", "CANCELLED"}
  <2>1. Phase(r) \in {"QUEUED", "OPEN"} /\ Phase(r)' = "CLOSED" BY <1>6 DEF Phase
  <2> QED BY <1>1, <2>1, PhaseMoves DEF CallsStep
<1> QED BY <1>2, <1>3, <1>4, <1>5, <1>6

LEMMA CancelRefines == ASSUME TypeOK, NEW r \in Runs, Cancel(r), sends' = sends PROVE CallsStep
<1>1. run \in [Runs -> AiRuns] BY DEF TypeOK
<1>2. run[r] \in AiRuns BY <1>1
<1>3. run' = [run EXCEPT ![r] = CancelRun(run[r])] BY DEF Cancel
<1>4. run'[r] = CancelRun(run[r]) /\ \A q \in Runs \ {r} : run'[q] = run[q] BY <1>1, <1>3
<1>5. \/ run'[r].state = run[r].state
      \/ run[r].state = "QUEUED" /\ run'[r].state = "CANCELLED"
  BY <1>2, <1>4 DEF CancelRun, AiRuns
<1> QED BY <1>4, <1>5, StateMoves

LEMMA MarkUnknownRefines ==
  ASSUME DispatchInv, NEW r \in Runs, MarkUnknown(r, 1), sends' = sends
  PROVE  CallsStep
<1>1. run \in [Runs -> AiRuns] BY DEF DispatchInv, TypeOK
<1>2. CASE run' = run BY <1>2, StateStays
<1>3. CASE /\ att[r][1].state = "MAY_HAVE_EXECUTED"
           /\ run' = [run EXCEPT ![r].state = "UNKNOWN"]
  <2>1. run[r].state = "RUNNING" BY <1>3 DEF DispatchInv, RunInv, OneAttempt
  <2>2. run[r] \in AiRuns BY <1>1
  <2>3. run'[r].state = "UNKNOWN" /\ \A q \in Runs \ {r} : run'[q] = run[q]
    BY <1>1, <1>3, <2>2 DEF AiRuns
  <2> QED BY <2>1, <2>3, StateMoves
<1> QED BY <1>2, <1>3 DEF MarkUnknown

LEMMA SettleRefines ==
  ASSUME DispatchInv, NEW r \in Runs, NEW rec \in AiRuns, NEW amount \in Nat,
         NEW outcome \in {"SUCCEEDED", "NOT_EXECUTED"}, NEW by \in {"PROVIDER", "REVIEWER"},
         Settle(r, 1, rec, outcome, amount, by), sends' = sends,
         rec.state = run[r].state, outcome = "NOT_EXECUTED" => rec.cancel
  PROVE  CallsStep
<1>1. run \in [Runs -> AiRuns] BY DEF DispatchInv, TypeOK
<1>2. CASE run' = [run EXCEPT ![r] = rec]
  <2>1. run'[r] = rec /\ \A q \in Runs \ {r} : run'[q] = run[q] BY <1>1, <1>2
  <2> QED BY <2>1, StateMoves
<1>3. CASE /\ att[r][1].state \in Unresolved
           /\ run' = [run EXCEPT ![r] = SettledRun(rec, outcome, amount)]
  <2>1. run[r].state \in {"RUNNING", "UNKNOWN"}
    BY <1>3 DEF DispatchInv, RunInv, OneAttempt, Unresolved
  <2>2. SettledRun(rec, outcome, amount).state \in {"SUCCEEDED", "CANCELLED"}
    BY DEF SettledRun, Requeues, AiRuns
  <2>3. /\ run'[r].state \in {"SUCCEEDED", "CANCELLED"}
        /\ \A q \in Runs \ {r} : run'[q] = run[q]
    BY <1>1, <1>3, <2>2
  <2> QED BY <2>1, <2>3, StateMoves
<1> QED BY <1>2, <1>3 DEF Settle

LEMMA SendRefines == ASSUME DispatchInv, NEW w \in Workers, Send(w) PROVE CallsStep
<1>1. PICK r \in Runs : r = wk[w].r BY InHand DEF Send, DispatchInv
<1>2. /\ wk[w].n = 1 /\ sends[r] = 0 /\ sends \in [Runs -> Nat]
      /\ att[r][1].state = "MAY_HAVE_EXECUTED" \/ att[r][1].age = SweepAge
  BY <1>1 DEF Send, DispatchInv, AttemptHeld, Holding, TypeOK
<1>3. att[r][1].age < Timeout BY <1>1, <1>2 DEF Send, SendWindow
<1>4. SweepAge \in Nat /\ Timeout \in Nat /\ Timeout < SweepAge BY CodeConstants
<1>5. att[r][1].state = "MAY_HAVE_EXECUTED" BY <1>2, <1>3, <1>4
<1>6. run[r].state = "RUNNING" BY <1>5 DEF DispatchInv, RunInv, OneAttempt
<1>7. Phase(r) = "OPEN" BY <1>6 DEF Phase
<1>8. \A q \in Runs : Phase(q)' = Phase(q) BY DEF Phase, Send, ledger
<1>9. sends' = [sends EXCEPT ![r] = 1]
  <2>1. sends' = [sends EXCEPT ![r] = sends[r] + 1] BY <1>1 DEF Send
  <2>2. sends[r] + 1 = 1 BY <1>2
  <2> QED BY <2>1, <2>2
<1>10. Calls!Send(r) BY <1>2, <1>7, <1>8, <1>9 DEF Calls!Send
<1> QED BY <1>10 DEF Calls!Next, CallsStep

LEMMA AdvanceRefines ==
  ASSUME DispatchInv, NEW w \in Workers, Advance(w) \/ Crash(w) PROVE CallsStep
<1>1. run \in [Runs -> AiRuns] BY DEF DispatchInv, TypeOK
<1>2. CASE run' = run /\ sends' = sends BY <1>2, StateStays
<1>3. CASE Sweep(w)
  <2>1. ASSUME NEW r \in Runs PROVE Phase(r)' = Phase(r)
    <3>1. run[r] \in AiRuns BY <1>1
    <3>2. run'[r] = IF \E n \in AttNos : Due(att[r][n])
                    THEN [run[r] EXCEPT !.state = "UNKNOWN"] ELSE run[r]
      BY <1>3 DEF Sweep
    <3>3. CASE \E n \in AttNos : Due(att[r][n])
      <4>1. run[r].state = "RUNNING" BY <3>3 DEF DispatchInv, RunInv, OneAttempt, Due
      <4>2. run'[r].state = "UNKNOWN" BY <3>1, <3>2, <3>3 DEF AiRuns
      <4> QED BY <4>1, <4>2 DEF Phase
    <3>4. CASE ~\E n \in AttNos : Due(att[r][n]) BY <3>2, <3>4 DEF Phase
    <3> QED BY <3>3, <3>4
  <2> QED BY <1>3, <2>1, PhasesStay DEF CallsStep, Sweep
<1>4. CASE Begin(w)
  <2>1. PICK r \in Runs : r = wk[w].r
    <3>1. wk[w] \in WorkerStates /\ wk[w].pc = "CONFIGURED"
      BY <1>4 DEF Begin, DispatchInv, TypeOK
    <3> QED BY <3>1 DEF WorkerStates
  <2>2. run[r].state = "QUEUED" /\ run' = [run EXCEPT ![r].state = "RUNNING"] /\ sends' = sends
    BY <1>4, <2>1 DEF Begin, MayBegin
  <2>3. run[r] \in AiRuns BY <1>1
  <2>4. run'[r].state = "RUNNING" /\ \A q \in Runs \ {r} : run'[q] = run[q]
    BY <1>1, <2>2, <2>3 DEF AiRuns
  <2> QED BY <2>2, <2>4, StateMoves
<1>5. CASE GiveUp(w)
  <2>1. wk[w] \in WorkerStates /\ wk[w].pc = "REFUSED" BY <1>5 DEF GiveUp, DispatchInv, TypeOK
  <2>2. wk[w].r \in Runs BY <2>1 DEF WorkerStates
  <2>3. sends' = sends /\ (Cancel(wk[w].r) \/ run' = run) BY <1>5 DEF GiveUp, CloseRefused
  <2> QED BY <1>2, <2>2, <2>3, CancelRefines DEF DispatchInv
<1>6. CASE Complete(w) \/ RecordFailure(w)
  <2>1. PICK r \in Runs : r = wk[w].r BY <1>6, InHand DEF Complete, RecordFailure, DispatchInv
  <2>2. wk[w].n = 1
    BY <1>6 DEF Complete, RecordFailure, DispatchInv, AttemptHeld, Holding
  <2>3. sends' = sends BY <1>6 DEF Complete, RecordFailure
  <2>4. CASE MarkUnknown(r, 1) BY <2>3, <2>4, MarkUnknownRefines
  <2>5. CASE /\ wk[w].amount # NoCharge /\ wk[w].pc = "RECEIVED"
             /\ Settle(r, 1, run[r], "SUCCEEDED", wk[w].amount, "PROVIDER")
    <3>1. run[r] \in AiRuns BY <1>1
    <3>2. wk[w].amount \in Nat BY <2>5, InHand, ModelConstants DEF DispatchInv
    <3> QED BY <2>3, <2>5, <3>1, <3>2, SettleRefines
  <2> QED BY <1>6, <2>1, <2>2, <2>4, <2>5 DEF Complete, RecordFailure
<1>7. CASE Send(w) BY <1>7, SendRefines
<1> QED BY <1>2, <1>3, <1>4, <1>5, <1>6, <1>7
        DEF Advance, NoCandidate, Pick, Configure, Refuse, Receive, Fail, RecordFailureRefused,
            Crash, ledger

LEMMA MemberRefines == ASSUME DispatchInv, NEW r \in Runs, Member(r) PROVE CallsStep
<1>1. run \in [Runs -> AiRuns] BY DEF DispatchInv, TypeOK
<1>2. CASE Reserve(r)
  <2> DEFINE rec == [NoAiRun EXCEPT !.state = "QUEUED", !.day = day, !.rev = conf.rev,
                       !.no = Cardinality({q \in Runs : run[q].state # "NONE"}),
                       !.epoch = conf.epoch, !.reserved = PerTask[conf.rev]]
  <2>1. rec.state = "QUEUED" BY DEF NoAiRun
  <2>2. run' = [run EXCEPT ![r] = rec] /\ run[r].state = "NONE" /\ sends' = sends
    BY <1>2 DEF Reserve
  <2> HIDE DEF rec
  <2>3. run'[r].state = "QUEUED" /\ \A q \in Runs \ {r} : run'[q] = run[q]
    BY <1>1, <2>1, <2>2
  <2> QED BY <2>2, <2>3, StateMoves
<1>3. CASE CancelTask(r) \/ EraseTask(r)
  BY <1>3, CancelRefines DEF CancelTask, EraseTask, DispatchInv
<1>4. CASE RejectProposal(r) \/ ApplyProposal(r) \/ ChangeBasis(r)
  BY <1>4, StateStays DEF RejectProposal, ApplyProposal, ChangeBasis, ledger
<1> QED BY <1>2, <1>3, <1>4 DEF Member

LEMMA ReconcileRefines ==
  ASSUME DispatchInv, NEW r \in Runs, NEW n \in AttNos,
         NEW outcome \in {"SUCCEEDED", "NOT_EXECUTED"}, NEW amount \in Charges \cup {0},
         Reconcile(r, n, outcome, amount)
  PROVE  CallsStep
<1> DEFINE rec == RunToReconcile(r)
<1>1. run \in [Runs -> AiRuns] /\ att[r][n].state = "UNKNOWN"
  BY DEF DispatchInv, TypeOK, Reconcile, MayReconcile
<1>2. run[r] \in AiRuns BY <1>1
<1>3. amount \in Nat BY ModelConstants
<1>4. OneAttempt(r) BY DEF DispatchInv, RunInv
<1>5. n = 1 /\ run[r].state = "UNKNOWN" BY <1>1, <1>4 DEF OneAttempt
<1>6. rec \in AiRuns BY <1>2, CancelRunTyped DEF RunToReconcile
<1>7. rec.state = run[r].state /\ (r \notin meta => rec.cancel)
  BY <1>2, <1>5 DEF RunToReconcile, CancelRun, AiRuns, OpenStates
<1>8. /\ Settle(r, 1, rec, outcome, amount, "REVIEWER") /\ sends' = sends
      /\ r \in meta => outcome # "NOT_EXECUTED"
  BY <1>5 DEF Reconcile, MayReconcile
<1> HIDE DEF rec
<1> QED BY <1>3, <1>6, <1>7, <1>8, SettleRefines

LEMMA IsolateRunRefines ==
  ASSUME DispatchInv, NEW r \in isolating, IsolateRun(r) PROVE CallsStep
<1> DEFINE hit == \E n \in AttNos : att[r][n].state = "MAY_HAVE_EXECUTED"
           rec == IF hit THEN [CancelRun(run[r]) EXCEPT !.state = "UNKNOWN"] ELSE CancelRun(run[r])
<1>1. run \in [Runs -> AiRuns] /\ r \in Runs BY DEF DispatchInv, TypeOK
<1>2. run[r] \in AiRuns /\ CancelRun(run[r]) \in AiRuns BY <1>1, CancelRunTyped
<1>3. run' = [run EXCEPT ![r] = rec] /\ sends' = sends BY DEF IsolateRun
<1>4. run'[r] = rec /\ \A q \in Runs \ {r} : run'[q] = run[q] BY <1>1, <1>3
<1>5. CASE hit
  <2>1. run[r].state = "RUNNING" BY <1>1, <1>5 DEF DispatchInv, RunInv, OneAttempt
  <2>2. rec.state = "UNKNOWN" BY <1>2, <1>5 DEF AiRuns
  <2> HIDE DEF rec
  <2> QED BY <1>1, <1>3, <1>4, <2>1, <2>2, StateMoves
<1>6. CASE ~hit
  <2>1. rec = CancelRun(run[r]) BY <1>6
  <2> HIDE DEF rec
  <2>2. rec.state = run[r].state \/ (run[r].state = "QUEUED" /\ rec.state = "CANCELLED")
    BY <1>2, <2>1 DEF CancelRun, AiRuns
  <2> QED BY <1>1, <1>3, <1>4, <2>2, StateMoves
<1> QED BY <1>5, <1>6

LEMMA NextRefines == ASSUME DispatchInv, [Next]_vars PROVE CallsStep
<1>1. CASE UNCHANGED vars BY <1>1, StateStays DEF vars
<1>2. CASE Administrator
  <2>1. CASE SaveConnection \/ ToggleApproval \/ Isolate \/ \E d \in Days : Unfreeze(d)
    BY <2>1, StateStays DEF SaveConnection, ToggleApproval, Isolate, Unfreeze, ledger
  <2> QED BY <1>2, <2>1, ReconcileRefines DEF Administrator
<1>3. CASE Tick \/ NextDay BY <1>3, StateStays DEF Tick, NextDay, ledger
<1> QED BY <1>1, <1>2, <1>3, AdvanceRefines, MemberRefines, IsolateRunRefines DEF Next

\* The ledger promises what AiCalls says: a call is sent at most once, only while
\* it is open, and a closed call is never opened again.
THEOREM DispatchImplementsCalls == Spec => SentAtMostOnce
<1>1. Init => Calls!Init BY DEF Init, Calls!Init, Phase, NoAiRun
<1>2. DispatchInv /\ [Next]_vars => [Calls!Next]_(Calls!vars)
  BY NextRefines DEF CallsStep
<1> QED BY <1>1, <1>2, DispatchInvariant, PTL DEF Spec, SentAtMostOnce, Calls!Spec

-------------------------------------------------------------------------------
(* The scenes of MCSafety *)

\* One upload is a finite number.
LEMMA OneUpload == Uploading!IsFiniteSet({u1})
<1>1. <<u1>> \in Seq({u1}) /\ Len(<<u1>>) = 1 /\ <<u1>>[1] = u1 OBVIOUS
<1>2. 1 \in 1..Len(<<u1>>) BY <1>1
<1>3. \A u \in {u1} : \E n \in 1..Len(<<u1>>) : <<u1>>[n] = u BY <1>1, <1>2, Zenon
<1>4. \E seq \in Seq({u1}) : \A u \in {u1} : \E n \in 1..Len(seq) : seq[n] = u
  BY <1>1, <1>3, Zenon
<1> QED BY <1>4, Zenon DEF Uploading!IsFiniteSet

\* A step of a scene is a step of its module and stutters in the others.
LEMMA ScenesUpload == SafetySpec => Uploading!Spec
<1>1. SafetyInit => Uploading!Init BY DEF SafetyInit
<1>2. SafetyNext => Uploading!Next \/ UNCHANGED uploadVars
  BY DEF SafetyNext, SendScene, SpendScene, UploadScene, PurgeScene, RestoreScene
<1>3. [SafetyNext]_safetyVars => [Uploading!Next]_(Uploading!vars)
  BY <1>2 DEF safetyVars, uploadVars, Uploading!vars, Uploading!rows, Uploading!files,
              Uploading!objects
<1> QED BY <1>1, <1>3, PTL DEF SafetySpec, Uploading!Spec

LEMMA ScenesPurge ==
    SafetySpec => \/ [](scene # "restore") /\ Purging!Spec
                  \/ [](scene = "restore") /\ Restoring!Spec
<1>1. SafetyInit => \/ scene # "restore" /\ Purging!Init
                    \/ scene = "restore" /\ Restoring!Init
  BY DEF SafetyInit
<1>2. [SafetyNext]_safetyVars => scene' = scene BY DEF SafetyNext, safetyVars
<1>3. scene # "restore" /\ [SafetyNext]_safetyVars
      => (scene # "restore")' /\ [Purging!Next]_(Purging!vars)
  BY <1>2 DEF SafetyNext, SendScene, SpendScene, UploadScene, PurgeScene, RestoreScene, safetyVars,
              purgeVars, Purging!vars
<1>4. scene = "restore" /\ [SafetyNext]_safetyVars
      => (scene = "restore")' /\ [Restoring!Next]_(Restoring!vars)
  BY <1>2 DEF SafetyNext, SendScene, SpendScene, UploadScene, PurgeScene, RestoreScene, safetyVars,
              purgeVars, Restoring!vars
<1> QED BY <1>1, <1>3, <1>4, PTL DEF SafetySpec, Purging!Spec, Restoring!Spec

\* Both purges keep what MediaPurgeProofs proves of any.
LEMMA ScenesPurgeInv ==
    SafetySpec => \/ [](scene # "restore") /\ []Purging!PurgeInv
                  \/ [](scene = "restore") /\ []Restoring!PurgeInv
<1>1. Purging!Spec => []Purging!PurgeInv BY SafetyConstants, Purging!PurgeInvariant
<1>2. Restoring!Spec => []Restoring!PurgeInv BY SafetyConstants, Restoring!PurgeInvariant
<1> QED BY <1>1, <1>2, ScenesPurge, PTL

\* A step of either scene of AiDispatch is a step of it, and the others leave its rows alone.
LEMMA ScenesDispatch == SafetySpec => Spec
<1>1. SafetyInit => Init BY DEF SafetyInit
<1>2. SafetyNext => Next \/ UNCHANGED vars
  BY DEF SafetyNext, SendScene, SpendScene, UploadScene, PurgeScene, RestoreScene
<1>3. [SafetyNext]_safetyVars => [Next]_vars BY <1>2 DEF safetyVars
<1> QED BY <1>1, <1>3, PTL DEF SafetySpec, Spec

\* Money is never spent twice nor lost: the ledger agrees with its runs and their attempts, and
\* stays within the limit but for what single calls cost beyond their reservation.
THEOREM SafetyMoneyAddsUp == SafetySpec => []MoneyAddsUp
<1>1. LedgerIntegrity /\ SpendWithinLimit => MoneyAddsUp BY DEF MoneyAddsUp
<1> QED BY <1>1, ScenesDispatch, BudgetsAgreeWithRuns, RunsAgreeWithAttempts, SpendingIsLimited, PTL
        DEF LedgerIntegrity

\* Of an upload, an asset is complete although claims are taken over (MediaUploadProofs).
THEOREM SafetyReadyIsComplete == SafetySpec => []ReadyIsComplete
<1>1. Uploading!Spec => []Uploading!UploadInv
  BY OneUpload, SafetyConstants, Uploading!UploadInvariant
<1>2. Uploading!UploadInv => Uploading!TypeOK BY DEF Uploading!UploadInv
<1>3. Uploading!Spec => []Uploading!ReadyIsComplete
  BY OneUpload, SafetyConstants, Uploading!AssetsAreComplete
<1> QED BY <1>1, <1>2, <1>3, ScenesUpload, PTL DEF ReadyIsComplete

\* What is recorded as purged is gone for good, and the bytes of an upload that has not ended
\* are there (MediaUploadProofs).
THEOREM SafetyBytesAsRecorded == SafetySpec => []BytesAsRecorded
<1>1. Uploading!Spec => []Uploading!PurgedIsEmpty
  BY OneUpload, SafetyConstants, Uploading!PurgesAreTrue
<1>2. Uploading!Spec => []Uploading!ReceivedBytesStay
  BY OneUpload, SafetyConstants, Uploading!BytesAreThere
<1> QED BY <1>1, <1>2, ScenesUpload, PTL DEF BytesAsRecorded

\* What a member may read is stored (MediaPurgeProofs).
THEOREM SafetyReadableIsStored == SafetySpec => []ReadableIsStored
<1>1. Purging!PurgeInv => Purging!TypeOK /\ Purging!ReadableIsStored BY DEF Purging!PurgeInv
<1>2. Restoring!PurgeInv => Restoring!TypeOK /\ Restoring!ReadableIsStored
  BY DEF Restoring!PurgeInv
<1>3. scene # "restore" /\ Purging!PurgeInv => ReadableIsStored BY <1>1 DEF ReadableIsStored
<1>4. scene = "restore" /\ Restoring!PurgeInv => ReadableIsStored
  BY <1>2 DEF ReadableIsStored
<1> QED BY <1>3, <1>4, ScenesPurgeInv, PTL

\* What the rows say is gone is gone, and the journal named it first (MediaPurgeProofs).
THEOREM SafetyGoneAsRecorded == SafetySpec => []GoneAsRecorded
<1>1. Purging!Spec => [](Purging!MissingIsGone /\ Purging!JournalFirst)
  BY SafetyConstants, Purging!RecordsAreTrue
<1>2. Restoring!Spec => [](Restoring!MissingIsGone /\ Restoring!JournalFirst)
  BY SafetyConstants, Restoring!RecordsAreTrue
<1>3. scene # "restore" /\ Purging!MissingIsGone /\ Purging!JournalFirst => GoneAsRecorded
  BY DEF GoneAsRecorded
<1>4. scene = "restore" /\ Restoring!MissingIsGone /\ Restoring!JournalFirst => GoneAsRecorded
  BY DEF GoneAsRecorded
<1> QED BY <1>1, <1>2, <1>3, <1>4, ScenesPurge, PTL

\* The retention purge and an explicit deletion take turns (MediaPurgeProofs).
THEOREM SafetyOneDeleter == SafetySpec => []OneDeleter
<1>1. Purging!Spec => []Purging!OneDeleter BY SafetyConstants, Purging!DeletersTakeTurns
<1>2. Restoring!Spec => []Restoring!OneDeleter
  BY SafetyConstants, Restoring!DeletersTakeTurns
<1>3. scene # "restore" /\ Purging!OneDeleter => OneDeleter BY DEF OneDeleter
<1>4. scene = "restore" /\ Restoring!OneDeleter => OneDeleter BY DEF OneDeleter
<1> QED BY <1>1, <1>2, <1>3, <1>4, ScenesPurge, PTL

\* A purge past its fence is never undone, short of a restore (MediaPurgeProofs).
THEOREM SafetyFenceHolds == SafetySpec => FenceHolds
<1> DEFINE Holds == Purging!Fenced /\ recovery'.open = recovery.open =>
                        intent'.state \in Purging!Irreversible /\ asset'.usage = "RETIRED"
           Held == Restoring!Fenced /\ recovery'.open = recovery.open =>
                        intent'.state \in Restoring!Irreversible /\ asset'.usage = "RETIRED"
<1>1. Purging!Spec => Purging!FenceHolds BY SafetyConstants, Purging!FencesHold
<1>2. Restoring!Spec => Restoring!FenceHolds BY SafetyConstants, Restoring!FencesHold
<1>3. [Held]_(Restoring!vars) => [Holds]_(Purging!vars)
  BY DEF Purging!Fenced, Restoring!Fenced, Purging!Irreversible, Restoring!Irreversible,
         Purging!vars, Restoring!vars
<1>4. Restoring!FenceHolds => [][Held]_(Restoring!vars) BY PTL DEF Restoring!FenceHolds
<1>5. [][Holds]_(Purging!vars) => Purging!FenceHolds BY PTL DEF Purging!FenceHolds
<1> QED BY <1>1, <1>2, <1>3, <1>4, <1>5, ScenesPurge, PTL DEF FenceHolds
===============================================================================
