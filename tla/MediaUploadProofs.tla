--------------------------- MODULE MediaUploadProofs ---------------------------
(***************************************************************************)
(* Theorems about MediaUpload for any number of uploads, workers, objects   *)
(* per asset and attempts: what an asset records has been published, what   *)
(* is recorded as purged is gone for good, and what has been received is    *)
(* there until its upload ends.                                             *)
(***************************************************************************)
EXTENDS MediaUpload, TLAPS

-------------------------------------------------------------------------------
(* The inductive invariant *)

Ending == {"FAILED", "CANCELLED"}
Before == {"NONE", "OPEN", "RECEIVING", "UPLOADED", "QUEUED"}

\* Nothing is left of an upload, neither on disk nor in the store nor on its way there.
Gone(u) == /\ group[u] \in {"NONE", "REMOVED"} /\ staged[u] = "NONE"
           /\ marked[u] = {} /\ flying[u] = {} /\ remote[u] = {}

\* What the row says of itself
RowSound(u) ==
    /\ up[u].state \in Before => up[u].attempts = 0
    /\ up[u].aged => up[u].state \in Ending /\ rx[u] \notin {"ACCEPTED", "WRITING"}
    /\ up[u].purged => Purgeable(u) /\ Gone(u)

\* What the row and the request say of the group and the ingest file
BytesSound(u) ==
    /\ rx[u] \in {"ACCEPTED", "WRITING", "WRITTEN"} =>
         up[u].state \in Ending \cup {"RECEIVING"} /\ up[u].attempts = 0
    /\ rx[u] = "WRITING" => group[u] = "ACTIVE"
    /\ rx[u] = "WRITTEN" /\ ~up[u].aged => group[u] = "ACTIVE" /\ staged[u] = "FULL"
    /\ up[u].state \in {"UPLOADED", "QUEUED", "PROCESSING"} =>
         group[u] = "ACTIVE" /\ staged[u] = "FULL"

\* A PUT on its way is vouched for by a marker, and nobody has used a later attempt.
ObjectsSound(u) ==
    /\ flying[u] \cap remote[u] = {}
    /\ \A o \in flying[u] : o[1] \in marked[u]
    /\ \A o \in flying[u] \cup remote[u] : o[1] <= up[u].attempts

AssetSound(u) == asset[u] # 0 =>
    /\ up[u].state = "READY" /\ group[u] = "ACTIVE"
    /\ asset[u] \in sealed[u]
    /\ \A part \in 1..NParts : <<asset[u], part>> \in remote[u]

Ahead == {"CLAIMED", "SEAL", "SEALED", "PUBLISH", "PUT"}
Working == Ahead \cup {"PUTTING", "CHECK", "RETRACT", "UNMARK", "FINISH"}
Purging == {"PURGE", "QUARANTINED", "EMPTIED", "PURGED"}

\* A worker holds an attempt that was drawn for it.
Placed(w) == /\ wk[w].pc = "IDLE" => wk[w].n = 0
             /\ wk[w].pc # "IDLE" => wk[w].u \in Uploads /\ wk[w].n <= up[wk[w].u].attempts

\* The objects of this attempt that are stored for good, and those that are not sent yet
Published(w, q) == q < wk[w].part \/ (q = wk[w].part /\ wk[w].pc \in {"CHECK", "UNMARK", "FINISH"})
Unsent(w, q) == q > wk[w].part \/ (q = wk[w].part /\ wk[w].pc \in Ahead)

\* What a worker that seals and publishes has done so far; once the upload may be cleaned
\* up its files and objects may go, but nothing of it comes back.
WorkSound(w) == wk[w].pc \in Working =>
    LET u == wk[w].u
        n == wk[w].n
    IN /\ n # 0 /\ wk[w].part # 0 /\ n # asset[u]
       /\ wk[w].pc \in {"CLAIMED", "SEAL", "SEALED", "PUBLISH"} => wk[w].part = 1
       /\ wk[w].pc \in {"UNMARK", "FINISH"} => wk[w].part = NParts
       /\ wk[w].pc \notin {"CLAIMED", "SEAL"} /\ ~up[u].aged => n \in sealed[u]
       /\ wk[w].pc \in {"PUT", "PUTTING", "CHECK", "UNMARK"} /\ group[u] = "ACTIVE" =>
            n \in marked[u]
       /\ wk[w].pc # "RETRACT" => \A q \in 1..NParts :
            /\ Published(w, q) =>
                 <<n, q>> \notin flying[u] /\ (up[u].aged \/ <<n, q>> \in remote[u])
            /\ Unsent(w, q) => <<n, q>> \notin flying[u] \cup remote[u]

DoneSound(w) == wk[w].pc = "DONE" => up[wk[w].u].state = "READY"

\* What a worker that cleans up has seen stays as it was.
PurgeSound(w) == wk[w].pc \in Purging =>
    /\ wk[w].n = 0 /\ Purgeable(wk[w].u)
    /\ wk[w].pc \in {"QUARANTINED", "EMPTIED"} =>
         group[wk[w].u] # "ACTIVE" /\ marked[wk[w].u] = {} /\ flying[wk[w].u] = {}
    /\ wk[w].pc = "PURGED" => Gone(wk[w].u)

\* No two workers hold the same attempt of an upload.
Apart == \A v, w \in Workers :
    v # w /\ wk[v].n # 0 /\ wk[v].u = wk[w].u => wk[v].n # wk[w].n

UploadInv ==
    /\ TypeOK
    /\ \A u \in Uploads : RowSound(u) /\ BytesSound(u) /\ ObjectsSound(u) /\ AssetSound(u)
    /\ \A w \in Workers : Placed(w) /\ WorkSound(w) /\ DoneSound(w) /\ PurgeSound(w)
    /\ Apart

-------------------------------------------------------------------------------
(* How the invariant is kept together *)

UploadSound(u) == RowSound(u) /\ BytesSound(u) /\ ObjectsSound(u) /\ AssetSound(u)
WorkerSound(w) == Placed(w) /\ WorkSound(w) /\ DoneSound(w) /\ PurgeSound(w)

\* Nothing happens to an upload.
Still(u) ==
    /\ up'[u] = up[u] /\ asset'[u] = asset[u] /\ rx'[u] = rx[u]
    /\ group'[u] = group[u] /\ staged'[u] = staged[u] /\ sealed'[u] = sealed[u]
    /\ marked'[u] = marked[u] /\ flying'[u] = flying[u] /\ remote'[u] = remote[u]

\* What may happen to an upload under a worker that holds, or has held, its n-th attempt.
Onward(u, n) ==
    /\ up[u].attempts <= up'[u].attempts
    /\ up[u].state = "READY" => up'[u].state = "READY"
    /\ up[u].aged => up'[u].aged
    /\ Purgeable(u) => Purgeable(u)'
    /\ asset'[u] = asset[u] \/ asset'[u] # n
    /\ n \in sealed[u] => n \in sealed'[u] \/ up'[u].aged
    /\ group'[u] = "ACTIVE" => \/ group[u] = "ACTIVE" /\ (n \in marked[u] => n \in marked'[u])
                               \/ up[u].attempts = 0 /\ ~up[u].aged
    /\ \A q \in 1..NParts :
         /\ <<n, q>> \in flying'[u] => <<n, q>> \in flying[u]
         /\ <<n, q>> \in remote'[u] => <<n, q>> \in flying[u] \cup remote[u]
         /\ <<n, q>> \in remote[u] => <<n, q>> \in remote'[u] \/ up'[u].aged
    /\ up[u].aged /\ group[u] # "ACTIVE" =>
         /\ marked'[u] \subseteq marked[u] /\ flying'[u] \subseteq flying[u]
         /\ Gone(u) => Gone(u)'

LEMMA StillIsOnward ==
    ASSUME TypeOK, NEW u \in Uploads, NEW n, Still(u)
    PROVE  Onward(u, n)
BY DEF TypeOK, UploadRows, Onward, Still, Purgeable, Gone

LEMMA StillIsSound ==
    ASSUME NEW u \in Uploads, Still(u), UploadSound(u)
    PROVE  UploadSound(u)'
BY DEF UploadSound, Still, RowSound, BytesSound, ObjectsSound, AssetSound, Purgeable, Gone

\* A worker that does nothing while its upload moves on
LEMMA OthersWait ==
    ASSUME UploadInv, TypeOK', NEW w \in Workers, wk'[w] = wk[w],
           wk[w].u \in Uploads => Onward(wk[w].u, wk[w].n)
    PROVE  WorkerSound(w)'
<1> DEFINE u == wk[w].u
           n == wk[w].n
<1>1. Placed(w) /\ WorkSound(w) /\ DoneSound(w) /\ PurgeSound(w) BY DEF UploadInv
<1>2. wk[w] \in WorkerStates BY DEF UploadInv, TypeOK
<1>3. Placed(w)'
  <2>1. CASE u \in Uploads
    <3>1. up[u].attempts \in Nat /\ up'[u].attempts \in Nat
      BY <2>1 DEF UploadInv, TypeOK, UploadRows
    <3> QED BY <1>1, <1>2, <2>1, <3>1 DEF Placed, Onward, WorkerStates
  <2>2. CASE u \notin Uploads BY <1>1, <2>2 DEF Placed
  <2> QED BY <2>1, <2>2
<1>4. WorkSound(w)'
  <2> SUFFICES ASSUME wk[w].pc \in Working PROVE WorkSound(w)' BY DEF WorkSound
  <2>1. u \in Uploads /\ Onward(u, n) /\ n <= up[u].attempts /\ n # 0
    BY <1>1 DEF Placed, Working, Ahead, WorkSound
  <2>2. up[u].attempts # 0 BY <1>2, <2>1 DEF UploadInv, TypeOK, UploadRows, WorkerStates
  <2>3. wk[w].part \in 0..NParts BY <1>2 DEF WorkerStates
  <2>4. (group'[u] = "ACTIVE" => group[u] = "ACTIVE" /\ (n \in marked[u] => n \in marked'[u]))
    BY <2>1, <2>2 DEF Onward
  <2> QED BY <1>1, <2>1, <2>3, <2>4, UploadConstants
       DEF WorkSound, Published, Unsent, Onward, Working, Ahead
<1>5. DoneSound(w)' BY <1>1 DEF DoneSound, Onward, Placed
<1>6. PurgeSound(w)'
  <2> SUFFICES ASSUME wk[w].pc \in Purging PROVE PurgeSound(w)' BY DEF PurgeSound
  <2>1. u \in Uploads /\ Onward(u, n) /\ Purgeable(u) BY <1>1 DEF Placed, Purging, PurgeSound
  <2>2. up[u].aged BY <2>1 DEF Purgeable
  <2> QED BY <1>1, <2>1, <2>2 DEF PurgeSound, Onward, Purging, Gone
<1> QED BY <1>3, <1>4, <1>5, <1>6 DEF WorkerSound

LEMMA ApartStays ==
    ASSUME UploadInv, TypeOK',
           \A w \in Workers : \/ wk'[w].n = 0
                              \/ wk'[w].n = wk[w].n /\ wk'[w].u = wk[w].u
    PROVE  Apart'
BY DEF UploadInv, Apart

\* A step that concerns one upload and at most one worker.
LEMMA OneMoves ==
    ASSUME UploadInv, TypeOK', NEW u \in Uploads,
           \A t \in Uploads \ {u} : Still(t),
           UploadSound(u)', Apart',
           \A w \in Workers : \/ WorkerSound(w)'
                              \/ wk'[w] = wk[w] /\ (wk[w].u = u => Onward(u, wk[w].n))
    PROVE  UploadInv'
<1>1. \A t \in Uploads : UploadSound(t)'
  BY StillIsSound DEF UploadInv, UploadSound
<1>2. ASSUME NEW w \in Workers PROVE WorkerSound(w)'
  <2> SUFFICES ASSUME wk'[w] = wk[w], wk[w].u = u => Onward(u, wk[w].n)
               PROVE  WorkerSound(w)' OBVIOUS
  <2>1. wk[w].u \in Uploads => Onward(wk[w].u, wk[w].n) BY StillIsOnward DEF UploadInv
  <2> QED BY <2>1, OthersWait
<1> QED BY <1>1, <1>2 DEF UploadInv, UploadSound, WorkerSound

\* A step of no worker.
LEMMA OneChanges ==
    ASSUME UploadInv, TypeOK', NEW u \in Uploads, UNCHANGED wk,
           \A t \in Uploads \ {u} : Still(t), UploadSound(u)',
           \A n \in 0..MaxAttempts : Onward(u, n)
    PROVE  UploadInv'
<1>1. Apart' BY ApartStays
<1>2. \A w \in Workers : wk[w].n \in 0..MaxAttempts BY DEF UploadInv, TypeOK, WorkerStates
<1> QED BY <1>1, <1>2, OneMoves

-------------------------------------------------------------------------------
(* Steps that change a row, and the request that carries the bytes *)

RxStates == {"NONE", "ACCEPTED", "WRITING", "WRITTEN", "FAILING", "ENDED"}
Received == {"UPLOADED", "QUEUED", "PROCESSING"}

\* What every transaction but claim, finish and markPurged respects
Turns(u, row, pc) ==
    /\ row.attempts = up[u].attempts /\ (row.purged => up[u].purged)
    /\ row.state # up[u].state => ~Ended(u)
    /\ row.state \in Before => up[u].attempts = 0
    /\ up[u].aged => row.aged
    /\ row.aged => row.state \in Ending /\ pc \notin {"ACCEPTED", "WRITING"}
    /\ pc \in {"ACCEPTED", "WRITING", "WRITTEN"} =>
         /\ row.state \in Ending \cup {"RECEIVING"} /\ up[u].attempts = 0
         /\ rx[u] = pc \/ pc = "ACCEPTED"
    /\ row.state \in Received =>
         up[u].state \in Received \/ (rx[u] = "WRITTEN" /\ ~up[u].aged)

LEMMA RowTurns ==
    ASSUME UploadInv, NEW u \in Uploads, NEW row \in UploadRows, NEW pc, Turns(u, row, pc),
           up'[u] = row, rx'[u] = pc, UNCHANGED <<asset, files, objects>>
    PROVE  UploadSound(u)' /\ \A n \in 0..MaxAttempts : Onward(u, n)
<1>1. RowSound(u) /\ BytesSound(u) /\ ObjectsSound(u) /\ AssetSound(u) /\ up[u] \in UploadRows
  BY DEF UploadInv, TypeOK
<1>2. UNCHANGED <<asset, group, staged, sealed, marked, flying, remote>> BY DEF files, objects
<1>3. RowSound(u)'
  BY <1>1, <1>2 DEF RowSound, Turns, Gone, Purgeable, Ended, Terminal, Ending, Before
<1>4. BytesSound(u)'
  BY <1>1, <1>2 DEF BytesSound, Turns, Received
<1>5. ObjectsSound(u)' /\ AssetSound(u)'
  BY <1>1, <1>2 DEF ObjectsSound, AssetSound, Turns, Ended, Terminal
<1>6. \A n \in 0..MaxAttempts : Onward(u, n)
  BY <1>1, <1>2 DEF Onward, Turns, Ended, Terminal, Purgeable, Gone, UploadRows
<1> QED BY <1>3, <1>4, <1>5, <1>6 DEF UploadSound

LEMMA RowChanges ==
    ASSUME UploadInv, NEW u \in Uploads, NEW row \in UploadRows, NEW pc \in RxStates,
           Turns(u, row, pc), SetUp(u, row), rx' = [rx EXCEPT ![u] = pc],
           valid' \in [Uploads -> BOOLEAN], UNCHANGED <<asset, files, objects, wk>>
    PROVE  UploadInv'
<1>1. TypeOK BY DEF UploadInv
<1>2. up'[u] = row /\ rx'[u] = pc BY <1>1 DEF SetUp, TypeOK
<1>3. UploadSound(u)' /\ \A n \in 0..MaxAttempts : Onward(u, n) BY <1>2, RowTurns
<1>4. TypeOK' BY <1>1 DEF TypeOK, SetUp, files, objects, RxStates
<1>5. \A t \in Uploads \ {u} : Still(t) BY <1>1 DEF Still, TypeOK, SetUp, files, objects
<1> QED BY <1>3, <1>4, <1>5, OneChanges

LEMMA RowOf ==
    ASSUME UploadInv, NEW u \in Uploads
    PROVE  /\ up[u] \in UploadRows /\ rx[u] \in RxStates /\ rx = [rx EXCEPT ![u] = rx[u]]
           /\ up = [up EXCEPT ![u] = up[u]] /\ valid \in [Uploads -> BOOLEAN]
           /\ RowSound(u) /\ BytesSound(u)
BY DEF UploadInv, TypeOK, RxStates

LEMMA FailedRow ==
    ASSUME UploadInv, NEW u \in Uploads, ~Ended(u), NEW pc, pc = rx[u] \/ pc = "ENDED",
           up[u].state # "NONE"
    PROVE  Fail(up[u]) \in UploadRows /\ Turns(u, Fail(up[u]), pc)
<1>1. up[u] \in UploadRows /\ RowSound(u) /\ BytesSound(u) BY RowOf
<1>2. Fail(up[u]) \in UploadRows BY <1>1 DEF Fail, UploadRows, UploadStates, Terminal
<1>3. Fail(up[u]).state = "FAILED" /\ Fail(up[u]).attempts = up[u].attempts
      /\ Fail(up[u]).purged = up[u].purged /\ Fail(up[u]).aged = up[u].aged
  BY <1>1 DEF Fail, UploadRows
<1> QED BY <1>1, <1>2, <1>3 DEF Turns, RowSound, BytesSound, Before, Ending, Received

\* Create, Renew, Complete, Cancel
LEMMA CommandKeeps ==
    ASSUME UploadInv, NEW u \in Uploads, Command(u)
    PROVE  UploadInv'
<1>1. up[u] \in UploadRows /\ rx[u] \in RxStates /\ rx = [rx EXCEPT ![u] = rx[u]]
      /\ valid \in [Uploads -> BOOLEAN] /\ RowSound(u) /\ BytesSound(u)
  BY RowOf
<1>2. CASE Create(u)
  <2> DEFINE row == [NoRow EXCEPT !.state = "OPEN"]
  <2>1. 0 \in 0..MaxRenewals /\ 0 \in 0..MaxAttempts BY UploadConstants
  <2>2. NoRow \in UploadRows BY <2>1 DEF NoRow, UploadRows, UploadStates
  <2>3. row \in UploadRows BY <2>2 DEF UploadRows, UploadStates
  <2>4. Turns(u, row, rx[u])
    BY <1>1, <1>2 DEF Create, NoRow, Turns, RowSound, BytesSound, Before, Ending, Received,
                       Ended, Terminal
  <2> QED BY <1>1, <1>2, <2>3, <2>4, RowChanges DEF Create
<1>3. CASE Renew(u)
  <2> DEFINE row == [up[u] EXCEPT !.renewals = @ + 1]
  <2>1. row \in UploadRows BY <1>1, <1>3, UploadConstants DEF Renew, UploadRows
  <2>2. Turns(u, row, rx[u])
    BY <1>1, <1>3 DEF Renew, UploadRows, Turns, RowSound, BytesSound, Before, Received
  <2> QED BY <1>1, <1>3, <2>1, <2>2, RowChanges DEF Renew
<1>4. CASE Complete(u)
  <2> DEFINE row == [up[u] EXCEPT !.state = "QUEUED"]
  <2>1. row \in UploadRows BY <1>1 DEF UploadRows, UploadStates
  <2>2. Turns(u, row, rx[u])
    BY <1>1, <1>4 DEF Complete, UploadRows, Turns, RowSound, BytesSound, Before, Received,
                       Ending, Ended, Terminal
  <2> QED BY <1>1, <1>4, <2>1, <2>2, RowChanges DEF Complete
<1>5. CASE Cancel(u)
  <2> DEFINE row == [up[u] EXCEPT !.state = "CANCELLED", !.live = FALSE]
  <2>1. row \in UploadRows BY <1>1 DEF UploadRows, UploadStates, Terminal
  <2>2. Turns(u, row, rx[u])
    BY <1>1, <1>5 DEF Cancel, Active, UploadRows, Turns, RowSound, BytesSound, Before, Received,
                       Ending, Ended, Terminal
  <2> QED BY <1>1, <1>5, <2>1, <2>2, RowChanges DEF Cancel
<1> QED BY <1>2, <1>3, <1>4, <1>5 DEF Command

\* Invalidate, Overdue, LeaseEnds, Age
LEMMA TimePasses ==
    ASSUME UploadInv, NEW u \in Uploads,
           Invalidate(u) \/ Overdue(u) \/ LeaseEnds(u) \/ Age(u)
    PROVE  UploadInv'
<1>1. up[u] \in UploadRows /\ rx[u] \in RxStates /\ rx = [rx EXCEPT ![u] = rx[u]]
      /\ up = [up EXCEPT ![u] = up[u]] /\ valid \in [Uploads -> BOOLEAN]
      /\ RowSound(u) /\ BytesSound(u)
  BY RowOf
<1>2. CASE Invalidate(u)
  <2>1. Turns(u, up[u], rx[u]) BY <1>1 DEF Turns, RowSound, BytesSound, Before, Received
  <2>2. valid' \in [Uploads -> BOOLEAN] BY <1>1, <1>2 DEF Invalidate
  <2> QED BY <1>1, <1>2, <2>1, <2>2, RowChanges DEF Invalidate, SetUp
<1>3. CASE Overdue(u)
  <2> DEFINE row == [up[u] EXCEPT !.overdue = TRUE]
  <2>1. row \in UploadRows BY <1>1 DEF UploadRows
  <2>2. Turns(u, row, rx[u]) BY <1>1 DEF UploadRows, Turns, RowSound, BytesSound, Before, Received
  <2> QED BY <1>1, <1>3, <2>1, <2>2, RowChanges DEF Overdue
<1>4. CASE LeaseEnds(u)
  <2> DEFINE row == [up[u] EXCEPT !.live = FALSE]
  <2>1. row \in UploadRows BY <1>1 DEF UploadRows
  <2>2. Turns(u, row, rx[u]) BY <1>1 DEF UploadRows, Turns, RowSound, BytesSound, Before, Received
  <2> QED BY <1>1, <1>4, <2>1, <2>2, RowChanges DEF LeaseEnds
<1>5. CASE Age(u)
  <2> DEFINE row == [up[u] EXCEPT !.aged = TRUE]
  <2>1. row \in UploadRows BY <1>1 DEF UploadRows
  <2>2. Turns(u, row, rx[u])
    BY <1>1, <1>5 DEF Age, UploadRows, Turns, RowSound, BytesSound, Before, Received, Ending
  <2> QED BY <1>1, <1>5, <2>1, <2>2, RowChanges DEF Age
<1> QED BY <1>2, <1>3, <1>4, <1>5

\* The transactions of the request that carries the bytes, and its end
LEMMA ReceiverTurns ==
    ASSUME UploadInv, NEW u \in Uploads,
           \/ BeginReceive(u) \/ FinishReceive(u) \/ FinishReceiveRefused(u)
           \/ FailReceive(u) \/ ReceiverDies(u)
    PROVE  UploadInv'
<1>1. up[u] \in UploadRows /\ rx[u] \in RxStates /\ up = [up EXCEPT ![u] = up[u]]
      /\ valid \in [Uploads -> BOOLEAN] /\ RowSound(u) /\ BytesSound(u)
  BY RowOf
<1>2. CASE BeginReceive(u)
  <2>1. PICK pc \in {"ACCEPTED", "ENDED"} : rx' = [rx EXCEPT ![u] = pc]
    BY <1>2 DEF BeginReceive, Rx
  <2> DEFINE row == [up[u] EXCEPT !.state = "RECEIVING", !.live = TRUE]
  <2>2. row \in UploadRows BY <1>1 DEF UploadRows, UploadStates
  <2>3. Turns(u, row, pc)
    BY <1>1, <1>2, <2>1 DEF BeginReceive, UploadRows, Turns, RowSound, Before, Received, Ending,
                             Ended, Terminal
  <2>4. pc \in RxStates BY <2>1 DEF RxStates
  <2> QED BY <1>1, <1>2, <2>1, <2>2, <2>3, <2>4, RowChanges DEF BeginReceive
<1>3. CASE FinishReceive(u)
  <2>1. PICK pc \in {"FAILING", "ENDED"} : rx' = [rx EXCEPT ![u] = pc]
    BY <1>3 DEF FinishReceive, Rx
  <2> DEFINE row == [up[u] EXCEPT !.state = "UPLOADED", !.live = FALSE]
  <2>2. row \in UploadRows BY <1>1 DEF UploadRows, UploadStates
  <2>3. Turns(u, row, pc)
    BY <1>1, <1>3, <2>1 DEF FinishReceive, MayFinishReceive, UploadRows, Turns, RowSound, Before,
                             Received, Ending, Ended, Terminal
  <2>4. pc \in RxStates BY <2>1 DEF RxStates
  <2> QED BY <1>1, <1>3, <2>1, <2>2, <2>3, <2>4, RowChanges DEF FinishReceive
<1>4. CASE FinishReceiveRefused(u) \/ ReceiverDies(u)
  <2>1. PICK pc \in {"FAILING", "ENDED"} : rx' = [rx EXCEPT ![u] = pc]
    BY <1>4 DEF FinishReceiveRefused, ReceiverDies, Rx
  <2>2. Turns(u, up[u], pc) BY <1>1, <2>1 DEF Turns, RowSound, Before, Received
  <2>3. pc \in RxStates BY <2>1 DEF RxStates
  <2> QED BY <1>1, <1>4, <2>1, <2>2, <2>3, RowChanges
       DEF FinishReceiveRefused, ReceiverDies, rows, SetUp
<1>5. CASE FailReceive(u)
  <2> DEFINE row == IF up[u].state = "RECEIVING" THEN Fail(up[u]) ELSE up[u]
  <2>1. row \in UploadRows /\ Turns(u, row, "ENDED")
    <3>1. CASE up[u].state = "RECEIVING" BY <3>1, FailedRow DEF Ended, Terminal
    <3>2. CASE up[u].state # "RECEIVING"
      BY <1>1, <3>2 DEF Turns, RowSound, Before, Received
    <3> QED BY <3>1, <3>2
  <2>2. "ENDED" \in RxStates BY DEF RxStates
  <2> QED BY <1>1, <1>5, <2>1, <2>2, RowChanges DEF FailReceive, Rx
<1> QED BY <1>2, <1>3, <1>4, <1>5

\* The group is made while no attempt has begun and no cleanup may.
LEMMA OpenStagingKeeps ==
    ASSUME UploadInv, NEW u \in Uploads, OpenStaging(u)
    PROVE  UploadInv'
<1>1. /\ group' = [group EXCEPT ![u] = "ACTIVE"] /\ staged' = [staged EXCEPT ![u] = "PARTIAL"]
      /\ rx' = [rx EXCEPT ![u] = "WRITING"] /\ rx[u] = "ACCEPTED"
      /\ UNCHANGED <<up, valid, asset, sealed, marked, flying, remote, wk>>
  BY DEF OpenStaging, Rx, rows, objects
<1>2. TypeOK BY DEF UploadInv
<1>3. RowSound(u) /\ BytesSound(u) /\ ObjectsSound(u) /\ AssetSound(u) BY DEF UploadInv
<1>4. rx'[u] = "WRITING" /\ group'[u] = "ACTIVE" BY <1>1, <1>2 DEF TypeOK
<1>5. TypeOK' BY <1>1, <1>2 DEF TypeOK
<1>6. \A t \in Uploads \ {u} : Still(t) BY <1>1, <1>2 DEF Still, TypeOK
<1>7. UploadSound(u)'
  BY <1>1, <1>3, <1>4
  DEF UploadSound, RowSound, BytesSound, ObjectsSound, AssetSound, Purgeable, Gone, Ending
<1>8. \A n \in 0..MaxAttempts : Onward(u, n)
  BY <1>1, <1>2, <1>3, <1>4
  DEF Onward, TypeOK, UploadRows, Purgeable, RowSound, BytesSound
<1> QED BY <1>1, <1>5, <1>6, <1>7, <1>8, OneChanges

LEMMA ReceiveBytesKeeps ==
    ASSUME UploadInv, NEW u \in Uploads, ReceiveBytes(u)
    PROVE  UploadInv'
<1>1. UNCHANGED <<up, valid, asset, group, sealed, marked, flying, remote, wk>>
  BY DEF ReceiveBytes, rows, objects
<1>2. /\ rx[u] = "WRITING"
      /\ \/ staged' = [staged EXCEPT ![u] = "FULL"] /\ rx' = [rx EXCEPT ![u] = "WRITTEN"]
         \/ staged' = staged /\ rx' = [rx EXCEPT ![u] = "FAILING"]
  BY DEF ReceiveBytes, Rx
<1>3. TypeOK BY DEF UploadInv
<1>4. RowSound(u) /\ BytesSound(u) /\ ObjectsSound(u) /\ AssetSound(u) BY DEF UploadInv
<1>5. (rx'[u] = "WRITTEN" /\ staged'[u] = "FULL") \/ (rx'[u] = "FAILING" /\ staged'[u] = staged[u])
  BY <1>2, <1>3 DEF TypeOK
<1>6. TypeOK' BY <1>1, <1>2, <1>3 DEF TypeOK
<1>7. \A t \in Uploads \ {u} : Still(t) BY <1>1, <1>2, <1>3 DEF Still, TypeOK
<1>8. UploadSound(u)'
  BY <1>1, <1>2, <1>4, <1>5
  DEF UploadSound, RowSound, BytesSound, ObjectsSound, AssetSound, Purgeable, Gone, Ending
<1>9. \A n \in 0..MaxAttempts : Onward(u, n)
  BY <1>1, <1>2, <1>3, <1>4 DEF Onward, TypeOK, UploadRows, Purgeable, Gone, RowSound, Ending
<1> QED BY <1>1, <1>6, <1>7, <1>8, <1>9, OneChanges

\* A PUT that takes effect is one whose marker forbids the cleanup.
LEMMA LandKeeps ==
    ASSUME UploadInv, NEW u \in Uploads, NEW o \in Objects, Land(u, o)
    PROVE  UploadInv'
<1>1. /\ UNCHANGED <<up, valid, asset, rx, group, staged, sealed, marked, wk>>
      /\ o \in flying[u] /\ flying' = [flying EXCEPT ![u] = @ \ {o}]
      /\ remote' = [remote EXCEPT ![u] = @ \cup {o}] \/ remote' = remote
  BY DEF Land, rows, files
<1>2. TypeOK BY DEF UploadInv
<1>3. RowSound(u) /\ BytesSound(u) /\ ObjectsSound(u) /\ AssetSound(u) BY DEF UploadInv
<1>4. flying'[u] = flying[u] \ {o} /\ remote'[u] \in {remote[u], remote[u] \cup {o}}
  BY <1>1, <1>2 DEF TypeOK
<1>5. TypeOK' BY <1>1, <1>2 DEF TypeOK
<1>6. \A t \in Uploads \ {u} : Still(t) BY <1>1, <1>2 DEF Still, TypeOK
<1>7. RowSound(u)' BY <1>1, <1>3 DEF RowSound, Purgeable, Gone
<1>8. BytesSound(u)' BY <1>1, <1>3 DEF BytesSound
<1>9. ObjectsSound(u)' /\ AssetSound(u)' BY <1>1, <1>3, <1>4 DEF ObjectsSound, AssetSound
<1>10. \A n \in 0..MaxAttempts : Onward(u, n)
  BY <1>1, <1>2, <1>3, <1>4 DEF Onward, TypeOK, UploadRows, Purgeable, Gone
<1> QED BY <1>1, <1>5, <1>6, <1>7, <1>8, <1>9, <1>10, OneChanges DEF UploadSound

\* The expiry of several uploads at once
LEMMA ExpireKeeps ==
    ASSUME UploadInv, NEW w \in Workers, Expire(w)
    PROVE  UploadInv'
<1>1. /\ up' = [u \in Uploads |-> IF Expired(u) THEN Fail(up[u]) ELSE up[u]]
      /\ UNCHANGED <<valid, asset, rx, files, objects, wk>>
  BY DEF Expire
<1>2. TypeOK BY DEF UploadInv
<1>3. ASSUME NEW u \in Uploads
      PROVE  up'[u] \in UploadRows /\ Turns(u, up'[u], rx[u])
  <2>1. up[u] \in UploadRows /\ RowSound(u) /\ BytesSound(u) BY RowOf
  <2>2. CASE Expired(u)
    <3>1. up'[u] = Fail(up[u]) BY <1>1, <2>2
    <3> QED BY <2>2, <3>1, FailedRow DEF Expired, Active
  <2>3. CASE ~Expired(u)
    <3>1. up'[u] = up[u] BY <1>1, <2>3
    <3> QED BY <2>1, <3>1 DEF Turns, RowSound, BytesSound, Before, Received
  <2> QED BY <2>2, <2>3
<1>4. \A u \in Uploads : UploadSound(u)' /\ \A n \in 0..MaxAttempts : Onward(u, n)
  BY <1>1, <1>3, RowTurns
<1>5. TypeOK'
  <2>1. up' \in [Uploads -> UploadRows] BY <1>1, <1>3
  <2> QED BY <1>1, <1>2, <2>1 DEF TypeOK, files, objects
<1>6. \A v \in Workers : wk[v].n \in 0..MaxAttempts BY <1>2 DEF TypeOK, WorkerStates
<1>7. \A v \in Workers : WorkerSound(v)' BY <1>1, <1>4, <1>5, <1>6, OthersWait
<1>8. Apart' BY <1>1, <1>5, ApartStays
<1> QED BY <1>4, <1>5, <1>7, <1>8 DEF UploadInv, UploadSound, WorkerSound

LEMMA UploadMoves ==
    ASSUME UploadInv, NEW u \in Uploads, Command(u) \/ Surroundings(u) \/ Receiver(u)
    PROVE  UploadInv'
<1>1. CASE Command(u) BY <1>1, CommandKeeps
<1>2. CASE Surroundings(u) BY <1>2, TimePasses, LandKeeps DEF Surroundings
<1>3. CASE Receiver(u) BY <1>3, ReceiverTurns, OpenStagingKeeps, ReceiveBytesKeeps DEF Receiver
<1> QED BY <1>1, <1>2, <1>3

-------------------------------------------------------------------------------
(* Steps of a worker *)

LEMMA WorkerActs ==
    ASSUME UploadInv, TypeOK', NEW w \in Workers, NEW u \in Uploads, u = wk[w].u,
           \A t \in Uploads \ {u} : Still(t), UploadSound(u)',
           \A v \in Workers \ {w} : wk'[v] = wk[v],
           wk'[w].n = 0 \/ (wk'[w].n = wk[w].n /\ wk'[w].u = u), WorkerSound(w)',
           \A n \in 0..MaxAttempts : n # wk[w].n \/ wk[w].n = 0 => Onward(u, n)
    PROVE  UploadInv'
<1>1. Apart' BY ApartStays
<1>2. ASSUME NEW v \in Workers \ {w}, wk[v].u = u PROVE Onward(u, wk[v].n)
  <2>1. wk[v].n \in 0..MaxAttempts BY DEF UploadInv, TypeOK, WorkerStates
  <2>2. wk[w].n # 0 => wk[v].n # wk[w].n BY <1>2 DEF UploadInv, Apart
  <2> QED BY <2>1, <2>2
<1> QED BY <1>1, <1>2, OneMoves

\* A step that only concerns the worker itself
LEMMA WorkerAlone ==
    ASSUME UploadInv, NEW w \in Workers, NEW row \in WorkerStates,
           wk' = [wk EXCEPT ![w] = row], UNCHANGED <<rows, rx, files, objects>>,
           row.n = 0 \/ (row.n = wk[w].n /\ row.u = wk[w].u), WorkerSound(w)'
    PROVE  UploadInv'
<1>1. TypeOK BY DEF UploadInv
<1>2. UNCHANGED <<up, valid, asset, rx, group, staged, sealed, marked, flying, remote>>
  BY DEF rows, files, objects
<1>3. TypeOK' BY <1>1, <1>2 DEF TypeOK
<1>4. wk'[w] = row /\ \A v \in Workers \ {w} : wk'[v] = wk[v] BY <1>1 DEF TypeOK
<1>5. \A u \in Uploads : Still(u) BY <1>2 DEF Still
<1>6. \A u \in Uploads : UploadSound(u)' BY <1>5, StillIsSound DEF UploadInv, UploadSound
<1>7. \A v \in Workers \ {w} : WorkerSound(v)' BY <1>1, <1>3, <1>4, <1>5, StillIsOnward, OthersWait
<1>8. Apart' BY <1>3, <1>4, ApartStays
<1> QED BY <1>3, <1>6, <1>7, <1>8 DEF UploadInv, UploadSound, WorkerSound

LEMMA RestingIsSound ==
    ASSUME NEW w \in Workers, wk'[w] = Resting
    PROVE  WorkerSound(w)'
BY DEF Resting, WorkerSound, Placed, WorkSound, Published, Unsent, DoneSound, PurgeSound,
       Working, Ahead, Purging

LEMMA FailingIsSound ==
    ASSUME NEW w \in Workers, wk'[w] = [wk[w] EXCEPT !.pc = "FAILING"], wk[w] \in WorkerStates,
           wk[w].u \in Uploads, wk[w].n <= up'[wk[w].u].attempts
    PROVE  WorkerSound(w)'
<1>1. wk'[w].pc = "FAILING" /\ wk'[w].u = wk[w].u /\ wk'[w].n = wk[w].n BY DEF WorkerStates
<1> QED BY <1>1
     DEF WorkerSound, Placed, WorkSound, Published, Unsent, DoneSound, PurgeSound, Working,
         Ahead, Purging

\* What is known of a worker that is not idle
LEMMA OfWorker ==
    ASSUME UploadInv, NEW w \in Workers
    PROVE  /\ TypeOK /\ wk[w] \in WorkerStates
           /\ wk[w].pc # "IDLE" => /\ wk[w].u \in Uploads /\ wk[w].n <= up[wk[w].u].attempts
                                   /\ UploadSound(wk[w].u)
           /\ Placed(w) /\ WorkSound(w) /\ DoneSound(w) /\ PurgeSound(w)
BY DEF UploadInv, UploadSound, TypeOK, Placed

\* Goto and Rest, as one changes a row
LEMMA GotoRow ==
    ASSUME TypeOK, NEW w \in Workers, NEW pc, Goto(w, pc)
    PROVE  /\ wk' = [wk EXCEPT ![w] = [wk[w] EXCEPT !.pc = pc]]
           /\ wk'[w] = [wk[w] EXCEPT !.pc = pc] /\ wk'[w].pc = pc /\ wk'[w].u = wk[w].u
           /\ wk'[w].n = wk[w].n /\ wk'[w].part = wk[w].part
           /\ \A v \in Workers \ {w} : wk'[v] = wk[v]
BY DEF TypeOK, WorkerStates, Goto

LEMMA RestRow ==
    ASSUME TypeOK, NEW w \in Workers, Rest(w)
    PROVE  wk'[w] = Resting /\ wk'[w].n = 0 /\ \A v \in Workers \ {w} : wk'[v] = wk[v]
BY DEF TypeOK, Rest, Resting

LEMMA RestingIsTyped == Resting \in WorkerStates
<1>1. 0 \in 0..MaxAttempts /\ 0 \in 0..NParts BY UploadConstants
<1> QED BY <1>1 DEF Resting, WorkerStates

\* A worker that gives up, dies or rests
LEMMA RestKeeps ==
    ASSUME UploadInv, NEW w \in Workers, Rest(w), UNCHANGED <<rows, rx, files, objects>>
    PROVE  UploadInv'
<1>1. TypeOK BY DEF UploadInv
<1> QED BY <1>1, RestRow, RestingIsTyped, RestingIsSound, WorkerAlone DEF Rest, Resting

LEMMA GiveUpKeeps ==
    ASSUME UploadInv, NEW w \in Workers, wk[w].pc # "IDLE", Goto(w, "FAILING"),
           UNCHANGED <<rows, rx, files, objects>>
    PROVE  UploadInv'
<1>1. TypeOK /\ wk[w] \in WorkerStates /\ wk[w].u \in Uploads /\ wk[w].n <= up[wk[w].u].attempts
  BY OfWorker
<1> DEFINE row == [wk[w] EXCEPT !.pc = "FAILING"]
<1>2. row \in WorkerStates /\ row.n = wk[w].n /\ row.u = wk[w].u BY <1>1 DEF WorkerStates
<1>3. wk' = [wk EXCEPT ![w] = row] /\ wk'[w] = row BY <1>1, GotoRow
<1>4. up' = up BY DEF rows
<1>5. WorkerSound(w)' BY <1>1, <1>3, <1>4, FailingIsSound
<1> QED BY <1>2, <1>3, <1>5, WorkerAlone

\* Heartbeat, Answered and Check: the worker goes on with what it knows.
LEMMA GoOnKeeps ==
    ASSUME UploadInv, NEW w \in Workers, Heartbeat(w) \/ Answered(w) \/ Check(w)
    PROVE  UploadInv'
<1> DEFINE u == wk[w].u
           n == wk[w].n
<1>1. wk[w].pc \in Working /\ UNCHANGED <<rows, rx, files, objects>>
  BY DEF Heartbeat, Answered, Check, Working, Ahead
<1>2. /\ TypeOK /\ wk[w] \in WorkerStates /\ u \in Uploads /\ n <= up[u].attempts
      /\ UploadSound(u) /\ WorkSound(w)
  BY <1>1, OfWorker DEF Working, Ahead
<1>3. UNCHANGED <<up, valid, asset, rx, group, staged, sealed, marked, flying, remote>>
  BY <1>1 DEF rows, files, objects
<1>4. SUFFICES ASSUME NEW row \in WorkerStates, row.n = n, row.u = u, row.pc \in Working,
                      wk' = [wk EXCEPT ![w] = row], wk'[w] = row, WorkSound(w)'
               PROVE  UploadInv'
  <2>1. CASE Heartbeat(w)
    <3>1. CASE Owned(w)
      <4> DEFINE pc == IF wk[w].pc = "CLAIMED" THEN "SEAL" ELSE "PUBLISH"
                 row == [wk[w] EXCEPT !.pc = pc]
      <4>1. Goto(w, pc) BY <2>1, <3>1 DEF Heartbeat
      <4>2. wk' = [wk EXCEPT ![w] = row] /\ wk'[w] = row BY <1>2, <4>1, GotoRow
      <4>3. row \in WorkerStates BY <1>2 DEF WorkerStates
      <4>4. row.n = n /\ row.u = u /\ row.part = wk[w].part /\ row.pc = pc BY <1>2 DEF WorkerStates
      <4>5. wk[w].pc \in {"CLAIMED", "SEALED"} BY <2>1 DEF Heartbeat
      <4>6. WorkSound(w)'
        BY <1>2, <1>3, <4>2, <4>4, <4>5 DEF WorkSound, Published, Unsent, Working, Ahead
      <4> QED BY <1>4, <4>2, <4>3, <4>4, <4>5, <4>6 DEF Working, Ahead
    <3>2. CASE ~Owned(w)
      <4>1. Goto(w, "FAILING") BY <2>1, <3>2 DEF Heartbeat
      <4> QED BY <1>1, <4>1, GiveUpKeeps DEF Working, Ahead
    <3> QED BY <3>1, <3>2
  <2>2. CASE Answered(w)
    <3> DEFINE row == [wk[w] EXCEPT !.pc = "CHECK"]
    <3>1. Goto(w, "CHECK") /\ wk[w].pc = "PUTTING" /\ <<n, wk[w].part>> \in remote[u]
      BY <2>2 DEF Answered
    <3>2. wk' = [wk EXCEPT ![w] = row] /\ wk'[w] = row BY <1>2, <3>1, GotoRow
    <3>3. row \in WorkerStates BY <1>2 DEF WorkerStates
    <3>4. row.n = n /\ row.u = u /\ row.part = wk[w].part /\ row.pc = "CHECK"
      BY <1>2 DEF WorkerStates
    <3>5. <<n, wk[w].part>> \notin flying[u] BY <1>2, <3>1 DEF UploadSound, ObjectsSound
    <3>6. wk[w].part \in 0..NParts BY <1>2 DEF WorkerStates
    <3>7. WorkSound(w)'
      BY <1>2, <1>3, <3>1, <3>2, <3>4, <3>5, <3>6, UploadConstants
      DEF WorkSound, Published, Unsent, Working, Ahead
    <3> QED BY <1>4, <3>2, <3>3, <3>4, <3>7 DEF Working
  <2>3. CASE Check(w)
    <3>1. CASE Goto(w, "RETRACT")
      <4> DEFINE row == [wk[w] EXCEPT !.pc = "RETRACT"]
      <4>1. wk' = [wk EXCEPT ![w] = row] /\ wk'[w] = row BY <1>2, <3>1, GotoRow
      <4>2. row \in WorkerStates BY <1>2 DEF WorkerStates
      <4>3. row.n = n /\ row.u = u /\ row.part = wk[w].part /\ row.pc = "RETRACT"
        BY <1>2 DEF WorkerStates
      <4>4. wk[w].pc = "CHECK" BY <2>3 DEF Check
      <4>5. WorkSound(w)'
        BY <1>2, <1>3, <4>1, <4>3, <4>4 DEF WorkSound, Published, Unsent, Working, Ahead
      <4> QED BY <1>4, <4>1, <4>2, <4>3, <4>5 DEF Working
    <3>2. CASE ~Goto(w, "RETRACT")
      <4> DEFINE pc == IF wk[w].part < NParts THEN "PUT" ELSE "UNMARK"
                 part == IF wk[w].part < NParts THEN wk[w].part + 1 ELSE wk[w].part
                 row == [wk[w] EXCEPT !.pc = pc, !.part = part]
      <4>1. wk' = [wk EXCEPT ![w].pc = pc, ![w].part = part] /\ InGroup(w) /\ wk[w].pc = "CHECK"
        BY <2>3, <3>2 DEF Check
      <4>2. wk' = [wk EXCEPT ![w] = row] /\ wk'[w] = row BY <1>2, <4>1 DEF TypeOK, WorkerStates
      <4>3. wk[w].part \in 0..NParts /\ NParts \in Nat BY <1>2, UploadConstants DEF WorkerStates
      <4>4. row \in WorkerStates
        <5>1. part \in 0..NParts /\ pc \in {"PUT", "UNMARK"} BY <4>3
        <5> HIDE DEF part, pc
        <5> QED BY <1>2, <5>1 DEF WorkerStates
      <4>5. row.n = n /\ row.u = u /\ row.part = part /\ row.pc = pc BY <1>2 DEF WorkerStates
      <4>6. WorkSound(w)'
        <5>0. wk'[w].n = n /\ wk'[w].u = u /\ wk'[w].part = part /\ wk'[w].pc = pc BY <4>2, <4>5
        <5> HIDE DEF row
        <5>1. /\ n # 0 /\ n # asset[u]
              /\ ~up[u].aged => n \in sealed[u]
              /\ group[u] = "ACTIVE" => n \in marked[u]
              /\ \A q \in 1..NParts :
                   /\ q <= wk[w].part =>
                        <<n, q>> \notin flying[u] /\ (up[u].aged \/ <<n, q>> \in remote[u])
                   /\ q > wk[w].part => <<n, q>> \notin flying[u] \cup remote[u]
          BY <1>2, <4>1, <4>3 DEF WorkSound, Published, Unsent, Working, Ahead
        <5>2. CASE wk[w].part < NParts
          <6>1. wk'[w].pc = "PUT" /\ wk'[w].part = wk[w].part + 1 BY <5>0, <5>2
          <6> QED BY <1>3, <4>3, <5>0, <5>1, <6>1 DEF WorkSound, Published, Unsent, Ahead
        <5>3. CASE ~(wk[w].part < NParts)
          <6>1. wk'[w].pc = "UNMARK" /\ wk'[w].part = NParts /\ wk[w].part = NParts
            BY <4>3, <5>0, <5>3
          <6> QED BY <1>3, <4>3, <5>0, <5>1, <6>1, UploadConstants
               DEF WorkSound, Published, Unsent, Ahead
        <5> QED BY <5>2, <5>3
      <4> QED BY <1>4, <4>2, <4>4, <4>5, <4>6 DEF Working, Ahead
    <3> QED BY <3>1, <3>2
  <2> QED BY <2>1, <2>2, <2>3
<1>5. WorkerSound(w)'
  BY <1>2, <1>3, <1>4 DEF WorkerSound, Placed, DoneSound, PurgeSound, Working, Ahead, Purging
<1> QED BY <1>1, <1>4, <1>5, WorkerAlone

-------------------------------------------------------------------------------
(* Steps of a worker on the files and the objects of its upload *)

LEMMA GoneFrom ==
    ASSUME UploadInv, NEW w \in Workers, NEW pc, Goto(w, pc), pc \in Working,
           wk[w].pc \in Working, UNCHANGED up, WorkSound(w)'
    PROVE  WorkerSound(w)'
<1>1. TypeOK /\ Placed(w) BY OfWorker
<1>2. wk'[w].pc = pc /\ wk'[w].u = wk[w].u /\ wk'[w].n = wk[w].n BY <1>1, GotoRow
<1> QED BY <1>1, <1>2 DEF WorkerSound, Placed, DoneSound, PurgeSound, Working, Ahead, Purging

\* What a worker does to the files and objects of its own attempt
OwnStep(u, n) ==
    /\ UNCHANGED <<up, asset, rx, group, staged>>
    /\ sealed[u] \subseteq sealed'[u]
    /\ \A k : k # n =>
         /\ k \in marked'[u] <=> k \in marked[u]
         /\ \A q \in 1..NParts :
              /\ <<k, q>> \in flying'[u] <=> <<k, q>> \in flying[u]
              /\ <<k, q>> \in remote'[u] <=> <<k, q>> \in remote[u]
    /\ \/ group[u] = "ACTIVE"
       \/ /\ marked'[u] \subseteq marked[u] /\ flying'[u] \subseteq flying[u]
          /\ remote'[u] \subseteq remote[u]

LEMMA OwnStepKeeps ==
    ASSUME TypeOK, NEW u \in Uploads, UploadSound(u), NEW n, n # asset[u],
           OwnStep(u, n), ObjectsSound(u)'
    PROVE  UploadSound(u)' /\ \A k \in 0..MaxAttempts : k # n => Onward(u, k)
<1>1. RowSound(u) /\ BytesSound(u) /\ AssetSound(u) BY DEF UploadSound
<1>2. RowSound(u)'
  <2>1. Gone(u) => Gone(u)' BY DEF Gone, OwnStep
  <2>2. Purgeable(u)' = Purgeable(u) BY DEF Purgeable, OwnStep
  <2> QED BY <1>1, <2>1, <2>2 DEF RowSound, OwnStep
<1>3. BytesSound(u)' BY <1>1 DEF BytesSound, OwnStep
<1>4. AssetSound(u)' BY <1>1 DEF AssetSound, OwnStep
<1>5. ASSUME NEW k \in 0..MaxAttempts, k # n PROVE Onward(u, k)
  <2>1. up[u].attempts \in Nat BY DEF TypeOK, UploadRows
  <2>2. Gone(u) => Gone(u)' BY DEF Gone, OwnStep
  <2>3. Purgeable(u)' = Purgeable(u) BY DEF Purgeable, OwnStep
  <2>4. \A q \in 1..NParts :
          /\ <<k, q>> \in flying'[u] <=> <<k, q>> \in flying[u]
          /\ <<k, q>> \in remote'[u] <=> <<k, q>> \in remote[u]
    BY <1>5 DEF OwnStep
  <2>5. k \in marked'[u] <=> k \in marked[u] BY <1>5 DEF OwnStep
  <2>6. group[u] = "ACTIVE" \/ (marked'[u] \subseteq marked[u] /\ flying'[u] \subseteq flying[u])
    BY DEF OwnStep
  <2>7. UNCHANGED <<up, asset, group>> /\ sealed[u] \subseteq sealed'[u] BY DEF OwnStep
  <2> QED BY <2>1, <2>2, <2>3, <2>4, <2>5, <2>6, <2>7 DEF Onward
<1> QED BY <1>2, <1>3, <1>4, <1>5 DEF UploadSound

LEMMA SealKeeps ==
    ASSUME UploadInv, NEW w \in Workers, NEW u, u = wk[w].u, NEW n, n = wk[w].n, Seal(w)
    PROVE  UploadInv'
<1>1. /\ wk[w].pc = "SEAL" /\ Goto(w, "SEALED") /\ sealed' = [sealed EXCEPT ![u] = @ \cup {n}]
      /\ UNCHANGED <<up, valid, asset, rx, group, staged, marked, flying, remote>>
  BY DEF Seal, rows, objects
<1>2. /\ TypeOK /\ wk[w] \in WorkerStates /\ u \in Uploads /\ UploadSound(u) /\ WorkSound(w)
  BY <1>1, OfWorker
<1>3. n \in Attempts
  BY <1>1, <1>2, UploadConstants DEF WorkSound, Working, Ahead, WorkerStates, Attempts
<1>4. /\ wk'[w] \in WorkerStates /\ wk'[w].pc = "SEALED" /\ wk'[w].u = u /\ wk'[w].n = n
      /\ wk'[w].part = wk[w].part
      /\ wk' = [wk EXCEPT ![w] = wk'[w]] /\ \A v \in Workers \ {w} : wk'[v] = wk[v]
  BY <1>1, <1>2, GotoRow DEF WorkerStates
<1>5. TypeOK'
  <2>1. sealed' \in [Uploads -> SUBSET Attempts] BY <1>1, <1>2, <1>3 DEF TypeOK
  <2>2. wk' \in [Workers -> WorkerStates] BY <1>2, <1>4 DEF TypeOK
  <2> QED BY <1>1, <1>2, <2>1, <2>2 DEF TypeOK
<1>6. sealed'[u] = sealed[u] \cup {n} BY <1>1, <1>2 DEF TypeOK
<1>7. \A t \in Uploads \ {u} : Still(t) BY <1>1, <1>2 DEF Still, TypeOK
<1>8. ObjectsSound(u)'
  BY <1>1, <1>2 DEF UploadSound, ObjectsSound
<1>9. WorkSound(w)'
  BY <1>1, <1>2, <1>4, <1>6 DEF WorkSound, Published, Unsent, Working, Ahead
<1>10. WorkerSound(w)' BY <1>1, <1>9, GoneFrom DEF Working, Ahead
<1>11. OwnStep(u, n) BY <1>1, <1>2, <1>6 DEF OwnStep, TypeOK
<1>12. n # 0 /\ n # asset[u] BY <1>1, <1>2 DEF WorkSound, Working, Ahead
<1>13. UploadSound(u)' /\ \A k \in 0..MaxAttempts : k # n => Onward(u, k)
  BY <1>2, <1>8, <1>11, <1>12, OwnStepKeeps
<1> QED BY <1>2, <1>4, <1>5, <1>7, <1>10, <1>12, <1>13, WorkerActs

LEMMA MarkKeeps ==
    ASSUME UploadInv, NEW w \in Workers, NEW u, u = wk[w].u, NEW n, n = wk[w].n, Mark(w)
    PROVE  UploadInv'
<1>1. /\ wk[w].pc = "PUBLISH" /\ Goto(w, "PUT") /\ marked' = [marked EXCEPT ![u] = @ \cup {n}]
      /\ group[u] = "ACTIVE"
      /\ UNCHANGED <<up, valid, asset, rx, group, staged, sealed, flying, remote>>
  BY DEF Mark, InGroup, rows, objects
<1>2. /\ TypeOK /\ wk[w] \in WorkerStates /\ u \in Uploads /\ UploadSound(u) /\ WorkSound(w)
  BY <1>1, OfWorker
<1>3. n \in Attempts
  BY <1>1, <1>2, UploadConstants DEF WorkSound, Working, Ahead, WorkerStates, Attempts
<1>4. /\ wk'[w] \in WorkerStates /\ wk'[w].pc = "PUT" /\ wk'[w].u = u /\ wk'[w].n = n
      /\ wk'[w].part = wk[w].part
      /\ wk' = [wk EXCEPT ![w] = wk'[w]] /\ \A v \in Workers \ {w} : wk'[v] = wk[v]
  BY <1>1, <1>2, GotoRow DEF WorkerStates
<1>5. TypeOK'
  <2>1. marked' \in [Uploads -> SUBSET Attempts] BY <1>1, <1>2, <1>3 DEF TypeOK
  <2>2. wk' \in [Workers -> WorkerStates] BY <1>2, <1>4 DEF TypeOK
  <2> QED BY <1>1, <1>2, <2>1, <2>2 DEF TypeOK
<1>6. marked'[u] = marked[u] \cup {n} BY <1>1, <1>2 DEF TypeOK
<1>7. \A t \in Uploads \ {u} : Still(t) BY <1>1, <1>2 DEF Still, TypeOK
<1>8. ObjectsSound(u)'
  BY <1>1, <1>2, <1>6 DEF UploadSound, ObjectsSound
<1>9. WorkSound(w)'
  BY <1>1, <1>2, <1>4, <1>6 DEF WorkSound, Published, Unsent, Working, Ahead
<1>10. WorkerSound(w)' BY <1>1, <1>9, GoneFrom DEF Working, Ahead
<1>11. OwnStep(u, n) BY <1>1, <1>2, <1>6 DEF OwnStep, TypeOK
<1>12. n # 0 /\ n # asset[u] BY <1>1, <1>2 DEF WorkSound, Working, Ahead
<1>13. UploadSound(u)' /\ \A k \in 0..MaxAttempts : k # n => Onward(u, k)
  BY <1>2, <1>8, <1>11, <1>12, OwnStepKeeps
<1> QED BY <1>2, <1>4, <1>5, <1>7, <1>10, <1>12, <1>13, WorkerActs

LEMMA PutKeeps ==
    ASSUME UploadInv, NEW w \in Workers, NEW u, u = wk[w].u, NEW n, n = wk[w].n, Put(w)
    PROVE  UploadInv'
<1> DEFINE o == <<n, wk[w].part>>
<1>1. /\ wk[w].pc = "PUT" /\ Goto(w, "PUTTING") /\ flying' = [flying EXCEPT ![u] = @ \cup {o}]
      /\ group[u] = "ACTIVE"
      /\ UNCHANGED <<up, valid, asset, rx, group, staged, sealed, marked, remote>>
  BY DEF Put, InGroup, rows, files
<1>2. /\ TypeOK /\ wk[w] \in WorkerStates /\ u \in Uploads /\ UploadSound(u) /\ WorkSound(w)
      /\ n <= up[u].attempts
  BY <1>1, OfWorker
<1>3. /\ n # 0 /\ n \in marked[u] /\ n \in 0..MaxAttempts /\ wk[w].part \in 1..NParts
      /\ o \notin flying[u] \cup remote[u]
  BY <1>1, <1>2, UploadConstants DEF WorkSound, Unsent, Working, Ahead, WorkerStates
<1>4. /\ wk'[w] \in WorkerStates /\ wk'[w].pc = "PUTTING" /\ wk'[w].u = u /\ wk'[w].n = n
      /\ wk'[w].part = wk[w].part
      /\ wk' = [wk EXCEPT ![w] = wk'[w]] /\ \A v \in Workers \ {w} : wk'[v] = wk[v]
  BY <1>1, <1>2, GotoRow DEF WorkerStates
<1>5. TypeOK'
  <2>1. o \in Objects BY <1>3 DEF Objects, Attempts
  <2>2. flying' \in [Uploads -> SUBSET Objects] BY <1>1, <1>2, <2>1 DEF TypeOK
  <2>3. wk' \in [Workers -> WorkerStates] BY <1>2, <1>4 DEF TypeOK
  <2> QED BY <1>1, <1>2, <2>2, <2>3 DEF TypeOK
<1>6. flying'[u] = flying[u] \cup {o} BY <1>1, <1>2 DEF TypeOK
<1>7. \A t \in Uploads \ {u} : Still(t) BY <1>1, <1>2 DEF Still, TypeOK
<1>8. ObjectsSound(u)'
  <2>1. ObjectsSound(u) BY <1>2 DEF UploadSound
  <2> QED BY <1>1, <1>2, <1>3, <1>6, <2>1 DEF ObjectsSound
<1>9. WorkSound(w)'
  BY <1>1, <1>2, <1>3, <1>4, <1>6 DEF WorkSound, Published, Unsent, Working, Ahead
<1>10. WorkerSound(w)' BY <1>1, <1>9, GoneFrom DEF Working, Ahead
<1>11. OwnStep(u, n) BY <1>1, <1>2, <1>6 DEF OwnStep, TypeOK
<1>12. n # 0 /\ n # asset[u] BY <1>1, <1>2 DEF WorkSound, Working, Ahead
<1>13. UploadSound(u)' /\ \A k \in 0..MaxAttempts : k # n => Onward(u, k)
  BY <1>2, <1>8, <1>11, <1>12, OwnStepKeeps
<1> QED BY <1>2, <1>4, <1>5, <1>7, <1>10, <1>12, <1>13, WorkerActs

LEMMA RetractKeeps ==
    ASSUME UploadInv, NEW w \in Workers, NEW u, u = wk[w].u, NEW n, n = wk[w].n, Retract(w)
    PROVE  UploadInv'
<1> DEFINE o == <<n, wk[w].part>>
<1>1. /\ wk[w].pc = "RETRACT" /\ Goto(w, "FAILING")
      /\ remote' = [remote EXCEPT ![u] = @ \ {o}] \/ remote' = remote
      /\ UNCHANGED <<up, valid, asset, rx, group, staged, sealed, marked, flying>>
  BY DEF Retract, rows, files
<1>2. /\ TypeOK /\ wk[w] \in WorkerStates /\ u \in Uploads /\ UploadSound(u) /\ WorkSound(w)
      /\ n <= up[u].attempts
  BY <1>1, OfWorker
<1>3. n # 0 /\ n # asset[u] BY <1>1, <1>2 DEF WorkSound, Working
<1>4. /\ wk'[w] \in WorkerStates /\ wk'[w].u = u /\ wk'[w].n = n
      /\ wk' = [wk EXCEPT ![w] = wk'[w]] /\ \A v \in Workers \ {w} : wk'[v] = wk[v]
      /\ wk'[w] = [wk[w] EXCEPT !.pc = "FAILING"]
  BY <1>1, <1>2, GotoRow DEF WorkerStates
<1>5. TypeOK'
  <2>1. remote' \in [Uploads -> SUBSET Objects] BY <1>1, <1>2 DEF TypeOK
  <2>2. wk' \in [Workers -> WorkerStates] BY <1>2, <1>4 DEF TypeOK
  <2> QED BY <1>1, <1>2, <2>1, <2>2 DEF TypeOK
<1>6. remote'[u] = remote[u] \ {o} \/ remote'[u] = remote[u] BY <1>1, <1>2 DEF TypeOK
<1>7. \A t \in Uploads \ {u} : Still(t) BY <1>1, <1>2 DEF Still, TypeOK
<1>8. ObjectsSound(u)'
  <2>1. ObjectsSound(u) BY <1>2 DEF UploadSound
  <2> QED BY <1>1, <1>6, <2>1 DEF ObjectsSound
<1>9. WorkerSound(w)' BY <1>1, <1>2, <1>4, FailingIsSound
<1>10. OwnStep(u, n) BY <1>1, <1>2, <1>6 DEF OwnStep, TypeOK
<1>11. n # 0 /\ n # asset[u] BY <1>1, <1>2 DEF WorkSound, Working, Ahead
<1>12. UploadSound(u)' /\ \A k \in 0..MaxAttempts : k # n => Onward(u, k)
  BY <1>2, <1>8, <1>10, <1>11, OwnStepKeeps
<1> QED BY <1>2, <1>4, <1>5, <1>7, <1>9, <1>11, <1>12, WorkerActs

LEMMA UnmarkKeeps ==
    ASSUME UploadInv, NEW w \in Workers, NEW u, u = wk[w].u, NEW n, n = wk[w].n, Unmark(w)
    PROVE  UploadInv'
<1>1. /\ wk[w].pc = "UNMARK" /\ Goto(w, "FINISH")
      /\ marked' = IF group[u] = "ACTIVE" THEN [marked EXCEPT ![u] = @ \ {n}] ELSE marked
      /\ UNCHANGED <<up, valid, asset, rx, group, staged, sealed, flying, remote>>
  BY DEF Unmark, InGroup, rows, objects
<1>2. /\ TypeOK /\ wk[w] \in WorkerStates /\ u \in Uploads /\ UploadSound(u) /\ WorkSound(w)
      /\ n <= up[u].attempts
  BY <1>1, OfWorker
<1>3. n # 0 /\ \A q \in 1..NParts : <<n, q>> \notin flying[u]
  BY <1>1, <1>2, UploadConstants DEF WorkSound, Published, Unsent, Working, Ahead, WorkerStates
<1>4. /\ wk'[w] \in WorkerStates /\ wk'[w].pc = "FINISH" /\ wk'[w].u = u /\ wk'[w].n = n
      /\ wk'[w].part = wk[w].part
      /\ wk' = [wk EXCEPT ![w] = wk'[w]] /\ \A v \in Workers \ {w} : wk'[v] = wk[v]
  BY <1>1, <1>2, GotoRow DEF WorkerStates
<1>5. TypeOK'
  <2>1. marked' \in [Uploads -> SUBSET Attempts] BY <1>1, <1>2 DEF TypeOK
  <2>2. wk' \in [Workers -> WorkerStates] BY <1>2, <1>4 DEF TypeOK
  <2> QED BY <1>1, <1>2, <2>1, <2>2 DEF TypeOK
<1>6. marked'[u] = marked[u] \ {n} \/ marked'[u] = marked[u] BY <1>1, <1>2 DEF TypeOK
<1>7. \A t \in Uploads \ {u} : Still(t) BY <1>1, <1>2 DEF Still, TypeOK
<1>8. ObjectsSound(u)'
  <2>1. ASSUME NEW o \in flying[u] PROVE o[1] # n
    <3>1. o \in Objects BY <1>2 DEF TypeOK
    <3>2. o = <<o[1], o[2]>> /\ o[2] \in 1..NParts BY <3>1 DEF Objects
    <3> QED BY <1>3, <3>2
  <2>2. ObjectsSound(u) BY <1>2 DEF UploadSound
  <2> QED BY <1>1, <1>6, <2>1, <2>2 DEF ObjectsSound
<1>9. WorkSound(w)'
  BY <1>1, <1>2, <1>4 DEF WorkSound, Published, Unsent, Working, Ahead
<1>10. WorkerSound(w)' BY <1>1, <1>9, GoneFrom DEF Working, Ahead
<1>11. OwnStep(u, n) BY <1>1, <1>2, <1>6 DEF OwnStep, TypeOK
<1>12. n # 0 /\ n # asset[u] BY <1>1, <1>2 DEF WorkSound, Working, Ahead
<1>13. UploadSound(u)' /\ \A k \in 0..MaxAttempts : k # n => Onward(u, k)
  BY <1>2, <1>8, <1>11, <1>12, OwnStepKeeps
<1> QED BY <1>2, <1>4, <1>5, <1>7, <1>10, <1>12, <1>13, WorkerActs

-------------------------------------------------------------------------------
(* Claim, finish and fail *)

\* A claim draws an attempt nobody has used.
LEMMA ClaimKeeps ==
    ASSUME UploadInv, NEW w \in Workers, NEW u \in Uploads, Claim(w, u)
    PROVE  UploadInv'
<1> DEFINE row == [up[u] EXCEPT !.state = "PROCESSING", !.attempts = @ + 1, !.live = TRUE]
           n == up[u].attempts + 1
           claimed == [pc |-> "CLAIMED", u |-> u, n |-> n, part |-> 1]
<1>1. /\ up[u].state \in {"QUEUED", "PROCESSING"} /\ up[u].attempts < MaxAttempts
      /\ up' = [up EXCEPT ![u] = row]
      /\ wk' = [wk EXCEPT ![w] = claimed] \/ wk' = wk
      /\ UNCHANGED <<valid, asset, rx, group, staged, sealed, marked, flying, remote>>
  BY DEF Claim, Claimable, AttemptsLeft, SetUp, files, objects
<1>2. TypeOK /\ up[u] \in UploadRows /\ UploadSound(u) BY DEF UploadInv, TypeOK, UploadSound
<1>3. n \in 1..MaxAttempts BY <1>1, <1>2, UploadConstants DEF UploadRows
<1>4. /\ row \in UploadRows /\ row.state = "PROCESSING" /\ row.attempts = n
      /\ row.aged = up[u].aged /\ row.purged = up[u].purged
  <2>1. row = [up[u] EXCEPT !.state = "PROCESSING", !.attempts = n, !.live = TRUE] BY <1>2
  <2>2. n \in 0..MaxAttempts BY <1>3
  <2> HIDE DEF n
  <2> QED BY <1>2, <2>1, <2>2 DEF UploadRows, UploadStates
<1>5. up'[u] = row BY <1>1, <1>2 DEF TypeOK
<1>6. claimed \in WorkerStates
  <2>1. 1 \in 0..NParts BY UploadConstants
  <2> QED BY <1>3, <2>1 DEF WorkerStates
<1>7. TypeOK'
  <2>1. up' \in [Uploads -> UploadRows] BY <1>1, <1>2, <1>4 DEF TypeOK
  <2>2. wk' \in [Workers -> WorkerStates] BY <1>1, <1>2, <1>6 DEF TypeOK
  <2> QED BY <1>1, <1>2, <2>1, <2>2 DEF TypeOK
<1>8. \A t \in Uploads \ {u} : Still(t) BY <1>1, <1>2 DEF Still, TypeOK
<1>9. /\ ~up[u].aged /\ ~up[u].purged /\ asset[u] = 0 /\ up[u].attempts \in Nat
      /\ rx[u] \notin {"ACCEPTED", "WRITING", "WRITTEN"}
      /\ group[u] = "ACTIVE" /\ staged[u] = "FULL"
  BY <1>1, <1>2 DEF UploadSound, RowSound, BytesSound, AssetSound, Purgeable, Ending, UploadRows
<1> HIDE DEF row
<1>10. UploadSound(u)'
  <2>1. RowSound(u)' /\ BytesSound(u)' /\ AssetSound(u)'
    BY <1>1, <1>4, <1>5, <1>9 DEF RowSound, BytesSound, AssetSound, Before
  <2>2. ObjectsSound(u)'
    <3>1. \A o \in flying[u] \cup remote[u] : o[1] \in Nat BY <1>2 DEF TypeOK, Objects, Attempts
    <3> QED BY <1>1, <1>2, <1>4, <1>5, <1>9, <3>1 DEF UploadSound, ObjectsSound
  <2> QED BY <2>1, <2>2 DEF UploadSound
<1>11. \A k \in 0..MaxAttempts : Onward(u, k)
  BY <1>1, <1>4, <1>5, <1>9 DEF Onward, Purgeable, Gone
<1>12. CASE wk' = [wk EXCEPT ![w] = claimed]
  <2>1. wk'[w] = claimed /\ \A v \in Workers \ {w} : wk'[v] = wk[v] BY <1>2, <1>12 DEF TypeOK
  <2>2. \A q \in 1..NParts : <<n, q>> \notin flying[u] \cup remote[u]
    BY <1>2, <1>9 DEF UploadSound, ObjectsSound
  <2>3. WorkerSound(w)'
    <3>1. wk'[w].pc = "CLAIMED" /\ wk'[w].u = u /\ wk'[w].n = n /\ wk'[w].part = 1 BY <2>1
    <3>2. WorkSound(w)'
      BY <1>1, <1>3, <1>9, <2>2, <3>1 DEF WorkSound, Published, Unsent, Working, Ahead
    <3>3. Placed(w)' BY <1>3, <1>4, <1>5, <3>1 DEF Placed
    <3> QED BY <3>1, <3>2, <3>3 DEF WorkerSound, DoneSound, PurgeSound, Purging
  <2>4. \A v \in Workers : wk[v].u = u => wk[v].n \in 0..MaxAttempts /\ wk[v].n < n
    <3>1. ASSUME NEW v \in Workers, wk[v].u = u PROVE wk[v].n \in 0..MaxAttempts /\ wk[v].n < n
      <4>1. wk[v] \in WorkerStates /\ Placed(v) BY OfWorker
      <4> QED BY <1>9, <3>1, <4>1 DEF WorkerStates, Placed
    <3> QED BY <3>1
  <2>5. Apart' BY <1>3, <2>1, <2>4 DEF UploadInv, Apart
  <2>6. ASSUME NEW v \in Workers \ {w} PROVE wk'[v] = wk[v] /\ (wk[v].u = u => Onward(u, wk[v].n))
    BY <1>11, <2>1, <2>4
  <2> QED BY <1>7, <1>8, <1>10, <2>3, <2>5, <2>6, OneMoves
<1>13. CASE wk' = wk BY <1>7, <1>8, <1>10, <1>11, <1>13, OneChanges
<1> QED BY <1>1, <1>12, <1>13

LEMMA ClaimFailsKeeps ==
    ASSUME UploadInv, NEW w \in Workers, NEW u \in Uploads, ClaimFails(w, u)
    PROVE  UploadInv'
<1>1. /\ up[u].state \in {"QUEUED", "PROCESSING"} /\ SetUp(u, Fail(up[u]))
      /\ UNCHANGED <<valid, asset, rx, files, objects, wk>>
  BY DEF ClaimFails, Claimable
<1>2. rx[u] \in RxStates /\ rx = [rx EXCEPT ![u] = rx[u]] /\ valid \in [Uploads -> BOOLEAN] BY RowOf
<1>3. Fail(up[u]) \in UploadRows /\ Turns(u, Fail(up[u]), rx[u])
  BY <1>1, FailedRow DEF Ended, Terminal
<1> QED BY <1>1, <1>2, <1>3, RowChanges

\* A finish under the worker's own lease records what that worker has published.
LEMMA FinishKeeps ==
    ASSUME UploadInv, NEW w \in Workers, NEW u, u = wk[w].u, NEW n, n = wk[w].n, Finish(w)
    PROVE  UploadInv'
<1> DEFINE row == [up[u] EXCEPT !.state = "READY", !.live = FALSE]
<1>1. /\ wk[w].pc = "FINISH" /\ up[u].state = "PROCESSING" /\ up[u].attempts = n
      /\ asset' = [asset EXCEPT ![u] = n] /\ up' = [up EXCEPT ![u] = row]
      /\ UNCHANGED <<valid, rx, group, staged, sealed, marked, flying, remote>>
  BY DEF Finish, Owned, SetUp, files, objects
<1>2. /\ TypeOK /\ wk[w] \in WorkerStates /\ u \in Uploads /\ UploadSound(u) /\ WorkSound(w)
  BY <1>1, OfWorker
<1>3. up[u] \in UploadRows /\ n \in 0..MaxAttempts BY <1>2 DEF TypeOK, WorkerStates
<1>4. /\ row \in UploadRows /\ row.state = "READY" /\ row.attempts = n
      /\ row.aged = up[u].aged /\ row.purged = up[u].purged
  BY <1>1, <1>3 DEF UploadRows, UploadStates, Terminal
<1>5. up'[u] = row /\ asset'[u] = n BY <1>1, <1>2 DEF TypeOK
<1>6. PICK pc \in {"DONE", "FAILING"} : Goto(w, pc) BY DEF Finish
<1>7. /\ wk'[w] \in WorkerStates /\ wk'[w].pc = pc /\ wk'[w].u = u /\ wk'[w].n = n
      /\ wk' = [wk EXCEPT ![w] = wk'[w]] /\ \A v \in Workers \ {w} : wk'[v] = wk[v]
  BY <1>2, <1>6, GotoRow DEF WorkerStates
<1>8. TypeOK'
  <2>1. up' \in [Uploads -> UploadRows] /\ asset' \in [Uploads -> 0..MaxAttempts]
    BY <1>1, <1>2, <1>3, <1>4 DEF TypeOK
  <2>2. wk' \in [Workers -> WorkerStates] BY <1>2, <1>7 DEF TypeOK
  <2> QED BY <1>1, <1>2, <2>1, <2>2 DEF TypeOK
<1>9. \A t \in Uploads \ {u} : Still(t) BY <1>1, <1>2 DEF Still, TypeOK
<1>10. /\ ~up[u].aged /\ ~up[u].purged /\ group[u] = "ACTIVE" /\ n # 0
       /\ rx[u] \notin {"ACCEPTED", "WRITING", "WRITTEN"}
  BY <1>1, <1>2 DEF UploadSound, RowSound, BytesSound, Purgeable, Ending, WorkSound, Working
<1>11. n \in sealed[u] /\ \A q \in 1..NParts : <<n, q>> \in remote[u]
  BY <1>1, <1>2, <1>10, UploadConstants DEF WorkSound, Published, Working, Ahead
<1> HIDE DEF row
<1>12. UploadSound(u)'
  <2>1. ObjectsSound(u)' BY <1>1, <1>2, <1>4, <1>5 DEF UploadSound, ObjectsSound
  <2>2. RowSound(u)' /\ BytesSound(u)' BY <1>1, <1>4, <1>5, <1>10 DEF RowSound, BytesSound, Before
  <2>3. AssetSound(u)' BY <1>1, <1>4, <1>5, <1>10, <1>11 DEF AssetSound
  <2> QED BY <2>1, <2>2, <2>3 DEF UploadSound
<1>13. \A k \in 0..MaxAttempts : k # n \/ n = 0 => Onward(u, k)
  BY <1>1, <1>3, <1>4, <1>5, <1>10 DEF Onward, Purgeable, Gone
<1>14. WorkerSound(w)'
  BY <1>2, <1>3, <1>4, <1>5, <1>7
  DEF WorkerSound, Placed, WorkSound, DoneSound, PurgeSound, Working, Ahead, Purging
<1> QED BY <1>2, <1>7, <1>8, <1>9, <1>12, <1>13, <1>14, WorkerActs

LEMMA RemoveStagingKeeps ==
    ASSUME UploadInv, NEW w \in Workers, NEW u, u = wk[w].u, RemoveStaging(w)
    PROVE  UploadInv'
<1>1. /\ wk[w].pc = "DONE" /\ staged' = [staged EXCEPT ![u] = "NONE"] /\ Rest(w)
      /\ UNCHANGED <<up, valid, asset, rx, group, sealed, marked, flying, remote>>
  BY DEF RemoveStaging, rows, objects
<1>2. /\ TypeOK /\ u \in Uploads /\ UploadSound(u) /\ up[u].state = "READY"
  BY <1>1, OfWorker DEF DoneSound
<1>3. wk'[w] = Resting /\ wk'[w].n = 0 /\ \A v \in Workers \ {w} : wk'[v] = wk[v]
  BY <1>1, <1>2, RestRow
<1>4. TypeOK' BY <1>1, <1>2, RestingIsTyped DEF TypeOK, Rest
<1>5. staged'[u] = "NONE" BY <1>1, <1>2 DEF TypeOK
<1>6. \A t \in Uploads \ {u} : Still(t) BY <1>1, <1>2 DEF Still, TypeOK
<1>7. UploadSound(u)'
  BY <1>1, <1>2, <1>5
  DEF UploadSound, RowSound, BytesSound, ObjectsSound, AssetSound, Purgeable, Gone, Ending
<1>8. \A k \in 0..MaxAttempts : Onward(u, k)
  <2>1. up[u].attempts \in Nat /\ ~up[u].aged
    BY <1>2 DEF TypeOK, UploadRows, UploadSound, RowSound, Ending
  <2> QED BY <1>1, <2>1 DEF Onward, Purgeable, Gone
<1>9. WorkerSound(w)' BY <1>3, RestingIsSound
<1> QED BY <1>2, <1>3, <1>4, <1>6, <1>7, <1>8, <1>9, WorkerActs

LEMMA FailUploadKeeps ==
    ASSUME UploadInv, NEW w \in Workers, NEW u, u = wk[w].u, NEW n, n = wk[w].n, FailUpload(w)
    PROVE  UploadInv'
<1> DEFINE row == IF up[u].state = "PROCESSING" /\ up[u].attempts = n /\ up[u].live
                  THEN Fail(up[u]) ELSE up[u]
<1>1. /\ wk[w].pc = "FAILING" /\ up' = [up EXCEPT ![u] = row] /\ Rest(w)
      /\ UNCHANGED <<valid, asset, rx, files, objects>>
  BY DEF FailUpload, SetUp
<1>2. TypeOK /\ u \in Uploads BY <1>1, OfWorker
<1>3. row \in UploadRows /\ Turns(u, row, rx[u])
  <2>1. up[u] \in UploadRows /\ RowSound(u) /\ BytesSound(u) BY <1>2, RowOf
  <2>2. CASE up[u].state = "PROCESSING" /\ up[u].attempts = n /\ up[u].live
    BY <1>2, <2>2, FailedRow DEF Ended, Terminal
  <2>3. CASE ~(up[u].state = "PROCESSING" /\ up[u].attempts = n /\ up[u].live)
    BY <2>1, <2>3 DEF Turns, RowSound, BytesSound, Before, Received
  <2> QED BY <2>2, <2>3
<1> HIDE DEF row
<1>4. up'[u] = row /\ rx'[u] = rx[u] BY <1>1, <1>2 DEF TypeOK
<1>5. UploadSound(u)' /\ \A k \in 0..MaxAttempts : Onward(u, k) BY <1>1, <1>2, <1>3, <1>4, RowTurns
<1>6. wk'[w] = Resting /\ wk'[w].n = 0 /\ \A v \in Workers \ {w} : wk'[v] = wk[v]
  BY <1>1, <1>2, RestRow
<1>7. TypeOK' BY <1>1, <1>2, <1>3, RestingIsTyped DEF TypeOK, Rest, files, objects
<1>8. \A t \in Uploads \ {u} : Still(t) BY <1>1, <1>2 DEF Still, TypeOK, files, objects
<1>9. WorkerSound(w)' BY <1>6, RestingIsSound
<1> QED BY <1>2, <1>5, <1>6, <1>7, <1>8, <1>9, WorkerActs

LEMMA ProcessingKeeps ==
    ASSUME UploadInv, NEW w \in Workers, Processing(w)
    PROVE  UploadInv'
<1>1. CASE Heartbeat(w) \/ Answered(w) \/ Check(w) BY <1>1, GoOnKeeps
<1>2. CASE Seal(w) \/ Mark(w) \/ Put(w) \/ Retract(w) \/ Unmark(w)
  BY <1>2, SealKeeps, MarkKeeps, PutKeeps, RetractKeeps, UnmarkKeeps
<1>3. CASE Finish(w) \/ RemoveStaging(w) \/ FailUpload(w)
  BY <1>3, FinishKeeps, RemoveStagingKeeps, FailUploadKeeps
<1>4. CASE StepFails(w) BY <1>4, GiveUpKeeps DEF StepFails
<1> QED BY <1>1, <1>2, <1>3, <1>4 DEF Processing

-------------------------------------------------------------------------------
(* The cleanup *)

LEMMA PurgeAllowedKeeps ==
    ASSUME UploadInv, NEW w \in Workers, NEW u \in Uploads, PurgeAllowed(w, u)
    PROVE  UploadInv'
<1> DEFINE row == [pc |-> "PURGE", u |-> u, n |-> 0, part |-> 0]
<1>1. /\ Purgeable(u) /\ wk' = [wk EXCEPT ![w] = row] /\ UNCHANGED <<rows, rx, files, objects>>
  BY DEF PurgeAllowed
<1>2. TypeOK /\ up[u].attempts \in Nat BY DEF UploadInv, TypeOK, UploadRows
<1>3. row \in WorkerStates
  <2>1. 0 \in 0..MaxAttempts /\ 0 \in 0..NParts BY UploadConstants
  <2> QED BY <2>1 DEF WorkerStates
<1>4. wk'[w] = row BY <1>1, <1>2 DEF TypeOK
<1>5. wk'[w].pc = "PURGE" /\ wk'[w].u = u /\ wk'[w].n = 0 BY <1>4
<1>6. UNCHANGED <<up, asset>> BY <1>1 DEF rows
<1>7. WorkerSound(w)'
  BY <1>1, <1>2, <1>5, <1>6
  DEF WorkerSound, Placed, WorkSound, DoneSound, PurgeSound, Purgeable, Working, Ahead, Purging
<1> QED BY <1>1, <1>3, <1>7, WorkerAlone

\* The renamed group of an upload nobody may process any more holds the markers it had.
LEMMA QuarantineKeeps ==
    ASSUME UploadInv, NEW w \in Workers, NEW u, u = wk[w].u, Quarantine(w)
    PROVE  UploadInv'
<1>1. /\ wk[w].pc = "PURGE"
      /\ group' = [group EXCEPT ![u] = IF @ = "ACTIVE" THEN "TRASH" ELSE @]
      /\ Rest(w) \/ (Goto(w, "QUARANTINED") /\ marked[u] = {})
      /\ UNCHANGED <<up, valid, asset, rx, staged, sealed, marked, flying, remote>>
  BY DEF Quarantine, PublicationUnresolved, rows, objects
<1>2. /\ TypeOK /\ wk[w] \in WorkerStates /\ u \in Uploads /\ UploadSound(u)
      /\ wk[w].n = 0 /\ Purgeable(u) /\ 0 <= up[u].attempts
  BY <1>1, OfWorker DEF PurgeSound, Purging
<1>3. /\ wk'[w] \in WorkerStates /\ wk' = [wk EXCEPT ![w] = wk'[w]] /\ wk'[w].n = 0
      /\ \A v \in Workers \ {w} : wk'[v] = wk[v]
      /\ \/ wk'[w] = Resting
         \/ wk'[w].pc = "QUARANTINED" /\ wk'[w].u = u /\ marked[u] = {}
  <2>1. CASE Rest(w) BY <1>2, <2>1, RestRow, RestingIsTyped DEF Rest
  <2>2. CASE ~Rest(w) BY <1>1, <1>2, <2>2, GotoRow DEF WorkerStates
  <2> QED BY <2>1, <2>2
<1>4. group'[u] # "ACTIVE" /\ (group[u] # "ACTIVE" => group'[u] = group[u]) BY <1>1, <1>2 DEF TypeOK
<1>5. TypeOK' BY <1>1, <1>2, <1>3 DEF TypeOK
<1>6. \A t \in Uploads \ {u} : Still(t) BY <1>1, <1>2 DEF Still, TypeOK
<1>7. up[u].state \in Ending /\ up[u].aged /\ asset[u] = 0 /\ up[u].attempts \in Nat
      /\ rx[u] # "WRITING"
  BY <1>2 DEF Purgeable, Ending, TypeOK, UploadRows, UploadSound, RowSound
<1>8. Gone(u) => Gone(u)' BY <1>1, <1>4 DEF Gone
<1>9. UploadSound(u)'
  <2>1. RowSound(u)' BY <1>1, <1>2, <1>8 DEF UploadSound, RowSound, Purgeable
  <2>2. BytesSound(u)' BY <1>1, <1>2, <1>7 DEF UploadSound, BytesSound, Ending
  <2>3. ObjectsSound(u)' /\ AssetSound(u)'
    BY <1>1, <1>2, <1>7 DEF UploadSound, ObjectsSound, AssetSound
  <2> QED BY <2>1, <2>2, <2>3 DEF UploadSound
<1>10. \A k \in 0..MaxAttempts : Onward(u, k)
  BY <1>1, <1>4, <1>7, <1>8 DEF Onward, Purgeable
<1>11. WorkerSound(w)'
  <2>1. CASE wk'[w] = Resting BY <2>1, RestingIsSound
  <2>2. CASE wk'[w] # Resting
    <3>1. wk'[w].pc = "QUARANTINED" /\ wk'[w].u = u /\ wk'[w].n = 0 /\ marked[u] = {} BY <1>3, <2>2
    <3>2. flying[u] = {} BY <1>2, <3>1 DEF UploadSound, ObjectsSound
    <3> QED BY <1>1, <1>2, <1>4, <3>1, <3>2
         DEF WorkerSound, Placed, WorkSound, DoneSound, PurgeSound, Purgeable, Working, Ahead,
             Purging
  <2> QED BY <2>1, <2>2
<1> QED BY <1>2, <1>3, <1>5, <1>6, <1>9, <1>10, <1>11, WorkerActs

LEMMA DeleteObjectsKeeps ==
    ASSUME UploadInv, NEW w \in Workers, NEW u, u = wk[w].u, DeleteObjects(w)
    PROVE  UploadInv'
<1>1. /\ wk[w].pc = "QUARANTINED" /\ Goto(w, "EMPTIED") /\ remote' = [remote EXCEPT ![u] = {}]
      /\ UNCHANGED <<up, valid, asset, rx, group, staged, sealed, marked, flying>>
  BY DEF DeleteObjects, rows, files
<1>2. /\ TypeOK /\ wk[w] \in WorkerStates /\ u \in Uploads /\ UploadSound(u)
      /\ wk[w].n = 0 /\ Purgeable(u) /\ 0 <= up[u].attempts
      /\ group[u] # "ACTIVE" /\ marked[u] = {} /\ flying[u] = {}
  BY <1>1, OfWorker DEF PurgeSound, Purging
<1>3. /\ wk'[w] \in WorkerStates /\ wk' = [wk EXCEPT ![w] = wk'[w]] /\ wk'[w].n = 0
      /\ wk'[w].u = u /\ wk'[w].pc = "EMPTIED"
      /\ \A v \in Workers \ {w} : wk'[v] = wk[v]
  BY <1>1, <1>2, GotoRow DEF WorkerStates
<1>4. remote'[u] = {} BY <1>1, <1>2 DEF TypeOK
<1>5. TypeOK' BY <1>1, <1>2, <1>3 DEF TypeOK
<1>6. \A t \in Uploads \ {u} : Still(t) BY <1>1, <1>2 DEF Still, TypeOK
<1>7. up[u].aged /\ asset[u] = 0 /\ up[u].attempts \in Nat
  BY <1>2 DEF Purgeable, TypeOK, UploadRows
<1>8. Gone(u) => Gone(u)' BY <1>1, <1>4 DEF Gone
<1>9. UploadSound(u)'
  <2>1. RowSound(u)' BY <1>1, <1>2, <1>8 DEF UploadSound, RowSound, Purgeable
  <2>2. BytesSound(u)' BY <1>1, <1>2 DEF UploadSound, BytesSound
  <2>3. ObjectsSound(u)' /\ AssetSound(u)'
    BY <1>1, <1>2, <1>4, <1>7 DEF UploadSound, ObjectsSound, AssetSound
  <2> QED BY <2>1, <2>2, <2>3 DEF UploadSound
<1>10. \A k \in 0..MaxAttempts : Onward(u, k)
  BY <1>1, <1>4, <1>7, <1>8 DEF Onward, Purgeable
<1>11. WorkerSound(w)'
  BY <1>1, <1>2, <1>3
  DEF WorkerSound, Placed, WorkSound, DoneSound, PurgeSound, Purgeable, Working, Ahead, Purging
<1> QED BY <1>2, <1>3, <1>5, <1>6, <1>9, <1>10, <1>11, WorkerActs

LEMMA RemoveTrashKeeps ==
    ASSUME UploadInv, NEW w \in Workers, NEW u, u = wk[w].u, RemoveTrash(w)
    PROVE  UploadInv'
<1>1. /\ wk[w].pc = "EMPTIED" /\ remote[u] = {} /\ Goto(w, "PURGED")
      /\ group' = [group EXCEPT ![u] = IF @ = "NONE" THEN @ ELSE "REMOVED"]
      /\ staged' = [staged EXCEPT ![u] = "NONE"] /\ sealed' = [sealed EXCEPT ![u] = {}]
      /\ marked' = [marked EXCEPT ![u] = {}]
      /\ UNCHANGED <<up, valid, asset, rx, flying, remote>>
  BY DEF RemoveTrash, rows, objects
<1>2. /\ TypeOK /\ wk[w] \in WorkerStates /\ u \in Uploads /\ UploadSound(u)
      /\ wk[w].n = 0 /\ Purgeable(u) /\ 0 <= up[u].attempts
      /\ group[u] # "ACTIVE" /\ marked[u] = {} /\ flying[u] = {}
  BY <1>1, OfWorker DEF PurgeSound, Purging
<1>3. /\ wk'[w] \in WorkerStates /\ wk' = [wk EXCEPT ![w] = wk'[w]] /\ wk'[w].n = 0
      /\ wk'[w].u = u /\ wk'[w].pc = "PURGED"
      /\ \A v \in Workers \ {w} : wk'[v] = wk[v]
  BY <1>1, <1>2, GotoRow DEF WorkerStates
<1>4. /\ group'[u] \in {"NONE", "REMOVED"} /\ staged'[u] = "NONE"
      /\ sealed'[u] = {} /\ marked'[u] = {}
  BY <1>1, <1>2 DEF TypeOK
<1>5. TypeOK'
  <2>1. group' \in [Uploads -> {"NONE", "ACTIVE", "TRASH", "REMOVED"}] BY <1>1, <1>2 DEF TypeOK
  <2>2. staged' \in [Uploads -> {"NONE", "PARTIAL", "FULL"}] BY <1>1, <1>2 DEF TypeOK
  <2>3. sealed' \in [Uploads -> SUBSET Attempts] BY <1>1, <1>2 DEF TypeOK
  <2>4. marked' \in [Uploads -> SUBSET Attempts] BY <1>1, <1>2 DEF TypeOK
  <2>5. wk' \in [Workers -> WorkerStates] BY <1>2, <1>3 DEF TypeOK
  <2> QED BY <1>1, <1>2, <2>1, <2>2, <2>3, <2>4, <2>5 DEF TypeOK
<1>6. \A t \in Uploads \ {u} : Still(t) BY <1>1, <1>2 DEF Still, TypeOK
<1>7. up[u].state \in Ending /\ up[u].aged /\ asset[u] = 0 /\ up[u].attempts \in Nat
      /\ rx[u] # "WRITING"
  BY <1>2 DEF Purgeable, Ending, TypeOK, UploadRows, UploadSound, RowSound
<1>8. Gone(u)' BY <1>1, <1>2, <1>4 DEF Gone
<1>9. UploadSound(u)'
  <2>1. RowSound(u)' BY <1>1, <1>2, <1>8 DEF UploadSound, RowSound, Purgeable
  <2>2. BytesSound(u)' BY <1>1, <1>2, <1>7 DEF UploadSound, BytesSound, Ending
  <2>3. ObjectsSound(u)' /\ AssetSound(u)'
    BY <1>1, <1>2, <1>7 DEF UploadSound, ObjectsSound, AssetSound
  <2> QED BY <2>1, <2>2, <2>3 DEF UploadSound
<1>10. \A k \in 0..MaxAttempts : Onward(u, k)
  BY <1>1, <1>2, <1>4, <1>7, <1>8 DEF Onward, Purgeable
<1>11. WorkerSound(w)'
  BY <1>1, <1>2, <1>3, <1>8
  DEF WorkerSound, Placed, WorkSound, DoneSound, PurgeSound, Purgeable, Working, Ahead, Purging
<1> QED BY <1>2, <1>3, <1>5, <1>6, <1>9, <1>10, <1>11, WorkerActs

LEMMA MarkPurgedKeeps ==
    ASSUME UploadInv, NEW w \in Workers, NEW u, u = wk[w].u, MarkPurged(w)
    PROVE  UploadInv'
<1> DEFINE row == [up[u] EXCEPT !.purged = TRUE]
<1>1. /\ wk[w].pc = "PURGED" /\ Purgeable(u) /\ up' = [up EXCEPT ![u] = row] /\ Rest(w)
      /\ UNCHANGED <<valid, asset, rx, group, staged, sealed, marked, flying, remote>>
  BY DEF MarkPurged, SetUp, files, objects
<1>2. TypeOK /\ u \in Uploads /\ UploadSound(u) /\ wk[w].n = 0 /\ Gone(u)
  BY <1>1, OfWorker DEF PurgeSound, Purging
<1>3. up[u] \in UploadRows BY <1>2 DEF TypeOK
<1>4. /\ row \in UploadRows /\ row.state = up[u].state /\ row.attempts = up[u].attempts
      /\ row.aged = up[u].aged /\ row.purged = TRUE
  BY <1>3 DEF UploadRows
<1>5. up'[u] = row BY <1>1, <1>2 DEF TypeOK
<1>6. wk'[w] = Resting /\ wk'[w].n = 0 /\ \A v \in Workers \ {w} : wk'[v] = wk[v]
  BY <1>1, <1>2, RestRow
<1>7. TypeOK' BY <1>1, <1>2, <1>4, RestingIsTyped DEF TypeOK, Rest
<1>8. \A t \in Uploads \ {u} : Still(t) BY <1>1, <1>2 DEF Still, TypeOK
<1> HIDE DEF row
<1>9. Purgeable(u)' /\ Gone(u)' BY <1>1, <1>2, <1>4, <1>5 DEF Purgeable, Gone
<1>10. UploadSound(u)'
  <2>1. RowSound(u)' BY <1>1, <1>2, <1>4, <1>5, <1>9 DEF UploadSound, RowSound
  <2>2. BytesSound(u)' BY <1>1, <1>2, <1>4, <1>5 DEF UploadSound, BytesSound
  <2>3. ObjectsSound(u)' BY <1>1, <1>2, <1>4, <1>5 DEF UploadSound, ObjectsSound
  <2>4. AssetSound(u)' BY <1>1, <1>2, <1>4, <1>5 DEF UploadSound, AssetSound
  <2> QED BY <2>1, <2>2, <2>3, <2>4 DEF UploadSound
<1>11. \A k \in 0..MaxAttempts : Onward(u, k)
  <2>1. up[u].attempts \in Nat BY <1>3 DEF UploadRows
  <2> QED BY <1>1, <1>4, <1>5, <1>9, <2>1 DEF Onward
<1>12. WorkerSound(w)' BY <1>6, RestingIsSound
<1> QED BY <1>2, <1>6, <1>7, <1>8, <1>10, <1>11, <1>12, WorkerActs

LEMMA CleanupKeeps ==
    ASSUME UploadInv, NEW w \in Workers, Cleanup(w) \/ Crash(w)
    PROVE  UploadInv'
<1>1. CASE Quarantine(w) \/ DeleteObjects(w) BY <1>1, QuarantineKeeps, DeleteObjectsKeeps
<1>2. CASE RemoveTrash(w) \/ MarkPurged(w) BY <1>2, RemoveTrashKeeps, MarkPurgedKeeps
<1>3. CASE PurgeFails(w) \/ Crash(w) BY <1>3, RestKeeps DEF PurgeFails, Crash
<1> QED BY <1>1, <1>2, <1>3 DEF Cleanup

-------------------------------------------------------------------------------
(* The theorems *)

LEMMA UploadInvInit == Init => UploadInv
<1> SUFFICES ASSUME Init PROVE UploadInv OBVIOUS
<1>1. 0 \in 0..MaxRenewals /\ 0 \in 0..MaxAttempts BY UploadConstants
<1>2. NoRow \in UploadRows BY <1>1 DEF NoRow, UploadRows, UploadStates
<1>3. TypeOK BY <1>1, <1>2, RestingIsTyped DEF Init, TypeOK
<1>4. ASSUME NEW u \in Uploads
      PROVE  RowSound(u) /\ BytesSound(u) /\ ObjectsSound(u) /\ AssetSound(u)
  BY DEF Init, NoRow, RowSound, BytesSound, ObjectsSound, AssetSound
<1>5. ASSUME NEW w \in Workers PROVE Placed(w) /\ WorkSound(w) /\ DoneSound(w) /\ PurgeSound(w)
  BY DEF Init, Resting, Placed, WorkSound, DoneSound, PurgeSound, Working, Ahead, Purging
<1>6. Apart BY DEF Init, Resting, Apart
<1> QED BY <1>3, <1>4, <1>5, <1>6 DEF UploadInv

LEMMA UploadInvNext == UploadInv /\ [Next]_vars => UploadInv'
<1> SUFFICES ASSUME UploadInv, [Next]_vars PROVE UploadInv' OBVIOUS
<1>1. CASE UNCHANGED vars
  <2>1. UNCHANGED <<up, valid, asset, rx, group, staged, sealed, marked, flying, remote, wk>>
    BY <1>1 DEF vars, rows, files, objects
  <2> QED BY <2>1
       DEF UploadInv, TypeOK, RowSound, BytesSound, ObjectsSound, AssetSound, Placed, WorkSound,
           Published, Unsent, DoneSound, PurgeSound, Apart, Purgeable, Gone
<1>2. ASSUME NEW u \in Uploads, Command(u) \/ Surroundings(u) \/ Receiver(u) PROVE UploadInv'
  BY <1>2, UploadMoves
<1>3. ASSUME NEW w \in Workers, Expire(w) \/ Processing(w) \/ Cleanup(w) \/ Crash(w)
      PROVE  UploadInv'
  BY <1>3, ExpireKeeps, ProcessingKeeps, CleanupKeeps
<1>4. ASSUME NEW w \in Workers, NEW u \in Uploads,
             Claim(w, u) \/ ClaimFails(w, u) \/ PurgeAllowed(w, u)
      PROVE  UploadInv'
  BY <1>4, ClaimKeeps, ClaimFailsKeeps, PurgeAllowedKeeps
<1> QED BY <1>1, <1>2, <1>3, <1>4 DEF Next

\* The inductive invariant holds for any number of uploads, workers, objects and attempts.
THEOREM UploadInvariant == Spec => []UploadInv
BY UploadInvInit, UploadInvNext, PTL DEF Spec

\* An asset is complete, and stays so: Media.finish commits only what its own worker has sealed
\* and published, and neither a later claim's worker nor a cleanup touches it.
THEOREM AssetsAreComplete == Spec => []ReadyIsComplete
<1>1. UploadInv => ReadyIsComplete BY DEF UploadInv, AssetSound, ReadyIsComplete
<1> QED BY <1>1, UploadInvariant, PTL

\* markPurged is never a pretence: nothing of the upload is on disk or in the store, and no PUT
\* that could still bring something back is on its way.
THEOREM PurgesAreTrue == Spec => []PurgedIsEmpty
<1>1. UploadInv => PurgedIsEmpty BY DEF UploadInv, RowSound, Gone, PurgedIsEmpty
<1> QED BY <1>1, UploadInvariant, PTL

\* The received bytes are there until the upload ends, for whichever worker claims it next.
THEOREM BytesAreThere == Spec => []ReceivedBytesStay
<1>1. UploadInv => ReceivedBytesStay BY DEF UploadInv, BytesSound, ReceivedBytesStay
<1> QED BY <1>1, UploadInvariant, PTL
====
