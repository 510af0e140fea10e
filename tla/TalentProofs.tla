----------------------------- MODULE TalentProofs -----------------------------
(***************************************************************************)
(* Proofs about four parts of MCTalent, for every value of its constants:   *)
(* recovery (Restoring), intake (Joining), production (Making) and merging  *)
(* (Merging). FactsProofs has those about the professional records.         *)
(***************************************************************************)
EXTENDS MCTalent, Sequences, FiniteSetTheorems, SequenceTheorems, TLAPS

-------------------------------------------------------------------------------
(* Recovery: the invariant, by what it is about *)

Stages == {"NONE", "ANCHORED", "COPIED", "DONE", "RESTORED"}

\* Whoever is between the intent and the marker has written the intent, and no
\* marker is there without one.
IntentsFirst ==
    \A c \in Restoring!Commands :
        /\ request[c].stage # "IDLE" =>
              request[c].id \in 1..MaxRequests /\ Restoring!Written("INTENT", c)
        /\ Restoring!Written("COMMIT", c) => Restoring!Written("INTENT", c)

\* What is under way while there is a backup was asked for after its anchor.
AskedAfterAnchor ==
    \A c \in Restoring!Commands :
        backup.stage # "NONE" /\ request[c].stage # "IDLE" => Restoring!Evidence(c) # {}

\* the entries after the anchor tell of a command that withdraws, or opens, a right
Withdrew(r) == \E c \in Restricts : RightOf[c] = r /\ Restoring!Evidence(c) # {}
Opened(r) == \E c \in Opens : RightOf[c] = r /\ Restoring!Evidence(c) # {}

\* The entries after the anchor account for the rights that the dump gives and the
\* lost database did not, and for those given since it was restored.
Accounted ==
    /\ backup.stage = "DONE" => \A r \in backup.dump.rights \ db.rights : Withdrew(r)
    /\ backup.stage = "RESTORED" =>
          /\ \A r \in backup.dump.rights \ lost : Withdrew(r)
          /\ \A r \in db.rights \ backup.dump.rights : Opened(r)

\* Recovery starts with a restored database, and the approval opens the new epoch.
OpenedOnce ==
    /\ run.state # "NONE" => backup.stage = "RESTORED"
    /\ db.epoch = IF run.state = "APPROVED" THEN Restoring!NewEpoch ELSE Restoring!OldEpoch
    /\ backup.dump.epoch = Restoring!OldEpoch

RecoveryTyped ==
    /\ Restoring!TypeOK
    /\ backup \in [stage : Stages, anchor : Nat, bundle : SUBSET {ph1},
                   dump : Restoring!Databases]

RecoveryInv ==
    /\ RecoveryTyped /\ Restoring!JournalIsReadable
    /\ IntentsFirst /\ AskedAfterAnchor /\ Accounted /\ OpenedOnce

-------------------------------------------------------------------------------
(* The journal *)

\* a journal is only added to
Grows(j, k) == Len(j) <= Len(k) /\ \A i \in DOMAIN j : k[i] = j[i]

USE DEF Restoring!NoRequest, Restoring!OldEpoch, Restoring!NewEpoch, Restoring!Epochs

LEMMA RecoveryFacts ==
    /\ Restricts \cap Opens = {} /\ IsFiniteSet(Restoring!Commands)
    /\ RightOf \in [Restoring!Commands -> Rights] /\ Contained \subseteq Rights
    /\ MaxRequests \in Nat \ {0}
    /\ Restoring!Commands = Restricts \cup Opens
BY TalentConstants
   DEF Restoring!RecoveryConstants, Restoring!Commands, Restoring!IsFiniteSet, IsFiniteSet

\* What was written stays written, and what came after the anchor still does.
LEMMA WrittenStays ==
    ASSUME journal \in Seq(Restoring!Entries), journal' \in Seq(Restoring!Entries),
           Grows(journal, journal'), NEW c
    PROVE  /\ \A kind : Restoring!Written(kind, c) => Restoring!Written(kind, c)'
           /\ backup'.anchor = backup.anchor /\ backup.anchor \in Nat =>
                (Restoring!Evidence(c) # {} => Restoring!Evidence(c)' # {})
<1>1. /\ DOMAIN journal = 1..Len(journal) /\ DOMAIN journal' = 1..Len(journal')
      /\ Len(journal) \in Nat /\ Len(journal') \in Nat /\ Len(journal) <= Len(journal')
      /\ \A i \in DOMAIN journal : i \in DOMAIN journal' /\ journal'[i] = journal[i]
  BY DEF Grows
<1>2. \A kind : Restoring!Written(kind, c) => Restoring!Written(kind, c)'
  BY <1>1 DEF Restoring!Written
<1>3. ASSUME backup'.anchor = backup.anchor, backup.anchor \in Nat,
             NEW i \in Restoring!Evidence(c)
      PROVE  i \in Restoring!Evidence(c)'
  BY <1>1, <1>3 DEF Restoring!Evidence, Restoring!AfterAnchor
<1> QED BY <1>2, <1>3

\* appendRows: an entry is added once, and a marker after its intent.
LEMMA AppendKeeps ==
    ASSUME journal \in Seq(Restoring!Entries), Restoring!JournalIsReadable,
           NEW kind \in {"INTENT", "COMMIT"}, NEW c \in Restoring!Commands,
           NEW r \in 1..MaxRequests,
           kind = "COMMIT" => Restoring!Written("INTENT", c),
           \A d \in Restoring!Commands :
               Restoring!Written("COMMIT", d) => Restoring!Written("INTENT", d),
           Restoring!Append1(kind, c, r)
    PROVE  /\ journal' \in Seq(Restoring!Entries) /\ Grows(journal, journal')
           /\ Restoring!JournalIsReadable'
           /\ Restoring!Written(kind, c)'
           /\ \A k, d : Restoring!Written(k, d)' => Restoring!Written(k, d) \/ (k = kind /\ d = c)
           /\ ~Restoring!Written(kind, c) => journal'[Len(journal) + 1] =
                Restoring!Entry(kind, c, r) /\ Len(journal') = Len(journal) + 1
<1>1. CASE Restoring!Written(kind, c)
  <2>1. journal' = journal BY <1>1 DEF Restoring!Append1, Restoring!Known
  <2> QED BY <1>1, <2>1 DEF Restoring!Written, Restoring!JournalIsReadable, Grows
<1>2. CASE ~Restoring!Written(kind, c)
  <2> DEFINE e == Restoring!Entry(kind, c, r)
  <2>1. e \in Restoring!Entries /\ e.kind = kind /\ e.command = c
    BY DEF Restoring!Entry, Restoring!Entries
  <2> HIDE DEF e
  <2>2. journal' = Append(journal, e)
    BY <1>2 DEF Restoring!Append1, Restoring!Known, e
  <2>3. /\ journal' \in Seq(Restoring!Entries) /\ Len(journal') = Len(journal) + 1
        /\ Len(journal) \in Nat
        /\ DOMAIN journal = 1..Len(journal) /\ DOMAIN journal' = 1..(Len(journal) + 1)
        /\ journal'[Len(journal) + 1] = e
        /\ \A i \in 1..Len(journal) : journal'[i] = journal[i]
    BY <2>1, <2>2
  <2>4. Grows(journal, journal') BY <2>3 DEF Grows
  <2>5. Restoring!Written(kind, c)' BY <2>1, <2>3 DEF Restoring!Written
  <2>6. ASSUME NEW k, NEW d, Restoring!Written(k, d)'
        PROVE  Restoring!Written(k, d) \/ (k = kind /\ d = c)
    BY <2>1, <2>3, <2>6 DEF Restoring!Written
  <2>7. \A i \in DOMAIN journal : ~(journal[i].kind = kind /\ journal[i].command = c)
    BY <1>2 DEF Restoring!Written
  <2>8. kind = "INTENT" =>
            \A i \in DOMAIN journal : ~(journal[i].kind = "COMMIT" /\ journal[i].command = c)
    BY <1>2 DEF Restoring!Written
  <2>9. Restoring!JournalIsReadable'
    <3> SUFFICES ASSUME NEW i \in DOMAIN journal', NEW j \in DOMAIN journal',
                        journal'[i].command = journal'[j].command
                 PROVE  /\ journal'[i].kind = journal'[j].kind => i = j
                        /\ journal'[i].kind = "INTENT" /\ journal'[j].kind = "COMMIT" => i < j
      BY DEF Restoring!JournalIsReadable
    <3>1. CASE i \in DOMAIN journal /\ j \in DOMAIN journal
      BY <2>3, <3>1 DEF Restoring!JournalIsReadable
    <3>2. CASE i = Len(journal) + 1 /\ j \in DOMAIN journal
      BY <2>1, <2>3, <2>7, <2>8, <3>2
    <3>3. CASE j = Len(journal) + 1 /\ i \in DOMAIN journal
      BY <2>1, <2>3, <2>7, <3>3
    <3>4. CASE i = Len(journal) + 1 /\ j = Len(journal) + 1
      BY <2>1, <2>3, <3>4
    <3> QED BY <2>3, <3>1, <3>2, <3>3, <3>4
  <2> QED BY <2>3, <2>4, <2>5, <2>6, <2>9 DEF e
<1> QED BY <1>1, <1>2

\* The audits that are missing are written, each once.
LEMMA AuditsSound ==
    ASSUME Restoring!TypeOK
    PROVE  /\ Restoring!Audits \in Seq(Restoring!Entries)
           /\ \A i \in DOMAIN Restoring!Audits :
                /\ Restoring!Audits[i].kind = "AUDIT"
                /\ ~Restoring!Written("AUDIT", Restoring!Audits[i].command)
           /\ \A i, j \in DOMAIN Restoring!Audits :
                Restoring!Audits[i].command = Restoring!Audits[j].command => i = j
<1> DEFINE miss == Restoring!Missing
           n == Cardinality(miss)
           Orders == [1..n -> miss]
           order == CHOOSE o \in Orders : \A i, j \in DOMAIN o : i # j => o[i] # o[j]
<1>1. miss \subseteq Restoring!Commands /\ IsFiniteSet(miss)
  BY RecoveryFacts, FS_Subset DEF Restoring!Missing
<1> HIDE DEF miss
<1>2. n \in Nat /\ ExistsBijection(1..n, miss)
  BY <1>1, FS_CardinalityType
<1>3. \E o \in Orders : \A i, j \in DOMAIN o : i # j => o[i] # o[j]
  BY <1>2 DEF ExistsBijection, Bijection, Injection, Surjection, IsInjective
<1> HIDE DEF n
<1>4. order \in Orders /\ \A i, j \in DOMAIN order : i # j => order[i] # order[j]
  BY <1>3
<1>5. Restoring!Audits = [i \in DOMAIN order |->
                             Restoring!Entry("AUDIT", order[i], db.by[order[i]])]
  BY DEF Restoring!Audits, miss, n, Restoring!Cardinality, Cardinality
<1> HIDE DEF order
<1>6. DOMAIN order = 1..n /\ \A i \in 1..n : order[i] \in miss
  BY <1>4
<1>7. \A c \in miss : /\ c \in Restoring!Commands /\ db.by[c] \in 1..MaxRequests
                      /\ ~Restoring!Written("AUDIT", c)
  BY <1>1, RecoveryFacts DEF miss, Restoring!Missing, Restoring!TypeOK, Restoring!Databases
<1>8. \A i \in 1..n : /\ Restoring!Audits[i] \in Restoring!Entries
                      /\ Restoring!Audits[i].kind = "AUDIT"
                      /\ Restoring!Audits[i].command = order[i]
  BY <1>5, <1>6, <1>7 DEF Restoring!Entry, Restoring!Entries
<1>9. DOMAIN Restoring!Audits = 1..n BY <1>5, <1>6
<1>10. Restoring!Audits \in [1..n -> Restoring!Entries]
  BY <1>5, <1>6, <1>8
<1>11. Restoring!Audits \in Seq(Restoring!Entries)
  BY <1>2, <1>10
<1> QED BY <1>4, <1>6, <1>7, <1>8, <1>9, <1>11

\* Audits tell nothing of intents and markers.
LEMMA AuditsKeep ==
    ASSUME Restoring!TypeOK, Restoring!JournalIsReadable,
           journal' = journal \o Restoring!Audits
    PROVE  /\ journal' \in Seq(Restoring!Entries) /\ Grows(journal, journal')
           /\ Restoring!JournalIsReadable'
           /\ \A k, d : k # "AUDIT" /\ Restoring!Written(k, d)' => Restoring!Written(k, d)
<1> DEFINE new == Restoring!Audits
<1>1. /\ new \in Seq(Restoring!Entries)
      /\ \A i \in DOMAIN new :
            new[i].kind = "AUDIT" /\ ~Restoring!Written("AUDIT", new[i].command)
      /\ \A i, j \in DOMAIN new : new[i].command = new[j].command => i = j
  BY AuditsSound
<1>2. journal \in Seq(Restoring!Entries) BY DEF Restoring!TypeOK
<1> HIDE DEF new
<1>3. journal' = journal \o new BY DEF new
<1>4. /\ journal' \in Seq(Restoring!Entries)
      /\ Len(journal) \in Nat /\ Len(new) \in Nat /\ Len(journal') = Len(journal) + Len(new)
      /\ DOMAIN journal = 1..Len(journal) /\ DOMAIN new = 1..Len(new)
      /\ DOMAIN journal' = 1..(Len(journal) + Len(new))
      /\ \A i \in 1..Len(journal) : journal'[i] = journal[i]
      /\ \A i \in (Len(journal) + 1)..(Len(journal) + Len(new)) :
            i - Len(journal) \in DOMAIN new /\ journal'[i] = new[i - Len(journal)]
  BY <1>1, <1>2, <1>3
<1>5. \A k, d : k # "AUDIT" /\ Restoring!Written(k, d)' => Restoring!Written(k, d)
  <2> SUFFICES ASSUME NEW k, NEW d, k # "AUDIT", Restoring!Written(k, d)'
               PROVE  Restoring!Written(k, d)
    OBVIOUS
  <2>1. PICK i \in DOMAIN journal' : journal'[i].kind = k /\ journal'[i].command = d
    BY DEF Restoring!Written
  <2>2. i \in 1..Len(journal)
    BY <1>1, <1>4, <2>1
  <2> QED BY <1>4, <2>1, <2>2 DEF Restoring!Written
<1>6. Restoring!JournalIsReadable'
  <2> SUFFICES ASSUME NEW i \in DOMAIN journal', NEW j \in DOMAIN journal',
                      journal'[i].command = journal'[j].command
               PROVE  /\ journal'[i].kind = journal'[j].kind => i = j
                      /\ journal'[i].kind = "INTENT" /\ journal'[j].kind = "COMMIT" => i < j
    BY DEF Restoring!JournalIsReadable
  <2>1. CASE i \in 1..Len(journal) /\ j \in 1..Len(journal)
    BY <1>4, <2>1 DEF Restoring!JournalIsReadable
  <2>2. CASE i \notin 1..Len(journal) /\ j \in 1..Len(journal)
    <3>1. /\ i - Len(journal) \in DOMAIN new /\ journal'[i] = new[i - Len(journal)]
          /\ j \in DOMAIN journal /\ journal'[j] = journal[j]
      BY <1>4, <2>2
    <3>2. journal'[i].kind = "AUDIT" /\ journal'[j].kind # "AUDIT"
      BY <1>1, <3>1 DEF Restoring!Written
    <3> QED BY <3>2
  <2>3. CASE i \in 1..Len(journal) /\ j \notin 1..Len(journal)
    <3>1. /\ j - Len(journal) \in DOMAIN new /\ journal'[j] = new[j - Len(journal)]
          /\ i \in DOMAIN journal /\ journal'[i] = journal[i]
      BY <1>4, <2>3
    <3>2. journal'[j].kind = "AUDIT" /\ journal'[i].kind # "AUDIT"
      BY <1>1, <3>1 DEF Restoring!Written
    <3> QED BY <3>2
  <2>4. CASE i \notin 1..Len(journal) /\ j \notin 1..Len(journal)
    <3>1. /\ i - Len(journal) \in DOMAIN new /\ journal'[i] = new[i - Len(journal)]
          /\ j - Len(journal) \in DOMAIN new /\ journal'[j] = new[j - Len(journal)]
      BY <1>4, <2>4
    <3>2. i - Len(journal) = j - Len(journal) /\ journal'[j].kind = "AUDIT"
      BY <1>1, <3>1
    <3> QED BY <1>4, <3>2
  <2> QED BY <2>1, <2>2, <2>3, <2>4
<1> QED BY <1>4, <1>5, <1>6 DEF Grows

\* A step that leaves the journal and the anchor alone
LEMMA JournalStays ==
    ASSUME journal' = journal, backup'.anchor = backup.anchor
    PROVE  /\ Restoring!JournalIsReadable' <=> Restoring!JournalIsReadable
           /\ \A k, c : Restoring!Written(k, c)' <=> Restoring!Written(k, c)
           /\ \A c : Restoring!Evidence(c)' = Restoring!Evidence(c)
           /\ \A r : (Withdrew(r)' <=> Withdrew(r)) /\ (Opened(r)' <=> Opened(r))
<1>1. /\ Restoring!JournalIsReadable' <=> Restoring!JournalIsReadable
      /\ \A k, c : Restoring!Written(k, c)' <=> Restoring!Written(k, c)
  BY DEF Restoring!JournalIsReadable, Restoring!Written
<1>2. \A c : Restoring!Evidence(c)' = Restoring!Evidence(c)
  BY DEF Restoring!Evidence, Restoring!AfterAnchor
<1> QED BY <1>1, <1>2 DEF Withdrew, Opened

\* What is accounted for stays so when the journal grows.
LEMMA AccountsStay ==
    ASSUME journal \in Seq(Restoring!Entries), journal' \in Seq(Restoring!Entries),
           Grows(journal, journal'), backup'.anchor = backup.anchor, backup.anchor \in Nat
    PROVE  /\ \A r : (Withdrew(r) => Withdrew(r)') /\ (Opened(r) => Opened(r)')
           /\ \A c : Restoring!Evidence(c) # {} => Restoring!Evidence(c)' # {}
BY WrittenStays DEF Withdrew, Opened

-------------------------------------------------------------------------------
(* Commands keep the invariant *)

LEMMA WriteAheadKeeps ==
    ASSUME RecoveryInv, NEW c \in Restoring!Commands, Restoring!WriteAhead(c)
    PROVE  RecoveryInv'
<1> DEFINE r == sent + 1
<1>1. /\ RecoveryTyped /\ Restoring!TypeOK /\ Restoring!JournalIsReadable
      /\ IntentsFirst /\ AskedAfterAnchor /\ Accounted /\ OpenedOnce
  BY DEF RecoveryInv, RecoveryTyped
<1>2. /\ request[c].stage = "IDLE" /\ sent < MaxRequests /\ ~Restoring!LeftOver(c)
      /\ sent' = r /\ request' = [request EXCEPT ![c] = [stage |-> "WRITTEN", id |-> r]]
      /\ Restoring!Append1("INTENT", c, r)
      /\ UNCHANGED <<db, files, backup, run, lost>>
  BY DEF Restoring!WriteAhead
<1>3. r \in 1..MaxRequests /\ backup.anchor \in Nat
  BY <1>1, <1>2, RecoveryFacts DEF Restoring!TypeOK
<1> HIDE DEF r
<1>4. journal \in Seq(Restoring!Entries) BY <1>1 DEF Restoring!TypeOK
<1>5. /\ journal' \in Seq(Restoring!Entries) /\ Grows(journal, journal')
      /\ Restoring!JournalIsReadable' /\ Restoring!Written("INTENT", c)'
      /\ \A k, d : Restoring!Written(k, d)' =>
            Restoring!Written(k, d) \/ (k = "INTENT" /\ d = c)
      /\ ~Restoring!Written("INTENT", c) =>
            /\ journal'[Len(journal) + 1] = Restoring!Entry("INTENT", c, r)
            /\ Len(journal') = Len(journal) + 1
  BY <1>1, <1>2, <1>3, <1>4, AppendKeeps DEF IntentsFirst
<1>6. /\ request' \in [Restoring!Commands -> [stage : {"IDLE", "WRITTEN", "APPLIED"},
                                              id : 0..MaxRequests]]
      /\ request'[c].id \in 1..MaxRequests
      /\ \A d \in Restoring!Commands \ {c} : request'[d] = request[d]
  BY <1>1, <1>2, <1>3 DEF Restoring!TypeOK
<1>7. RecoveryTyped'
  BY <1>1, <1>2, <1>3, <1>5, <1>6 DEF RecoveryTyped, Restoring!TypeOK, Grows
<1>8. IntentsFirst'
  <2>1. \A k, d : Restoring!Written(k, d) => Restoring!Written(k, d)'
    BY <1>4, <1>5, WrittenStays
  <2> QED BY <1>1, <1>5, <1>6, <2>1 DEF IntentsFirst
<1>9. Restoring!Evidence(c)' # {}
  <2>1. CASE Restoring!Written("INTENT", c)
    <3>1. PICK i \in DOMAIN journal : journal[i].kind = "INTENT" /\ journal[i].command = c
      BY <2>1 DEF Restoring!Written
    <3>2. journal[i] = Restoring!Entry("INTENT", c, journal[i].request)
      <4>1. journal[i] \in Restoring!Entries BY <1>4
      <4> QED BY <3>1, <4>1 DEF Restoring!Entries, Restoring!Entry
    <3>3. i \notin 1..backup.anchor BY <1>2, <3>2 DEF Restoring!LeftOver
    <3>4. i \in Restoring!Evidence(c)
      BY <1>3, <1>4, <3>1, <3>3 DEF Restoring!Evidence, Restoring!AfterAnchor
    <3> QED BY <1>2, <1>3, <1>4, <1>5, <3>4, AccountsStay
  <2>2. CASE ~Restoring!Written("INTENT", c)
    <3>1. /\ journal'[Len(journal) + 1].kind = "INTENT"
          /\ journal'[Len(journal) + 1].command = c
          /\ Len(journal) + 1 \in (backup'.anchor + 1)..Len(journal')
      BY <1>1, <1>2, <1>4, <1>5, <2>2 DEF Restoring!Entry, Restoring!TypeOK
    <3> QED BY <3>1 DEF Restoring!Evidence, Restoring!AfterAnchor
  <2> QED BY <2>1, <2>2
<1>10. AskedAfterAnchor'
  BY <1>1, <1>2, <1>3, <1>4, <1>5, <1>6, <1>9, AccountsStay DEF AskedAfterAnchor
<1>11. Accounted'
  BY <1>1, <1>2, <1>3, <1>4, <1>5, AccountsStay DEF Accounted
<1>12. OpenedOnce' BY <1>1, <1>2 DEF OpenedOnce
<1> QED BY <1>5, <1>7, <1>8, <1>10, <1>11, <1>12 DEF RecoveryInv

LEMMA TransactKeeps ==
    ASSUME RecoveryInv, NEW c \in Restoring!Commands, Restoring!Transact(c)
    PROVE  RecoveryInv'
<1>1. /\ RecoveryTyped /\ Restoring!TypeOK /\ Restoring!JournalIsReadable
      /\ IntentsFirst /\ AskedAfterAnchor /\ Accounted /\ OpenedOnce
  BY DEF RecoveryInv, RecoveryTyped
<1>2. /\ request[c].stage = "WRITTEN" /\ request' = [request EXCEPT ![c].stage = "APPLIED"]
      /\ UNCHANGED <<files, journal, sent, backup, run, lost>>
  BY DEF Restoring!Transact
<1>3. /\ request' \in [Restoring!Commands -> [stage : {"IDLE", "WRITTEN", "APPLIED"},
                                              id : 0..MaxRequests]]
      /\ request[c].stage # "IDLE"
      /\ \A d \in Restoring!Commands :
            /\ request'[d].id = request[d].id
            /\ request'[d].stage # "IDLE" <=> request[d].stage # "IDLE"
  BY <1>1, <1>2 DEF Restoring!TypeOK
\* what the transaction does to the database
<1>4. /\ db' \in Restoring!Databases /\ db'.epoch = db.epoch
      /\ \A r \in db.rights \ db'.rights : c \in Restricts /\ RightOf[c] = r
      /\ \A r \in db'.rights \ db.rights : c \in Opens /\ RightOf[c] = r
  <2>1. CASE db.by[c] # 0
    <3>1. db' = db BY <2>1 DEF Restoring!Transact
    <3> QED BY <1>1, <3>1 DEF Restoring!TypeOK
  <2>2. CASE db.by[c] = 0
    <3> DEFINE left == IF c \in Opens THEN db.rights \cup {RightOf[c]}
                       ELSE db.rights \ {RightOf[c]}
               done == [db.by EXCEPT ![c] = request[c].id]
    <3>1. db' = [db EXCEPT !.by = done, !.rights = left]
      BY <1>1, <2>2 DEF Restoring!Transact, Restoring!TypeOK, Restoring!Databases
    <3>2. left \subseteq Rights /\ done \in [Restoring!Commands -> 0..MaxRequests]
      BY <1>1, RecoveryFacts DEF Restoring!TypeOK, Restoring!Databases
    <3>3. /\ \A r \in db.rights \ left : c \in Restricts /\ RightOf[c] = r
          /\ \A r \in left \ db.rights : c \in Opens /\ RightOf[c] = r
      BY RecoveryFacts
    <3> HIDE DEF left, done
    <3>4. db' \in Restoring!Databases /\ db'.epoch = db.epoch /\ db'.rights = left
      BY <1>1, <3>1, <3>2 DEF Restoring!TypeOK, Restoring!Databases
    <3> QED BY <3>3, <3>4
  <2> QED BY <2>1, <2>2
<1>5. RecoveryTyped'
  BY <1>1, <1>2, <1>3, <1>4 DEF RecoveryTyped, Restoring!TypeOK
<1>6. /\ Restoring!JournalIsReadable'
      /\ \A k, d : Restoring!Written(k, d)' <=> Restoring!Written(k, d)
      /\ \A d : Restoring!Evidence(d)' = Restoring!Evidence(d)
      /\ \A r : (Withdrew(r)' <=> Withdrew(r)) /\ (Opened(r)' <=> Opened(r))
  BY <1>1, <1>2, JournalStays
<1>7. IntentsFirst' BY <1>1, <1>3, <1>6 DEF IntentsFirst
<1>8. AskedAfterAnchor' BY <1>1, <1>2, <1>3, <1>6 DEF AskedAfterAnchor
<1>9. Accounted'
  <2>1. backup.stage # "NONE" => Restoring!Evidence(c) # {}
    BY <1>1, <1>3 DEF AskedAfterAnchor
  <2>2. /\ \A r \in db.rights \ db'.rights : backup.stage # "NONE" => Withdrew(r)
        /\ \A r \in db'.rights \ db.rights : backup.stage # "NONE" => Opened(r)
    BY <1>4, <2>1 DEF Withdrew, Opened
  <2> QED BY <1>1, <1>2, <1>6, <2>2 DEF Accounted
<1>10. OpenedOnce' BY <1>1, <1>2, <1>4 DEF OpenedOnce
<1> QED BY <1>5, <1>6, <1>7, <1>8, <1>9, <1>10 DEF RecoveryInv

LEMMA MarkKeeps ==
    ASSUME RecoveryInv, NEW c \in Restoring!Commands, Restoring!Mark(c)
    PROVE  RecoveryInv'
<1>1. /\ RecoveryTyped /\ Restoring!TypeOK /\ Restoring!JournalIsReadable
      /\ IntentsFirst /\ AskedAfterAnchor /\ Accounted /\ OpenedOnce
  BY DEF RecoveryInv, RecoveryTyped
<1>2. /\ request[c].stage = "APPLIED" /\ request' = [request EXCEPT ![c] = Restoring!Idle]
      /\ Restoring!Append1("COMMIT", c, request[c].id)
      /\ UNCHANGED <<db, files, sent, backup, run, lost>>
  BY DEF Restoring!Mark
<1>3. request[c].id \in 1..MaxRequests /\ Restoring!Written("INTENT", c)
  BY <1>1, <1>2 DEF IntentsFirst
<1>4. journal \in Seq(Restoring!Entries) BY <1>1 DEF Restoring!TypeOK
<1>5. /\ journal' \in Seq(Restoring!Entries) /\ Grows(journal, journal')
      /\ Restoring!JournalIsReadable'
      /\ \A k, d : Restoring!Written(k, d)' =>
            Restoring!Written(k, d) \/ (k = "COMMIT" /\ d = c)
  BY <1>1, <1>2, <1>3, <1>4, AppendKeeps DEF IntentsFirst
<1>6. /\ request' \in [Restoring!Commands -> [stage : {"IDLE", "WRITTEN", "APPLIED"},
                                              id : 0..MaxRequests]]
      /\ request'[c].stage = "IDLE"
      /\ \A d \in Restoring!Commands \ {c} : request'[d] = request[d]
  BY <1>1, <1>2, RecoveryFacts DEF Restoring!TypeOK, Restoring!Idle
<1>7. RecoveryTyped'
  BY <1>1, <1>2, <1>5, <1>6 DEF RecoveryTyped, Restoring!TypeOK, Grows
<1>8. IntentsFirst'
  <2>1. \A k, d : Restoring!Written(k, d) => Restoring!Written(k, d)'
    BY <1>4, <1>5, WrittenStays
  <2> QED BY <1>1, <1>3, <1>5, <1>6, <2>1 DEF IntentsFirst
<1>9. backup'.anchor = backup.anchor /\ backup.anchor \in Nat
  BY <1>1, <1>2 DEF RecoveryTyped
<1>10. AskedAfterAnchor'
  BY <1>1, <1>2, <1>4, <1>5, <1>6, <1>9, AccountsStay DEF AskedAfterAnchor
<1>11. Accounted'
  BY <1>1, <1>2, <1>4, <1>5, <1>9, AccountsStay DEF Accounted
<1>12. OpenedOnce' BY <1>1, <1>2 DEF OpenedOnce
<1> QED BY <1>5, <1>7, <1>8, <1>10, <1>11, <1>12 DEF RecoveryInv

\* The commands and the media that leave the journal and the backup alone: those of
\* them that touch the database leave its rights and its epoch alone.
LEMMA OthersKeep ==
    ASSUME RecoveryInv, RecoveryTyped', UNCHANGED <<journal, backup, run, lost>>,
           db'.rights = db.rights, db'.epoch = db.epoch,
           \A c \in Restoring!Commands : request'[c] = request[c] \/ request'[c].stage = "IDLE"
    PROVE  RecoveryInv'
<1>1. /\ Restoring!JournalIsReadable /\ IntentsFirst /\ AskedAfterAnchor /\ Accounted
      /\ OpenedOnce
  BY DEF RecoveryInv
<1>2. /\ Restoring!JournalIsReadable'
      /\ \A k, d : Restoring!Written(k, d)' <=> Restoring!Written(k, d)
      /\ \A d : Restoring!Evidence(d)' = Restoring!Evidence(d)
      /\ \A r : (Withdrew(r)' <=> Withdrew(r)) /\ (Opened(r)' <=> Opened(r))
  BY <1>1, JournalStays
<1>3. IntentsFirst' BY <1>1, <1>2 DEF IntentsFirst
<1>4. AskedAfterAnchor' BY <1>1, <1>2 DEF AskedAfterAnchor
<1>5. Accounted' BY <1>1, <1>2 DEF Accounted
<1>6. OpenedOnce' BY <1>1, <1>2 DEF OpenedOnce
<1> QED BY <1>2, <1>3, <1>4, <1>5, <1>6 DEF RecoveryInv

LEMMA FailKeeps ==
    ASSUME RecoveryInv, NEW c \in Restoring!Commands, Restoring!Fail(c)
    PROVE  RecoveryInv'
<1>1. RecoveryTyped /\ Restoring!TypeOK BY DEF RecoveryInv, RecoveryTyped
<1>2. /\ request' = [request EXCEPT ![c] = Restoring!Idle]
      /\ UNCHANGED <<db, files, journal, sent, backup, run, lost>>
  BY DEF Restoring!Fail
<1>3. /\ request' \in [Restoring!Commands -> [stage : {"IDLE", "WRITTEN", "APPLIED"},
                                              id : 0..MaxRequests]]
      /\ \A d \in Restoring!Commands : request'[d] = request[d] \/ request'[d].stage = "IDLE"
  BY <1>1, <1>2, RecoveryFacts DEF Restoring!TypeOK, Restoring!Idle
<1>4. RecoveryTyped' BY <1>1, <1>2, <1>3 DEF RecoveryTyped, Restoring!TypeOK
<1> QED BY <1>2, <1>3, <1>4, OthersKeep

LEMMA LoginKeeps ==
    ASSUME RecoveryInv, Restoring!Login
    PROVE  RecoveryInv'
<1>1. RecoveryTyped /\ Restoring!TypeOK BY DEF RecoveryInv, RecoveryTyped
<1>2. /\ db' = [db EXCEPT !.session = TRUE]
      /\ UNCHANGED <<files, journal, request, sent, backup, run, lost>>
  BY DEF Restoring!Login
<1>3. db' \in Restoring!Databases /\ db'.rights = db.rights /\ db'.epoch = db.epoch
  BY <1>1, <1>2 DEF Restoring!TypeOK, Restoring!Databases
<1>4. RecoveryTyped' BY <1>1, <1>2, <1>3 DEF RecoveryTyped, Restoring!TypeOK
<1> QED BY <1>2, <1>3, <1>4, OthersKeep

LEMMA AssetChangesKeeps ==
    ASSUME RecoveryInv, NEW a \in {ph1}, Restoring!AssetChanges(a)
    PROVE  RecoveryInv'
<1>1. RecoveryTyped /\ Restoring!TypeOK BY DEF RecoveryInv, RecoveryTyped
<1>2. UNCHANGED <<journal, request, sent, backup, run, lost>>
  BY DEF Restoring!AssetChanges
<1>3. /\ db' \in Restoring!Databases /\ db'.rights = db.rights /\ db'.epoch = db.epoch
      /\ files' \subseteq {ph1}
  <2>1. \A x \in SUBSET {ph1} : LET new == [db EXCEPT !.assets = x] IN
            new \in Restoring!Databases /\ new.rights = db.rights /\ new.epoch = db.epoch
    BY <1>1 DEF Restoring!TypeOK, Restoring!Databases
  <2>2. db.assets \subseteq {ph1} /\ files \subseteq {ph1}
    BY <1>1 DEF Restoring!TypeOK, Restoring!Databases
  <2>3. \/ db' = [db EXCEPT !.assets = db.assets \ {a}] /\ files' = files \ {a}
        \/ db' = [db EXCEPT !.assets = db.assets \cup {a}] /\ files' = files \cup {a}
    BY <1>1 DEF Restoring!AssetChanges, Restoring!TypeOK, Restoring!Databases
  <2>4. /\ files' \subseteq {ph1}
        /\ \E x \in SUBSET {ph1} : db' = [db EXCEPT !.assets = x]
    BY <2>2, <2>3
  <2> QED BY <2>1, <2>4
<1>4. RecoveryTyped' BY <1>1, <1>2, <1>3 DEF RecoveryTyped, Restoring!TypeOK
<1> QED BY <1>2, <1>3, <1>4, OthersKeep

LEMMA RestoreMediaKeeps ==
    ASSUME RecoveryInv, Restoring!RestoreMedia
    PROVE  RecoveryInv'
<1>1. RecoveryTyped /\ Restoring!TypeOK BY DEF RecoveryInv, RecoveryTyped
<1>2. files' = backup.bundle /\ UNCHANGED <<db, journal, request, sent, backup, run, lost>>
  BY DEF Restoring!RestoreMedia
<1>3. RecoveryTyped' BY <1>1, <1>2 DEF RecoveryTyped, Restoring!TypeOK
<1> QED BY <1>2, <1>3, OthersKeep

-------------------------------------------------------------------------------
(* Backup and restoration keep the invariant *)

LEMMA BackupAnchorsKeeps ==
    ASSUME RecoveryInv, Restoring!BackupAnchors
    PROVE  RecoveryInv'
<1>1. /\ RecoveryTyped /\ Restoring!TypeOK /\ Restoring!JournalIsReadable
      /\ IntentsFirst /\ OpenedOnce
  BY DEF RecoveryInv, RecoveryTyped
<1>2. /\ backup.stage = "NONE" /\ \A c \in Restoring!Commands : request[c].stage = "IDLE"
      /\ journal' = journal \o Restoring!Audits
      /\ backup' = [backup EXCEPT !.stage = "ANCHORED", !.anchor = Len(journal')]
      /\ UNCHANGED <<db, files, request, sent, run, lost>>
  BY DEF Restoring!BackupAnchors
<1>3. journal \in Seq(Restoring!Entries) BY <1>1 DEF Restoring!TypeOK
<1>4. /\ journal' \in Seq(Restoring!Entries) /\ Grows(journal, journal')
      /\ Restoring!JournalIsReadable'
      /\ \A d : Restoring!Written("COMMIT", d)' => Restoring!Written("COMMIT", d)
      /\ Len(journal') \in Nat
  BY <1>1, <1>2, AuditsKeep
<1>5. /\ backup' \in [stage : Stages, anchor : Nat, bundle : SUBSET {ph1},
                      dump : Restoring!Databases]
      /\ backup'.stage = "ANCHORED" /\ backup'.anchor = Len(journal')
      /\ backup'.dump = backup.dump
  <2>1. \A n \in Nat : LET b == [backup EXCEPT !.stage = "ANCHORED", !.anchor = n] IN
            /\ b \in [stage : Stages, anchor : Nat, bundle : SUBSET {ph1},
                      dump : Restoring!Databases]
            /\ b.stage = "ANCHORED" /\ b.anchor = n /\ b.dump = backup.dump
    BY <1>1 DEF RecoveryTyped, Stages
  <2> QED BY <1>2, <1>4, <2>1
<1>6. RecoveryTyped'
  BY <1>1, <1>2, <1>4, <1>5 DEF RecoveryTyped, Restoring!TypeOK, Stages
<1>7. IntentsFirst'
  BY <1>1, <1>2, <1>3, <1>4, WrittenStays DEF IntentsFirst
<1>8. AskedAfterAnchor' BY <1>2 DEF AskedAfterAnchor
<1>9. Accounted' BY <1>5 DEF Accounted
<1>10. OpenedOnce' BY <1>1, <1>2, <1>5 DEF OpenedOnce
<1> QED BY <1>4, <1>6, <1>7, <1>8, <1>9, <1>10 DEF RecoveryInv

LEMMA BackupCopiesMediaKeeps ==
    ASSUME RecoveryInv, Restoring!BackupCopiesMedia
    PROVE  RecoveryInv'
<1>1. /\ RecoveryTyped /\ Restoring!TypeOK /\ Restoring!JournalIsReadable
      /\ IntentsFirst /\ AskedAfterAnchor /\ OpenedOnce
  BY DEF RecoveryInv, RecoveryTyped
<1>2. /\ backup.stage = "ANCHORED"
      /\ backup' = [backup EXCEPT !.stage = "COPIED", !.bundle = db.assets]
      /\ UNCHANGED <<db, files, journal, request, sent, run, lost>>
  BY DEF Restoring!BackupCopiesMedia
<1>3. /\ backup' \in [stage : Stages, anchor : Nat, bundle : SUBSET {ph1},
                      dump : Restoring!Databases]
      /\ backup'.stage = "COPIED" /\ backup'.anchor = backup.anchor
      /\ backup'.dump = backup.dump
  <2>1. db.assets \in SUBSET {ph1} BY <1>1 DEF Restoring!TypeOK, Restoring!Databases
  <2> QED BY <1>1, <1>2, <2>1 DEF RecoveryTyped, Stages
<1>4. RecoveryTyped'
  BY <1>1, <1>2, <1>3 DEF RecoveryTyped, Restoring!TypeOK, Stages
<1>5. /\ Restoring!JournalIsReadable'
      /\ \A k, d : Restoring!Written(k, d)' <=> Restoring!Written(k, d)
      /\ \A d : Restoring!Evidence(d)' = Restoring!Evidence(d)
  BY <1>1, <1>2, <1>3, JournalStays
<1>6. IntentsFirst' BY <1>1, <1>2, <1>5 DEF IntentsFirst
<1>7. AskedAfterAnchor' BY <1>1, <1>2, <1>5 DEF AskedAfterAnchor
<1>8. Accounted' BY <1>3 DEF Accounted
<1>9. OpenedOnce' BY <1>1, <1>2, <1>3 DEF OpenedOnce
<1> QED BY <1>4, <1>5, <1>6, <1>7, <1>8, <1>9 DEF RecoveryInv

\* The dump is the database as it is, or the backup is given up.
LEMMA BackupDumpsKeeps ==
    ASSUME RecoveryInv, Restoring!BackupDumps
    PROVE  RecoveryInv'
<1>1. /\ RecoveryTyped /\ Restoring!TypeOK /\ Restoring!JournalIsReadable
      /\ IntentsFirst /\ AskedAfterAnchor /\ OpenedOnce
  BY DEF RecoveryInv, RecoveryTyped
<1>2. /\ backup.stage = "COPIED"
      /\ UNCHANGED <<db, files, journal, request, sent, run, lost>>
  BY DEF Restoring!BackupDumps
<1>3. /\ Restoring!JournalIsReadable'
      /\ \A k, d : Restoring!Written(k, d)' <=> Restoring!Written(k, d)
  BY <1>1, <1>2 DEF Restoring!JournalIsReadable, Restoring!Written
<1>4. IntentsFirst' BY <1>1, <1>2, <1>3 DEF IntentsFirst
<1>5. CASE db.assets = backup.bundle
  <2>1. backup' = [backup EXCEPT !.stage = "DONE", !.dump = db]
    BY <1>5 DEF Restoring!BackupDumps
  <2>2. /\ backup' \in [stage : Stages, anchor : Nat, bundle : SUBSET {ph1},
                        dump : Restoring!Databases]
        /\ backup'.stage = "DONE" /\ backup'.anchor = backup.anchor /\ backup'.dump = db
    BY <1>1, <2>1 DEF RecoveryTyped, Stages, Restoring!TypeOK
  <2>3. RecoveryTyped'
    BY <1>1, <1>2, <2>2 DEF RecoveryTyped, Restoring!TypeOK, Stages
  <2>4. AskedAfterAnchor'
    BY <1>1, <1>2, <2>2, JournalStays DEF AskedAfterAnchor
  <2>5. Accounted' BY <1>2, <2>2 DEF Accounted
  <2>6. OpenedOnce' BY <1>1, <1>2, <2>2 DEF OpenedOnce
  <2> QED BY <1>3, <1>4, <2>3, <2>4, <2>5, <2>6 DEF RecoveryInv
<1>6. CASE db.assets # backup.bundle
  <2>1. backup' = [backup EXCEPT !.stage = "NONE", !.anchor = 0, !.bundle = {}]
    BY <1>6 DEF Restoring!BackupDumps
  <2>2. /\ backup' \in [stage : Stages, anchor : Nat, bundle : SUBSET {ph1},
                        dump : Restoring!Databases]
        /\ backup'.stage = "NONE" /\ backup'.anchor = 0 /\ backup'.dump = backup.dump
    BY <1>1, <2>1 DEF RecoveryTyped, Stages
  <2>3. RecoveryTyped'
    BY <1>1, <1>2, <2>2 DEF RecoveryTyped, Restoring!TypeOK, Stages
  <2>4. AskedAfterAnchor' BY <2>2 DEF AskedAfterAnchor
  <2>5. Accounted' BY <2>2 DEF Accounted
  <2>6. OpenedOnce' BY <1>1, <1>2, <2>2 DEF OpenedOnce
  <2> QED BY <1>3, <1>4, <2>3, <2>4, <2>5, <2>6 DEF RecoveryInv
<1> QED BY <1>5, <1>6

LEMMA DisasterKeeps ==
    ASSUME RecoveryInv, Restoring!Disaster
    PROVE  RecoveryInv'
<1>1. /\ RecoveryTyped /\ Restoring!TypeOK /\ Restoring!JournalIsReadable
      /\ IntentsFirst /\ Accounted /\ OpenedOnce
  BY DEF RecoveryInv, RecoveryTyped
<1>2. /\ backup.stage = "DONE" /\ db' = backup.dump /\ files' = {} /\ lost' = db.rights
      /\ request' = [c \in Restoring!Commands |-> Restoring!Idle]
      /\ backup' = [backup EXCEPT !.stage = "RESTORED"]
      /\ UNCHANGED <<journal, sent, run>>
  BY DEF Restoring!Disaster
<1>3. /\ backup' \in [stage : Stages, anchor : Nat, bundle : SUBSET {ph1},
                      dump : Restoring!Databases]
      /\ backup'.stage = "RESTORED" /\ backup'.anchor = backup.anchor
      /\ backup'.dump = backup.dump
  BY <1>1, <1>2 DEF RecoveryTyped, Stages
<1>4. /\ request' \in [Restoring!Commands -> [stage : {"IDLE", "WRITTEN", "APPLIED"},
                                              id : 0..MaxRequests]]
      /\ \A c \in Restoring!Commands : request'[c].stage = "IDLE"
  BY <1>2, RecoveryFacts DEF Restoring!Idle
<1>5. db.rights \subseteq Rights /\ backup.dump \in Restoring!Databases
  BY <1>1 DEF RecoveryTyped, Restoring!TypeOK, Restoring!Databases
<1>6. RecoveryTyped'
  BY <1>1, <1>2, <1>3, <1>4, <1>5 DEF RecoveryTyped, Restoring!TypeOK, Stages
<1>7. /\ Restoring!JournalIsReadable'
      /\ \A k, d : Restoring!Written(k, d)' <=> Restoring!Written(k, d)
      /\ \A r : Withdrew(r)' <=> Withdrew(r)
  BY <1>1, <1>2, <1>3, JournalStays
<1>8. IntentsFirst' BY <1>1, <1>4, <1>7 DEF IntentsFirst
<1>9. AskedAfterAnchor' BY <1>4 DEF AskedAfterAnchor
<1>10. Accounted' BY <1>1, <1>2, <1>3, <1>7 DEF Accounted
<1>11. OpenedOnce' BY <1>1, <1>2, <1>3 DEF OpenedOnce
<1> QED BY <1>6, <1>7, <1>8, <1>9, <1>10, <1>11 DEF RecoveryInv

\* Isolation, inspection and approval give no right and take some.
LEMMA RunKeeps ==
    ASSUME RecoveryInv, RecoveryTyped', OpenedOnce',
           UNCHANGED <<journal, backup, request, lost>>, db'.rights \subseteq db.rights,
           backup.stage = "RESTORED"
    PROVE  RecoveryInv'
<1>1. Restoring!JournalIsReadable /\ IntentsFirst /\ AskedAfterAnchor /\ Accounted
  BY DEF RecoveryInv
<1>2. /\ Restoring!JournalIsReadable'
      /\ \A k, d : Restoring!Written(k, d)' <=> Restoring!Written(k, d)
      /\ \A d : Restoring!Evidence(d)' = Restoring!Evidence(d)
      /\ \A r : (Withdrew(r)' <=> Withdrew(r)) /\ (Opened(r)' <=> Opened(r))
  BY <1>1, JournalStays
<1>3. IntentsFirst' BY <1>1, <1>2 DEF IntentsFirst
<1>4. AskedAfterAnchor' BY <1>1, <1>2 DEF AskedAfterAnchor
<1>5. Accounted' BY <1>1, <1>2 DEF Accounted
<1> QED BY <1>2, <1>3, <1>4, <1>5 DEF RecoveryInv

LEMMA PrepareKeeps ==
    ASSUME RecoveryInv, Restoring!Prepare
    PROVE  RecoveryInv'
<1>1. RecoveryTyped /\ Restoring!TypeOK /\ OpenedOnce BY DEF RecoveryInv, RecoveryTyped
<1>2. /\ backup.stage = "RESTORED" /\ run.state = "NONE"
      /\ run' = [run EXCEPT !.state = "PREPARED"]
      /\ UNCHANGED <<files, journal, request, sent, backup, lost>>
  BY DEF Restoring!Prepare
<1>3. /\ db' \in Restoring!Databases /\ db'.rights \subseteq db.rights
      /\ db'.epoch = db.epoch
  <2>1. db' = [db EXCEPT !.session = FALSE, !.rights = db.rights \ Contained]
    BY <1>1 DEF Restoring!Prepare, Restoring!TypeOK, Restoring!Databases
  <2> QED BY <1>1, <2>1 DEF Restoring!TypeOK, Restoring!Databases
<1>4. run'.state = "PREPARED" /\ RecoveryTyped'
  BY <1>1, <1>2, <1>3 DEF RecoveryTyped, Restoring!TypeOK
<1>5. OpenedOnce' BY <1>1, <1>2, <1>3, <1>4 DEF OpenedOnce
<1> QED BY <1>2, <1>3, <1>4, <1>5, RunKeeps

LEMMA InspectKeeps ==
    ASSUME RecoveryInv, Restoring!Inspect
    PROVE  RecoveryInv'
<1>1. RecoveryTyped /\ Restoring!TypeOK /\ OpenedOnce BY DEF RecoveryInv, RecoveryTyped
<1>2. /\ run.state \in {"PREPARED", "INSPECTED"}
      /\ run' = [state |-> "INSPECTED", report |-> Restoring!Report]
      /\ UNCHANGED <<db, files, journal, request, sent, backup, lost>>
  BY DEF Restoring!Inspect
<1>3. Restoring!Report \in Restoring!Reports
  BY <1>1 DEF Restoring!Report, Restoring!Reports, Restoring!TypeOK, Restoring!Databases
<1>4. run'.state = "INSPECTED" /\ RecoveryTyped'
  BY <1>1, <1>2, <1>3 DEF RecoveryTyped, Restoring!TypeOK
<1>5. OpenedOnce' BY <1>1, <1>2, <1>4 DEF OpenedOnce
<1> QED BY <1>1, <1>2, <1>4, <1>5, RunKeeps DEF OpenedOnce

LEMMA ApproveKeeps ==
    ASSUME RecoveryInv, Restoring!Approve
    PROVE  RecoveryInv'
<1>1. RecoveryTyped /\ Restoring!TypeOK /\ OpenedOnce BY DEF RecoveryInv, RecoveryTyped
<1>2. /\ run.state = "INSPECTED"
      /\ db' = [db EXCEPT !.epoch = 2] /\ run' = [run EXCEPT !.state = "APPROVED"]
      /\ UNCHANGED <<files, journal, request, sent, backup, lost>>
  BY DEF Restoring!Approve
<1>3. db' \in Restoring!Databases /\ db'.rights = db.rights /\ db'.epoch = 2
  BY <1>1, <1>2 DEF Restoring!TypeOK, Restoring!Databases
<1>4. run'.state = "APPROVED" /\ RecoveryTyped'
  BY <1>1, <1>2, <1>3 DEF RecoveryTyped, Restoring!TypeOK
<1>5. OpenedOnce' BY <1>1, <1>2, <1>3, <1>4 DEF OpenedOnce
<1> QED BY <1>1, <1>2, <1>3, <1>4, <1>5, RunKeeps DEF OpenedOnce

LEMMA SyncKeeps ==
    ASSUME RecoveryInv, Restoring!Sync
    PROVE  RecoveryInv'
<1>1. /\ RecoveryTyped /\ Restoring!TypeOK /\ Restoring!JournalIsReadable
      /\ IntentsFirst /\ AskedAfterAnchor /\ Accounted /\ OpenedOnce
  BY DEF RecoveryInv, RecoveryTyped
<1>2. /\ journal' = journal \o Restoring!Audits
      /\ UNCHANGED <<db, files, request, sent, backup, run, lost>>
  BY DEF Restoring!Sync
<1>3. journal \in Seq(Restoring!Entries) BY <1>1 DEF Restoring!TypeOK
<1>4. /\ journal' \in Seq(Restoring!Entries) /\ Grows(journal, journal')
      /\ Restoring!JournalIsReadable'
      /\ \A d : Restoring!Written("COMMIT", d)' => Restoring!Written("COMMIT", d)
  BY <1>1, <1>2, AuditsKeep
<1>5. RecoveryTyped'
  BY <1>1, <1>2, <1>3, <1>4 DEF RecoveryTyped, Restoring!TypeOK, Grows
<1>6. IntentsFirst'
  BY <1>1, <1>2, <1>3, <1>4, WrittenStays DEF IntentsFirst
<1>7. backup'.anchor = backup.anchor /\ backup.anchor \in Nat
  BY <1>1, <1>2 DEF RecoveryTyped
<1>8. AskedAfterAnchor'
  BY <1>1, <1>2, <1>3, <1>4, <1>7, AccountsStay DEF AskedAfterAnchor
<1>9. Accounted'
  BY <1>1, <1>2, <1>3, <1>4, <1>7, AccountsStay DEF Accounted
<1>10. OpenedOnce' BY <1>1, <1>2 DEF OpenedOnce
<1> QED BY <1>4, <1>5, <1>6, <1>8, <1>9, <1>10 DEF RecoveryInv

-------------------------------------------------------------------------------
(* The recovery part of a behaviour *)

LEMMA RecoveryStarts == Restoring!Init => RecoveryInv
<1> SUFFICES ASSUME Restoring!Init PROVE RecoveryInv
  OBVIOUS
<1>1. /\ files \subseteq {ph1} /\ journal = <<>> /\ sent = 0 /\ lost = Rights
      /\ db = [by |-> [c \in Restoring!Commands |-> 0], rights |-> Rights, session |-> FALSE,
               assets |-> files, epoch |-> 1]
      /\ request = [c \in Restoring!Commands |-> [stage |-> "IDLE", id |-> 0]]
      /\ backup = [stage |-> "NONE", anchor |-> 0, bundle |-> {}, dump |-> db]
      /\ run = [state |-> "NONE", report |-> Restoring!NoReport]
  BY DEF Restoring!Init, Restoring!Idle
<1>2. db \in Restoring!Databases /\ db.epoch = 1
  BY <1>1, RecoveryFacts DEF Restoring!Databases
<1>3. Restoring!NoReport \in Restoring!Reports
  BY DEF Restoring!NoReport, Restoring!Reports
<1>4. request \in [Restoring!Commands -> [stage : {"IDLE", "WRITTEN", "APPLIED"},
                                          id : 0..MaxRequests]]
  BY <1>1, RecoveryFacts
<1>5. journal \in Seq(Restoring!Entries) /\ DOMAIN journal = {} /\ Len(journal) = 0
  BY <1>1
<1>6. RecoveryTyped
  BY <1>1, <1>2, <1>3, <1>4, <1>5, RecoveryFacts DEF RecoveryTyped, Restoring!TypeOK, Stages
<1>7. Restoring!JournalIsReadable BY <1>5 DEF Restoring!JournalIsReadable
<1>8. IntentsFirst
  BY <1>1, <1>5 DEF IntentsFirst, Restoring!Written
<1>9. AskedAfterAnchor /\ Accounted
  BY <1>1 DEF AskedAfterAnchor, Accounted
<1>10. OpenedOnce BY <1>1, <1>2 DEF OpenedOnce
<1> QED BY <1>6, <1>7, <1>8, <1>9, <1>10 DEF RecoveryInv

LEMMA RecoveryKeeps == RecoveryInv /\ Restoring!Next => RecoveryInv'
<1> SUFFICES ASSUME RecoveryInv, Restoring!Next PROVE RecoveryInv'
  OBVIOUS
<1>1. CASE Restoring!BackupAnchors BY <1>1, BackupAnchorsKeeps
<1>2. CASE Restoring!BackupCopiesMedia BY <1>2, BackupCopiesMediaKeeps
<1>3. CASE Restoring!BackupDumps BY <1>3, BackupDumpsKeeps
<1>4. CASE Restoring!Disaster BY <1>4, DisasterKeeps
<1>5. CASE Restoring!RestoreMedia BY <1>5, RestoreMediaKeeps
<1>6. CASE Restoring!Prepare BY <1>6, PrepareKeeps
<1>7. CASE Restoring!Inspect BY <1>7, InspectKeeps
<1>8. CASE Restoring!Approve BY <1>8, ApproveKeeps
<1>9. CASE Restoring!Sync BY <1>9, SyncKeeps
<1>10. CASE Restoring!Login BY <1>10, LoginKeeps
<1>11. ASSUME NEW c \in Restoring!Commands,
              \/ Restoring!WriteAhead(c) \/ Restoring!Transact(c)
              \/ Restoring!Mark(c) \/ Restoring!Fail(c)
       PROVE  RecoveryInv'
  BY <1>11, WriteAheadKeeps, TransactKeeps, MarkKeeps, FailKeeps
<1>12. ASSUME NEW a \in {ph1}, Restoring!AssetChanges(a)
       PROVE  RecoveryInv'
  BY <1>12, AssetChangesKeeps
<1> QED
  BY <1>1, <1>2, <1>3, <1>4, <1>5, <1>6, <1>7, <1>8, <1>9, <1>10, <1>11, <1>12
  DEF Restoring!Next

\* Only the approval opens an epoch.
LEMMA ApprovalIsApprove ==
    ASSUME RecoveryInv, Restoring!Next, Restoring!Approval
    PROVE  Restoring!Approve
<1>1. Restoring!TypeOK /\ OpenedOnce /\ db'.epoch # db.epoch
  BY DEF RecoveryInv, RecoveryTyped, Restoring!Approval
<1>2. ASSUME NEW c \in Restoring!Commands, Restoring!Transact(c) PROVE FALSE
  BY <1>1, <1>2 DEF Restoring!Transact, Restoring!TypeOK, Restoring!Databases
<1>3. ASSUME NEW a \in {ph1}, Restoring!AssetChanges(a) PROVE FALSE
  BY <1>1, <1>3 DEF Restoring!AssetChanges, Restoring!TypeOK, Restoring!Databases
<1>4. ASSUME Restoring!Login \/ Restoring!Prepare PROVE FALSE
  BY <1>1, <1>4
  DEF Restoring!Login, Restoring!Prepare, Restoring!TypeOK, Restoring!Databases
<1>5. ASSUME \/ Restoring!BackupAnchors \/ Restoring!BackupCopiesMedia
             \/ Restoring!BackupDumps \/ Restoring!RestoreMedia
             \/ Restoring!Inspect \/ Restoring!Sync
      PROVE  FALSE
  BY <1>1, <1>5 DEF Restoring!BackupAnchors, Restoring!BackupCopiesMedia,
     Restoring!BackupDumps, Restoring!RestoreMedia, Restoring!Inspect, Restoring!Sync
<1>6. ASSUME NEW c \in Restoring!Commands,
             Restoring!WriteAhead(c) \/ Restoring!Mark(c) \/ Restoring!Fail(c)
      PROVE  FALSE
  BY <1>1, <1>6 DEF Restoring!WriteAhead, Restoring!Mark, Restoring!Fail
<1>7. ASSUME Restoring!Disaster PROVE FALSE
  BY <1>1, <1>7 DEF Restoring!Disaster, OpenedOnce
<1> QED BY <1>2, <1>3, <1>4, <1>5, <1>6, <1>7 DEF Restoring!Next

\* A right in force at the approval that the lost database did not give was withdrawn
\* there or opened here by a command that the entries after the anchor tell of, and
\* the approval lets only those pass that withdraw what isolation withdraws.
LEMMA ApprovalSound ==
    ASSUME RecoveryInv, Restoring!Next
    PROVE  Restoring!GivesNothingBack /\ Restoring!ApprovesAsReviewed
<1> SUFFICES ASSUME Restoring!Approval
             PROVE  db'.rights \subseteq lost /\ Restoring!ApprovesAsReviewed
  BY DEF Restoring!GivesNothingBack, Restoring!ApprovesAsReviewed
<1>1. /\ run.state = "INSPECTED" /\ Restoring!DeltaResolved /\ Restoring!StillAsInspected
      /\ db' = [db EXCEPT !.epoch = 2]
  BY ApprovalIsApprove DEF Restoring!Approve
<1>2. /\ RecoveryTyped /\ Restoring!TypeOK /\ Accounted /\ backup.stage = "RESTORED"
  BY <1>1 DEF RecoveryInv, RecoveryTyped, OpenedOnce
<1>3. db'.rights = db.rights
  BY <1>1, <1>2 DEF Restoring!TypeOK, Restoring!Databases
\* the report was clean and is the same now
<1>4. /\ ~db.session /\ db.rights \cap Contained = {}
      /\ db.assets \subseteq files /\ db.assets = run.report.assets
  BY <1>1, <1>2 DEF Restoring!StillAsInspected, Restoring!Report, Restoring!MediaComplete,
     Restoring!TypeOK, Restoring!Databases
\* whatever the entries after the anchor tell of is contained
<1>5. \A c \in Restoring!Commands :
          Restoring!Evidence(c) # {} => c \in Restricts /\ RightOf[c] \in Contained
  BY <1>1 DEF Restoring!DeltaResolved, Restoring!CommandResolved, Restoring!IsContained
<1>6. ASSUME NEW r \in db.rights, r \notin lost PROVE FALSE
  <2>1. CASE r \in backup.dump.rights
    <3>1. PICK c \in Restricts : RightOf[c] = r /\ Restoring!Evidence(c) # {}
      BY <1>2, <1>6, <2>1 DEF Accounted, Withdrew
    <3> QED BY <1>4, <1>5, <1>6, <3>1, RecoveryFacts
  <2>2. CASE r \notin backup.dump.rights
    <3>1. PICK c \in Opens : RightOf[c] = r /\ Restoring!Evidence(c) # {}
      BY <1>2, <1>6, <2>2 DEF Accounted, Opened
    <3> QED BY <1>5, <3>1, RecoveryFacts
  <2> QED BY <2>1, <2>2
<1> QED BY <1>3, <1>4, <1>6 DEF Restoring!ApprovesAsReviewed

LEMMA RecoveryStutters == RecoveryInv /\ UNCHANGED restoreVars => RecoveryInv'
<1> SUFFICES ASSUME RecoveryInv, UNCHANGED restoreVars PROVE RecoveryInv'
  OBVIOUS
<1>1. RecoveryTyped' /\ OpenedOnce'
  BY DEF RecoveryInv, RecoveryTyped, OpenedOnce, Restoring!TypeOK, restoreVars
<1> QED BY <1>1, OthersKeep DEF restoreVars

-------------------------------------------------------------------------------
(* Intake: the rows and what is said of them *)

MaybePerson == Newcomers \cup {None}
MaybeAccount == Accounts \cup {None}
MaybeClaim == Claims \cup {None}

HumanRows == [state : {"ABSENT", "OPEN", "ARCHIVED", "BLOCKED", "GONE", "ERASED"},
              text : [Fields -> TextValues], epoch : Nat]
InviteRows == [state : {"NONE", "DRAFT", "ACTIVE", "CLAIMED", "EXHAUSTED", "REVOKED"},
               secret : Nat, used : Nat, reserved : Nat, late : BOOLEAN, era : Nat]
ClaimRows == [state : {"NONE", "PENDING", "APPROVED", "REJECTED", "WITHDRAWN", "EXPIRED"},
              acct : MaybeAccount, inv : Invites \cup {None}, person : MaybePerson,
              rel : {"SELF", "AGENT"}, reserved : BOOLEAN, late : BOOLEAN, era : Nat]
GrantRows == [state : {"NONE", "ACTIVE", "REVOKED", "RECOVERY_REVIEW"}, acct : MaybeAccount,
              person : MaybePerson, rel : {"SELF", "AGENT"}, era : Nat]
ItemRows == [text : TextValues, state : {"PENDING", "APPLIED", "REJECTED"},
             base : [text : TextValues \cup {None}, epoch : Nat]]
ItemLists == UNION {[D -> ItemRows] : D \in SUBSET Fields}
SubStates == {"NONE", "DRAFT", "SUBMITTED", "WITHDRAWN", "EXPIRED", "NEEDS_REBASE",
              "APPROVED", "PARTIALLY_APPROVED", "REJECTED"}
SubRows == [state : SubStates, acct : MaybeAccount, person : MaybePerson,
            claim : MaybeClaim, by : MaybeClaim,
            consent : Subs \cup {None}, items : ItemLists, sent : ItemLists,
            late : BOOLEAN, era : Nat]

\* the claims that hold a place of an invitation, and those that were approved
Held(C, i) == {c \in Claims : C[c].reserved /\ C[c].inv = i}
Taken(C, i) == {c \in Claims : C[c].state = "APPROVED" /\ C[c].inv = i}

Freed(C, S, i) == {c \in S : C[c].inv = i}

\* the states of an invitation that nobody was approved with, when it is for a person
Early == {"NONE", "DRAFT", "ACTIVE"}

\* Places are counted as they are held, by claims that are still pending on an invitation
\* to enrol; the one place of an invitation for a person is taken by its approval.
SeatsSound(I, C) ==
    /\ I \in [Invites -> InviteRows] /\ C \in [Claims -> ClaimRows]
    /\ \A c \in Claims :
          /\ C[c].state # "NONE" => C[c].inv \in Invites /\ C[c].acct \in Accounts
          /\ C[c].reserved => C[c].state = "PENDING" /\ Joining!Enrols(C[c].inv)
    /\ \A i \in Invites :
          /\ I[i].reserved = Cardinality(Held(C, i)) /\ I[i].used = Cardinality(Taken(C, i))
          /\ I[i].used + I[i].reserved <= Joining!Places(i)
          /\ ~Joining!Enrols(i) /\ I[i].state \in Early => I[i].used = 0

KeepersSound ==
    /\ active \subseteq Accounts /\ era \in Nat
    /\ human \in [Newcomers -> HumanRows] /\ grant \in [Claims -> GrantRows]
    /\ \A c \in Claims : grant[c].state = "ACTIVE" => grant[c].person \in Newcomers
    /\ Joining!OneKeeper

\* who is not a keeper yet applies with a claim
ClaimKnown(r) == r.state # "NONE" /\ r.person = None => r.claim \in Claims
SubsSound == sub \in [Subs -> SubRows] /\ \A s \in Subs : ClaimKnown(sub[s])

IntakeInv == SeatsSound(inv, claim) /\ KeepersSound /\ SubsSound

LEMMA IntakeFacts ==
    /\ TargetOf \in [Invites -> Newcomers \cup {None}]
    /\ MaxUses \in Nat \ {0} /\ MaxSecret \in Nat /\ MaxEpoch \in Nat
    /\ None \notin Newcomers \cup Invites \cup Claims \cup Subs \cup Accounts
    /\ {i1, i2} \subseteq Invites /\ {p1, p2} \subseteq Newcomers /\ {c1, c2} \subseteq Claims
    /\ {u1, u2} \subseteq Accounts /\ {t1, t2} \subseteq Subs
    /\ {x1, x2} \subseteq TextValues /\ name \in Fields /\ IsFiniteSet(Claims)
    /\ \A S : Joining!Cardinality(S) = Cardinality(S)
<1>1. \A S : Joining!Cardinality(S) = Cardinality(S)
  BY DEF Joining!Cardinality, Cardinality
<1> QED
  BY <1>1, TalentConstants
  DEF Joining!IntakeAssumption, Joining!RoomConstants, Joining!IsFiniteSet, IsFiniteSet

-------------------------------------------------------------------------------
(* Intake: places *)

LEMMA SeatsAreFinite ==
    ASSUME NEW C, NEW i
    PROVE  /\ IsFiniteSet(Held(C, i)) /\ Cardinality(Held(C, i)) \in Nat
           /\ IsFiniteSet(Taken(C, i)) /\ Cardinality(Taken(C, i)) \in Nat
<1>1. Held(C, i) \subseteq Claims /\ Taken(C, i) \subseteq Claims
  BY DEF Held, Taken
<1> QED BY <1>1, IntakeFacts, FS_Subset, FS_CardinalityType

\* Giving places back takes as many off each count.
LEMMA FreedCount ==
    ASSUME NEW C, NEW D, NEW S \in SUBSET Claims, NEW i,
           \A c \in S : C[c].reserved,
           \A c \in Claims : /\ D[c].inv = C[c].inv
                             /\ D[c].reserved <=> C[c].reserved /\ c \notin S
    PROVE  /\ Cardinality(Freed(C, S, i)) \in Nat
           /\ Cardinality(Held(D, i)) = Cardinality(Held(C, i)) - Cardinality(Freed(C, S, i))
<1> DEFINE T == Freed(C, S, i)
<1>1. T \subseteq Held(C, i) /\ Held(D, i) = Held(C, i) \ T
  BY DEF Held, Freed
<1>2. IsFiniteSet(Held(C, i)) /\ Held(C, i) \cap T = T
  BY <1>1, SeatsAreFinite
<1>3. IsFiniteSet(T) /\ Cardinality(T) \in Nat
  BY <1>1, <1>2, FS_Subset, FS_CardinalityType
<1>4. Cardinality(Held(C, i) \ T) = Cardinality(Held(C, i)) - Cardinality(Held(C, i) \cap T)
  BY <1>2, <1>3, FS_Difference
<1> QED BY <1>1, <1>2, <1>3, <1>4

\* the claims D after those in S gave their places back, the rest as they were
RowsFreed(C, D, S) ==
    /\ D \in [Claims -> ClaimRows]
    /\ \A c \in Claims :
          /\ D[c].inv = C[c].inv /\ D[c].acct = C[c].acct
          /\ D[c].reserved = (C[c].reserved /\ c \notin S)
          /\ D[c].state = "APPROVED" <=> C[c].state = "APPROVED"
          /\ D[c].state # "NONE" => C[c].state # "NONE"
          /\ D[c].reserved => D[c].state = "PENDING"

\* and the invitations J that count them
CountsFreed(I, J, C, S) ==
    /\ DOMAIN J = Invites
    /\ \A i \in Invites :
          /\ J[i].used = I[i].used
          /\ J[i].reserved = I[i].reserved - Cardinality(Freed(C, S, i))
          /\ J[i].state \in Early => I[i].state \in Early

LEMMA SeatsFreed ==
    ASSUME NEW I, NEW C, SeatsSound(I, C), NEW J, NEW D, NEW S \in SUBSET Claims,
           \A c \in S : C[c].reserved, RowsFreed(C, D, S), CountsFreed(I, J, C, S)
    PROVE  /\ \A i \in Invites : J[i].reserved \in Nat
           /\ J \in [Invites -> InviteRows] => SeatsSound(J, D)
<1>1. /\ I \in [Invites -> InviteRows]
      /\ \A i \in Invites :
          /\ I[i].reserved = Cardinality(Held(C, i)) /\ I[i].used = Cardinality(Taken(C, i))
          /\ I[i].used + I[i].reserved <= Joining!Places(i)
          /\ ~Joining!Enrols(i) /\ I[i].state \in Early => I[i].used = 0
  BY DEF SeatsSound
<1>2. ASSUME NEW i \in Invites
      PROVE  /\ J[i].reserved \in Nat
             /\ J[i].reserved = Cardinality(Held(D, i)) /\ J[i].used = Cardinality(Taken(D, i))
             /\ J[i].used + J[i].reserved <= Joining!Places(i)
             /\ ~Joining!Enrols(i) /\ J[i].state \in Early => J[i].used = 0
  <2> DEFINE n == Cardinality(Freed(C, S, i))
  <2>1. /\ n \in Nat /\ Cardinality(Held(D, i)) = Cardinality(Held(C, i)) - n
    BY FreedCount DEF RowsFreed
  <2>2. Taken(D, i) = Taken(C, i) BY DEF Taken, RowsFreed
  <2>3. Cardinality(Held(D, i)) \in Nat BY SeatsAreFinite
  <2>4. /\ J[i].used = I[i].used /\ J[i].reserved = I[i].reserved - n
        /\ J[i].state \in Early => I[i].state \in Early
    BY DEF CountsFreed
  <2> HIDE DEF n
  <2>5. I[i].used \in Nat /\ I[i].reserved \in Nat /\ Joining!Places(i) \in Nat
    BY <1>1, IntakeFacts DEF Joining!Places, InviteRows
  <2> QED BY <1>1, <2>1, <2>2, <2>3, <2>4, <2>5
<1>3. \A c \in Claims :
          /\ D[c].state # "NONE" => D[c].inv \in Invites /\ D[c].acct \in Accounts
          /\ D[c].reserved => D[c].state = "PENDING" /\ Joining!Enrols(D[c].inv)
  BY DEF SeatsSound, RowsFreed
<1>4. J \in [Invites -> InviteRows] => SeatsSound(J, D)
  BY <1>2, <1>3 DEF SeatsSound, RowsFreed
<1> QED BY <1>2, <1>4

LEMMA InviteSet ==
    ASSUME NEW I, NEW C, SeatsSound(I, C), NEW i \in Invites, NEW r \in InviteRows,
           r.used = I[i].used, r.reserved = I[i].reserved,
           r.state \in Early => I[i].state \in Early
    PROVE  SeatsSound([I EXCEPT ![i] = r], C)
<1> DEFINE J == [I EXCEPT ![i] = r]
<1>1. I \in [Invites -> InviteRows] BY DEF SeatsSound
<1>2. /\ J \in [Invites -> InviteRows]
      /\ \A k \in Invites : /\ J[k].used = I[k].used /\ J[k].reserved = I[k].reserved
                            /\ J[k].state \in Early => I[k].state \in Early
  BY <1>1
<1> HIDE DEF J
<1>3. SeatsSound(J, C) BY <1>2 DEF SeatsSound
<1> QED BY <1>3 DEF J

\* releaseReservations, on the side of the invitations and as a whole
LEMMA InvitesFreed ==
    ASSUME NEW I \in [Invites -> InviteRows], NEW S
    PROVE  LET J == Joining!FreeInv(I, S)
           IN  /\ CountsFreed(I, J, claim, S)
               /\ (\A i \in Invites : J[i].reserved \in Nat) => J \in [Invites -> InviteRows]
<1> DEFINE J == Joining!FreeInv(I, S)
<1>1. /\ DOMAIN J = Invites
      /\ \A i \in Invites : J[i] = [I[i] EXCEPT !.reserved =
                                       I[i].reserved - Cardinality(Freed(claim, S, i))]
  BY IntakeFacts DEF Joining!FreeInv, Freed, InviteRows
<1>2. J = [i \in Invites |-> J[i]] BY DEF Joining!FreeInv
<1> HIDE DEF J
<1>3. CountsFreed(I, J, claim, S)
  BY <1>1 DEF CountsFreed, InviteRows
<1>4. ASSUME \A i \in Invites : J[i].reserved \in Nat
      PROVE  J \in [Invites -> InviteRows]
  <2> SUFFICES ASSUME NEW i \in Invites PROVE J[i] \in InviteRows
    BY <1>2
  <2> DEFINE n == I[i].reserved - Cardinality(Freed(claim, S, i))
  <2>1. J[i] = [I[i] EXCEPT !.reserved = n] BY <1>1
  <2> HIDE DEF n
  <2> QED BY <1>4, <2>1 DEF InviteRows
<1> QED BY <1>3, <1>4 DEF J

LEMMA PlacesAreFreed ==
    ASSUME NEW I, SeatsSound(I, claim), NEW S \in SUBSET Claims, \A c \in S : claim[c].reserved
    PROVE  SeatsSound(Joining!FreeInv(I, S), Joining!FreeClaims(S))
<1> DEFINE J == Joining!FreeInv(I, S)
           D == Joining!FreeClaims(S)
<1>1. I \in [Invites -> InviteRows] /\ claim \in [Claims -> ClaimRows] BY DEF SeatsSound
<1>2. \A c \in Claims : claim[c].reserved => claim[c].state = "PENDING" BY DEF SeatsSound
<1>3. \A c \in Claims :
          LET row == [claim[c] EXCEPT !.reserved = FALSE]
          IN  /\ row \in ClaimRows /\ row.inv = claim[c].inv /\ row.acct = claim[c].acct
              /\ row.state = claim[c].state /\ row.reserved = FALSE
  BY <1>1 DEF ClaimRows
<1>4. /\ D \in [Claims -> ClaimRows]
      /\ \A c \in Claims : /\ D[c].inv = claim[c].inv /\ D[c].acct = claim[c].acct
                           /\ D[c].state = claim[c].state
                           /\ c \in S => D[c].reserved = FALSE
                           /\ c \notin S => D[c] = claim[c]
  BY <1>1, <1>3 DEF Joining!FreeClaims
<1>5. \A c \in Claims : claim[c].reserved \in BOOLEAN BY <1>1 DEF ClaimRows
<1>6. /\ CountsFreed(I, J, claim, S)
      /\ (\A i \in Invites : J[i].reserved \in Nat) => J \in [Invites -> InviteRows]
  BY <1>1, InvitesFreed
<1> HIDE DEF D, J
<1>7. RowsFreed(claim, D, S)
  BY <1>2, <1>4, <1>5 DEF RowsFreed
<1>8. /\ \A i \in Invites : J[i].reserved \in Nat
      /\ J \in [Invites -> InviteRows] => SeatsSound(J, D)
  BY <1>6, <1>7, SeatsFreed
<1> QED BY <1>6, <1>8 DEF J, D

\* A claim that holds no place, and held none before
LEMMA RowSet ==
    ASSUME NEW I, NEW C, SeatsSound(I, C), NEW c \in Claims, NEW r \in ClaimRows,
           ~C[c].reserved, C[c].state # "APPROVED", ~r.reserved, r.state # "APPROVED",
           r.state # "NONE" => r.inv \in Invites /\ r.acct \in Accounts
    PROVE  SeatsSound(I, [C EXCEPT ![c] = r])
<1> DEFINE D == [C EXCEPT ![c] = r]
<1>1. C \in [Claims -> ClaimRows] BY DEF SeatsSound
<1>2. /\ D \in [Claims -> ClaimRows] /\ D[c] = r
      /\ \A d \in Claims \ {c} : D[d] = C[d]
  BY <1>1
<1> HIDE DEF D
<1>3. \A i : Held(D, i) = Held(C, i) /\ Taken(D, i) = Taken(C, i)
  BY <1>2 DEF Held, Taken
<1>4. SeatsSound(I, D) BY <1>2, <1>3 DEF SeatsSound
<1> QED BY <1>4 DEF D

\* A place is taken by a pending claim that holds none.
LEMMA SeatAdded ==
    ASSUME NEW I, NEW C, SeatsSound(I, C), NEW c \in Claims, NEW r \in ClaimRows,
           NEW i \in Invites,
           ~C[c].reserved, C[c].state # "APPROVED", r.reserved, r.state = "PENDING",
           r.inv = i, r.acct \in Accounts, Joining!Enrols(i),
           I[i].used + I[i].reserved < Joining!Places(i)
    PROVE  SeatsSound([I EXCEPT ![i].reserved = @ + 1], [C EXCEPT ![c] = r])
<1> DEFINE D == [C EXCEPT ![c] = r]
           J == [I EXCEPT ![i].reserved = @ + 1]
<1>1. C \in [Claims -> ClaimRows] /\ I \in [Invites -> InviteRows] BY DEF SeatsSound
<1>2. /\ D \in [Claims -> ClaimRows] /\ D[c] = r
      /\ \A d \in Claims \ {c} : D[d] = C[d]
  BY <1>1
<1>3. /\ J \in [Invites -> InviteRows] /\ J[i].reserved = I[i].reserved + 1
      /\ J[i].used = I[i].used /\ J[i].state = I[i].state
      /\ \A k \in Invites \ {i} : J[k] = I[k]
  <2>1. I[i].reserved + 1 \in Nat BY <1>1 DEF InviteRows
  <2>2. \A n \in Nat : LET row == [I[i] EXCEPT !.reserved = n]
                       IN  /\ row \in InviteRows /\ row.reserved = n
                           /\ row.used = I[i].used /\ row.state = I[i].state
    BY <1>1 DEF InviteRows
  <2>3. J = [I EXCEPT ![i] = [I[i] EXCEPT !.reserved = I[i].reserved + 1]]
    BY <1>1 DEF InviteRows
  <2> HIDE DEF J
  <2> DEFINE n == I[i].reserved + 1
  <2>4. J = [I EXCEPT ![i] = [I[i] EXCEPT !.reserved = n]] /\ n \in Nat BY <2>1, <2>3
  <2> HIDE DEF n
  <2>5. /\ J \in [Invites -> InviteRows] /\ J[i].reserved = n
        /\ J[i].used = I[i].used /\ J[i].state = I[i].state
        /\ \A k \in Invites \ {i} : J[k] = I[k]
    BY <1>1, <2>2, <2>4
  <2> QED BY <2>5 DEF n
<1> HIDE DEF D, J
<1>4. /\ Held(D, i) = Held(C, i) \cup {c} /\ c \notin Held(C, i)
      /\ \A k \in Invites \ {i} : Held(D, k) = Held(C, k)
      /\ \A k : Taken(D, k) = Taken(C, k)
  BY <1>2 DEF Held, Taken
<1>5. Cardinality(Held(D, i)) = Cardinality(Held(C, i)) + 1
  BY <1>4, SeatsAreFinite, FS_AddElement
<1>6. /\ I[i].used \in Nat /\ I[i].reserved \in Nat /\ Joining!Places(i) \in Nat
  BY <1>1, IntakeFacts DEF Joining!Places, InviteRows
<1>7. \A k \in Invites :
          /\ J[k].reserved = Cardinality(Held(D, k)) /\ J[k].used = Cardinality(Taken(D, k))
          /\ J[k].used + J[k].reserved <= Joining!Places(k)
          /\ ~Joining!Enrols(k) /\ J[k].state \in Early => J[k].used = 0
  <2> SUFFICES ASSUME NEW k \in Invites
               PROVE  /\ J[k].reserved = Cardinality(Held(D, k))
                      /\ J[k].used = Cardinality(Taken(D, k))
                      /\ J[k].used + J[k].reserved <= Joining!Places(k)
                      /\ ~Joining!Enrols(k) /\ J[k].state \in Early => J[k].used = 0
    OBVIOUS
  <2>1. CASE k = i
    <3>1. I[i].reserved = Cardinality(Held(C, i)) /\ I[i].used = Cardinality(Taken(C, i))
      BY DEF SeatsSound
    <3>2. J[i].reserved = Cardinality(Held(D, i)) /\ J[i].used = Cardinality(Taken(D, i))
      BY <1>3, <1>4, <1>5, <3>1
    <3>3. J[i].used + J[i].reserved <= Joining!Places(i)
      BY <1>3, <1>6
    <3> QED BY <2>1, <3>2, <3>3
  <2>2. CASE k # i BY <1>3, <1>4, <2>2 DEF SeatsSound
  <2> QED BY <2>1, <2>2
<1>8. SeatsSound(J, D)
  BY <1>2, <1>3, <1>7 DEF SeatsSound
<1> QED BY <1>8 DEF J, D

\* A claim that holds no place is approved and takes one.
LEMMA SeatTaken ==
    ASSUME NEW I, NEW C, SeatsSound(I, C), NEW c \in Claims, NEW r \in ClaimRows,
           NEW i \in Invites, NEW q \in InviteRows,
           ~C[c].reserved, C[c].state # "APPROVED", ~r.reserved, r.state = "APPROVED",
           r.inv = i, r.acct \in Accounts,
           q.used = I[i].used + 1, q.reserved = I[i].reserved,
           q.used + q.reserved <= Joining!Places(i),
           ~Joining!Enrols(i) => q.state \notin Early
    PROVE  SeatsSound([I EXCEPT ![i] = q], [C EXCEPT ![c] = r])
<1> DEFINE D == [C EXCEPT ![c] = r]
           J == [I EXCEPT ![i] = q]
<1>1. C \in [Claims -> ClaimRows] /\ I \in [Invites -> InviteRows] BY DEF SeatsSound
<1>2. /\ D \in [Claims -> ClaimRows] /\ D[c] = r
      /\ \A d \in Claims \ {c} : D[d] = C[d]
  BY <1>1
<1>3. /\ J \in [Invites -> InviteRows] /\ J[i] = q
      /\ \A k \in Invites \ {i} : J[k] = I[k]
  BY <1>1
<1> HIDE DEF D, J
<1>4. /\ Taken(D, i) = Taken(C, i) \cup {c} /\ c \notin Taken(C, i)
      /\ \A k \in Invites \ {i} : Taken(D, k) = Taken(C, k)
      /\ \A k : Held(D, k) = Held(C, k)
  BY <1>2 DEF Held, Taken
<1>5. Cardinality(Taken(D, i)) = Cardinality(Taken(C, i)) + 1
  BY <1>4, SeatsAreFinite, FS_AddElement
<1>6. \A k \in Invites :
          /\ J[k].reserved = Cardinality(Held(D, k)) /\ J[k].used = Cardinality(Taken(D, k))
          /\ J[k].used + J[k].reserved <= Joining!Places(k)
          /\ ~Joining!Enrols(k) /\ J[k].state \in Early => J[k].used = 0
  <2> SUFFICES ASSUME NEW k \in Invites
               PROVE  /\ J[k].reserved = Cardinality(Held(D, k))
                      /\ J[k].used = Cardinality(Taken(D, k))
                      /\ J[k].used + J[k].reserved <= Joining!Places(k)
                      /\ ~Joining!Enrols(k) /\ J[k].state \in Early => J[k].used = 0
    OBVIOUS
  <2>1. CASE k = i BY <1>3, <1>4, <1>5, <2>1 DEF SeatsSound
  <2>2. CASE k # i BY <1>3, <1>4, <2>2 DEF SeatsSound
  <2> QED BY <2>1, <2>2
<1>7. SeatsSound(J, D)
  BY <1>2, <1>3, <1>6 DEF SeatsSound
<1> QED BY <1>7 DEF J, D

\* A pending claim gives up the place it holds, if it holds one.
LEMMA SeatLeft ==
    ASSUME SeatsSound(inv, claim), NEW c \in Claims, claim[c].state = "PENDING",
           NEW n, n = IF claim[c].reserved THEN 1 ELSE 0
    PROVE  LET i == claim[c].inv
               J == [inv EXCEPT ![i] = [inv[i] EXCEPT !.reserved = inv[i].reserved - n]]
               D == [claim EXCEPT ![c] = [claim[c] EXCEPT !.reserved = FALSE]]
           IN  i \in Invites /\ inv[i].reserved - n \in Nat /\ SeatsSound(J, D)
<1> DEFINE i == claim[c].inv
           left == [inv[i] EXCEPT !.reserved = inv[i].reserved - n]
           row == [claim[c] EXCEPT !.reserved = FALSE]
           J == [inv EXCEPT ![i] = left]
           D == [claim EXCEPT ![c] = row]
           S == IF claim[c].reserved THEN {c} ELSE {}
<1>1. /\ claim \in [Claims -> ClaimRows] /\ inv \in [Invites -> InviteRows] /\ i \in Invites
      /\ \A d \in Claims : claim[d].reserved => claim[d].state = "PENDING"
  BY DEF SeatsSound
<1>2. /\ row \in ClaimRows /\ row.reserved = FALSE /\ row.inv = i /\ row.state = "PENDING"
      /\ row.acct = claim[c].acct
  BY <1>1 DEF ClaimRows
<1>3. left.reserved = inv[i].reserved - n /\ left.used = inv[i].used
      /\ left.state = inv[i].state
  BY <1>1 DEF InviteRows
<1> HIDE DEF row, left
<1>4. /\ D \in [Claims -> ClaimRows] /\ D[c] = row
      /\ \A d \in Claims \ {c} : D[d] = claim[d]
  BY <1>1, <1>2
<1>5. /\ DOMAIN J = Invites /\ J[i] = left
      /\ \A k \in Invites \ {i} : J[k] = inv[k]
  BY <1>1
<1>6. S \in SUBSET Claims /\ \A d \in S : claim[d].reserved
  OBVIOUS
<1>7. RowsFreed(claim, D, S)
  <2>1. \A d \in Claims : claim[d].reserved \in BOOLEAN BY <1>1 DEF ClaimRows
  <2>2. D[c].reserved = (claim[c].reserved /\ c \notin S) BY <1>2, <1>4
  <2>3. \A d \in Claims \ {c} : d \notin S OBVIOUS
  <2> HIDE DEF D, S
  <2> QED BY <1>1, <1>2, <1>4, <2>1, <2>2, <2>3 DEF RowsFreed
<1>8. /\ Cardinality(Freed(claim, S, i)) = n
      /\ \A k \in Invites \ {i} : Cardinality(Freed(claim, S, k)) = 0
  <2>1. Freed(claim, S, i) = S /\ \A k \in Invites \ {i} : Freed(claim, S, k) = {}
    BY DEF Freed
  <2>2. Cardinality(S) = n
    BY FS_EmptySet, FS_Singleton
  <2> QED BY <2>1, <2>2, FS_EmptySet
<1> HIDE DEF J, D, S, i
<1>9. CountsFreed(inv, J, claim, S)
  <2>1. \A k \in Invites : inv[k].reserved \in Nat BY <1>1 DEF InviteRows
  <2> QED BY <1>1, <1>3, <1>5, <1>8, <2>1 DEF CountsFreed
<1>10. /\ \A k \in Invites : J[k].reserved \in Nat
       /\ J \in [Invites -> InviteRows] => SeatsSound(J, D)
  BY <1>6, <1>7, <1>9, SeatsFreed
<1>11. inv[i].reserved - n \in Nat BY <1>1, <1>3, <1>5, <1>10
<1>12. left \in InviteRows
  <2> DEFINE m == inv[i].reserved - n
  <2>1. left = [inv[i] EXCEPT !.reserved = m] BY DEF left
  <2>2. m \in Nat BY <1>11
  <2> HIDE DEF m
  <2> QED BY <1>1, <2>1, <2>2 DEF InviteRows
<1>13. J \in [Invites -> InviteRows] BY <1>1, <1>12 DEF J
<1> QED BY <1>1, <1>10, <1>11, <1>13 DEF J, D, i, row, left

-------------------------------------------------------------------------------
(* Intake: keepers *)

\* No grant comes in, and those that stay keep their account, their person and the epoch.
LEMMA KeepersFewer ==
    ASSUME KeepersSound, active' \subseteq Accounts, era' \in Nat,
           human' \in [Newcomers -> HumanRows], grant' \in [Claims -> GrantRows],
           \A c \in Claims : grant'[c].state = "ACTIVE" =>
               /\ grant'[c] = grant[c] /\ grant[c].acct \in active' /\ grant[c].era = era'
               /\ human'[grant[c].person].state \notin {"ABSENT", "GONE"}
    PROVE  KeepersSound'
<1>1. \A c \in Claims : grant'[c].state = "ACTIVE" => grant'[c].person \in Newcomers
  BY DEF KeepersSound
<1>2. Joining!OneKeeper'
  BY DEF KeepersSound, Joining!OneKeeper
<1> QED BY <1>1, <1>2 DEF KeepersSound

LEMMA KeeperAdded ==
    ASSUME KeepersSound, UNCHANGED <<active, era>>, human' \in [Newcomers -> HumanRows],
           \A p \in Newcomers : human[p].state \notin {"ABSENT", "GONE"} =>
                                    human'[p].state \notin {"ABSENT", "GONE"},
           NEW c \in Claims, NEW r \in GrantRows, grant' = [grant EXCEPT ![c] = r],
           r.state = "ACTIVE", r.acct \in active, r.era = era, r.person \in Newcomers,
           human'[r.person].state \notin {"ABSENT", "GONE"},
           r.rel = "SELF" => ~Joining!SelfBound(r.acct, r.person)
    PROVE  KeepersSound'
<1>1. /\ grant \in [Claims -> GrantRows] /\ active' \subseteq Accounts /\ era' \in Nat
      /\ \A d \in Claims : grant[d].state = "ACTIVE" => grant[d].person \in Newcomers
      /\ Joining!OneKeeper
  BY DEF KeepersSound
<1>2. /\ grant' \in [Claims -> GrantRows] /\ grant'[c] = r
      /\ \A d \in Claims \ {c} : grant'[d] = grant[d]
  BY <1>1
<1>3. \A d \in Claims : grant'[d].state = "ACTIVE" => grant'[d].person \in Newcomers
  BY <1>1, <1>2
<1>4. Joining!OneKeeper'
  <2> SUFFICES ASSUME NEW d \in Claims, grant'[d].state = "ACTIVE"
               PROVE  /\ grant'[d].acct \in active' /\ grant'[d].era = era'
                      /\ human'[grant'[d].person].state \notin {"ABSENT", "GONE"}
                      /\ grant'[d].rel = "SELF" => \A e \in Claims \ {d} :
                            grant'[e].state = "ACTIVE" /\ grant'[e].rel = "SELF" =>
                                /\ grant'[e].acct # grant'[d].acct
                                /\ grant'[e].person # grant'[d].person
    BY DEF Joining!OneKeeper
  <2>1. r.rel = "SELF" => \A e \in Claims : grant[e].state = "ACTIVE" /\ grant[e].rel = "SELF" =>
                              grant[e].acct # r.acct /\ grant[e].person # r.person
    BY DEF Joining!SelfBound
  <2>2. CASE d = c BY <1>2, <2>1, <2>2
  <2>3. CASE d # c BY <1>1, <1>2, <2>1, <2>3 DEF Joining!OneKeeper
  <2> QED BY <2>2, <2>3
<1> QED BY <1>1, <1>2, <1>3, <1>4 DEF KeepersSound

-------------------------------------------------------------------------------
(* Intake: items and submissions *)

LEMMA NoItems == << >> \in ItemLists
<1>1. << >> \in [{} -> ItemRows] OBVIOUS
<1> QED BY <1>1 DEF ItemLists

\* texts for some of the fields
TextLists == UNION {[D -> TextValues] : D \in SUBSET Fields}

LEMMA TextListsAre ==
    ASSUME NEW t \in TextLists
    PROVE  DOMAIN t \subseteq Fields /\ \A f \in DOMAIN t : t[f] \in TextValues
<1>1. PICK D \in SUBSET Fields : t \in [D -> TextValues] BY DEF TextLists
<1> QED BY <1>1

LEMMA ItemListsAre ==
    ASSUME NEW t \in ItemLists
    PROVE  DOMAIN t \subseteq Fields /\ \A f \in DOMAIN t : t[f] \in ItemRows
<1>1. PICK D \in SUBSET Fields : t \in [D -> ItemRows] BY DEF ItemLists
<1> QED BY <1>1

LEMMA ItemsTyped ==
    ASSUME human \in [Newcomers -> HumanRows], NEW p \in MaybePerson, NEW old \in ItemLists,
           NEW t \in TextLists
    PROVE  Joining!Items(p, old, t) \in ItemLists
<1>1. DOMAIN t \subseteq Fields /\ \A f \in DOMAIN t : t[f] \in TextValues BY TextListsAre
<1>2. \A f \in DOMAIN old : old[f].base \in [text : TextValues \cup {None}, epoch : Nat]
  BY ItemListsAre DEF ItemRows
<1>3. Joining!NoBase \in [text : TextValues \cup {None}, epoch : Nat]
  BY DEF Joining!NoBase
<1>4. \A f \in Fields : p # None => [text |-> human[p].text[f], epoch |-> human[p].epoch]
          \in [text : TextValues \cup {None}, epoch : Nat]
  BY DEF MaybePerson, HumanRows
<1> DEFINE Base(f) == IF f \in DOMAIN old THEN old[f].base
                      ELSE IF p = None THEN Joining!NoBase
                      ELSE [text |-> human[p].text[f], epoch |-> human[p].epoch]
<1>5. \A f \in DOMAIN t : Base(f) \in [text : TextValues \cup {None}, epoch : Nat]
  BY <1>1, <1>2, <1>3, <1>4
<1>6. Joining!Items(p, old, t) = [f \in DOMAIN t |->
          [text |-> t[f], state |-> "PENDING", base |-> Base(f)]]
  BY DEF Joining!Items
<1> HIDE DEF Base
<1>7. Joining!Items(p, old, t) \in [DOMAIN t -> ItemRows]
  BY <1>1, <1>5, <1>6 DEF ItemRows
<1> QED BY <1>1, <1>7 DEF ItemLists

-------------------------------------------------------------------------------
(* Intake: the commands on invitations and claims keep the invariant *)

\* Only a review approves a submission.
NoneApproved ==
    \A s \in Subs : sub'[s].state \in {"APPROVED", "PARTIALLY_APPROVED"} =>
                        sub[s].state = sub'[s].state

LEMMA SeatsStep ==
    ASSUME IntakeInv, SeatsSound(inv', claim'), UNCHANGED <<active, human, grant, sub, era>>
    PROVE  IntakeInv' /\ NoneApproved
<1>1. KeepersSound' BY DEF IntakeInv, KeepersSound, Joining!OneKeeper
<1> QED BY <1>1 DEF IntakeInv, SubsSound, NoneApproved

LEMMA KeepersStep ==
    ASSUME IntakeInv, KeepersSound', UNCHANGED <<inv, claim, sub>>
    PROVE  IntakeInv' /\ NoneApproved
BY DEF IntakeInv, SubsSound, NoneApproved

LEMMA SubsStep ==
    ASSUME IntakeInv, SubsSound',
           UNCHANGED <<active, human, inv, claim, grant, era>>
    PROVE  IntakeInv'
<1>1. KeepersSound' BY DEF IntakeInv, KeepersSound, Joining!OneKeeper
<1> QED BY <1>1 DEF IntakeInv, SubsSound

LEMMA CreateInvitationKeeps ==
    ASSUME IntakeInv, NEW i \in Invites, Joining!CreateInvitation(i)
    PROVE  IntakeInv' /\ NoneApproved
<1>1. /\ SeatsSound(inv, claim) /\ inv \in [Invites -> InviteRows] /\ era \in Nat
  BY DEF IntakeInv, SeatsSound, KeepersSound
<1> DEFINE r == [inv[i] EXCEPT !.state = "DRAFT", !.era = era]
<1>2. /\ inv[i] = Joining!NoInv /\ inv' = [inv EXCEPT ![i] = r]
      /\ UNCHANGED <<active, human, ctx, claim, grant, sub, consent, era>>
  BY <1>1 DEF Joining!CreateInvitation, InviteRows
<1>3. r \in InviteRows /\ r.used = inv[i].used /\ r.reserved = inv[i].reserved
  BY <1>1 DEF InviteRows
<1>4. SeatsSound([inv EXCEPT ![i] = r], claim)
  <2>1. inv[i].state \in Early BY <1>2 DEF Early, Joining!NoInv
  <2> HIDE DEF r
  <2> QED BY <1>1, <1>3, <2>1, InviteSet
<1> QED BY <1>2, <1>4, SeatsStep

LEMMA IssueKeeps ==
    ASSUME IntakeInv, NEW i \in Invites, Joining!Issue(i)
    PROVE  IntakeInv' /\ NoneApproved
<1>1. /\ SeatsSound(inv, claim) /\ inv \in [Invites -> InviteRows]
  BY DEF IntakeInv, SeatsSound
<1> DEFINE n == inv[i].secret + 1
           r == [inv[i] EXCEPT !.state = "ACTIVE", !.secret = n]
<1>2. /\ inv[i].state \in {"DRAFT", "ACTIVE"} /\ inv' = [inv EXCEPT ![i] = r]
      /\ UNCHANGED <<active, human, ctx, claim, grant, sub, consent, era>>
  BY <1>1 DEF Joining!Issue, InviteRows
<1>3. n \in Nat BY <1>1 DEF InviteRows
<1> HIDE DEF n
<1>4. r \in InviteRows /\ r.used = inv[i].used /\ r.reserved = inv[i].reserved
  BY <1>1, <1>3 DEF InviteRows
<1>5. SeatsSound([inv EXCEPT ![i] = r], claim)
  <2>1. inv[i].state \in Early BY <1>2 DEF Early
  <2> HIDE DEF r
  <2> QED BY <1>1, <1>4, <2>1, InviteSet
<1> QED BY <1>2, <1>5, SeatsStep

\* the claims whose places are given back do hold one
LEMMA IdleHold ==
    ASSUME NEW I, NEW current
    PROVE  /\ Joining!Idle(I, current) \in SUBSET Claims
           /\ \A c \in Joining!Idle(I, current) : claim[c].reserved
BY DEF Joining!Idle

LEMMA RevokeInvitationKeeps ==
    ASSUME IntakeInv, NEW i \in Invites, Joining!RevokeInvitation(i)
    PROVE  IntakeInv' /\ NoneApproved
<1>1. /\ SeatsSound(inv, claim) /\ inv \in [Invites -> InviteRows]
  BY DEF IntakeInv, SeatsSound
<1> DEFINE r == [inv[i] EXCEPT !.state = "REVOKED"]
           I == [inv EXCEPT ![i] = r]
           S == Joining!Idle(I, TRUE)
<1>2. /\ inv' = Joining!FreeInv(I, S) /\ claim' = Joining!FreeClaims(S)
      /\ UNCHANGED <<active, human, ctx, grant, sub, consent, era>>
  BY <1>1 DEF Joining!RevokeInvitation
<1>3. /\ r \in InviteRows /\ r.used = inv[i].used /\ r.reserved = inv[i].reserved
      /\ r.state \notin Early
  BY <1>1 DEF InviteRows, Early
<1> HIDE DEF r
<1>4. SeatsSound(I, claim)
  BY <1>1, <1>3, InviteSet
<1> HIDE DEF I
<1>5. SeatsSound(inv', claim')
  BY <1>2, <1>4, IdleHold, PlacesAreFreed
<1> QED BY <1>2, <1>5, SeatsStep

LEMMA ExchangeKeeps ==
    ASSUME IntakeInv, NEW x, NEW i, Joining!Exchange(x, i)
    PROVE  IntakeInv' /\ NoneApproved
<1>1. UNCHANGED <<active, human, inv, claim, grant, sub, consent, era>>
  BY DEF Joining!Exchange
<1> QED BY <1>1, SeatsStep DEF IntakeInv

LEMMA CleanupSeats ==
    ASSUME IntakeInv, NEW current
    PROVE  LET S == Joining!Idle(inv, current)
               D == Joining!FreeClaims(S)
           IN  /\ SeatsSound(Joining!FreeInv(inv, S), D)
               /\ \A c \in Claims : /\ D[c].state = claim[c].state /\ D[c].acct = claim[c].acct
                                    /\ ~claim[c].reserved => D[c] = claim[c]
                                    /\ c \in S => ~D[c].reserved
<1> DEFINE S == Joining!Idle(inv, current)
           D == Joining!FreeClaims(S)
<1>1. SeatsSound(inv, claim) /\ claim \in [Claims -> ClaimRows]
  BY DEF IntakeInv, SeatsSound
<1>2. SeatsSound(Joining!FreeInv(inv, S), D) BY <1>1, IdleHold, PlacesAreFreed
<1>3. \A c \in Claims :
          LET row == [claim[c] EXCEPT !.reserved = FALSE]
          IN  row.state = claim[c].state /\ row.acct = claim[c].acct /\ ~row.reserved
  BY <1>1 DEF ClaimRows
<1>4. \A c \in Claims : D[c] = IF c \in S THEN [claim[c] EXCEPT !.reserved = FALSE]
                                         ELSE claim[c]
  BY DEF Joining!FreeClaims
<1>5. \A c \in S : claim[c].reserved BY IdleHold
<1> HIDE DEF D, S
<1>6. \A c \in Claims : /\ D[c].state = claim[c].state /\ D[c].acct = claim[c].acct
                        /\ ~claim[c].reserved => D[c] = claim[c]
                        /\ c \in S => ~D[c].reserved
  BY <1>3, <1>4, <1>5
<1> QED BY <1>2, <1>6 DEF D, S

LEMMA MakeClaimKeeps ==
    ASSUME IntakeInv, NEW x \in Accounts, NEW c \in Claims, NEW tie \in {"SELF", "AGENT"},
           Joining!MakeClaim(x, c, tie)
    PROVE  IntakeInv' /\ NoneApproved
<1> DEFINE S == Joining!Idle(inv, TRUE)
           I == Joining!FreeInv(inv, S)
           D == Joining!FreeClaims(S)
<1>1. /\ SeatsSound(inv, claim) /\ inv \in [Invites -> InviteRows] /\ era \in Nat
      /\ claim \in [Claims -> ClaimRows]
  BY DEF IntakeInv, SeatsSound, KeepersSound
<1>2. PICK i \in Invites :
        /\ \/ claim' = D /\ inv' = I
           \/ /\ claim[c] = Joining!NoClaim /\ I[i].used + I[i].reserved < Joining!Places(i)
              /\ claim' = [D EXCEPT ![c] =
                    [Joining!NoClaim EXCEPT !.state = "PENDING", !.acct = x, !.inv = i,
                        !.person = TargetOf[i], !.rel = tie, !.reserved = Joining!Enrols(i),
                        !.era = era]]
              /\ inv' = [I EXCEPT ![i].reserved = @ + (IF Joining!Enrols(i) THEN 1 ELSE 0)]
        /\ UNCHANGED <<active, human, ctx, grant, sub, consent, era>>
  BY DEF Joining!MakeClaim
<1>3. /\ SeatsSound(I, D)
      /\ \A d \in Claims : D[d].state = claim[d].state /\ (~claim[d].reserved => D[d] = claim[d])
  BY CleanupSeats
<1> HIDE DEF I, D
<1>4. CASE claim' = D /\ inv' = I
  BY <1>2, <1>3, <1>4, SeatsStep
<1>5. CASE ~(claim' = D /\ inv' = I)
  <2> DEFINE r == [Joining!NoClaim EXCEPT !.state = "PENDING", !.acct = x, !.inv = i,
                        !.person = TargetOf[i], !.rel = tie, !.reserved = Joining!Enrols(i),
                        !.era = era]
  <2>1. /\ claim[c] = Joining!NoClaim /\ I[i].used + I[i].reserved < Joining!Places(i)
        /\ claim' = [D EXCEPT ![c] = r]
        /\ inv' = [I EXCEPT ![i].reserved = @ + (IF Joining!Enrols(i) THEN 1 ELSE 0)]
    BY <1>2, <1>5
  <2>2. /\ r \in ClaimRows /\ r.state = "PENDING" /\ r.inv = i /\ r.acct = x
        /\ r.reserved = Joining!Enrols(i)
    <3>1. TargetOf[i] \in MaybePerson BY IntakeFacts DEF MaybePerson
    <3>2. Joining!Enrols(i) \in BOOLEAN BY DEF Joining!Enrols
    <3> HIDE DEF Joining!Enrols
    <3> QED BY <1>1, <3>1, <3>2 DEF Joining!NoClaim, ClaimRows, MaybeAccount
  <2> HIDE DEF r
  <2>3. D[c].state = "NONE" /\ ~D[c].reserved
    <3>1. claim[c].state = "NONE" /\ claim[c].reserved = FALSE BY <2>1 DEF Joining!NoClaim
    <3> QED BY <1>3, <3>1
  <2>4. CASE Joining!Enrols(i)
    <3>1. inv' = [I EXCEPT ![i].reserved = @ + 1] BY <2>1, <2>4
    <3>2. r.reserved BY <2>2, <2>4
    <3>3. SeatsSound([I EXCEPT ![i].reserved = @ + 1], [D EXCEPT ![c] = r])
      BY <1>3, <2>1, <2>2, <2>3, <2>4, <3>2, SeatAdded
    <3>4. SeatsSound(inv', claim') BY <2>1, <3>1, <3>3
    <3> QED BY <1>2, <3>4, SeatsStep
  <2>5. CASE ~Joining!Enrols(i)
    <3>1. inv' = I
      <4>1. I \in [Invites -> InviteRows] BY <1>3 DEF SeatsSound
      <4>2. inv' = [I EXCEPT ![i].reserved = @ + 0] BY <2>1, <2>5
      <4>3. I[i].reserved + 0 = I[i].reserved BY <4>1 DEF InviteRows
      <4>4. inv' = [I EXCEPT ![i].reserved = @] BY <4>2, <4>3
      <4> QED BY <4>1, <4>4 DEF InviteRows
    <3>2. SeatsSound(I, [D EXCEPT ![c] = r])
      BY <1>3, <2>2, <2>3, <2>5, RowSet
    <3> QED BY <1>2, <2>1, <3>1, <3>2, SeatsStep
  <2> QED BY <2>4, <2>5
<1> QED BY <1>4, <1>5

LEMMA RenewKeeps ==
    ASSUME IntakeInv, NEW x \in Accounts, NEW c \in Claims, Joining!Renew(x, c)
    PROVE  IntakeInv' /\ NoneApproved
<1> DEFINE S == Joining!Idle(inv, TRUE)
           I == Joining!FreeInv(inv, S)
           D == Joining!FreeClaims(S)
<1>1. /\ SeatsSound(inv, claim) /\ era \in Nat /\ claim \in [Claims -> ClaimRows]
  BY DEF IntakeInv, SeatsSound, KeepersSound
<1>2. PICK i \in Invites :
        /\ claim[c].acct = x /\ claim[c].state = "PENDING" /\ Joining!Enrols(i)
        /\ c \in S \/ ~claim[c].reserved
        /\ I[i].used + I[i].reserved < Joining!Places(i)
        /\ claim' = [D EXCEPT ![c].inv = i, ![c].reserved = TRUE, ![c].late = FALSE,
                              ![c].era = era]
        /\ inv' = [I EXCEPT ![i].reserved = @ + 1]
        /\ UNCHANGED <<active, human, ctx, grant, sub, consent, era>>
  BY DEF Joining!Renew, Joining!OwnClaim
<1>3. /\ SeatsSound(I, D) /\ D[c].state = "PENDING" /\ D[c].acct = x /\ ~D[c].reserved
  BY <1>2, CleanupSeats
<1> HIDE DEF I, D
<1> DEFINE r == [D[c] EXCEPT !.inv = i, !.reserved = TRUE, !.late = FALSE, !.era = era]
<1>4. D \in [Claims -> ClaimRows] BY <1>3 DEF SeatsSound
<1>5. claim' = [D EXCEPT ![c] = r] BY <1>2, <1>4 DEF ClaimRows
<1>6. /\ r \in ClaimRows /\ r.state = "PENDING" /\ r.inv = i /\ r.acct = x /\ r.reserved
  BY <1>1, <1>3, <1>4 DEF ClaimRows
<1> HIDE DEF r
<1>7. SeatsSound([I EXCEPT ![i].reserved = @ + 1], [D EXCEPT ![c] = r])
  <2>1. D[c].state # "APPROVED" BY <1>3
  <2> QED BY <1>2, <1>3, <1>6, <2>1, SeatAdded
<1>8. SeatsSound(inv', claim') BY <1>2, <1>5, <1>7
<1> QED BY <1>2, <1>8, SeatsStep

\* approveClaim: the place the claim holds, or the one place of an invitation for a person,
\* is used, and the account becomes a keeper of p.
LEMMA ApproveSound ==
    ASSUME IntakeInv, NEW c \in Claims, NEW p \in Newcomers,
           Joining!Admitted(c), claim[c].acct \in active,
           claim[c].rel = "SELF" => ~Joining!SelfBound(claim[c].acct, p),
           Joining!Approve(c, p), UNCHANGED <<active, era>>, human' \in [Newcomers -> HumanRows],
           \A q \in Newcomers : human[q].state \notin {"ABSENT", "GONE"} =>
                                    human'[q].state \notin {"ABSENT", "GONE"},
           human'[p].state \notin {"ABSENT", "GONE"}
    PROVE  SeatsSound(inv', claim') /\ KeepersSound'
<1>1. /\ SeatsSound(inv, claim) /\ KeepersSound /\ claim \in [Claims -> ClaimRows]
      /\ inv \in [Invites -> InviteRows] /\ grant \in [Claims -> GrantRows] /\ era \in Nat
      /\ active \subseteq Accounts
  BY DEF IntakeInv, SeatsSound, KeepersSound
<1> DEFINE i == claim[c].inv
           n == IF claim[c].reserved THEN 1 ELSE 0
           left == [inv[i] EXCEPT !.reserved = inv[i].reserved - n]
           row == [claim[c] EXCEPT !.reserved = FALSE]
           I == [inv EXCEPT ![i] = left]
           C == [claim EXCEPT ![c] = row]
           used == inv[i].used + 1
           next == IF ~Joining!Enrols(i) THEN "CLAIMED"
                   ELSE IF used = MaxUses THEN "EXHAUSTED" ELSE "ACTIVE"
           less == inv[i].reserved - n
           q == [inv[i] EXCEPT !.used = used, !.reserved = less, !.state = next]
           r == [claim[c] EXCEPT !.state = "APPROVED", !.person = p, !.reserved = FALSE]
           g == [state |-> "ACTIVE", acct |-> claim[c].acct, person |-> p,
                 rel |-> claim[c].rel, era |-> era]
<1>2. /\ claim[c].state = "PENDING" /\ inv[i].state = "ACTIVE"
      /\ Joining!Enrols(i) => claim[c].reserved
  BY DEF Joining!Admitted, Joining!LiveInv
<1>3. i \in Invites /\ less \in Nat /\ SeatsSound(I, C)
  BY <1>1, <1>2, SeatLeft
<1>4. /\ inv' = [inv EXCEPT ![i] = q] /\ claim' = [claim EXCEPT ![c] = r]
      /\ grant' = [grant EXCEPT ![c] = g]
  <2>1. /\ claim' = [claim EXCEPT ![c] = r] /\ grant' = [grant EXCEPT ![c] = g]
    BY <1>1 DEF Joining!Approve, ClaimRows
  <2>2. inv' = [inv EXCEPT ![i].used = used, ![i].reserved = @ - n, ![i].state = next]
    BY DEF Joining!Approve
  <2>3. inv' = [inv EXCEPT ![i] = q]
    <3> HIDE DEF used, next, n
    <3>1. inv' = [inv EXCEPT ![i].used = used, ![i].reserved = @ - n, ![i].state = next]
      BY <2>2 DEF used, next, n
    <3> QED BY <1>1, <1>3, <3>1 DEF InviteRows
  <2> QED BY <2>1, <2>3
<1>5. used \in Nat /\ inv[i].used \in Nat /\ inv[i].reserved \in Nat
  BY <1>1, <1>3 DEF InviteRows
<1>6. next \in {"CLAIMED", "EXHAUSTED", "ACTIVE"} /\ (~Joining!Enrols(i) => next = "CLAIMED")
  OBVIOUS
<1>7. n = 1 \/ n = 0 OBVIOUS
\* after the approval there are no more places taken than before, or the only one is
<1>8. used + less <= Joining!Places(i)
  <2>1. inv[i].used + inv[i].reserved <= Joining!Places(i)
    BY <1>1, <1>3 DEF SeatsSound
  <2>2. CASE Joining!Enrols(i)
    <3>1. n = 1 BY <1>2, <2>2
    <3>2. Joining!Places(i) \in Nat BY IntakeFacts DEF Joining!Places
    <3> HIDE DEF n
    <3> QED BY <1>5, <2>1, <3>1, <3>2
  <2>3. CASE ~Joining!Enrols(i)
    <3>1. inv[i].used = 0 BY <1>1, <1>2, <1>3, <2>3 DEF SeatsSound, Early
    <3>2. Held(claim, i) = {}
      BY <1>1, <2>3 DEF SeatsSound, Held
    <3>3. inv[i].reserved = 0 BY <1>1, <1>3, <3>2, FS_EmptySet DEF SeatsSound
    <3>4. ~claim[c].reserved BY <1>1, <2>3 DEF SeatsSound
    <3>5. n = 0 BY <3>4
    <3>6. Joining!Places(i) = 1 BY <2>3 DEF Joining!Places
    <3> HIDE DEF n
    <3> QED BY <3>1, <3>3, <3>5, <3>6
  <2> QED BY <2>2, <2>3
<1> HIDE DEF n, used, next
<1>9. /\ q \in InviteRows /\ q.used = used /\ q.reserved = less /\ q.state = next
  <2> HIDE DEF less
  <2> QED BY <1>1, <1>3, <1>5, <1>6 DEF InviteRows
<1>10. /\ left.used = inv[i].used /\ left.reserved = less
  BY <1>1, <1>3 DEF InviteRows
<1>11. /\ row.reserved = FALSE /\ row.state = "PENDING"
       /\ r \in ClaimRows /\ r.reserved = FALSE /\ r.state = "APPROVED" /\ r.inv = i
       /\ r.acct = claim[c].acct
  <2>1. p \in MaybePerson BY DEF MaybePerson
  <2> QED BY <1>1, <1>2, <2>1 DEF ClaimRows
<1>12. /\ [I EXCEPT ![i] = q] = inv' /\ [C EXCEPT ![c] = r] = claim'
  <2> HIDE DEF q, r, left, row
  <2> QED BY <1>1, <1>3, <1>4
<1>13. SeatsSound([I EXCEPT ![i] = q], [C EXCEPT ![c] = r])
  <2>1. I[i] = left /\ C[c] = row
    <3> HIDE DEF left, row
    <3> QED BY <1>1, <1>3
  <2> HIDE DEF I, C, q, r, left, row
  <2>2. /\ ~C[c].reserved /\ C[c].state # "APPROVED" /\ ~r.reserved /\ r.state = "APPROVED"
        /\ r.inv = i /\ r.acct \in Accounts
    BY <1>1, <1>11, <2>1
  <2>3. /\ q.used = I[i].used + 1 /\ q.reserved = I[i].reserved
        /\ q.used + q.reserved <= Joining!Places(i)
    BY <1>8, <1>9, <1>10, <2>1 DEF used
  <2>4. ~Joining!Enrols(i) => q.state \notin Early
    BY <1>6, <1>9 DEF Early
  <2> QED BY <1>3, <1>9, <1>11, <2>2, <2>3, <2>4, SeatTaken
<1>14. SeatsSound(inv', claim') BY <1>12, <1>13
<1>15. /\ g \in GrantRows /\ g.state = "ACTIVE" /\ g.acct = claim[c].acct /\ g.person = p
       /\ g.era = era /\ g.rel = claim[c].rel
  <2>1. p \in MaybePerson BY DEF MaybePerson
  <2> QED BY <1>1, <2>1 DEF ClaimRows, GrantRows
<1> HIDE DEF g
<1>16. KeepersSound'
  BY <1>1, <1>4, <1>15, KeeperAdded
<1> QED BY <1>14, <1>16

LEMMA RejectSound ==
    ASSUME IntakeInv, NEW c \in Claims, claim[c].state = "PENDING", Joining!Reject(c)
    PROVE  SeatsSound(inv', claim')
<1>1. /\ SeatsSound(inv, claim) /\ claim \in [Claims -> ClaimRows]
      /\ inv \in [Invites -> InviteRows]
  BY DEF IntakeInv, SeatsSound
<1> DEFINE i == claim[c].inv
           n == IF claim[c].reserved THEN 1 ELSE 0
           less == inv[i].reserved - n
           left == [inv[i] EXCEPT !.reserved = less]
           row == [claim[c] EXCEPT !.reserved = FALSE]
           I == [inv EXCEPT ![i] = left]
           C == [claim EXCEPT ![c] = row]
           r == [claim[c] EXCEPT !.state = "REJECTED", !.reserved = FALSE]
<1>2. i \in Invites /\ SeatsSound(I, C)
  BY <1>1, SeatLeft
<1>3. inv' = I
  <2>1. inv' = [inv EXCEPT ![i].reserved = @ - n] BY DEF Joining!Reject
  <2> HIDE DEF n
  <2> QED BY <1>1, <1>2, <2>1 DEF InviteRows
<1>4. claim' = [claim EXCEPT ![c] = r]
  BY <1>1 DEF Joining!Reject, ClaimRows
<1>5. /\ row.reserved = FALSE /\ row.state = "PENDING"
      /\ r \in ClaimRows /\ r.reserved = FALSE /\ r.state = "REJECTED" /\ r.inv = i
      /\ r.acct = claim[c].acct
  BY <1>1 DEF ClaimRows
<1>6. claim[c].acct \in Accounts BY <1>1 DEF SeatsSound
<1> HIDE DEF r, row, left
<1>7. C[c] = row /\ [C EXCEPT ![c] = r] = claim' BY <1>1, <1>4
<1> HIDE DEF C, I
<1>8. SeatsSound(I, [C EXCEPT ![c] = r])
  <2>1. ~C[c].reserved /\ C[c].state # "APPROVED" /\ ~r.reserved /\ r.state # "APPROVED"
    BY <1>5, <1>7
  <2> QED BY <1>2, <1>5, <1>6, <2>1, RowSet
<1> QED BY <1>3, <1>7, <1>8

\* Open(p) is of a person, and one that is there.
LEMMA OpenIsThere ==
    ASSUME NEW p, Joining!Open(p)
    PROVE  p \in Newcomers /\ human[p].state \notin {"ABSENT", "GONE"}
BY DEF Joining!Open

LEMMA DecideClaimKeeps ==
    ASSUME IntakeInv, NEW c \in Claims, NEW accept \in BOOLEAN, Joining!DecideClaim(c, accept)
    PROVE  IntakeInv' /\ NoneApproved
<1>1. claim[c].state = "PENDING" /\ UNCHANGED <<active, human, ctx, sub, consent, era>>
  BY DEF Joining!DecideClaim
<1>2. KeepersSound /\ human \in [Newcomers -> HumanRows] BY DEF IntakeInv, KeepersSound
<1>3. CASE accept
  <2> DEFINE p == claim[c].person
  <2>1. Joining!MayApprove(c, p) /\ Joining!Approve(c, p)
    BY <1>3 DEF Joining!DecideClaim
  <2>2. /\ claim[c].acct \in active /\ Joining!Open(p) /\ Joining!Admitted(c)
        /\ claim[c].rel = "SELF" => ~Joining!SelfBound(claim[c].acct, p)
    BY <2>1 DEF Joining!MayApprove
  <2> HIDE DEF p
  <2>3. p \in Newcomers /\ human'[p].state \notin {"ABSENT", "GONE"}
    BY <1>1, <2>2, OpenIsThere
  <2>4. SeatsSound(inv', claim') /\ KeepersSound'
    BY <1>1, <1>2, <2>1, <2>2, <2>3, ApproveSound
  <2> QED BY <1>1, <2>4 DEF IntakeInv, SubsSound, NoneApproved
<1>4. CASE ~accept
  <2>1. Joining!Reject(c) /\ UNCHANGED grant
    BY <1>4 DEF Joining!DecideClaim
  <2>2. SeatsSound(inv', claim') BY <1>1, <2>1, RejectSound
  <2> QED BY <1>1, <2>1, <2>2, SeatsStep
<1> QED BY <1>3, <1>4

LEMMA RevokeGrantKeeps ==
    ASSUME IntakeInv, NEW c \in Claims, Joining!RevokeGrant(c)
    PROVE  IntakeInv' /\ NoneApproved
<1>1. KeepersSound /\ grant \in [Claims -> GrantRows] BY DEF IntakeInv, KeepersSound
<1> DEFINE r == [grant[c] EXCEPT !.state = "REVOKED"]
<1>2. /\ grant' = [grant EXCEPT ![c] = r]
      /\ UNCHANGED <<active, human, inv, ctx, claim, sub, consent, era>>
  BY <1>1 DEF Joining!RevokeGrant, GrantRows
<1>3. r \in GrantRows /\ r.state = "REVOKED" BY <1>1 DEF GrantRows
<1> HIDE DEF r
<1>4. /\ grant' \in [Claims -> GrantRows]
      /\ \A d \in Claims : grant'[d].state = "ACTIVE" => grant'[d] = grant[d]
  BY <1>1, <1>2, <1>3
<1>5. KeepersSound'
  BY <1>1, <1>2, <1>4, KeepersFewer DEF KeepersSound, Joining!OneKeeper
<1> QED BY <1>2, <1>5, KeepersStep

-------------------------------------------------------------------------------
(* Intake: drafts and submissions *)

LEMMA SubSet ==
    ASSUME IntakeInv, NEW s \in Subs, NEW r \in SubRows, ClaimKnown(r),
           sub' = [sub EXCEPT ![s] = r],
           r.state \in {"APPROVED", "PARTIALLY_APPROVED"} => sub[s].state = r.state,
           UNCHANGED <<active, human, inv, claim, grant, era>>
    PROVE  IntakeInv' /\ NoneApproved
<1>1. sub \in [Subs -> SubRows] /\ \A z \in Subs : ClaimKnown(sub[z])
  BY DEF IntakeInv, SubsSound
<1>2. /\ sub' \in [Subs -> SubRows] /\ NoneApproved
      /\ \A z \in Subs : sub'[z] = r \/ sub'[z] = sub[z]
  BY <1>1 DEF NoneApproved
<1>3. SubsSound' BY <1>1, <1>2 DEF SubsSound, ClaimKnown
<1> QED BY <1>2, <1>3, SubsStep

\* the person of a claim or a grant that is in use
LEMMA GrantedIs ==
    ASSUME IntakeInv, NEW x, NEW c \in Claims, Joining!Granted(x, c)
    PROVE  /\ x \in Accounts /\ grant[c].person \in Newcomers
           /\ grant[c].state = "ACTIVE" /\ Joining!Open(grant[c].person)
<1>1. active \subseteq Accounts BY DEF IntakeInv, KeepersSound
<1>2. x \in active /\ grant[c].state = "ACTIVE" /\ Joining!Open(grant[c].person)
  BY DEF Joining!Granted
<1> QED BY <1>1, <1>2, OpenIsThere

LEMMA CreateDraftKeeps ==
    ASSUME IntakeInv, NEW s \in Subs, NEW x, NEW c \in Claims, NEW t \in TextLists,
           Joining!CreateDraft(s, x, c, t)
    PROVE  IntakeInv' /\ NoneApproved
<1>1. /\ sub \in [Subs -> SubRows] /\ human \in [Newcomers -> HumanRows] /\ era \in Nat
      /\ active \subseteq Accounts
  BY DEF IntakeInv, SubsSound, KeepersSound
<1> DEFINE p == IF Joining!Granted(x, c) THEN grant[c].person ELSE None
           list == Joining!Items(p, << >>, t)
           r == [Joining!NoSub EXCEPT
                    !.state = "DRAFT", !.acct = x, !.person = p,
                    !.claim = IF p = None THEN c ELSE None,
                    !.by = IF p = None THEN None ELSE c, !.consent = s, !.items = list,
                    !.era = era]
<1>2. /\ Joining!Granted(x, c) \/ x \in active
      /\ sub' = [sub EXCEPT ![s] = r]
      /\ UNCHANGED <<active, human, inv, ctx, claim, grant, era>>
  BY DEF Joining!CreateDraft, Joining!OwnClaim
<1>3. x \in MaybeAccount /\ p \in MaybePerson
  BY <1>1, <1>2, GrantedIs DEF MaybeAccount, MaybePerson
<1>4. list \in ItemLists
  <2> HIDE DEF p
  <2> QED BY <1>1, <1>3, NoItems, ItemsTyped
<1>5. r \in SubRows /\ r.state = "DRAFT" /\ ClaimKnown(r)
  <2>1. /\ (IF p = None THEN c ELSE None) \in MaybeClaim
        /\ (IF p = None THEN None ELSE c) \in MaybeClaim
    BY DEF MaybeClaim
  <2> HIDE DEF p, list
  <2>2. None \in MaybePerson /\ None \in MaybeClaim /\ None \in MaybeAccount
    BY DEF MaybePerson, MaybeClaim, MaybeAccount
  <2> QED BY <1>1, <1>3, <1>4, <2>1, <2>2, NoItems DEF SubRows, SubStates, ClaimKnown, Joining!NoSub
<1> HIDE DEF r
<1> QED BY <1>2, <1>5, SubSet

LEMMA SaveDraftKeeps ==
    ASSUME IntakeInv, NEW s \in Subs, NEW t \in TextLists, Joining!SaveDraft(s, t)
    PROVE  IntakeInv' /\ NoneApproved
<1>1. /\ sub \in [Subs -> SubRows] /\ human \in [Newcomers -> HumanRows]
      /\ ClaimKnown(sub[s])
  BY DEF IntakeInv, SubsSound, KeepersSound
<1> DEFINE list == Joining!Items(sub[s].person, sub[s].items, t)
           r == [sub[s] EXCEPT !.items = list]
<1>2. /\ sub[s].state = "DRAFT" /\ sub' = [sub EXCEPT ![s] = r]
      /\ UNCHANGED <<active, human, inv, ctx, claim, grant, era>>
  BY <1>1 DEF Joining!SaveDraft, SubRows
<1>3. sub[s].person \in MaybePerson /\ sub[s].items \in ItemLists BY <1>1 DEF SubRows, SubStates
<1>4. list \in ItemLists BY <1>1, <1>3, ItemsTyped
<1> HIDE DEF list
<1>5. r \in SubRows /\ r.state = "DRAFT" /\ ClaimKnown(r)
  BY <1>1, <1>2, <1>4 DEF SubRows, SubStates, ClaimKnown
<1> HIDE DEF r
<1> QED BY <1>2, <1>5, SubSet

LEMMA SubmitKeeps ==
    ASSUME IntakeInv, NEW s \in Subs, Joining!Submit(s)
    PROVE  IntakeInv' /\ NoneApproved
<1>1. sub \in [Subs -> SubRows] /\ ClaimKnown(sub[s]) BY DEF IntakeInv, SubsSound
<1> DEFINE r == [sub[s] EXCEPT !.state = "SUBMITTED", !.sent = sub[s].items]
<1>2. /\ sub[s].state # "NONE" /\ sub' = [sub EXCEPT ![s] = r]
      /\ UNCHANGED <<active, human, inv, ctx, claim, grant, era>>
  BY <1>1 DEF Joining!Submit, Joining!Access, SubRows
<1>3. r \in SubRows /\ r.state = "SUBMITTED" /\ ClaimKnown(r)
  BY <1>1, <1>2 DEF SubRows, SubStates, ClaimKnown
<1> HIDE DEF r
<1> QED BY <1>2, <1>3, SubSet

LEMMA WithdrawKeeps ==
    ASSUME IntakeInv, NEW s \in Subs, Joining!Withdraw(s)
    PROVE  IntakeInv' /\ NoneApproved
<1>1. sub \in [Subs -> SubRows] /\ ClaimKnown(sub[s]) BY DEF IntakeInv, SubsSound
<1> DEFINE r == [sub[s] EXCEPT !.state = "WITHDRAWN"]
<1>2. /\ sub[s].state # "NONE" /\ sub' = [sub EXCEPT ![s] = r]
      /\ UNCHANGED <<active, human, inv, ctx, claim, grant, era>>
  BY <1>1 DEF Joining!Withdraw, Joining!Access, SubRows
<1>3. r \in SubRows /\ r.state = "WITHDRAWN" /\ ClaimKnown(r)
  BY <1>1, <1>2 DEF SubRows, SubStates, ClaimKnown
<1> HIDE DEF r
<1> QED BY <1>2, <1>3, SubSet

LEMMA SubmissionEndsKeeps ==
    ASSUME IntakeInv, NEW s \in Subs, Joining!SubmissionEnds(s)
    PROVE  IntakeInv' /\ NoneApproved
<1>1. sub \in [Subs -> SubRows] /\ ClaimKnown(sub[s]) BY DEF IntakeInv, SubsSound
<1> DEFINE r == [sub[s] EXCEPT !.late = TRUE]
<1>2. /\ sub' = [sub EXCEPT ![s] = r]
      /\ UNCHANGED <<active, human, inv, ctx, claim, grant, era>>
  BY <1>1 DEF Joining!SubmissionEnds, SubRows
<1>3. r \in SubRows /\ r.state = sub[s].state /\ ClaimKnown(r)
  BY <1>1 DEF SubRows, SubStates, ClaimKnown
<1> HIDE DEF r
<1> QED BY <1>2, <1>3, SubSet

\* the items of a submission have texts
LEMMA LeftTexts ==
    ASSUME NEW t \in ItemLists, NEW L \in SUBSET DOMAIN t
    PROVE  [f \in L |-> t[f].text] \in TextLists
<1>1. DOMAIN t \subseteq Fields /\ \A f \in DOMAIN t : t[f] \in ItemRows BY ItemListsAre
<1>2. [f \in L |-> t[f].text] \in [L -> TextValues] BY <1>1 DEF ItemRows
<1> QED BY <1>1, <1>2 DEF TextLists

LEMMA ForkKeeps ==
    ASSUME IntakeInv, NEW s \in Subs, NEW n \in Subs, Joining!Fork(s, n)
    PROVE  IntakeInv' /\ NoneApproved
<1>1. /\ sub \in [Subs -> SubRows] /\ human \in [Newcomers -> HumanRows]
      /\ ClaimKnown(sub[s])
  BY DEF IntakeInv, SubsSound, KeepersSound
<1> DEFINE left == {f \in DOMAIN sub[s].items :
                        sub[s].state = "APPROVED" \/ sub[s].items[f].state # "APPLIED"}
           texts == [f \in left |-> sub[s].items[f].text]
           list == Joining!Items(sub[s].person, << >>, texts)
           r == [sub[s] EXCEPT !.state = "DRAFT", !.sent = << >>, !.items = list]
<1>2. /\ sub[s].state # "NONE" /\ sub' = [sub EXCEPT ![n] = r]
      /\ UNCHANGED <<active, human, inv, ctx, claim, grant, era>>
  BY <1>1 DEF Joining!Fork, Joining!Access
<1>3. sub[s].person \in MaybePerson /\ sub[s].items \in ItemLists BY <1>1 DEF SubRows, SubStates
<1>4. texts \in TextLists BY <1>3, LeftTexts
<1> HIDE DEF texts
<1>5. list \in ItemLists BY <1>1, <1>3, <1>4, NoItems, ItemsTyped
<1> HIDE DEF list
<1>6. r \in SubRows /\ r.state = "DRAFT" /\ ClaimKnown(r)
  BY <1>1, <1>2, <1>5, NoItems DEF SubRows, SubStates, ClaimKnown
<1> HIDE DEF r
<1> QED BY <1>2, <1>6, SubSet

LEMMA RevokeConsentKeeps ==
    ASSUME IntakeInv, NEW s \in Subs, Joining!RevokeConsent(s)
    PROVE  IntakeInv' /\ NoneApproved
<1>1. UNCHANGED <<active, human, inv, claim, grant, sub, era>>
  BY DEF Joining!RevokeConsent
<1> QED BY <1>1, SeatsStep DEF IntakeInv

-------------------------------------------------------------------------------
(* Intake: the office, and the end of things *)

\* A change of a person that is not its end keeps every keeper.
LEMMA HumanSet ==
    ASSUME IntakeInv, NEW p, NEW r \in HumanRows, human' = [human EXCEPT ![p] = r],
           r.state \notin {"ABSENT", "GONE"}, UNCHANGED <<active, inv, claim, grant, sub, era>>
    PROVE  IntakeInv' /\ NoneApproved
<1>1. KeepersSound BY DEF IntakeInv
<1>2. human' \in [Newcomers -> HumanRows] BY <1>1 DEF KeepersSound
<1>3. \A c \in Claims : grant[c].state = "ACTIVE" =>
         /\ grant[c].person \in Newcomers /\ grant[c].acct \in active /\ grant[c].era = era
         /\ human[grant[c].person].state \notin {"ABSENT", "GONE"}
  BY <1>1 DEF KeepersSound, Joining!OneKeeper
<1>4. \A q \in Newcomers : human'[q] = r \/ human'[q] = human[q]
  BY <1>1 DEF KeepersSound
<1>5. \A c \in Claims : grant[c].state = "ACTIVE" =>
          human'[grant[c].person].state \notin {"ABSENT", "GONE"}
  BY <1>3, <1>4
<1>6. KeepersSound'
  BY <1>1, <1>2, <1>3, <1>5, KeepersFewer DEF KeepersSound
<1> QED BY <1>6, KeepersStep

LEMMA PatchPersonKeeps ==
    ASSUME IntakeInv, NEW p, NEW f \in Fields, NEW t \in TextValues,
           Joining!PatchPerson(p, f, t)
    PROVE  IntakeInv' /\ NoneApproved
<1>1. human \in [Newcomers -> HumanRows] BY DEF IntakeInv, KeepersSound
<1>2. p \in Newcomers /\ human[p].state = "OPEN" BY DEF Joining!PatchPerson, Joining!Open
<1> DEFINE m == [human[p].text EXCEPT ![f] = t]
           r == [human[p] EXCEPT !.text = m]
<1>3. human' = [human EXCEPT ![p] = r] /\ UNCHANGED <<active, inv, claim, grant, sub, era>>
  BY <1>1, <1>2 DEF Joining!PatchPerson, HumanRows
<1>4. m \in [Fields -> TextValues] BY <1>1, <1>2 DEF HumanRows
<1> HIDE DEF m
<1>5. r \in HumanRows /\ r.state = "OPEN" BY <1>1, <1>2, <1>4 DEF HumanRows
<1> HIDE DEF r
<1> QED BY <1>3, <1>5, HumanSet

LEMMA PersonStatusKeeps ==
    ASSUME IntakeInv, NEW p, NEW state, Joining!PersonStatus(p, state)
    PROVE  IntakeInv' /\ NoneApproved
<1>1. human \in [Newcomers -> HumanRows] BY DEF IntakeInv, KeepersSound
<1>2. p \in Newcomers /\ state \in {"OPEN", "ARCHIVED", "BLOCKED"}
  BY DEF Joining!PersonStatus, Joining!Seen
<1> DEFINE n == human[p].epoch + 1
           r == [human[p] EXCEPT !.state = state, !.epoch = n]
<1>3. human' = [human EXCEPT ![p] = r] /\ UNCHANGED <<active, inv, claim, grant, sub, era>>
  BY <1>1, <1>2 DEF Joining!PersonStatus, HumanRows
<1>4. n \in Nat BY <1>1, <1>2 DEF HumanRows
<1> HIDE DEF n
<1>5. r \in HumanRows /\ r.state = state BY <1>1, <1>2, <1>4 DEF HumanRows
<1> HIDE DEF r
<1> QED BY <1>2, <1>3, <1>5, HumanSet

\* Erased with its source, a person is there no more than in name; who keeps it is not asked.
LEMMA EraseWithSourceKeeps ==
    ASSUME IntakeInv, NEW p, Joining!EraseWithSource(p)
    PROVE  IntakeInv' /\ NoneApproved
<1>1. human \in [Newcomers -> HumanRows] BY DEF IntakeInv, KeepersSound
<1>2. p \in Newcomers BY DEF Joining!EraseWithSource, Joining!Seen
<1> DEFINE r == [human[p] EXCEPT !.state = "ERASED"]
<1>3. human' = [human EXCEPT ![p] = r] /\ UNCHANGED <<active, inv, claim, grant, sub, era>>
  BY <1>1, <1>2 DEF Joining!EraseWithSource, HumanRows
<1>4. r \in HumanRows /\ r.state = "ERASED" BY <1>1, <1>2 DEF HumanRows
<1> HIDE DEF r
<1> QED BY <1>3, <1>4, HumanSet

LEMMA MaintenanceSeats ==
    ASSUME IntakeInv, NEW P, NEW erase, Joining!RevokeMaintenance(P, erase)
    PROVE  SeatsSound(inv', claim')
<1>1. /\ SeatsSound(inv, claim) /\ inv \in [Invites -> InviteRows]
      /\ claim \in [Claims -> ClaimRows]
      /\ \A c \in Claims : claim[c].reserved => claim[c].state = "PENDING"
  BY DEF IntakeInv, SeatsSound
<1> DEFINE S == {c \in Claims : claim[c].reserved /\ claim[c].person \in P}
           End(i) == IF TargetOf[i] \in P /\ inv[i].state # "NONE" THEN "REVOKED"
                                                                  ELSE inv[i].state
           Left(i) == inv[i].reserved - Cardinality(Freed(claim, S, i))
<1>2. \A c \in Claims :
          LET row == [claim[c] EXCEPT !.reserved = FALSE,
                          !.state = IF claim[c].state = "PENDING" THEN "WITHDRAWN"
                                                                  ELSE claim[c].state]
          IN  /\ row \in ClaimRows /\ row.inv = claim[c].inv /\ row.acct = claim[c].acct
              /\ row.reserved = FALSE
              /\ row.state = "APPROVED" <=> claim[c].state = "APPROVED"
              /\ row.state # "NONE" => claim[c].state # "NONE"
  BY <1>1 DEF ClaimRows
<1>3. claim' = [c \in Claims |->
          IF claim[c].person \in P
          THEN [claim[c] EXCEPT !.reserved = FALSE,
                    !.state = IF claim[c].state = "PENDING" THEN "WITHDRAWN"
                                                            ELSE claim[c].state]
          ELSE claim[c]]
  BY <1>1 DEF Joining!RevokeMaintenance
<1>4. /\ claim' \in [Claims -> ClaimRows]
      /\ \A c \in Claims :
            /\ claim[c].person \notin P => claim'[c] = claim[c]
            /\ claim[c].person \in P =>
                  /\ claim'[c].inv = claim[c].inv /\ claim'[c].acct = claim[c].acct
                  /\ claim'[c].reserved = FALSE
                  /\ claim'[c].state = "APPROVED" <=> claim[c].state = "APPROVED"
                  /\ claim'[c].state # "NONE" => claim[c].state # "NONE"
  BY <1>1, <1>2, <1>3
<1>5. \A c \in Claims : claim[c].reserved \in BOOLEAN BY <1>1 DEF ClaimRows
<1>6. RowsFreed(claim, claim', S)
  BY <1>1, <1>4, <1>5 DEF RowsFreed
<1>7. /\ DOMAIN inv' = Invites
      /\ \A i \in Invites : inv'[i] = [inv[i] EXCEPT !.state = End(i), !.reserved = Left(i)]
      /\ inv' = [i \in Invites |-> inv'[i]]
  <2>1. \A i \in Invites : {c \in Claims : claim[c].reserved /\ claim[c].person \in P
                                              /\ claim[c].inv = i} = Freed(claim, S, i)
    BY DEF Freed
  <2>2. inv' = [i \in Invites |->
          [inv[i] EXCEPT !.state = End(i),
              !.reserved = inv[i].reserved - Joining!Cardinality(
                  {c \in Claims : claim[c].reserved /\ claim[c].person \in P
                                     /\ claim[c].inv = i})]]
    BY DEF Joining!RevokeMaintenance
  <2> HIDE DEF S, End
  <2> QED BY <2>1, <2>2, IntakeFacts
<1>8. \A i \in Invites :
          /\ End(i) \in {"NONE", "DRAFT", "ACTIVE", "CLAIMED", "EXHAUSTED", "REVOKED"}
          /\ End(i) \in Early => inv[i].state \in Early
  BY <1>1 DEF InviteRows, Early
<1> HIDE DEF End, Left
<1>9. \A i \in Invites : /\ inv'[i].used = inv[i].used /\ inv'[i].reserved = Left(i)
                         /\ inv'[i].state = End(i)
  <2> SUFFICES ASSUME NEW i \in Invites
               PROVE  /\ inv'[i].used = inv[i].used /\ inv'[i].reserved = Left(i)
                      /\ inv'[i].state = End(i)
    OBVIOUS
  <2> DEFINE e == End(i)
             n == Left(i)
  <2>1. inv'[i] = [inv[i] EXCEPT !.state = e, !.reserved = n] BY <1>7
  <2> HIDE DEF e, n
  <2>2. inv'[i].used = inv[i].used /\ inv'[i].reserved = n /\ inv'[i].state = e
    BY <1>1, <2>1 DEF InviteRows
  <2> QED BY <2>2 DEF e, n
<1>10. CountsFreed(inv, inv', claim, S)
  BY <1>7, <1>8, <1>9 DEF CountsFreed, Left
<1>11. /\ \A i \in Invites : inv'[i].reserved \in Nat
       /\ inv' \in [Invites -> InviteRows] => SeatsSound(inv', claim')
  <2>1. S \in SUBSET Claims /\ \A c \in S : claim[c].reserved OBVIOUS
  <2> HIDE DEF S
  <2> QED BY <1>1, <1>6, <1>10, <2>1, SeatsFreed
<1>12. \A i \in Invites : inv'[i] \in InviteRows
  <2> SUFFICES ASSUME NEW i \in Invites PROVE inv'[i] \in InviteRows
    OBVIOUS
  <2> DEFINE e == End(i)
             n == Left(i)
  <2>1. /\ inv'[i] = [inv[i] EXCEPT !.state = e, !.reserved = n] /\ n \in Nat
        /\ e \in {"NONE", "DRAFT", "ACTIVE", "CLAIMED", "EXHAUSTED", "REVOKED"}
    BY <1>7, <1>8, <1>9, <1>11
  <2> HIDE DEF e, n
  <2> QED BY <1>1, <2>1 DEF InviteRows
<1> QED BY <1>7, <1>11, <1>12

LEMMA MaintenanceRest ==
    ASSUME IntakeInv, NEW P, NEW erase \in BOOLEAN, Joining!RevokeMaintenance(P, erase),
           human' \in [Newcomers -> HumanRows],
           \A q \in Newcomers \ P : human'[q] = human[q]
    PROVE  KeepersSound' /\ SubsSound' /\ NoneApproved
<1>1. /\ KeepersSound /\ grant \in [Claims -> GrantRows] /\ sub \in [Subs -> SubRows]
      /\ \A s \in Subs : ClaimKnown(sub[s])
      /\ UNCHANGED <<active, era>> /\ active \subseteq Accounts /\ era \in Nat
  BY DEF IntakeInv, KeepersSound, SubsSound, Joining!RevokeMaintenance
<1>2. \A c \in Claims : LET row == [grant[c] EXCEPT !.state = "REVOKED"]
                        IN  row \in GrantRows /\ row.state = "REVOKED"
  BY <1>1 DEF GrantRows
<1>3. grant' = [c \in Claims |-> IF grant[c].person \in P THEN [grant[c] EXCEPT !.state = "REVOKED"]
                                                          ELSE grant[c]]
  BY DEF Joining!RevokeMaintenance
<1>4. /\ grant' \in [Claims -> GrantRows]
      /\ \A c \in Claims : grant'[c].state = "ACTIVE" =>
            grant'[c] = grant[c] /\ grant[c].person \notin P
  BY <1>1, <1>2, <1>3
<1>5. \A c \in Claims : grant[c].state = "ACTIVE" =>
         /\ grant[c].person \in Newcomers /\ grant[c].acct \in active /\ grant[c].era = era
         /\ human[grant[c].person].state \notin {"ABSENT", "GONE"}
  BY <1>1 DEF KeepersSound, Joining!OneKeeper
<1>6. KeepersSound'
  BY <1>1, <1>4, <1>5, KeepersFewer
<1> DEFINE End(s) == IF sub[s].state \in {"DRAFT", "SUBMITTED"} THEN "WITHDRAWN"
                                                               ELSE sub[s].state
           Late(s) == sub[s].late \/ erase
           Rest(s) == IF erase THEN << >> ELSE sub[s].items
<1>7. \A s \in Subs :
          LET row == [sub[s] EXCEPT !.state = End(s), !.late = Late(s), !.items = Rest(s)]
          IN  /\ row \in SubRows
              /\ row.state \in {"APPROVED", "PARTIALLY_APPROVED"} => sub[s].state = row.state
              /\ ClaimKnown(row)
  <2> SUFFICES ASSUME NEW s \in Subs
               PROVE  LET row == [sub[s] EXCEPT !.state = End(s), !.late = Late(s),
                                                !.items = Rest(s)]
                      IN  /\ row \in SubRows
                          /\ row.state \in {"APPROVED", "PARTIALLY_APPROVED"} =>
                                sub[s].state = row.state
                          /\ ClaimKnown(row)
    OBVIOUS
  <2> DEFINE e == End(s)
             gone == Late(s)
             r == Rest(s)
  <2>1. /\ e \in SubStates
        /\ e \in {"APPROVED", "PARTIALLY_APPROVED"} => sub[s].state = e
        /\ e # "NONE" => sub[s].state # "NONE"
    BY <1>1 DEF SubRows, SubStates
  <2>2. gone \in BOOLEAN /\ r \in ItemLists BY <1>1, NoItems DEF SubRows
  <2> HIDE DEF e, gone, r
  <2>3. LET row == [sub[s] EXCEPT !.state = e, !.late = gone, !.items = r]
        IN  /\ row \in SubRows /\ row.state = e /\ row.claim = sub[s].claim
            /\ row.person = sub[s].person
    BY <1>1, <2>1, <2>2 DEF SubRows, SubStates
  <2> QED BY <1>1, <2>1, <2>3 DEF e, gone, r, ClaimKnown
<1>8. sub' = [s \in Subs |-> IF sub[s].person \notin P THEN sub[s]
          ELSE [sub[s] EXCEPT !.state = End(s), !.late = Late(s), !.items = Rest(s)]]
  BY DEF Joining!RevokeMaintenance
<1> HIDE DEF End, Late, Rest
<1>9. /\ sub' \in [Subs -> SubRows]
      /\ \A s \in Subs : sub'[s].state \in {"APPROVED", "PARTIALLY_APPROVED"} =>
                             sub[s].state = sub'[s].state
      /\ \A s \in Subs : ClaimKnown(sub'[s])
  BY <1>1, <1>7, <1>8
<1> QED BY <1>6, <1>9 DEF SubsSound, NoneApproved

\* a person goes
LEMMA HumanGoes ==
    ASSUME human \in [Newcomers -> HumanRows], NEW p,
           human' = [human EXCEPT ![p].state = "GONE"]
    PROVE  /\ human' \in [Newcomers -> HumanRows]
           /\ \A q \in Newcomers \ {p} : human'[q] = human[q]
<1>1. \A q \in Newcomers : [human[q] EXCEPT !.state = "GONE"] \in HumanRows
  BY DEF HumanRows
<1> QED BY <1>1

LEMMA ErasePersonKeeps ==
    ASSUME IntakeInv, NEW p, Joining!ErasePerson(p)
    PROVE  IntakeInv' /\ NoneApproved
<1>1. human \in [Newcomers -> HumanRows] BY DEF IntakeInv, KeepersSound
<1>2. human' = [human EXCEPT ![p].state = "GONE"] /\ Joining!RevokeMaintenance({p}, TRUE)
  BY DEF Joining!ErasePerson
<1>3. /\ human' \in [Newcomers -> HumanRows]
      /\ \A q \in Newcomers \ {p} : human'[q] = human[q]
  BY <1>1, <1>2, HumanGoes
<1>4. SeatsSound(inv', claim') BY <1>2, MaintenanceSeats
<1>5. KeepersSound' /\ SubsSound' /\ NoneApproved BY <1>2, <1>3, MaintenanceRest
<1> QED BY <1>4, <1>5 DEF IntakeInv

LEMMA MergeKeeps ==
    ASSUME IntakeInv, NEW p, NEW q, Joining!Merge(p, q)
    PROVE  IntakeInv' /\ NoneApproved
<1>1. human \in [Newcomers -> HumanRows] BY DEF IntakeInv, KeepersSound
<1>2. human' = [human EXCEPT ![q].state = "GONE"] /\ Joining!RevokeMaintenance({p, q}, FALSE)
  BY DEF Joining!Merge
<1>3. /\ human' \in [Newcomers -> HumanRows]
      /\ \A r \in Newcomers \ {p, q} : human'[r] = human[r]
  BY <1>1, <1>2, HumanGoes
<1>4. SeatsSound(inv', claim') BY <1>2, MaintenanceSeats
<1>5. KeepersSound' /\ SubsSound' /\ NoneApproved BY <1>2, <1>3, MaintenanceRest
<1> QED BY <1>4, <1>5 DEF IntakeInv

\* isolateTalentMaintenance: what it does to claims, grants and submissions
LEMMA IsolateRows ==
    ASSUME IntakeInv, NEW X, NEW state, Joining!Isolate(X, state)
    PROVE  LET S == {c \in Claims : claim[c].reserved /\ claim[c].acct \in X}
           IN  RowsFreed(claim, claim', S)
<1>1. /\ claim \in [Claims -> ClaimRows]
      /\ \A c \in Claims : claim[c].reserved => claim[c].state = "PENDING"
  BY DEF IntakeInv, SeatsSound
<1> DEFINE S == {c \in Claims : claim[c].reserved /\ claim[c].acct \in X}
           mine == {c \in Claims : claim[c].acct \in X /\ claim[c].state = "PENDING"}
<1>2. \A c \in Claims :
          LET row == [claim[c] EXCEPT !.state = "EXPIRED", !.reserved = FALSE]
          IN  /\ row \in ClaimRows /\ row.inv = claim[c].inv /\ row.acct = claim[c].acct
              /\ row.reserved = FALSE /\ row.state = "EXPIRED"
  BY <1>1 DEF ClaimRows
<1>3. claim' = [c \in Claims |->
          IF c \in mine THEN [claim[c] EXCEPT !.state = "EXPIRED", !.reserved = FALSE]
                        ELSE claim[c]]
  BY DEF Joining!Isolate
<1>4. /\ claim' \in [Claims -> ClaimRows]
      /\ \A c \in Claims :
            /\ c \notin mine => claim'[c] = claim[c]
            /\ c \in mine =>
                  /\ claim'[c].inv = claim[c].inv /\ claim'[c].acct = claim[c].acct
                  /\ claim'[c].reserved = FALSE /\ claim'[c].state = "EXPIRED"
  BY <1>1, <1>2, <1>3
<1>5. \A c \in Claims : claim[c].reserved \in BOOLEAN BY <1>1 DEF ClaimRows
<1>6. RowsFreed(claim, claim', S)
  BY <1>1, <1>4, <1>5 DEF RowsFreed
<1> QED BY <1>6

LEMMA IsolateRest ==
    ASSUME IntakeInv, NEW X, NEW state \in {"REVOKED", "RECOVERY_REVIEW"},
           Joining!Isolate(X, state)
    PROVE  /\ grant' \in [Claims -> GrantRows] /\ SubsSound' /\ NoneApproved
           /\ \A c \in Claims : grant'[c].state = "ACTIVE" =>
                 /\ grant'[c] = grant[c] /\ grant[c].acct \in active \ X /\ grant[c].era = era
                 /\ human[grant[c].person].state \notin {"ABSENT", "GONE"}
<1>1. /\ KeepersSound /\ grant \in [Claims -> GrantRows] /\ sub \in [Subs -> SubRows]
      /\ \A s \in Subs : ClaimKnown(sub[s])
  BY DEF IntakeInv, KeepersSound, SubsSound
<1>2. \A c \in Claims : LET row == [grant[c] EXCEPT !.state = state]
                        IN  row \in GrantRows /\ row.state # "ACTIVE"
  BY <1>1 DEF GrantRows
<1>3. grant' = [c \in Claims |-> IF grant[c].acct \in X THEN [grant[c] EXCEPT !.state = state]
                                                        ELSE grant[c]]
  BY DEF Joining!Isolate
<1>4. /\ grant' \in [Claims -> GrantRows]
      /\ \A c \in Claims : grant'[c].state = "ACTIVE" =>
            grant'[c] = grant[c] /\ grant[c].acct \notin X
  BY <1>1, <1>2, <1>3
<1>5. \A c \in Claims : grant[c].state = "ACTIVE" =>
         /\ grant[c].acct \in active /\ grant[c].era = era
         /\ human[grant[c].person].state \notin {"ABSENT", "GONE"}
  BY <1>1 DEF KeepersSound, Joining!OneKeeper
<1>6. \A s \in Subs : LET row == [sub[s] EXCEPT !.state = "EXPIRED"]
                      IN  /\ row \in SubRows /\ row.state = "EXPIRED"
                          /\ sub[s].state # "NONE" => ClaimKnown(row)
  BY <1>1 DEF SubRows, SubStates, ClaimKnown
<1>7. sub' = [s \in Subs |-> IF sub[s].acct \in X /\ sub[s].state \in {"DRAFT", "SUBMITTED"}
                              THEN [sub[s] EXCEPT !.state = "EXPIRED"] ELSE sub[s]]
  BY DEF Joining!Isolate
<1>8. sub' \in [Subs -> SubRows] /\ NoneApproved /\ \A s \in Subs : ClaimKnown(sub'[s])
  BY <1>1, <1>6, <1>7 DEF NoneApproved
<1> QED BY <1>4, <1>5, <1>8 DEF SubsSound

LEMMA CloseAccountKeeps ==
    ASSUME IntakeInv, NEW x, Joining!CloseAccount(x)
    PROVE  IntakeInv' /\ NoneApproved
<1> DEFINE S == {c \in Claims : claim[c].reserved /\ claim[c].acct = x}
<1>1. /\ active' = active \ {x} /\ Joining!Isolate({x}, "REVOKED")
      /\ inv' = Joining!FreeInv(inv, S) /\ UNCHANGED <<human, ctx, consent, era>>
  BY DEF Joining!CloseAccount
<1>2. /\ SeatsSound(inv, claim) /\ inv \in [Invites -> InviteRows] /\ KeepersSound
      /\ active \subseteq Accounts /\ era \in Nat /\ human \in [Newcomers -> HumanRows]
  BY DEF IntakeInv, SeatsSound, KeepersSound
<1>3. S = {c \in Claims : claim[c].reserved /\ claim[c].acct \in {x}} OBVIOUS
<1>4. S \in SUBSET Claims /\ \A c \in S : claim[c].reserved OBVIOUS
<1> HIDE DEF S
<1>5. RowsFreed(claim, claim', S) BY <1>1, <1>3, IsolateRows
<1>6. /\ CountsFreed(inv, inv', claim, S)
      /\ (\A i \in Invites : inv'[i].reserved \in Nat) => inv' \in [Invites -> InviteRows]
  BY <1>1, <1>2, InvitesFreed
<1>7. SeatsSound(inv', claim')
  BY <1>2, <1>4, <1>5, <1>6, SeatsFreed
<1>8. /\ grant' \in [Claims -> GrantRows] /\ SubsSound' /\ NoneApproved
      /\ \A c \in Claims : grant'[c].state = "ACTIVE" =>
            /\ grant'[c] = grant[c] /\ grant[c].acct \in active \ {x} /\ grant[c].era = era
            /\ human[grant[c].person].state \notin {"ABSENT", "GONE"}
  BY <1>1, IsolateRest
<1>9. KeepersSound'
  BY <1>1, <1>2, <1>8, KeepersFewer
<1> QED BY <1>7, <1>8, <1>9 DEF IntakeInv

LEMMA RecoverKeeps ==
    ASSUME IntakeInv, Joining!Recover
    PROVE  IntakeInv' /\ NoneApproved
<1> DEFINE S == {c \in Claims : claim[c].reserved /\ claim[c].acct \in Accounts}
           End(i) == IF inv[i].state = "NONE" THEN inv[i].state ELSE "REVOKED"
<1>1. /\ era' = era + 1 /\ Joining!Isolate(Accounts, "RECOVERY_REVIEW")
      /\ inv' = [i \in Invites |-> [inv[i] EXCEPT !.state = End(i), !.reserved = 0]]
      /\ UNCHANGED <<active, human, ctx, consent>>
  BY DEF Joining!Recover
<1>2. /\ SeatsSound(inv, claim) /\ inv \in [Invites -> InviteRows] /\ KeepersSound
      /\ active \subseteq Accounts /\ era \in Nat /\ human \in [Newcomers -> HumanRows]
      /\ \A c \in Claims : claim[c].reserved => claim[c].state = "PENDING"
      /\ \A c \in Claims : claim[c].state # "NONE" => claim[c].acct \in Accounts
      /\ \A i \in Invites : inv[i].reserved = Cardinality(Held(claim, i))
  BY DEF IntakeInv, SeatsSound, KeepersSound
<1>3. S \in SUBSET Claims /\ \A c \in S : claim[c].reserved OBVIOUS
\* every claim that holds a place is of an account, so all places are given back
<1>4. \A i \in Invites : Freed(claim, S, i) = Held(claim, i)
  BY <1>2 DEF Freed, Held
<1>5. RowsFreed(claim, claim', S) BY <1>1, IsolateRows
<1> HIDE DEF S
<1>6. \A i \in Invites : /\ End(i) \in {"NONE", "REVOKED"}
                         /\ End(i) \in Early => inv[i].state \in Early
  BY <1>2 DEF InviteRows, Early
<1> HIDE DEF End
<1>7. \A i \in Invites : /\ inv'[i] \in InviteRows /\ inv'[i].used = inv[i].used
                         /\ inv'[i].reserved = 0 /\ inv'[i].state = End(i)
  <2> SUFFICES ASSUME NEW i \in Invites
               PROVE  /\ inv'[i] \in InviteRows /\ inv'[i].used = inv[i].used
                      /\ inv'[i].reserved = 0 /\ inv'[i].state = End(i)
    OBVIOUS
  <2> DEFINE e == End(i)
  <2>1. inv'[i] = [inv[i] EXCEPT !.state = e, !.reserved = 0] /\ e \in {"NONE", "REVOKED"}
    BY <1>1, <1>6
  <2> HIDE DEF e
  <2>2. \A n \in Nat : LET row == [inv[i] EXCEPT !.state = e, !.reserved = n]
                       IN  /\ row \in InviteRows /\ row.used = inv[i].used
                           /\ row.reserved = n /\ row.state = e
    <3>1. inv[i] \in InviteRows BY <1>2
    <3>2. e \in {"NONE", "REVOKED"} BY <2>1
    <3> QED BY <3>1, <3>2 DEF InviteRows
  <2>3. /\ inv'[i] \in InviteRows /\ inv'[i].used = inv[i].used
        /\ inv'[i].reserved = 0 /\ inv'[i].state = e
    BY <2>1, <2>2
  <2> QED BY <2>3 DEF e
<1>8. inv' \in [Invites -> InviteRows] BY <1>1, <1>7
<1>9. CountsFreed(inv, inv', claim, S)
  <2>1. \A i \in Invites : inv[i].reserved \in Nat BY <1>2 DEF InviteRows
  <2>2. \A i \in Invites : inv[i].reserved - Cardinality(Freed(claim, S, i)) = 0
    BY <1>2, <1>4, <2>1
  <2> QED BY <1>6, <1>7, <1>8, <2>2 DEF CountsFreed
<1>10. SeatsSound(inv', claim')
  BY <1>2, <1>3, <1>5, <1>8, <1>9, SeatsFreed
<1>11. /\ grant' \in [Claims -> GrantRows] /\ SubsSound' /\ NoneApproved
       /\ \A c \in Claims : grant'[c].state # "ACTIVE"
  BY <1>1, <1>2, IsolateRest
<1>12. KeepersSound'
  <2>1. active' \subseteq Accounts /\ era' \in Nat /\ human' \in [Newcomers -> HumanRows]
    <3>1. active \subseteq Accounts /\ era \in Nat /\ human \in [Newcomers -> HumanRows]
      BY <1>2
    <3>2. active' = active /\ era' = era + 1 /\ human' = human BY <1>1
    <3> QED BY <3>1, <3>2
  <2> QED BY <1>2, <1>11, <2>1, KeepersFewer
<1> QED BY <1>10, <1>11, <1>12 DEF IntakeInv

\* cleanupTalentMaintenance
LEMMA CleanupKeeps ==
    ASSUME IntakeInv, Joining!Cleanup
    PROVE  IntakeInv' /\ NoneApproved
<1>1. sub \in [Subs -> SubRows] /\ KeepersSound /\ \A s \in Subs : ClaimKnown(sub[s])
  BY DEF IntakeInv, SubsSound
<1> DEFINE S == Joining!Idle(inv, FALSE)
           End(s) == IF sub[s].state \in {"DRAFT", "SUBMITTED"} THEN "EXPIRED"
                                                               ELSE sub[s].state
<1>2. /\ claim' = Joining!FreeClaims(S) /\ inv' = Joining!FreeInv(inv, S)
      /\ sub' = [s \in Subs |-> IF ~sub[s].late \/ sub[s].state = "NONE" THEN sub[s]
                                ELSE [sub[s] EXCEPT !.state = End(s), !.items = << >>]]
      /\ UNCHANGED <<active, human, ctx, grant, consent, era>>
  BY DEF Joining!Cleanup
<1>3. SeatsSound(inv', claim') BY <1>2, CleanupSeats
<1>4. \A s \in Subs : LET row == [sub[s] EXCEPT !.state = End(s), !.items = << >>]
                      IN  /\ row \in SubRows
                          /\ row.state \in {"APPROVED", "PARTIALLY_APPROVED"} =>
                                sub[s].state = row.state
                          /\ ClaimKnown(row)
  BY <1>1, NoItems DEF SubRows, SubStates, ClaimKnown
<1> HIDE DEF End
<1>5. sub' \in [Subs -> SubRows] /\ NoneApproved /\ \A s \in Subs : ClaimKnown(sub'[s])
  BY <1>1, <1>2, <1>4 DEF NoneApproved
<1>6. KeepersSound' BY <1>1, <1>2 DEF KeepersSound, Joining!OneKeeper
<1> QED BY <1>3, <1>5, <1>6 DEF IntakeInv, SubsSound

LEMMA InvitationEndsKeeps ==
    ASSUME IntakeInv, NEW i \in Invites, Joining!InvitationEnds(i)
    PROVE  IntakeInv' /\ NoneApproved
<1>1. /\ SeatsSound(inv, claim) /\ inv \in [Invites -> InviteRows]
      /\ claim \in [Claims -> ClaimRows]
      /\ \A c \in Claims : claim[c].reserved => claim[c].state = "PENDING"
  BY DEF IntakeInv, SeatsSound
<1> DEFINE r == [inv[i] EXCEPT !.late = TRUE]
<1>2. /\ inv' = [inv EXCEPT ![i] = r]
      /\ claim' = [c \in Claims |-> IF claim[c].inv = i THEN [claim[c] EXCEPT !.late = TRUE]
                                                        ELSE claim[c]]
      /\ UNCHANGED <<active, human, ctx, grant, sub, consent, era>>
  BY <1>1 DEF Joining!InvitationEnds, InviteRows
<1>3. /\ r \in InviteRows /\ r.used = inv[i].used /\ r.reserved = inv[i].reserved
      /\ r.state = inv[i].state
  BY <1>1 DEF InviteRows
<1> HIDE DEF r
<1>4. SeatsSound(inv', claim) BY <1>1, <1>2, <1>3, InviteSet
<1>5. \A c \in Claims : LET row == [claim[c] EXCEPT !.late = TRUE]
                        IN  /\ row \in ClaimRows /\ row.inv = claim[c].inv
                            /\ row.acct = claim[c].acct /\ row.state = claim[c].state
                            /\ row.reserved = claim[c].reserved
  BY <1>1 DEF ClaimRows
<1>6. /\ claim' \in [Claims -> ClaimRows]
      /\ \A c \in Claims : /\ claim'[c].inv = claim[c].inv /\ claim'[c].acct = claim[c].acct
                           /\ claim'[c].state = claim[c].state
                           /\ claim'[c].reserved = claim[c].reserved
  BY <1>1, <1>2, <1>5
<1>7. SeatsSound(inv', claim')
  <2>1. \A k : Held(claim', k) = Held(claim, k) /\ Taken(claim', k) = Taken(claim, k)
    BY <1>6 DEF Held, Taken
  <2> QED BY <1>4, <1>6, <2>1 DEF SeatsSound
<1> QED BY <1>2, <1>7, SeatsStep

LEMMA AdmissionEndsKeeps ==
    ASSUME IntakeInv, NEW c \in Claims, Joining!AdmissionEnds(c)
    PROVE  IntakeInv' /\ NoneApproved
<1>1. SeatsSound(inv, claim) /\ claim \in [Claims -> ClaimRows]
  BY DEF IntakeInv, SeatsSound
<1> DEFINE r == [claim[c] EXCEPT !.late = TRUE]
<1>2. /\ claim' = [claim EXCEPT ![c] = r]
      /\ UNCHANGED <<active, human, inv, ctx, grant, sub, consent, era>>
  BY <1>1 DEF Joining!AdmissionEnds, ClaimRows
<1>3. /\ r \in ClaimRows /\ r.inv = claim[c].inv /\ r.acct = claim[c].acct
      /\ r.state = claim[c].state /\ r.reserved = claim[c].reserved
  BY <1>1 DEF ClaimRows
<1> HIDE DEF r
<1>4. /\ claim' \in [Claims -> ClaimRows]
      /\ \A d \in Claims : /\ claim'[d].inv = claim[d].inv /\ claim'[d].acct = claim[d].acct
                           /\ claim'[d].state = claim[d].state
                           /\ claim'[d].reserved = claim[d].reserved
  BY <1>1, <1>2, <1>3
<1>5. SeatsSound(inv, claim')
  <2>1. \A k : Held(claim', k) = Held(claim, k) /\ Taken(claim', k) = Taken(claim, k)
    BY <1>4 DEF Held, Taken
  <2> QED BY <1>1, <1>4, <2>1 DEF SeatsSound
<1> QED BY <1>2, <1>5, SeatsStep

-------------------------------------------------------------------------------
(* Intake: reviews *)

\* the items of a submission once it is decided
LEMMA DecidedItems ==
    ASSUME NEW t \in ItemLists, NEW A
    PROVE  [f \in DOMAIN t |-> [t[f] EXCEPT !.state = IF f \in A THEN "APPLIED" ELSE "REJECTED"]]
               \in ItemLists
<1>1. DOMAIN t \subseteq Fields /\ \A f \in DOMAIN t : t[f] \in ItemRows BY ItemListsAre
<1> DEFINE End(f) == IF f \in A THEN "APPLIED" ELSE "REJECTED"
           new == [f \in DOMAIN t |-> [t[f] EXCEPT !.state = End(f)]]
<1>2. \A f \in DOMAIN t : End(f) \in {"APPLIED", "REJECTED"} OBVIOUS
<1> HIDE DEF End
<1>3. \A f \in DOMAIN t : [t[f] EXCEPT !.state = End(f)] \in ItemRows
  BY <1>1, <1>2 DEF ItemRows
<1>4. new \in [DOMAIN t -> ItemRows] BY <1>3
<1>5. new \in ItemLists BY <1>1, <1>4 DEF ItemLists
<1> QED BY <1>5 DEF End

\* What a decision makes of a submission, of an applicant (p and g None) or of a keeper.
LEMMA DecidedSound ==
    ASSUME IntakeInv, NEW s \in Subs, NEW A, NEW p \in MaybePerson, NEW g \in MaybeClaim,
           p = None => sub[s].claim \in Claims, Joining!Decided(s, A, p, g)
    PROVE  /\ SubsSound' /\ sub'[s].person = p
           /\ \A z \in Subs \ {s} : sub'[z] = sub[z]
           /\ sub'[s].state \in {"APPROVED", "PARTIALLY_APPROVED"} => A # {}
           /\ \A f \in DOMAIN sub[s].items : sub'[s].items[f].state = "APPLIED" => f \in A
<1>1. sub \in [Subs -> SubRows] /\ \A z \in Subs : ClaimKnown(sub[z])
  BY DEF IntakeInv, SubsSound
<1> DEFINE list == [f \in DOMAIN sub[s].items |->
                        [sub[s].items[f] EXCEPT
                            !.state = IF f \in A THEN "APPLIED" ELSE "REJECTED"]]
           e == IF A = {} THEN "REJECTED"
                ELSE IF A = DOMAIN sub[s].items THEN "APPROVED" ELSE "PARTIALLY_APPROVED"
           r == [sub[s] EXCEPT !.person = p, !.by = g, !.state = e, !.items = list]
<1>2. sub' = [sub EXCEPT ![s].person = p, ![s].by = g, ![s].state = e, ![s].items = list]
  BY DEF Joining!Decided
<1>3. sub[s].items \in ItemLists BY <1>1 DEF SubRows
<1>4. list \in ItemLists BY <1>3, DecidedItems
<1>5. \A f \in DOMAIN sub[s].items : list[f].state = "APPLIED" => f \in A
  <2>1. \A f \in DOMAIN sub[s].items : sub[s].items[f] \in ItemRows BY <1>3, ItemListsAre
  <2> SUFFICES ASSUME NEW f \in DOMAIN sub[s].items, f \notin A
               PROVE  list[f].state # "APPLIED"
    OBVIOUS
  <2>2. list[f] = [sub[s].items[f] EXCEPT !.state = "REJECTED"] OBVIOUS
  <2> QED BY <2>1, <2>2 DEF ItemRows
<1>6. /\ e \in {"REJECTED", "APPROVED", "PARTIALLY_APPROVED"}
      /\ e \in {"APPROVED", "PARTIALLY_APPROVED"} => A # {}
  OBVIOUS
<1> HIDE DEF list, e
<1>7. sub' = [sub EXCEPT ![s] = r] BY <1>1, <1>2 DEF SubRows
<1>8. /\ r \in SubRows /\ r.person = p /\ r.state = e /\ r.items = list
      /\ r.claim = sub[s].claim
  BY <1>1, <1>4, <1>6 DEF SubRows, SubStates
<1> HIDE DEF r
<1>9. /\ sub' \in [Subs -> SubRows] /\ sub'[s] = r
      /\ \A z \in Subs \ {s} : sub'[z] = sub[z]
  BY <1>1, <1>7, <1>8
<1>10. \A z \in Subs : ClaimKnown(sub'[z])
  BY <1>1, <1>8, <1>9 DEF ClaimKnown
<1> QED BY <1>5, <1>6, <1>8, <1>9, <1>10 DEF SubsSound

\* What is applied is what the items say, and who it is applied to is there afterwards.
LEMMA AppliedSound ==
    ASSUME IntakeInv, NEW s \in Subs, NEW A \in SUBSET DOMAIN sub[s].items, NEW p \in Newcomers,
           Joining!Apply(s, A, p)
    PROVE  /\ human' \in [Newcomers -> HumanRows]
           /\ \A q \in Newcomers \ {p} : human'[q] = human[q]
           /\ A = {} => human' = human
           /\ A # {} => human'[p].state = "OPEN"
           /\ \A f \in A : human'[p].text[f] = sub[s].items[f].text
<1>1. human \in [Newcomers -> HumanRows] /\ sub[s].items \in ItemLists
  BY DEF IntakeInv, KeepersSound, SubsSound, SubRows
<1>2. CASE A = {} BY <1>1, <1>2 DEF Joining!Apply
<1>3. CASE A # {}
  <2> DEFINE m == [f \in Fields |-> IF f \in A THEN sub[s].items[f].text ELSE human[p].text[f]]
             r == [human[p] EXCEPT !.state = "OPEN", !.text = m]
  <2>1. human' = [human EXCEPT ![p] = r]
    BY <1>1, <1>3 DEF Joining!Apply, HumanRows
  <2>2. /\ DOMAIN sub[s].items \subseteq Fields
        /\ \A f \in A : sub[s].items[f].text \in TextValues
    BY <1>1, ItemListsAre DEF ItemRows
  <2>3. human[p].text \in [Fields -> TextValues] BY <1>1 DEF HumanRows
  <2>4. m \in [Fields -> TextValues] /\ \A f \in A : m[f] = sub[s].items[f].text
    BY <2>2, <2>3
  <2> HIDE DEF m
  <2>5. r \in HumanRows /\ r.state = "OPEN" /\ r.text = m
    BY <1>1, <2>4 DEF HumanRows
  <2> HIDE DEF r
  <2>6. /\ human' \in [Newcomers -> HumanRows] /\ human'[p] = r
        /\ \A q \in Newcomers \ {p} : human'[q] = human[q]
    BY <1>1, <2>1, <2>5
  <2> QED BY <1>3, <2>4, <2>5, <2>6
<1> QED BY <1>2, <1>3

LEMMA ReviewKnownKeeps ==
    ASSUME IntakeInv, NEW s \in Subs, NEW A \in SUBSET DOMAIN sub[s].items,
           sub[s].state = "SUBMITTED", sub[s].person # None, sub[s].items = sub[s].sent,
           A # {} => consent[sub[s].consent] = "ACTIVE",
           Joining!ReviewKnown(s, A), UNCHANGED <<active, ctx, consent, era>>
    PROVE  IntakeInv' /\ Joining!ReviewedAsSubmitted
<1> DEFINE p == sub[s].person
<1>1. /\ sub \in [Subs -> SubRows] /\ ClaimKnown(sub[s]) /\ KeepersSound
      /\ SeatsSound(inv, claim)
  BY DEF IntakeInv, SubsSound
<1>2. p \in Newcomers /\ sub[s].by \in MaybeClaim BY <1>1 DEF SubRows, MaybePerson
<1>3. UNCHANGED <<active, inv, claim, grant, era>> BY DEF Joining!ReviewKnown
<1>4. CASE Joining!Rebase(s, A)
  <2> DEFINE r == [sub[s] EXCEPT !.state = "NEEDS_REBASE"]
  <2>1. sub' = [sub EXCEPT ![s] = r] /\ UNCHANGED human
    BY <1>1, <1>4 DEF Joining!ReviewKnown, SubRows
  <2>2. r \in SubRows /\ r.state = "NEEDS_REBASE" /\ ClaimKnown(r)
    BY <1>1 DEF SubRows, SubStates, ClaimKnown
  <2> HIDE DEF r
  <2>3. IntakeInv' /\ NoneApproved BY <1>3, <2>1, <2>2, SubSet
  <2> QED BY <2>3 DEF NoneApproved, Joining!ReviewedAsSubmitted
<1>5. CASE ~Joining!Rebase(s, A)
  <2>1. Joining!Apply(s, A, p) /\ Joining!Decided(s, A, p, sub[s].by)
    BY <1>5 DEF Joining!ReviewKnown
  <2>2. /\ human' \in [Newcomers -> HumanRows]
        /\ \A q \in Newcomers \ {p} : human'[q] = human[q]
        /\ A = {} => human' = human
        /\ A # {} => human'[p].state = "OPEN"
        /\ \A f \in A : human'[p].text[f] = sub[s].items[f].text
    BY <1>2, <2>1, AppliedSound
  <2>3. /\ SubsSound' /\ sub'[s].person = p
        /\ \A z \in Subs \ {s} : sub'[z] = sub[z]
        /\ sub'[s].state \in {"APPROVED", "PARTIALLY_APPROVED"} => A # {}
        /\ \A f \in DOMAIN sub[s].items : sub'[s].items[f].state = "APPLIED" => f \in A
    <3>1. p \in MaybePerson /\ p # None BY <1>2 DEF MaybePerson
    <3> QED BY <1>2, <2>1, <3>1, DecidedSound
\* the keepers of the person stay
  <2>4. KeepersSound'
    <3>1. \A c \in Claims : grant[c].state = "ACTIVE" =>
             /\ grant[c].person \in Newcomers /\ grant[c].acct \in active /\ grant[c].era = era
             /\ human[grant[c].person].state \notin {"ABSENT", "GONE"}
      BY <1>1 DEF KeepersSound, Joining!OneKeeper
    <3>2. \A c \in Claims : grant[c].state = "ACTIVE" =>
              human'[grant[c].person].state \notin {"ABSENT", "GONE"}
      BY <2>2, <3>1
    <3>3. /\ active' \subseteq Accounts /\ era' \in Nat /\ grant' \in [Claims -> GrantRows]
          /\ grant' = grant
      BY <1>1, <1>3 DEF KeepersSound
    <3> QED BY <1>1, <1>3, <2>2, <3>1, <3>2, <3>3, KeepersFewer
  <2>5. IntakeInv' BY <1>1, <1>3, <2>3, <2>4 DEF IntakeInv
  <2>6. ASSUME NEW f \in A
        PROVE  human[p].text[f] = sub[s].items[f].base.text
    <3>1. sub[s].items[f].base = [text |-> human[p].text[f], epoch |-> human[p].epoch]
      BY <1>5 DEF Joining!Rebase
    <3> DEFINE b == sub[s].items[f].base
    <3>2. b = [text |-> human[p].text[f], epoch |-> human[p].epoch] BY <3>1
    <3> HIDE DEF b
    <3>3. b.text = human[p].text[f] BY <3>2
    <3> QED BY <3>3 DEF b
  <2>7. Joining!ReviewedAsSubmitted
    <3> SUFFICES ASSUME NEW z \in Subs, sub[z].state = "SUBMITTED",
                        sub'[z].state \in {"APPROVED", "PARTIALLY_APPROVED"}
                 PROVE  /\ consent[sub[z].consent] = "ACTIVE"
                        /\ \A f \in DOMAIN sub[z].items : sub'[z].items[f].state = "APPLIED" =>
                              /\ human'[sub'[z].person].text[f] = sub[z].sent[f].text
                              /\ sub[z].person # None =>
                                    human[sub[z].person].text[f] = sub[z].sent[f].base.text
      BY DEF Joining!ReviewedAsSubmitted
    <3>1. z = s BY <2>3
    <3>2. sub'[s].state \in {"APPROVED", "PARTIALLY_APPROVED"} BY <3>1
    <3>3. A # {} BY <2>3, <3>2
    <3> QED BY <2>2, <2>3, <2>6, <3>1, <3>3
  <2> QED BY <2>5, <2>7
<1> QED BY <1>4, <1>5

LEMMA ReviewNewKeeps ==
    ASSUME IntakeInv, NEW s \in Subs, NEW A \in SUBSET DOMAIN sub[s].items, NEW q \in Newcomers,
           sub[s].state = "SUBMITTED", sub[s].person = None, sub[s].items = sub[s].sent,
           A # {} => consent[sub[s].consent] = "ACTIVE",
           Joining!ReviewNew(s, A, q), UNCHANGED <<active, ctx, consent, era>>
    PROVE  IntakeInv' /\ Joining!ReviewedAsSubmitted
<1> DEFINE c == sub[s].claim
           p == IF A = {} THEN None ELSE q
           g == IF A = {} THEN None ELSE c
<1>1. /\ sub \in [Subs -> SubRows] /\ ClaimKnown(sub[s]) /\ KeepersSound
      /\ SeatsSound(inv, claim)
  BY DEF IntakeInv, SubsSound
<1>2. c \in Claims BY <1>1 DEF ClaimKnown
<1>3. /\ Joining!OwnClaim(sub[s].acct, c) /\ Joining!Admitted(c)
      /\ IF A = {} THEN Joining!Reject(c) /\ Joining!Decided(s, A, None, None) /\ UNCHANGED grant
         ELSE /\ IF human[q].state = "ABSENT"
                 THEN claim[c].rel = "SELF" => ~Joining!SelfBound(claim[c].acct, q)
                 ELSE Joining!MayApprove(c, q)
              /\ Joining!Approve(c, q) /\ Joining!Decided(s, A, q, c)
      /\ Joining!Apply(s, A, q)
  BY DEF Joining!ReviewNew
<1>4. claim[c].acct \in active /\ claim[c].state = "PENDING"
  BY <1>3 DEF Joining!OwnClaim, Joining!Admitted
<1>5. /\ human' \in [Newcomers -> HumanRows]
      /\ \A h \in Newcomers \ {q} : human'[h] = human[h]
      /\ A = {} => human' = human
      /\ A # {} => human'[q].state = "OPEN"
      /\ \A f \in A : human'[q].text[f] = sub[s].items[f].text
  BY <1>3, AppliedSound
<1>6. Joining!Decided(s, A, p, g) BY <1>3
<1>7. p \in MaybePerson /\ g \in MaybeClaim
  BY <1>2 DEF MaybePerson, MaybeClaim
<1>8. A # {} => p = q OBVIOUS
<1> HIDE DEF p, g
<1>9. /\ SubsSound' /\ sub'[s].person = p
      /\ \A z \in Subs \ {s} : sub'[z] = sub[z]
      /\ sub'[s].state \in {"APPROVED", "PARTIALLY_APPROVED"} => A # {}
      /\ \A f \in DOMAIN sub[s].items : sub'[s].items[f].state = "APPLIED" => f \in A
  BY <1>2, <1>6, <1>7, DecidedSound
<1>10. SeatsSound(inv', claim') /\ KeepersSound'
  <2>1. CASE A = {}
    <3>1. Joining!Reject(c) /\ UNCHANGED grant BY <1>3, <2>1
    <3>2. SeatsSound(inv', claim') BY <1>2, <1>4, <3>1, RejectSound
    <3>3. KeepersSound'
      BY <1>1, <1>5, <2>1, <3>1 DEF KeepersSound, Joining!OneKeeper
    <3> QED BY <3>2, <3>3
  <2>2. CASE A # {}
    <3>1. Joining!Approve(c, q) BY <1>3, <2>2
    <3>2. claim[c].rel = "SELF" => ~Joining!SelfBound(claim[c].acct, q)
      BY <1>3, <2>2 DEF Joining!MayApprove
    <3>3. \A h \in Newcomers : human[h].state \notin {"ABSENT", "GONE"} =>
                                   human'[h].state \notin {"ABSENT", "GONE"}
      BY <1>5, <2>2
    <3>4. human'[q].state \notin {"ABSENT", "GONE"} BY <1>5, <2>2
    <3> QED BY <1>2, <1>3, <1>4, <1>5, <3>1, <3>2, <3>3, <3>4, ApproveSound
  <2> QED BY <2>1, <2>2
<1>11. IntakeInv' BY <1>9, <1>10 DEF IntakeInv
<1>12. Joining!ReviewedAsSubmitted
  <2> SUFFICES ASSUME NEW z \in Subs, sub[z].state = "SUBMITTED",
                      sub'[z].state \in {"APPROVED", "PARTIALLY_APPROVED"}
               PROVE  /\ consent[sub[z].consent] = "ACTIVE"
                      /\ \A f \in DOMAIN sub[z].items : sub'[z].items[f].state = "APPLIED" =>
                            /\ human'[sub'[z].person].text[f] = sub[z].sent[f].text
                            /\ sub[z].person # None =>
                                  human[sub[z].person].text[f] = sub[z].sent[f].base.text
    BY DEF Joining!ReviewedAsSubmitted
  <2>1. z = s BY <1>9
  <2>2. sub'[s].state \in {"APPROVED", "PARTIALLY_APPROVED"} BY <2>1
  <2>3. A # {} BY <1>9, <2>2
  <2> QED BY <1>5, <1>8, <1>9, <2>1, <2>3
<1> QED BY <1>11, <1>12

LEMMA ReviewKeeps ==
    ASSUME IntakeInv, NEW s \in Subs, NEW A, NEW q \in Newcomers, Joining!Review(s, A, q)
    PROVE  IntakeInv' /\ Joining!ReviewedAsSubmitted
<1>1. /\ sub[s].state = "SUBMITTED" /\ A \subseteq DOMAIN sub[s].items
      /\ sub[s].items = sub[s].sent
      /\ A # {} => consent[sub[s].consent] = "ACTIVE"
      /\ UNCHANGED <<active, ctx, consent, era>>
      /\ IF sub[s].person # None THEN q = sub[s].person /\ Joining!ReviewKnown(s, A)
                                 ELSE Joining!ReviewNew(s, A, q)
  BY DEF Joining!Review
<1>2. CASE sub[s].person # None
  <2>1. Joining!ReviewKnown(s, A) BY <1>1, <1>2
  <2> QED BY <1>1, <1>2, <2>1, ReviewKnownKeeps
<1>3. CASE sub[s].person = None
  <2>1. Joining!ReviewNew(s, A, q) BY <1>1, <1>3
  <2> QED BY <1>1, <1>3, <2>1, ReviewNewKeeps
<1> QED BY <1>2, <1>3

-------------------------------------------------------------------------------
(* The intake part of a behaviour *)

\* the initial rows of the two rooms
LEMMA RoomRows ==
    /\ Joining!NoInv \in InviteRows /\ Joining!NoInv.used = 0 /\ Joining!NoInv.reserved = 0
    /\ Joining!Issued \in InviteRows /\ Joining!Issued.used = 0 /\ Joining!Issued.reserved = 0
    /\ Joining!Used \in InviteRows /\ Joining!Used.used = 1 /\ Joining!Used.reserved = 0
    /\ Joining!Used.state = "CLAIMED"
    /\ Joining!NoClaim \in ClaimRows /\ Joining!NoClaim.state = "NONE"
    /\ Joining!NoClaim.reserved = FALSE
    /\ Joining!Kept \in ClaimRows /\ Joining!Kept.state = "APPROVED"
    /\ Joining!Kept.reserved = FALSE /\ Joining!Kept.inv = i2 /\ Joining!Kept.acct = u1
    /\ Joining!NoGrant \in GrantRows /\ Joining!NoGrant.state = "NONE"
    /\ Joining!Keeper \in GrantRows /\ Joining!Keeper.acct = u1 /\ Joining!Keeper.person = p1
    /\ Joining!Keeper.era = 0
    /\ Joining!NoSub \in SubRows /\ ClaimKnown(Joining!NoSub)
<1>1. /\ u1 \in MaybeAccount /\ None \in MaybeAccount /\ p1 \in MaybePerson
      /\ None \in MaybePerson /\ None \in MaybeClaim /\ i2 \in Invites
  BY IntakeFacts DEF MaybeAccount, MaybePerson, MaybeClaim
<1>2. /\ Joining!NoInv \in InviteRows /\ Joining!NoInv.used = 0 /\ Joining!NoInv.reserved = 0
      /\ Joining!Issued \in InviteRows /\ Joining!Issued.used = 0
      /\ Joining!Issued.reserved = 0
      /\ Joining!Used \in InviteRows /\ Joining!Used.used = 1 /\ Joining!Used.reserved = 0
      /\ Joining!Used.state = "CLAIMED"
  BY DEF Joining!NoInv, Joining!Issued, Joining!Used, InviteRows
<1>3. /\ Joining!NoClaim \in ClaimRows /\ Joining!NoClaim.state = "NONE"
      /\ Joining!NoClaim.reserved = FALSE
      /\ Joining!Kept \in ClaimRows /\ Joining!Kept.state = "APPROVED"
      /\ Joining!Kept.reserved = FALSE /\ Joining!Kept.inv = i2 /\ Joining!Kept.acct = u1
  BY <1>1 DEF Joining!NoClaim, Joining!Kept, ClaimRows
<1>4. /\ Joining!NoGrant \in GrantRows /\ Joining!NoGrant.state = "NONE"
      /\ Joining!Keeper \in GrantRows /\ Joining!Keeper.acct = u1
      /\ Joining!Keeper.person = p1 /\ Joining!Keeper.era = 0
  BY <1>1 DEF Joining!NoGrant, Joining!Keeper, GrantRows
<1>5. Joining!NoSub \in SubRows /\ ClaimKnown(Joining!NoSub)
  BY <1>1, NoItems DEF Joining!NoSub, SubRows, SubStates, ClaimKnown
<1> QED BY <1>2, <1>3, <1>4, <1>5

LEMMA EveryoneIs ==
    ASSUME NEW open
    PROVE  /\ Joining!Everyone(open) \in [Newcomers -> HumanRows]
           /\ \A p \in Newcomers \cap open : Joining!Everyone(open)[p].state = "OPEN"
<1> DEFINE Row(p) == [state |-> IF p \in open THEN "OPEN" ELSE "ABSENT",
                      text |-> [f \in Fields |-> x1], epoch |-> 0]
<1>1. Joining!Everyone(open) = [p \in Newcomers |-> Row(p)]
  BY DEF Joining!Everyone, Joining!Human
<1>2. \A p \in Newcomers : Row(p) \in HumanRows /\ (p \in open => Row(p).state = "OPEN")
  BY IntakeFacts DEF HumanRows
<1> HIDE DEF Row
<1> QED BY <1>1, <1>2

LEMMA IntakeStarts == Joining!IntakeInit => IntakeInv
<1> SUFFICES ASSUME Joining!IntakeInit PROVE IntakeInv
  OBVIOUS
<1>1. /\ active = {u1, u2} /\ era = 0
      /\ sub = [s \in Subs |-> Joining!NoSub]
      /\ \/ /\ human = Joining!Everyone({p1})
            /\ inv = [i \in Invites |-> IF i = i1 THEN Joining!Issued ELSE Joining!NoInv]
            /\ claim = [c \in Claims |-> Joining!NoClaim]
            /\ grant = [c \in Claims |-> Joining!NoGrant]
         \/ /\ human = Joining!Everyone({p1, p2})
            /\ inv = [i \in Invites |-> IF i = i2 THEN Joining!Used ELSE Joining!NoInv]
            /\ claim = [c \in Claims |-> IF c = c1 THEN Joining!Kept ELSE Joining!NoClaim]
            /\ grant = [c \in Claims |-> IF c = c1 THEN Joining!Keeper ELSE Joining!NoGrant]
  BY DEF Joining!IntakeInit
<1>2. \A i \in Invites : Joining!Places(i) \in Nat \ {0}
  BY IntakeFacts DEF Joining!Places
<1>3. SubsSound BY <1>1, RoomRows DEF SubsSound
<1>4. active \subseteq Accounts /\ era \in Nat /\ u1 \in active BY <1>1, IntakeFacts
<1>5. CASE /\ human = Joining!Everyone({p1})
           /\ inv = [i \in Invites |-> IF i = i1 THEN Joining!Issued ELSE Joining!NoInv]
           /\ claim = [c \in Claims |-> Joining!NoClaim]
           /\ grant = [c \in Claims |-> Joining!NoGrant]
  <2>1. \A i \in Invites : Held(claim, i) = {} /\ Taken(claim, i) = {}
    BY <1>5, RoomRows DEF Held, Taken
  <2>2. \A i \in Invites : inv[i] \in InviteRows /\ inv[i].used = 0 /\ inv[i].reserved = 0
    BY <1>5, RoomRows
  <2>3. \A i \in Invites :
            /\ inv[i].reserved = Cardinality(Held(claim, i))
            /\ inv[i].used = Cardinality(Taken(claim, i))
            /\ inv[i].used + inv[i].reserved <= Joining!Places(i)
    BY <1>2, <2>1, <2>2, FS_EmptySet
  <2>4. inv \in [Invites -> InviteRows] /\ claim \in [Claims -> ClaimRows]
    BY <1>5, <2>2, RoomRows
  <2>5. \A c \in Claims : claim[c].state = "NONE" /\ ~claim[c].reserved
    BY <1>5, RoomRows
  <2>6. SeatsSound(inv, claim) BY <2>2, <2>3, <2>4, <2>5 DEF SeatsSound
  <2>7. grant \in [Claims -> GrantRows] /\ \A c \in Claims : grant[c].state # "ACTIVE"
    BY <1>5, RoomRows
  <2>8. KeepersSound
    BY <1>4, <1>5, <2>7, EveryoneIs DEF KeepersSound, Joining!OneKeeper
  <2> QED BY <1>3, <2>6, <2>8 DEF IntakeInv
<1>6. CASE /\ human = Joining!Everyone({p1, p2})
           /\ inv = [i \in Invites |-> IF i = i2 THEN Joining!Used ELSE Joining!NoInv]
           /\ claim = [c \in Claims |-> IF c = c1 THEN Joining!Kept ELSE Joining!NoClaim]
           /\ grant = [c \in Claims |-> IF c = c1 THEN Joining!Keeper ELSE Joining!NoGrant]
  <2>1. /\ \A i \in Invites : Held(claim, i) = {}
        /\ \A i \in Invites \ {i2} : Taken(claim, i) = {}
        /\ Taken(claim, i2) = {c1}
    BY <1>6, RoomRows, IntakeFacts DEF Held, Taken
  <2>2. \A i \in Invites : /\ inv[i] \in InviteRows /\ inv[i].reserved = 0
                           /\ inv[i].used = IF i = i2 THEN 1 ELSE 0
                           /\ i = i2 => inv[i].state = "CLAIMED"
    BY <1>6, RoomRows
  <2>3. \A i \in Invites :
            /\ inv[i].reserved = Cardinality(Held(claim, i))
            /\ inv[i].used = Cardinality(Taken(claim, i))
            /\ inv[i].used + inv[i].reserved <= Joining!Places(i)
    <3> SUFFICES ASSUME NEW i \in Invites
                 PROVE  /\ inv[i].reserved = Cardinality(Held(claim, i))
                        /\ inv[i].used = Cardinality(Taken(claim, i))
                        /\ inv[i].used + inv[i].reserved <= Joining!Places(i)
      OBVIOUS
    <3>1. Cardinality(Held(claim, i)) = 0 BY <2>1, FS_EmptySet
    <3>2. CASE i = i2
      <4>1. Cardinality(Taken(claim, i)) = 1 BY <2>1, <3>2, FS_Singleton
      <4> QED BY <1>2, <2>2, <3>1, <3>2, <4>1
    <3>3. CASE i # i2
      <4>1. Cardinality(Taken(claim, i)) = 0 BY <2>1, <3>3, FS_EmptySet
      <4> QED BY <1>2, <2>2, <3>1, <3>3, <4>1
    <3> QED BY <3>2, <3>3
  <2>4. inv \in [Invites -> InviteRows] /\ claim \in [Claims -> ClaimRows]
    BY <1>6, <2>2, RoomRows
  <2>5. \A c \in Claims : /\ ~claim[c].reserved
                          /\ claim[c].state # "NONE" =>
                                claim[c].inv \in Invites /\ claim[c].acct \in Accounts
    BY <1>6, RoomRows, IntakeFacts
  <2>6. SeatsSound(inv, claim) BY <2>2, <2>3, <2>4, <2>5 DEF SeatsSound, Early
  <2>7. /\ grant \in [Claims -> GrantRows]
        /\ \A c \in Claims : grant[c].state = "ACTIVE" =>
              /\ c = c1 /\ grant[c].acct = u1 /\ grant[c].person = p1 /\ grant[c].era = 0
    BY <1>6, RoomRows
  <2>8. /\ human \in [Newcomers -> HumanRows] /\ p1 \in Newcomers
        /\ human[p1].state = "OPEN"
    BY <1>6, EveryoneIs, IntakeFacts
  <2>9. KeepersSound
    BY <1>1, <1>4, <2>7, <2>8 DEF KeepersSound, Joining!OneKeeper
  <2> QED BY <1>3, <2>6, <2>9 DEF IntakeInv
<1> QED BY <1>1, <1>5, <1>6

LEMMA RoomTexts ==
    ASSUME NEW t \in TextValues
    PROVE  Joining!All(t) \in TextLists /\ Joining!Only(name, t) \in TextLists
<1>1. Joining!All(t) \in [Fields -> TextValues] BY DEF Joining!All
<1>2. Joining!Only(name, t) \in [{name} -> TextValues] /\ {name} \subseteq Fields
  BY IntakeFacts DEF Joining!Only
<1> QED BY <1>1, <1>2 DEF TextLists

\* a step that approves no submission
LEMMA NothingReviewed == NoneApproved => Joining!ReviewedAsSubmitted
BY DEF NoneApproved, Joining!ReviewedAsSubmitted

LEMMA SeatStepsKeep ==
    ASSUME IntakeInv, Joining!SeatSteps
    PROVE  IntakeInv' /\ Joining!ReviewedAsSubmitted
<1>1. Joining!NextClaim \in Claims BY IntakeFacts DEF Joining!NextClaim
<1>2. CASE \E i \in Invites : \/ Joining!CreateInvitation(i) \/ Joining!Issue(i)
                              \/ Joining!RevokeInvitation(i)
  BY <1>2, CreateInvitationKeeps, IssueKeeps, RevokeInvitationKeeps, NothingReviewed
<1>3. CASE Joining!InvitationEnds(i1)
  BY <1>3, IntakeFacts, InvitationEndsKeeps, NothingReviewed
<1>4. CASE \E x \in Accounts : \/ Joining!MakeClaim(x, Joining!NextClaim, "SELF")
                               \/ \E i \in Invites : Joining!Exchange(x, i)
  BY <1>1, <1>4, MakeClaimKeeps, ExchangeKeeps, NothingReviewed
<1>5. CASE Joining!MakeClaim(u2, Joining!NextClaim, "AGENT")
  BY <1>1, <1>5, IntakeFacts, MakeClaimKeeps, NothingReviewed
<1>6. ASSUME NEW c \in Claims,
             \/ \E x \in Accounts : Joining!Renew(x, c)
             \/ Joining!DecideClaim(c, TRUE) \/ Joining!DecideClaim(c, FALSE)
             \/ Joining!RevokeGrant(c) \/ Joining!AdmissionEnds(c)
             \/ Joining!CreateDraft(t1, claim[c].acct, c, Joining!All(x2))
      PROVE  IntakeInv' /\ Joining!ReviewedAsSubmitted
  <2>1. t1 \in Subs /\ Joining!All(x2) \in TextLists BY IntakeFacts, RoomTexts
  <2>2. CASE \E x \in Accounts : Joining!Renew(x, c)
    BY <2>2, RenewKeeps, NothingReviewed
  <2>3. CASE Joining!DecideClaim(c, TRUE) \/ Joining!DecideClaim(c, FALSE)
    BY <2>3, DecideClaimKeeps, NothingReviewed
  <2>4. CASE Joining!RevokeGrant(c) BY <2>4, RevokeGrantKeeps, NothingReviewed
  <2>5. CASE Joining!AdmissionEnds(c) BY <2>5, AdmissionEndsKeeps, NothingReviewed
  <2>6. CASE Joining!CreateDraft(t1, claim[c].acct, c, Joining!All(x2))
    BY <2>1, <2>6, CreateDraftKeeps, NothingReviewed
  <2> QED BY <1>6, <2>2, <2>3, <2>4, <2>5, <2>6
<1>7. CASE Joining!Submit(t1) BY <1>7, IntakeFacts, SubmitKeeps, NothingReviewed
<1>8. CASE \E A \in {{}, Fields}, q \in Newcomers : Joining!Review(t1, A, q)
  BY <1>8, IntakeFacts, ReviewKeeps
<1>9. CASE Joining!Cleanup BY <1>9, CleanupKeeps, NothingReviewed
<1>10. CASE Joining!EraseWithSource(p1) BY <1>10, EraseWithSourceKeeps, NothingReviewed
<1> QED
  BY <1>2, <1>3, <1>4, <1>5, <1>6, <1>7, <1>8, <1>9, <1>10 DEF Joining!SeatSteps

LEMMA TextStepsKeep ==
    ASSUME IntakeInv, Joining!TextSteps
    PROVE  IntakeInv' /\ Joining!ReviewedAsSubmitted
<1>1. /\ t1 \in Subs /\ t2 \in Subs /\ c1 \in Claims /\ p1 \in Newcomers
      /\ x2 \in TextValues /\ name \in Fields
      /\ Joining!All(x2) \in TextLists /\ Joining!Only(name, x2) \in TextLists
      /\ Joining!Only(name, x1) \in TextLists
  BY IntakeFacts, RoomTexts
<1>2. CASE \/ Joining!CreateDraft(t1, u1, c1, Joining!All(x2))
           \/ Joining!CreateDraft(t2, u1, c1, Joining!Only(name, x1))
  BY <1>1, <1>2, CreateDraftKeeps, NothingReviewed
<1>3. CASE Joining!SaveDraft(t1, Joining!Only(name, x2))
  BY <1>1, <1>3, SaveDraftKeeps, NothingReviewed
<1>4. CASE Joining!Fork(t1, t2) \/ Joining!Withdraw(t1) \/ Joining!SubmissionEnds(t1)
  BY <1>1, <1>4, ForkKeeps, WithdrawKeeps, SubmissionEndsKeeps, NothingReviewed
<1>5. ASSUME NEW s \in Subs,
             \/ Joining!Submit(s) \/ Joining!RevokeConsent(s)
             \/ \E A \in SUBSET Fields : Joining!Review(s, A, p1)
      PROVE  IntakeInv' /\ Joining!ReviewedAsSubmitted
  <2>1. CASE Joining!Submit(s) BY <2>1, SubmitKeeps, NothingReviewed
  <2>2. CASE Joining!RevokeConsent(s) BY <2>2, RevokeConsentKeeps, NothingReviewed
  <2>3. CASE \E A \in SUBSET Fields : Joining!Review(s, A, p1)
    BY <1>1, <2>3, ReviewKeeps
  <2> QED BY <1>5, <2>1, <2>2, <2>3
<1>6. CASE Joining!PatchPerson(p1, name, x2)
  BY <1>1, <1>6, PatchPersonKeeps, NothingReviewed
<1>7. CASE \E state \in {"OPEN", "ARCHIVED", "BLOCKED"} : Joining!PersonStatus(p1, state)
  BY <1>7, PersonStatusKeeps, NothingReviewed
<1>8. CASE Joining!ErasePerson(p1) \/ Joining!EraseWithSource(p1)
  BY <1>8, ErasePersonKeeps, EraseWithSourceKeeps, NothingReviewed
<1>9. CASE Joining!Merge(p2, p1) BY <1>9, MergeKeeps, NothingReviewed
<1>10. CASE Joining!RevokeGrant(c1) BY <1>1, <1>10, RevokeGrantKeeps, NothingReviewed
<1>11. CASE Joining!CloseAccount(u1) BY <1>11, CloseAccountKeeps, NothingReviewed
<1>12. CASE Joining!Recover BY <1>12, RecoverKeeps, NothingReviewed
<1>13. CASE Joining!Cleanup BY <1>13, CleanupKeeps, NothingReviewed
<1> QED
  BY <1>2, <1>3, <1>4, <1>5, <1>6, <1>7, <1>8, <1>9, <1>10, <1>11, <1>12, <1>13
  DEF Joining!TextSteps

LEMMA IntakeKeeps ==
    ASSUME IntakeInv, Joining!IntakeNext \/ UNCHANGED joinVars
    PROVE  IntakeInv' /\ Joining!ReviewedAsSubmitted
<1>1. CASE Joining!IntakeNext
  BY <1>1, SeatStepsKeep, TextStepsKeep DEF Joining!IntakeNext
<1>2. CASE UNCHANGED joinVars
  <2>1. UNCHANGED <<active, human, inv, claim, grant, sub, era>> BY <1>2 DEF joinVars
  <2>2. SeatsSound(inv', claim') BY <2>1 DEF IntakeInv
  <2> QED BY <2>1, <2>2, SeatsStep, NothingReviewed
<1> QED BY <1>1, <1>2

LEMMA IntakeIsSound == IntakeInv => Joining!IntakeOK
<1> SUFFICES ASSUME IntakeInv PROVE Joining!IntakeOK
  OBVIOUS
<1>1. SeatsSound(inv, claim) /\ KeepersSound /\ SubsSound BY DEF IntakeInv
<1>2. Joining!TypeOK
  <2>1. /\ active \subseteq Accounts
        /\ \A p \in Newcomers :
              human[p].state \in {"ABSENT", "OPEN", "ARCHIVED", "BLOCKED", "GONE", "ERASED"}
    BY <1>1 DEF KeepersSound, HumanRows
  <2>2. \A i \in Invites :
            /\ inv[i].state \in {"NONE", "DRAFT", "ACTIVE", "CLAIMED", "EXHAUSTED", "REVOKED"}
            /\ inv[i].reserved \in Nat
    BY <1>1 DEF SeatsSound, InviteRows
  <2>3. \A c \in Claims :
            claim[c].state \in {"NONE", "PENDING", "APPROVED", "REJECTED", "WITHDRAWN", "EXPIRED"}
    BY <1>1 DEF SeatsSound, ClaimRows
  <2>4. \A c \in Claims : grant[c].state \in {"NONE", "ACTIVE", "REVOKED", "RECOVERY_REVIEW"}
    BY <1>1 DEF KeepersSound, GrantRows
  <2>5. \A s \in Subs : sub[s].state \in SubStates BY <1>1 DEF SubsSound, SubRows
  <2> QED BY <2>1, <2>2, <2>3, <2>4, <2>5 DEF Joining!TypeOK, SubStates
<1>3. Joining!PlacesHold
  <2>1. \A S : Joining!Cardinality(S) = Cardinality(S) BY IntakeFacts
  <2>2. \A i : /\ Held(claim, i) = {c \in Claims : claim[c].reserved /\ claim[c].inv = i}
               /\ Taken(claim, i) = {c \in Claims : claim[c].state = "APPROVED"
                                                        /\ claim[c].inv = i}
    BY DEF Held, Taken
  <2> QED BY <1>1, <2>1, <2>2 DEF Joining!PlacesHold, SeatsSound
<1>4. Joining!OneKeeper BY <1>1 DEF KeepersSound
<1> QED BY <1>2, <1>3, <1>4 DEF Joining!IntakeOK

-------------------------------------------------------------------------------
(* Production: the invariant, by what it is about *)

RowRecs ==
    [kind: {"entry", "credit", "participant", "work", "item"}, root: Making!Roots,
     who: People \cup Assets \cup Works, code: Codes \cup {None},
     role: Making!Roles \cup {None}, work: Works \cup {None}, pos: 0..Cardinality(Ids),
     state: {None, "NOMINATED", "ACTUAL", "REFERENCE", "DELIVERABLE", "BOUND", "LEGACY_REVIEW"},
     note: BOOLEAN]
RootRecs ==
    [status: {"NONE", "DRAFT", "ACTIVE", "COMPLETED", "ARCHIVED"}, rev: 0..MaxRev,
     cover: Ids \cup {None}, parties: SUBSET Parties]

\* Rows are of roots that were made: pictures and credits of works, candidates of lists.
KindOk(e) ==
    /\ e.kind = "entry" => e.root \in Works /\ e.who \in Assets
    /\ e.kind = "credit" => e.who \in People /\ e.code \in Codes
    /\ e.kind = "item" => e.root \in Lists
RowOk(e) == root[e.root].status # "NONE" /\ KindOk(e)
RowsHaveRoots == \A i \in DOMAIN rel : RowOk(rel[i])

\* A pick is of a candidate, and names a picture.
PicksAreRows == \A k \in pick : rel[k.item].kind = "item" /\ rel[k.entry].kind = "entry"

\* What an editor has seen was made, and its revision has not gone back.
ScreenIsOld ==
    screen.root # None => /\ screen.root \in Making!Roots
                          /\ root[screen.root].status # "NONE"
                          /\ screen.row.rev \in 0..root[screen.root].rev

MakeTyped == Making!ProductionTypeOK /\ DOMAIN root = Making!Roots

MakeInv ==
    /\ MakeTyped /\ Making!PicksBelong /\ Making!CoversBelong /\ Making!PlacesInOrder
    /\ Making!OnceEach /\ Making!RolesAreOwn /\ Making!RevisionTellsContent
    /\ RowsHaveRoots /\ PicksAreRows /\ ScreenIsOld

\* a row of the same root, of the same person, work or picture
SameKey(e, f) ==
    /\ e.root = f.root /\ e.kind = f.kind /\ e.who = f.who /\ e.code = f.code /\ e.work = f.work
    /\ e.kind = "item" => e.role = f.role
RoleOwn(e) ==
    e.role # None => e.role[1] = e.who /\ (e.kind = "credit" => e.role[2] = e.code)

LEMMA MakeFacts ==
    /\ IsFiniteSet(Ids) /\ Cardinality(Ids) \in Nat /\ MaxRev \in Nat /\ MaxRev >= 1
    /\ Works \cap Lists = {} /\ Images \subseteq Assets
    /\ wo \in Works /\ pj \in Projects /\ l \in Lists /\ {1, 2, 3} \subseteq Ids
    /\ {p1, p2} \subseteq People /\ p1 # p2 /\ {j1, j2} \subseteq Codes
    /\ {ph1, ph2} \subseteq Assets /\ ph1 # ph2 /\ ph1 \in Images /\ brand \in Parties
    /\ Making!Roots = Works \cup Projects \cup Lists /\ Making!Roles = People \X Codes
    /\ LegacyRoles \subseteq Making!Roles
    /\ \A S : Making!Cardinality(S) = Cardinality(S)
<1>1. \A S : Making!Cardinality(S) = Cardinality(S)
  BY DEF Making!Cardinality, Cardinality
<1>2. Making!IsFiniteSet(Ids) => IsFiniteSet(Ids) BY DEF Making!IsFiniteSet, IsFiniteSet
<1>3. IsFiniteSet(Ids) BY <1>2, TalentConstants DEF Making!ProductionConstants
<1>4. Cardinality(Ids) \in Nat BY <1>3, FS_CardinalityType
<1> QED BY <1>1, <1>3, <1>4, TalentConstants
        DEF Making!ProductionConstants, Making!ProductionNames, Making!Roots, Making!Roles

LEMMA MakeTypes ==
    Making!ProductionTypeOK <=>
        /\ \A x \in Making!Roots : root[x] \in RootRecs
        /\ DOMAIN rel \subseteq Ids
        /\ \A i \in DOMAIN rel : rel[i] \in RowRecs
        /\ pick \subseteq Making!Picks
        /\ usable \subseteq Making!Roles \cup Assets \cup Parties /\ profiled \subseteq People
        /\ unseen \subseteq People \cup Works \cup Projects
        /\ erasing \subseteq People \cup Works \cup Projects \cup Assets
BY MakeFacts DEF Making!ProductionTypeOK, RowRecs, RootRecs

-------------------------------------------------------------------------------
(* Production: the helpers *)

\* The free ids, each once.
LEMMA FreeIds ==
    ASSUME MakeTyped
    PROVE  /\ DOMAIN Making!Free = 1..Cardinality(Ids \ DOMAIN rel)
           /\ \A k \in DOMAIN Making!Free : Making!Free[k] \in Ids \ DOMAIN rel
           /\ \A k, m \in DOMAIN Making!Free : Making!Free[k] = Making!Free[m] => k = m
<1> DEFINE S == Ids \ DOMAIN rel
           n == Cardinality(S)
<1>1. IsFiniteSet(S) BY MakeFacts, FS_Subset
<1>2. ExistsBijection(1..n, S) BY <1>1, FS_CardinalityType
<1>3. PICK f \in [1..n -> S] : \A k, m \in 1..n : f[k] = f[m] => k = m
  BY <1>2 DEF ExistsBijection, Bijection, Injection, Surjection, IsInjective
<1>4. Making!Free = CHOOSE g \in [1..n -> S] : Making!IsInjective(g)
  BY MakeFacts DEF Making!Free, Making!SetToSeq
<1>5. Making!IsInjective(f) BY <1>3 DEF Making!IsInjective
<1> HIDE DEF n, S
<1>6. Making!Free \in [1..n -> S] /\ Making!IsInjective(Making!Free) BY <1>3, <1>4, <1>5
<1> QED BY <1>6 DEF Making!IsInjective, n, S

LEMMA Inserted ==
    ASSUME MakeTyped, NEW new, Making!Insert(new)
    PROVE  /\ DOMAIN rel' = DOMAIN rel \cup {Making!Free[k] : k \in DOMAIN new}
           /\ \A i \in DOMAIN rel : rel'[i] = rel[i]
           /\ \A k \in DOMAIN new :
                  /\ k \in DOMAIN Making!Free
                  /\ Making!Free[k] \in Ids \ DOMAIN rel /\ rel'[Making!Free[k]] = new[k]
           /\ \A k, m \in DOMAIN new : Making!Free[k] = Making!Free[m] => k = m
<1> DEFINE F == Making!Free
           K == DOMAIN new
<1>1. /\ K \subseteq DOMAIN F
      /\ rel' = [i \in DOMAIN rel \cup {F[k] : k \in K} |->
                     IF i \in DOMAIN rel THEN rel[i] ELSE new[CHOOSE k \in K : F[k] = i]]
  BY DEF Making!Insert
<1>2. \A k \in K : F[k] \in Ids \ DOMAIN rel BY <1>1, FreeIds
<1>3. \A k, m \in K : F[k] = F[m] => k = m BY <1>1, FreeIds
<1> HIDE DEF F, K
<1>4. \A k \in K : (CHOOSE m \in K : F[m] = F[k]) = k BY <1>3
<1>5. \A k \in K : rel'[F[k]] = new[k] BY <1>1, <1>2, <1>4
<1> QED BY <1>1, <1>2, <1>3, <1>5 DEF F, K

\* How many come before is another number for each, and less than their number.
LEMMA Ranks ==
    ASSUME NEW S, IsFiniteSet(S), NEW v, \A k \in S : v[k] \in Int,
           \A j, k \in S : v[j] = v[k] => j = k,
           NEW rank, \A j \in S : rank[j] = Cardinality({k \in S : v[k] < v[j]})
    PROVE  /\ \A j \in S : rank[j] \in 0..(Cardinality(S) - 1)
           /\ \A j, k \in S : rank[j] = rank[k] => j = k
<1> DEFINE Low(j) == {k \in S : v[k] < v[j]}
<1>1. ASSUME NEW T \in SUBSET S
      PROVE  /\ IsFiniteSet(T) /\ Cardinality(T) \in Nat
             /\ \A k \in S \ T : Cardinality(T) + 1 <= Cardinality(S)
             /\ \A U \in SUBSET S : T \subseteq U /\ T # U => Cardinality(T) < Cardinality(U)
  <2>1. IsFiniteSet(T) /\ Cardinality(T) \in Nat BY FS_Subset, FS_CardinalityType
  <2>2. ASSUME NEW U \in SUBSET S, T \subseteq U, T # U PROVE Cardinality(T) < Cardinality(U)
    <3>1. IsFiniteSet(U) /\ Cardinality(U) \in Nat BY FS_Subset, FS_CardinalityType
    <3>2. Cardinality(T) <= Cardinality(U) /\ Cardinality(T) # Cardinality(U)
      BY <2>2, <3>1, FS_Subset
    <3> QED BY <2>1, <3>1, <3>2
  <2>3. Cardinality(S) \in Nat BY FS_CardinalityType
  <2>4. ASSUME NEW k \in S \ T PROVE Cardinality(T) + 1 <= Cardinality(S)
    BY <2>1, <2>2, <2>3
  <2> QED BY <2>1, <2>2, <2>4
<1>2. ASSUME NEW j \in S PROVE rank[j] \in 0..(Cardinality(S) - 1)
  <2>1. Low(j) \in SUBSET S /\ j \in S \ Low(j) /\ rank[j] = Cardinality(Low(j)) OBVIOUS
  <2>2. Cardinality(Low(j)) \in Nat /\ Cardinality(Low(j)) + 1 <= Cardinality(S) BY <1>1, <2>1
  <2>3. Cardinality(S) \in Nat BY FS_CardinalityType
  <2> HIDE DEF Low
  <2> QED BY <2>1, <2>2, <2>3
<1>3. ASSUME NEW j \in S, NEW k \in S, v[j] < v[k] PROVE rank[j] # rank[k]
  <2>1. Low(j) \in SUBSET S /\ Low(k) \in SUBSET S /\ Low(j) \subseteq Low(k)
    BY <1>3
  <2>2. j \in Low(k) /\ j \notin Low(j) BY <1>3
  <2>3. rank[j] = Cardinality(Low(j)) /\ rank[k] = Cardinality(Low(k)) OBVIOUS
  <2> HIDE DEF Low
  <2>4. Cardinality(Low(j)) < Cardinality(Low(k)) BY <1>1, <2>1, <2>2
  <2>5. Cardinality(Low(j)) \in Nat /\ Cardinality(Low(k)) \in Nat BY <1>1, <2>1
  <2> QED BY <2>3, <2>4, <2>5
<1>4. ASSUME NEW j \in S, NEW k \in S, rank[j] = rank[k] PROVE j = k
  <2>1. v[j] < v[k] \/ v[k] < v[j] \/ v[j] = v[k] OBVIOUS
  <2> QED BY <1>3, <1>4, <2>1
<1> QED BY <1>2, <1>4

-------------------------------------------------------------------------------
(* Production: what a step keeps *)

\* A step that keeps the rows it does not add, in place, and gives every root that it changes
\* a new revision.
LEMMA MakeStep ==
    ASSUME MakeInv, MakeTyped',
           \A i \in DOMAIN rel \cap DOMAIN rel' :
               rel'[i].root = rel[i].root /\ rel'[i].kind = rel[i].kind
               /\ rel'[i].who = rel[i].who /\ rel'[i].code = rel[i].code
               /\ rel'[i].work = rel[i].work,
           \A i \in DOMAIN rel' \ DOMAIN rel : RowOk(rel[i])',
           \A x \in Making!Roots : root[x].status # "NONE" =>
               /\ root'[x].status # "NONE"
               /\ \/ root'[x].rev = root[x].rev + 1
                  \/ root'[x] = root[x] /\ Making!Content(x)' \subseteq Making!Content(x),
           screen' = screen,
           \A w \in Works : root'[w].cover # None =>
               \/ root'[w].cover = root[w].cover /\ root[w].cover \in DOMAIN rel'
               \/ /\ root'[w].cover \in Making!Rows(w, "entry")'
                  /\ rel'[root'[w].cover].who \in Images,
           \A k \in pick' :
               \/ k \in pick /\ {k.item, k.entry} \subseteq DOMAIN rel'
               \/ /\ {k.item, k.entry} \subseteq DOMAIN rel'
                  /\ rel'[k.item].work = k.work /\ rel'[k.entry].root = k.work
                  /\ rel'[k.entry].who = k.asset
                  /\ rel'[k.item].kind = "item" /\ rel'[k.entry].kind = "entry"
    PROVE  /\ Making!PicksBelong' /\ PicksAreRows' /\ Making!CoversBelong'
           /\ RowsHaveRoots' /\ ScreenIsOld' /\ Making!RevisionTellsContent'
<1>1. Making!PicksBelong' /\ PicksAreRows'
  <2> SUFFICES ASSUME NEW k \in pick'
               PROVE  /\ {k.item, k.entry} \subseteq DOMAIN rel'
                      /\ rel'[k.item].work = k.work /\ rel'[k.entry].root = k.work
                      /\ rel'[k.entry].who = k.asset
                      /\ rel'[k.item].kind = "item" /\ rel'[k.entry].kind = "entry"
    BY DEF Making!PicksBelong, PicksAreRows
  <2>1. CASE k \in pick /\ {k.item, k.entry} \subseteq DOMAIN rel'
    <3>1. /\ {k.item, k.entry} \subseteq DOMAIN rel
          /\ rel[k.item].work = k.work /\ rel[k.entry].root = k.work
          /\ rel[k.entry].who = k.asset
          /\ rel[k.item].kind = "item" /\ rel[k.entry].kind = "entry"
      BY <2>1 DEF MakeInv, Making!PicksBelong, PicksAreRows
    <3> QED BY <2>1, <3>1
  <2> QED BY <2>1
<1>2. Making!CoversBelong'
  <2> SUFFICES ASSUME NEW w \in Works, root'[w].cover # None
               PROVE  /\ root'[w].cover \in Making!Rows(w, "entry")'
                      /\ rel'[root'[w].cover].who \in Images
    BY DEF Making!CoversBelong
  <2>1. CASE root'[w].cover = root[w].cover /\ root[w].cover \in DOMAIN rel'
    <3>1. /\ root[w].cover \in DOMAIN rel /\ rel[root[w].cover].root = w
          /\ rel[root[w].cover].kind = "entry" /\ rel[root[w].cover].who \in Images
      BY <2>1 DEF MakeInv, Making!CoversBelong, Making!Rows
    <3> QED BY <2>1, <3>1 DEF Making!Rows
  <2> QED BY <2>1
<1>3. RowsHaveRoots'
  <2> SUFFICES ASSUME NEW i \in DOMAIN rel', i \in DOMAIN rel
               PROVE  RowOk(rel[i])'
    BY DEF RowsHaveRoots
  <2>1. RowOk(rel[i]) /\ rel[i] \in RowRecs BY MakeTypes DEF MakeInv, RowsHaveRoots, MakeTyped
  <2>2. rel[i].root \in Making!Roots BY <2>1 DEF RowRecs
  <2> QED BY <2>1, <2>2 DEF RowOk, KindOk, KindOk
<1>4. ScreenIsOld' /\ Making!RevisionTellsContent'
  <2> SUFFICES ASSUME screen.root # None
               PROVE  ScreenIsOld' /\ Making!RevisionTellsContent'
    BY DEF ScreenIsOld, Making!RevisionTellsContent
  <2> DEFINE x == screen.root
  <2>1. x \in Making!Roots /\ root[x].status # "NONE" /\ screen.row.rev \in 0..root[x].rev
    BY DEF MakeInv, ScreenIsOld
  <2>2. root[x].rev \in Nat /\ root'[x].rev \in Nat
    BY <2>1, MakeTypes, MakeFacts DEF MakeInv, MakeTyped, RootRecs
  <2>3. CASE root'[x].rev = root[x].rev + 1
    <3>1. screen.row.rev # root[x].rev + 1
      BY <2>1, <2>2
    <3>2. screen.row.rev \in 0..(root[x].rev + 1)
      BY <2>1, <2>2
    <3> QED BY <2>1, <2>3, <3>1, <3>2 DEF ScreenIsOld, Making!RevisionTellsContent
  <2>4. CASE root'[x] = root[x] /\ Making!Content(x)' \subseteq Making!Content(x)
    BY <2>1, <2>4 DEF MakeInv, ScreenIsOld, Making!RevisionTellsContent
  <2> QED BY <2>1, <2>3, <2>4
<1> QED BY <1>1, <1>2, <1>3, <1>4

\* Rows that are only fewer, or changed elsewhere than in their keys, are there once each.
LEMMA KeysStay ==
    ASSUME Making!OnceEach, DOMAIN rel' \subseteq DOMAIN rel,
           \A i \in DOMAIN rel' :
               /\ rel'[i].root = rel[i].root /\ rel'[i].kind = rel[i].kind
               /\ rel'[i].who = rel[i].who /\ rel'[i].code = rel[i].code
               /\ rel'[i].work = rel[i].work
               /\ rel'[i].kind = "item" => rel'[i].role = rel[i].role
    PROVE  Making!OnceEach'
BY DEF Making!OnceEach

\* There is an id for every row that is added.
LEMMA Places ==
    ASSUME MakeInv, NEW new, Making!Insert(new), NEW x,
           NEW O \in SUBSET DOMAIN new, IsFiniteSet(O), NEW P, P = {Making!Free[k] : k \in O}
    PROVE  /\ Cardinality(Making!Order(x) \cup P) = Cardinality(Making!Order(x)) + Cardinality(O)
           /\ Cardinality(Making!Order(x)) \in Nat /\ Cardinality(O) \in Nat
           /\ Cardinality(Making!Order(x)) + Cardinality(O) <= Cardinality(Ids)
<1> DEFINE S == Making!Order(x)
<1>1. /\ \A k \in O : Making!Free[k] \in Ids \ DOMAIN rel
      /\ \A k, m \in O : Making!Free[k] = Making!Free[m] => k = m
  BY Inserted DEF MakeInv
<1>2. S \subseteq DOMAIN rel /\ DOMAIN rel \subseteq Ids
  BY MakeTypes DEF MakeInv, MakeTyped, Making!Order, Making!Rows
<1>3. [k \in O |-> Making!Free[k]] \in Bijection(O, P)
  BY <1>1 DEF Bijection, Injection, Surjection, IsInjective
<1>4. ExistsBijection(O, P) BY <1>3 DEF ExistsBijection
<1>5. P \cap S = {} /\ S \cup P \in SUBSET Ids BY <1>1, <1>2
<1> HIDE DEF S
<1>6. IsFiniteSet(P) /\ Cardinality(P) = Cardinality(O) BY <1>4, FS_Bijection
<1>7. IsFiniteSet(S) /\ IsFiniteSet(S \cup P) /\ Cardinality(S \cup P) <= Cardinality(Ids)
  <2>1. S \in SUBSET Ids BY <1>5
  <2> QED BY <1>5, <2>1, MakeFacts, FS_Subset
<1>8. Cardinality(S \cap P) = 0
  <2>1. S \cap P = {} BY <1>5
  <2> QED BY <2>1, FS_EmptySet
<1>9. Cardinality(S \cup P) = Cardinality(S) + Cardinality(P) - Cardinality(S \cap P)
  BY <1>6, <1>7, FS_Union
<1>10. Cardinality(S) \in Nat /\ Cardinality(P) \in Nat BY <1>6, <1>7, FS_CardinalityType
<1>11. Cardinality(S \cup P) = Cardinality(S) + Cardinality(O) BY <1>6, <1>8, <1>9, <1>10
<1> QED BY <1>6, <1>7, <1>10, <1>11 DEF S

\* New rows, of keys that were not there, in the places after those that are taken.
LEMMA RowsAdded ==
    ASSUME MakeInv, NEW new, Making!Insert(new), NEW x \in Making!Roots, gaps' = gaps,
           \A k \in DOMAIN new : new[k].root = x /\ RoleOwn(new[k]),
           \A k \in DOMAIN new, i \in DOMAIN rel : ~SameKey(new[k], rel[i]),
           \A k, m \in DOMAIN new : SameKey(new[k], new[m]) => k = m,
           NEW O \in SUBSET DOMAIN new, IsFiniteSet(O),
           \A k \in DOMAIN new : new[k].kind \in {"entry", "item"} <=> k \in O,
           \A k, m \in O : new[k].pos = new[m].pos => k = m,
           \A k \in O, i \in Making!Order(x) : new[k].pos # rel[i].pos,
           \A k \in O : new[k].pos < Cardinality(Making!Order(x)) + Cardinality(O)
    PROVE  Making!OnceEach' /\ Making!RolesAreOwn' /\ Making!PlacesInOrder'
<1> DEFINE F == Making!Free
           K == DOMAIN new
<1>1. /\ DOMAIN rel' = DOMAIN rel \cup {F[k] : k \in K}
      /\ \A i \in DOMAIN rel : rel'[i] = rel[i]
      /\ \A k \in K : F[k] \in Ids \ DOMAIN rel /\ rel'[F[k]] = new[k]
      /\ \A k, m \in K : F[k] = F[m] => k = m
  BY Inserted DEF MakeInv
<1> HIDE DEF F, K
<1>2. ASSUME NEW i \in DOMAIN rel' PROVE i \in DOMAIN rel \/ \E k \in K : i = F[k]
  BY <1>1
<1>3. Making!OnceEach'
  <2> SUFFICES ASSUME NEW i \in DOMAIN rel', NEW j \in DOMAIN rel', SameKey(rel'[i], rel'[j])
               PROVE  i = j
    BY DEF Making!OnceEach, SameKey
  <2>1. CASE i \in DOMAIN rel /\ j \in DOMAIN rel
    BY <1>1, <2>1 DEF MakeInv, Making!OnceEach, SameKey
  <2>2. ASSUME NEW k \in K, i = F[k], j \in DOMAIN rel PROVE FALSE
    BY <1>1, <2>2 DEF K
  <2>3. ASSUME NEW k \in K, j = F[k], i \in DOMAIN rel PROVE FALSE
    <3>1. SameKey(rel'[j], rel'[i]) BY DEF SameKey
    <3> QED BY <1>1, <2>3, <3>1 DEF K
  <2>4. ASSUME NEW k \in K, NEW m \in K, i = F[k], j = F[m] PROVE i = j
    BY <1>1, <2>4 DEF K
  <2> QED BY <1>2, <2>1, <2>2, <2>3, <2>4
<1>4. Making!RolesAreOwn'
  <2> SUFFICES ASSUME NEW i \in DOMAIN rel' PROVE RoleOwn(rel'[i])
    BY DEF Making!RolesAreOwn, RoleOwn
  <2>1. CASE i \in DOMAIN rel BY <1>1, <2>1 DEF MakeInv, Making!RolesAreOwn, RoleOwn
  <2>2. ASSUME NEW k \in K, i = F[k] PROVE RoleOwn(rel'[i]) BY <1>1, <2>2 DEF K
  <2> QED BY <1>2, <2>1, <2>2
<1>5. Making!PlacesInOrder'
  <2> DEFINE P == {F[k] : k \in O}
  <2>1. /\ Making!Order(x)' = Making!Order(x) \cup P
        /\ \A y \in Making!Roots \ {x} : Making!Order(y)' = Making!Order(y)
        /\ \A y \in Making!Roots : Making!Order(y) \subseteq DOMAIN rel
    <3>1. \A y : Making!Order(y) =
              {i \in DOMAIN rel : rel[i].root = y /\ rel[i].kind \in {"entry", "item"}}
      BY DEF Making!Order, Making!Rows
    <3>2. \A y : Making!Order(y)' =
              {i \in DOMAIN rel' : rel'[i].root = y /\ rel'[i].kind \in {"entry", "item"}}
      BY DEF Making!Order, Making!Rows
    <3>3. Making!Order(x)' = Making!Order(x) \cup P
      <4>1. ASSUME NEW i \in DOMAIN rel'
      PROVE i \in Making!Order(x)' <=> i \in Making!Order(x) \cup P
        <5>1. CASE i \in DOMAIN rel
          <6>1. i \notin P BY <1>1, <5>1 DEF K
          <6> QED BY <1>1, <3>1, <3>2, <5>1, <6>1
        <5>2. ASSUME NEW k \in K, i = F[k]
        PROVE i \in Making!Order(x)' <=> i \in Making!Order(x) \cup P
          <6>1. i \in P <=> k \in O BY <1>1, <5>2 DEF K
          <6>2. i \notin DOMAIN rel BY <1>1, <5>2
          <6>3. rel'[i].root = x /\ (rel'[i].kind \in {"entry", "item"} <=> k \in O)
            BY <1>1, <5>2 DEF K
          <6> QED BY <3>1, <3>2, <6>1, <6>2, <6>3
        <5> QED BY <1>2, <5>1, <5>2
      <4>2. P \subseteq DOMAIN rel' /\ Making!Order(x) \subseteq DOMAIN rel' BY <1>1, <3>1 DEF K
      <4>3. Making!Order(x)' \subseteq DOMAIN rel' BY <3>2
      <4> QED BY <4>1, <4>2, <4>3
    <3>4. ASSUME NEW y \in Making!Roots \ {x}, NEW i \in DOMAIN rel'
          PROVE  i \in Making!Order(y)' <=> i \in Making!Order(y)
      <4>1. CASE i \in DOMAIN rel BY <1>1, <3>1, <3>2, <4>1
      <4>2. ASSUME NEW k \in K, i = F[k] PROVE i \notin Making!Order(y)' /\ i \notin Making!Order(y)
        BY <1>1, <3>1, <3>2, <4>2 DEF K
      <4> QED BY <1>2, <4>1, <4>2
    <3>5. ASSUME NEW y \in Making!Roots \ {x} PROVE Making!Order(y)' = Making!Order(y)
      <4>1. Making!Order(y)' \subseteq DOMAIN rel' /\ Making!Order(y) \subseteq DOMAIN rel'
        BY <1>1, <3>1, <3>2
      <4> QED BY <3>4, <4>1
    <3> QED BY <3>1, <3>3, <3>5
  <2>2. /\ Cardinality(Making!Order(x)') = Cardinality(Making!Order(x)) + Cardinality(O)
        /\ Cardinality(Making!Order(x)) \in Nat /\ Cardinality(O) \in Nat
    <3>1. O \in SUBSET DOMAIN new OBVIOUS
    <3>2. P = {Making!Free[k] : k \in O} BY DEF F
    <3> HIDE DEF P
    <3>3. PICK Q : Q = {Making!Free[k] : k \in O} OBVIOUS
    <3>4. Cardinality(Making!Order(x) \cup Q) = Cardinality(Making!Order(x)) + Cardinality(O)
      BY ONLY MakeInv, Making!Insert(new), IsFiniteSet(O), <3>1, <3>3, Places
    <3>6. Cardinality(Making!Order(x)) \in Nat /\ Cardinality(O) \in Nat
      BY ONLY MakeInv, Making!Insert(new), IsFiniteSet(O), <3>1, <3>3, Places
    <3>5. P = Q BY <3>2, <3>3
    <3> QED BY <2>1, <3>4, <3>5, <3>6
  <2> HIDE DEF P
  <2> SUFFICES ASSUME NEW y \in Making!Roots
               PROVE  /\ \A i, j \in Making!Order(y)' : rel'[i].pos = rel'[j].pos => i = j
                      /\ y \notin gaps =>
                           \A i \in Making!Order(y)' : rel'[i].pos < Cardinality(Making!Order(y)')
    BY MakeFacts DEF Making!PlacesInOrder
  <2>3. /\ \A i, j \in Making!Order(y) : rel[i].pos = rel[j].pos => i = j
        /\ y \notin gaps => \A i \in Making!Order(y) : rel[i].pos < Cardinality(Making!Order(y))
    BY MakeFacts DEF MakeInv, Making!PlacesInOrder
  <2>4. CASE y # x BY <1>1, <2>1, <2>3, <2>4
  <2>5. CASE y = x
    <3>1. ASSUME NEW i \in P PROVE \E k \in O : i = F[k] /\ rel'[i] = new[k] BY <1>1 DEF P, K
    <3>2. \A i \in Making!Order(x) : rel'[i] = rel[i] BY <1>1, <2>1
    <3>3. ASSUME NEW i \in Making!Order(y)', NEW j \in Making!Order(y)', rel'[i].pos = rel'[j].pos
          PROVE  i = j
      <4>1. CASE i \in Making!Order(x) /\ j \in Making!Order(x) BY <2>3, <2>5, <3>2, <3>3, <4>1
      <4>2. CASE i \in P /\ j \in P BY <3>1, <3>3, <4>2
      <4>3. CASE i \in P /\ j \in Making!Order(x) BY <3>1, <3>2, <3>3, <4>3
      <4>4. CASE i \in Making!Order(x) /\ j \in P BY <3>1, <3>2, <3>3, <4>4
      <4> QED BY <2>1, <2>5, <4>1, <4>2, <4>3, <4>4
    <3>4. ASSUME y \notin gaps, NEW i \in Making!Order(y)'
          PROVE  rel'[i].pos < Cardinality(Making!Order(y)')
      <4>1. CASE i \in Making!Order(x)
        <5>1. rel'[i].pos = rel[i].pos /\ rel[i].pos \in Int
          <6>1. rel[i] \in RowRecs BY <2>1, <4>1, MakeTypes DEF MakeInv, MakeTyped
          <6> QED BY <3>2, <4>1, <6>1 DEF RowRecs
        <5>2. rel[i].pos < Cardinality(Making!Order(x)) BY <2>3, <2>5, <3>4, <4>1
        <5> QED BY <2>2, <2>5, <5>1, <5>2
      <4>2. CASE i \in P BY <2>2, <2>5, <3>1, <4>2
      <4> QED BY <2>1, <2>5, <4>1, <4>2
    <3> QED BY <3>3, <3>4
  <2> QED BY <2>4, <2>5
<1> QED BY <1>3, <1>4, <1>5

LEMMA MakeTypesNext ==
    MakeTyped' <=>
        /\ DOMAIN root' = Making!Roots /\ \A x \in Making!Roots : root'[x] \in RootRecs
        /\ DOMAIN rel' \subseteq Ids
        /\ \A i \in DOMAIN rel' : rel'[i] \in RowRecs
        /\ pick' \subseteq Making!Picks
        /\ usable' \subseteq Making!Roles \cup Assets \cup Parties /\ profiled' \subseteq People
        /\ unseen' \subseteq People \cup Works \cup Projects
        /\ erasing' \subseteq People \cup Works \cup Projects \cup Assets
BY MakeFacts DEF MakeTyped, Making!ProductionTypeOK, RowRecs, RootRecs

LEMMA ContentElsewhere ==
    ASSUME NEW x,
           \A i \in DOMAIN rel' : rel'[i].root = x /\ rel'[i].kind # "credit" =>
               i \in DOMAIN rel /\ rel'[i] = rel[i]
    PROVE  Making!Content(x)' \subseteq Making!Content(x)
BY DEF Making!Content

\* Rows that do not change are in order and there once each.
LEMMA RowsAlone ==
    ASSUME MakeInv, rel' = rel, gaps' = gaps
    PROVE  Making!OnceEach' /\ Making!RolesAreOwn' /\ Making!PlacesInOrder'
BY DEF MakeInv, Making!OnceEach, Making!RolesAreOwn, Making!PlacesInOrder, Making!Order,
       Making!Rows

\* A command changes the rows of one root, which has a new revision.
LEMMA CommandStep ==
    ASSUME MakeInv, NEW x \in Making!Roots, NEW new \in RootRecs,
           root[x].status # "NONE", new.status # "NONE", new.rev = root[x].rev,
           Making!Commit(x, new), screen' = screen,
           usable' \subseteq Making!Roles \cup Assets \cup Parties,
           UNCHANGED <<profiled, unseen, erasing>>,
           DOMAIN rel' \subseteq Ids, \A i \in DOMAIN rel' : rel'[i] \in RowRecs,
           \A i \in DOMAIN rel \cap DOMAIN rel' :
               rel'[i].root = rel[i].root /\ rel'[i].kind = rel[i].kind
               /\ rel'[i].who = rel[i].who /\ rel'[i].code = rel[i].code
               /\ rel'[i].work = rel[i].work,
           \A i \in DOMAIN rel \ DOMAIN rel' : rel[i].root = x,
           \A i \in DOMAIN rel' : rel'[i].root # x => i \in DOMAIN rel /\ rel'[i] = rel[i],
           \A i \in DOMAIN rel' \ DOMAIN rel : KindOk(rel'[i]),
           x \in Works /\ new.cover # None =>
               \/ new.cover = root[x].cover /\ new.cover \in DOMAIN rel'
               \/ /\ new.cover \in DOMAIN rel' /\ rel'[new.cover].root = x
                  /\ rel'[new.cover].kind = "entry" /\ rel'[new.cover].who \in Images,
           pick' \subseteq Making!Picks,
           \A k \in pick' :
               \/ k \in pick /\ {k.item, k.entry} \subseteq DOMAIN rel'
               \/ /\ {k.item, k.entry} \subseteq DOMAIN rel'
                  /\ rel'[k.item].work = k.work /\ rel'[k.entry].root = k.work
                  /\ rel'[k.entry].who = k.asset
                  /\ rel'[k.item].kind = "item" /\ rel'[k.entry].kind = "entry"
    PROVE  /\ MakeTyped' /\ Making!PicksBelong' /\ PicksAreRows' /\ Making!CoversBelong'
           /\ RowsHaveRoots' /\ ScreenIsOld' /\ Making!RevisionTellsContent'
<1>1. /\ DOMAIN root = Making!Roots /\ \A y \in Making!Roots : root[y] \in RootRecs
      /\ DOMAIN rel \subseteq Ids /\ \A i \in DOMAIN rel : rel[i] \in RowRecs
  BY MakeTypes DEF MakeInv, MakeTyped
<1>2. /\ new.rev < MaxRev /\ root' = [root EXCEPT ![x] = [new EXCEPT !.rev = @ + 1]]
  BY DEF Making!Commit
<1>3. /\ DOMAIN root' = Making!Roots /\ \A y \in Making!Roots \ {x} : root'[y] = root[y]
      /\ root'[x].rev = root[x].rev + 1 /\ root'[x].status = new.status
      /\ root'[x].cover = new.cover /\ root'[x] \in RootRecs
  BY <1>1, <1>2, MakeFacts DEF RootRecs
<1>4. MakeTyped' BY <1>1, <1>3, MakeTypes, MakeTypesNext DEF MakeInv, MakeTyped
<1>5. \A i \in DOMAIN rel' \ DOMAIN rel : RowOk(rel[i])'
  BY <1>3 DEF RowOk, KindOk, KindOk
<1>6. \A y \in Making!Roots : root[y].status # "NONE" =>
          /\ root'[y].status # "NONE"
          /\ \/ root'[y].rev = root[y].rev + 1
             \/ root'[y] = root[y] /\ Making!Content(y)' \subseteq Making!Content(y)
  <2>1. ASSUME NEW y \in Making!Roots \ {x} PROVE Making!Content(y)' \subseteq Making!Content(y)
    BY ContentElsewhere
  <2> QED BY <1>3, <2>1
<1>7. \A w \in Works : root'[w].cover # None =>
          \/ root'[w].cover = root[w].cover /\ root[w].cover \in DOMAIN rel'
          \/ /\ root'[w].cover \in Making!Rows(w, "entry")'
             /\ rel'[root'[w].cover].who \in Images
  <2> SUFFICES ASSUME NEW w \in Works, root'[w].cover # None
               PROVE  \/ root'[w].cover = root[w].cover /\ root[w].cover \in DOMAIN rel'
                      \/ /\ root'[w].cover \in Making!Rows(w, "entry")'
                         /\ rel'[root'[w].cover].who \in Images
    OBVIOUS
  <2>1. CASE w = x BY <1>3, <2>1 DEF Making!Rows
  <2>2. CASE w # x
    <3>1. root'[w].cover = root[w].cover BY <1>3, <2>2, MakeFacts
    <3>2. root[w].cover \in DOMAIN rel /\ rel[root[w].cover].root = w
      BY <3>1 DEF MakeInv, Making!CoversBelong, Making!Rows
    <3> QED BY <2>2, <3>1, <3>2
  <2> QED BY <2>1, <2>2
<1> QED BY <1>4, <1>5, <1>6, <1>7, MakeStep

LEMMA RowsMade ==
    /\ \A w \in Works, a \in Assets, n \in 0..Cardinality(Ids) :
           LET e == Making!Entry(w, a, n)
           IN  /\ e \in RowRecs /\ e.kind = "entry" /\ e.root = w /\ e.who = a /\ e.pos = n
               /\ e.code = None /\ e.work = None /\ e.role = None
    /\ \A w \in Works, p \in People, c \in Codes, r \in Making!Roles \cup {None} :
           LET e == Making!Credit(w, p, c, r)
           IN  /\ e \in RowRecs /\ e.kind = "credit" /\ e.root = w /\ e.who = p /\ e.code = c
               /\ e.role = r /\ e.work = None
    /\ \A x \in Lists, p \in People, r \in Making!Roles \cup {None}, w \in Works \cup {None},
          n \in 0..Cardinality(Ids) :
           LET e == Making!Item(x, p, r, w, n)
           IN  /\ e \in RowRecs /\ e.kind = "item" /\ e.root = x /\ e.who = p /\ e.pos = n
               /\ e.code = None /\ e.work = w /\ e.role = r
<1>1. /\ 0 \in 0..Cardinality(Ids) /\ Works \subseteq Making!Roots /\ Lists \subseteq Making!Roots
      /\ Making!Blank \in [kind: {"entry"}, root: {None}, who: {None}, code: {None},
                           role: {None}, work: {None}, pos: {0}, state: {None}, note: {FALSE}]
  BY MakeFacts DEF Making!Blank
<1>2. ASSUME NEW w \in Works, NEW a \in Assets, NEW n \in 0..Cardinality(Ids)
      PROVE  LET e == Making!Entry(w, a, n)
             IN  /\ e \in RowRecs /\ e.kind = "entry" /\ e.root = w /\ e.who = a /\ e.pos = n
                 /\ e.code = None /\ e.work = None /\ e.role = None
  <2> DEFINE e == Making!Entry(w, a, n)
  <2>1. e \in RowRecs BY <1>1 DEF Making!Entry, RowRecs
  <2>2. e.kind = "entry" /\ e.root = w /\ e.who = a /\ e.pos = n BY <1>1 DEF Making!Entry
  <2>3. e.code = None /\ e.work = None /\ e.role = None BY <1>1 DEF Making!Entry
  <2> QED BY <2>1, <2>2, <2>3
<1>3. ASSUME NEW w \in Works, NEW p \in People, NEW c \in Codes,
             NEW r \in Making!Roles \cup {None}
      PROVE  LET e == Making!Credit(w, p, c, r)
             IN  /\ e \in RowRecs /\ e.kind = "credit" /\ e.root = w /\ e.who = p /\ e.code = c
                 /\ e.role = r /\ e.work = None
  <2> DEFINE e == Making!Credit(w, p, c, r)
  <2>1. e \in RowRecs BY <1>1 DEF Making!Credit, RowRecs
  <2>2. e.kind = "credit" /\ e.root = w /\ e.who = p /\ e.code = c BY <1>1 DEF Making!Credit
  <2>3. e.role = r /\ e.work = None BY <1>1 DEF Making!Credit
  <2> QED BY <2>1, <2>2, <2>3
<1>4. ASSUME NEW x \in Lists, NEW p \in People, NEW r \in Making!Roles \cup {None},
             NEW w \in Works \cup {None}, NEW n \in 0..Cardinality(Ids)
      PROVE  LET e == Making!Item(x, p, r, w, n)
             IN  /\ e \in RowRecs /\ e.kind = "item" /\ e.root = x /\ e.who = p /\ e.pos = n
                 /\ e.code = None /\ e.work = w /\ e.role = r
  <2> DEFINE e == Making!Item(x, p, r, w, n)
  <2>1. e \in RowRecs BY <1>1 DEF Making!Item, RowRecs
  <2>2. e.kind = "item" /\ e.root = x /\ e.who = p /\ e.pos = n BY <1>1 DEF Making!Item
  <2>3. e.code = None /\ e.work = w /\ e.role = r BY <1>1 DEF Making!Item
  <2> QED BY <2>1, <2>2, <2>3
<1> QED BY <1>2, <1>3, <1>4

\* Rows that keep their keys and places are there once each, in the same order.
LEMMA RowsRewritten ==
    ASSUME MakeInv, DOMAIN rel' = DOMAIN rel, gaps' = gaps,
           \A i \in DOMAIN rel :
               /\ rel'[i].root = rel[i].root /\ rel'[i].kind = rel[i].kind
               /\ rel'[i].who = rel[i].who /\ rel'[i].code = rel[i].code
               /\ rel'[i].work = rel[i].work /\ rel'[i].pos = rel[i].pos,
           \A i \in DOMAIN rel : RoleOwn(rel[i])'
    PROVE  /\ Making!RolesAreOwn' /\ Making!PlacesInOrder'
           /\ (\A i \in DOMAIN rel : rel'[i].kind = "item" => rel'[i].role = rel[i].role)
                  => Making!OnceEach'
<1>1. \A x : Making!Order(x)' = Making!Order(x) BY DEF Making!Order, Making!Rows
<1>2. Making!PlacesInOrder'
  <2>1. \A x \in Making!Roots : Making!Order(x) \subseteq DOMAIN rel
    BY DEF Making!Order, Making!Rows
  <2> SUFFICES ASSUME NEW x \in Making!Roots
               PROVE  /\ \A i, j \in Making!Order(x) : rel'[i].pos = rel'[j].pos => i = j
                      /\ x \notin gaps' =>
                           \A i \in Making!Order(x) : rel'[i].pos < Cardinality(Making!Order(x))
    BY <1>1, MakeFacts DEF Making!PlacesInOrder
  <2>2. /\ \A i, j \in Making!Order(x) : rel[i].pos = rel[j].pos => i = j
        /\ x \notin gaps => \A i \in Making!Order(x) : rel[i].pos < Cardinality(Making!Order(x))
    BY MakeFacts DEF MakeInv, Making!PlacesInOrder
  <2> QED BY <2>1, <2>2
<1>3. Making!RolesAreOwn' BY DEF Making!RolesAreOwn, RoleOwn
<1> QED BY <1>2, <1>3, KeysStay DEF MakeInv

\* What an editable root and the rows look like.
LEMMA MakeRows ==
    ASSUME MakeInv
    PROVE  /\ DOMAIN root = Making!Roots /\ \A x \in Making!Roots : root[x] \in RootRecs
           /\ DOMAIN rel \subseteq Ids /\ \A i \in DOMAIN rel : rel[i] \in RowRecs
           /\ pick \subseteq Making!Picks
           /\ usable \subseteq Making!Roles \cup Assets \cup Parties
           /\ \A i \in DOMAIN rel : RoleOwn(rel[i])
           /\ \A x : Making!Editable(x) => root[x].status # "NONE"
           /\ \A x : root[x].status = "NONE" => \A i \in DOMAIN rel : rel[i].root # x
           /\ \A w \in Works : root[w].cover # None =>
                  root[w].cover \in DOMAIN rel /\ rel[root[w].cover].root = w
                  /\ rel[root[w].cover].kind = "entry" /\ rel[root[w].cover].who \in Images
BY MakeTypes
   DEF MakeInv, MakeTyped, Making!RolesAreOwn, RoleOwn, Making!Editable,
       RowsHaveRoots, RowOk, KindOk,
       Making!CoversBelong, Making!Rows

\* A step that changes no row, no root and no screen.
LEMMA QuietKeeps ==
    ASSUME MakeInv, MakeTyped', UNCHANGED <<root, rel, gaps, screen>>, pick' \subseteq pick
    PROVE  MakeInv'
<1>1. Making!OnceEach' /\ Making!RolesAreOwn' /\ Making!PlacesInOrder' BY RowsAlone
<1>2. \A k \in pick : {k.item, k.entry} \subseteq DOMAIN rel
  BY DEF MakeInv, Making!PicksBelong
<1>3. \A x \in Making!Roots : Making!Content(x)' = Making!Content(x) BY DEF Making!Content
<1>4. /\ Making!PicksBelong' /\ PicksAreRows' /\ Making!CoversBelong'
      /\ RowsHaveRoots' /\ ScreenIsOld' /\ Making!RevisionTellsContent'
  <2>1. /\ \A i \in DOMAIN rel \cap DOMAIN rel' :
               rel'[i].root = rel[i].root /\ rel'[i].kind = rel[i].kind
               /\ rel'[i].who = rel[i].who /\ rel'[i].code = rel[i].code
               /\ rel'[i].work = rel[i].work
        /\ \A i \in DOMAIN rel' \ DOMAIN rel : RowOk(rel[i])'
        /\ screen' = screen
    OBVIOUS
  <2>2. \A w \in Works : root'[w].cover # None =>
            root'[w].cover = root[w].cover /\ root[w].cover \in DOMAIN rel'
    BY MakeRows
  <2>3. \A x \in Making!Roots : root[x].status # "NONE" =>
            /\ root'[x].status # "NONE"
            /\ root'[x] = root[x] /\ Making!Content(x)' \subseteq Making!Content(x)
    BY <1>3
  <2>4. \A k \in pick' : k \in pick /\ {k.item, k.entry} \subseteq DOMAIN rel' BY <1>2
  <2> QED BY <2>1, <2>2, <2>3, <2>4, MakeStep
<1> QED BY <1>1, <1>4 DEF MakeInv

LEMMA MakeCreateRoot ==
    ASSUME MakeInv, NEW x \in Making!Roots, Making!CreateRoot(x) PROVE MakeInv'
<1> DEFINE new == [Making!Absent EXCEPT !.status = "DRAFT", !.rev = 1]
<1>1. root[x].status = "NONE" /\ root' = [root EXCEPT ![x] = new] BY DEF Making!CreateRoot
<1>2. UNCHANGED <<rel, pick, usable, profiled, gaps, unseen, erasing, screen>>
  BY DEF Making!CreateRoot, Making!Elsewhere
<1>3. new \in RootRecs /\ new.cover = None
  <2>1. /\ 1 \in 0..MaxRev /\ 0 \in 0..MaxRev
        /\ Making!Absent \in [status: {"NONE"}, rev: {0}, cover: {None}, parties: {{}}]
    BY MakeFacts DEF Making!Absent
  <2> QED BY <2>1 DEF RootRecs
<1> HIDE DEF new
<1>4. /\ DOMAIN root' = Making!Roots /\ root'[x] = new
      /\ \A y \in Making!Roots \ {x} : root'[y] = root[y]
  BY <1>1, MakeRows
<1>5. MakeTyped' BY <1>2, <1>3, <1>4, MakeTypes, MakeTypesNext, MakeRows DEF MakeInv, MakeTyped
<1>6. Making!OnceEach' /\ Making!RolesAreOwn' /\ Making!PlacesInOrder' BY <1>2, RowsAlone
<1>7. \A y \in Making!Roots : Making!Content(y)' = Making!Content(y) BY <1>2 DEF Making!Content
<1>8. /\ Making!PicksBelong' /\ PicksAreRows' /\ Making!CoversBelong'
      /\ RowsHaveRoots' /\ ScreenIsOld' /\ Making!RevisionTellsContent'
  <2>1. /\ \A i \in DOMAIN rel \cap DOMAIN rel' :
               rel'[i].root = rel[i].root /\ rel'[i].kind = rel[i].kind
               /\ rel'[i].who = rel[i].who /\ rel'[i].code = rel[i].code
               /\ rel'[i].work = rel[i].work
        /\ \A i \in DOMAIN rel' \ DOMAIN rel : RowOk(rel[i])'
        /\ screen' = screen
    BY <1>2
  <2>2. \A w \in Works : root'[w].cover # None =>
            root'[w].cover = root[w].cover /\ root[w].cover \in DOMAIN rel'
    <3>1. Works \subseteq Making!Roots BY MakeFacts
    <3> QED BY <1>2, <1>3, <1>4, <3>1, MakeRows
  <2>3. \A y \in Making!Roots : root[y].status # "NONE" =>
            /\ root'[y].status # "NONE"
            /\ root'[y] = root[y] /\ Making!Content(y)' \subseteq Making!Content(y)
    BY <1>1, <1>4, <1>7
  <2>4. \A k \in pick' : k \in pick /\ {k.item, k.entry} \subseteq DOMAIN rel'
    BY <1>2 DEF MakeInv, Making!PicksBelong
  <2> QED BY <1>5, <2>1, <2>2, <2>3, <2>4, MakeStep
<1> QED BY <1>5, <1>6, <1>8 DEF MakeInv

\* A command that changes the root alone.
LEMMA RootKeeps ==
    ASSUME MakeInv, NEW x \in Making!Roots, NEW new \in RootRecs,
           root[x].status # "NONE", new.status # "NONE", new.rev = root[x].rev,
           new.cover = root[x].cover,
           Making!Commit(x, new),
           UNCHANGED <<rel, pick, usable, profiled, gaps, unseen, erasing, screen>>
    PROVE  MakeInv'
<1>1. Making!OnceEach' /\ Making!RolesAreOwn' /\ Making!PlacesInOrder' BY RowsAlone
<1>2. /\ DOMAIN rel' \subseteq Ids /\ \A i \in DOMAIN rel' : rel'[i] \in RowRecs
      /\ usable' \subseteq Making!Roles \cup Assets \cup Parties
      /\ pick' \subseteq Making!Picks
      /\ x \in Works /\ new.cover # None => new.cover = root[x].cover /\ new.cover \in DOMAIN rel'
  BY MakeRows
<1>3. \A k \in pick' : k \in pick /\ {k.item, k.entry} \subseteq DOMAIN rel'
  BY DEF MakeInv, Making!PicksBelong
<1>4. /\ MakeTyped' /\ Making!PicksBelong' /\ PicksAreRows' /\ Making!CoversBelong'
      /\ RowsHaveRoots' /\ ScreenIsOld' /\ Making!RevisionTellsContent'
  BY <1>2, <1>3, CommandStep
<1> QED BY <1>1, <1>4 DEF MakeInv

LEMMA MakeUpdateRoot ==
    ASSUME MakeInv, NEW x \in Making!Roots,
           NEW s \in {"DRAFT", "ACTIVE", "COMPLETED", "ARCHIVED"}, Making!UpdateRoot(x, s)
    PROVE  MakeInv'
<1> DEFINE new == [root[x] EXCEPT !.status = s]
<1>1. root[x] \in RootRecs BY MakeRows
<1>2. new \in RootRecs /\ new.status # "NONE" /\ new.rev = root[x].rev /\ new.cover = root[x].cover
  BY <1>1 DEF RootRecs
<1>3. /\ root[x].status # "NONE" /\ Making!Commit(x, new)
      /\ UNCHANGED <<rel, pick, usable, profiled, gaps, unseen, erasing, screen>>
  BY DEF Making!UpdateRoot, Making!Elsewhere
<1> HIDE DEF new
<1> QED BY <1>2, <1>3, RootKeeps

LEMMA MakeBindParties ==
    ASSUME MakeInv, NEW x \in Making!Roots, NEW parties \in SUBSET Parties,
           Making!BindParties(x, parties)
    PROVE  MakeInv'
<1> DEFINE new == [root[x] EXCEPT !.parties = parties]
<1>1. root[x] \in RootRecs /\ root[x].status # "NONE" BY MakeRows DEF Making!BindParties
<1>2. new \in RootRecs /\ new.status = root[x].status /\ new.rev = root[x].rev
      /\ new.cover = root[x].cover
  BY <1>1 DEF RootRecs
<1>3. /\ Making!Commit(x, new)
      /\ UNCHANGED <<rel, pick, usable, profiled, gaps, unseen, erasing, screen>>
  BY DEF Making!BindParties, Making!Elsewhere
<1> HIDE DEF new
<1> QED BY <1>1, <1>2, <1>3, RootKeeps

LEMMA MakeOpen ==
    ASSUME MakeInv, NEW x \in Making!Roots, Making!Open(x) PROVE MakeInv'
<1>1. /\ UNCHANGED <<root, rel, pick, usable, profiled, unseen, erasing, gaps, stuck>>
      /\ root[x].status # "NONE"
      /\ screen' = [root |-> x, row |-> root[x], rows |-> Making!Content(x)]
  BY DEF Making!Open
<1>2. MakeTyped' BY <1>1, MakeTypes, MakeTypesNext DEF MakeInv, MakeTyped
<1>3. Making!OnceEach' /\ Making!RolesAreOwn' /\ Making!PlacesInOrder' BY <1>1, RowsAlone
<1>4. /\ Making!PicksBelong' /\ PicksAreRows' /\ Making!CoversBelong' /\ RowsHaveRoots'
  BY <1>1 DEF MakeInv, Making!PicksBelong, PicksAreRows, Making!CoversBelong, RowsHaveRoots,
              RowOk, KindOk, Making!Rows
<1>5. root[x].rev \in Nat BY MakeRows, MakeFacts DEF RootRecs
<1>6. Making!Content(x)' = Making!Content(x) BY <1>1 DEF Making!Content
<1>7. ScreenIsOld' /\ Making!RevisionTellsContent'
  BY <1>1, <1>5, <1>6 DEF ScreenIsOld, Making!RevisionTellsContent
<1> QED BY <1>2, <1>3, <1>4, <1>7 DEF MakeInv

LEMMA MakeAround ==
    ASSUME MakeInv, NEW u,
           \/ Making!ChangeUse(u)
           \/ Making!BlockForDeletion(u) /\ u \in People \cup Works \cup Projects \cup Assets
    PROVE  MakeInv'
<1>1. UNCHANGED <<root, rel, gaps, screen, pick, profiled>>
  BY DEF Making!ChangeUse, Making!BlockForDeletion
<1>2. /\ usable \subseteq Making!Roles \cup Assets \cup Parties /\ profiled \subseteq People
      /\ unseen \subseteq People \cup Works \cup Projects
      /\ erasing \subseteq People \cup Works \cup Projects \cup Assets
  BY MakeTypes DEF MakeInv, MakeTyped
<1>3. /\ usable' \subseteq Making!Roles \cup Assets \cup Parties
      /\ unseen' \subseteq People \cup Works \cup Projects
      /\ erasing' \subseteq People \cup Works \cup Projects \cup Assets
  <2>1. CASE Making!ChangeUse(u)
    <3>1. /\ erasing' = erasing
          /\ \/ /\ u \in Making!Roles \cup Assets \cup Parties /\ unseen' = unseen
                /\ usable' \in {usable \ {u}, usable \cup {u}}
             \/ /\ u \in People \cup Works \cup Projects /\ usable' = usable
                /\ unseen' \in {unseen \ {u}, unseen \cup {u}}
      BY <2>1 DEF Making!ChangeUse
    <3> QED BY <1>2, <3>1
  <2>2. CASE Making!BlockForDeletion(u) /\ u \in People \cup Works \cup Projects \cup Assets
    BY <1>2, <2>2 DEF Making!BlockForDeletion
  <2> QED BY <2>1, <2>2
<1>4. MakeTyped' BY <1>1, <1>2, <1>3, MakeTypesNext, MakeRows
<1> QED BY <1>1, <1>4, QuietKeeps

-------------------------------------------------------------------------------
(* Production: a row more *)

LEMMA OrderIs ==
    ASSUME MakeInv
    PROVE  /\ \A w \in Works : Making!Order(w) = Making!Rows(w, "entry")
           /\ \A x \in Lists : Making!Order(x) = Making!Rows(x, "item")
           /\ \A x : /\ IsFiniteSet(Making!Order(x)) /\ Making!Order(x) \subseteq DOMAIN rel
                     /\ Cardinality(Making!Order(x)) \in 0..Cardinality(Ids)
<1>1. /\ \A w \in Works : Making!Order(w) = Making!Rows(w, "entry")
      /\ \A x \in Lists : Making!Order(x) = Making!Rows(x, "item")
  BY MakeFacts DEF MakeInv, RowsHaveRoots, RowOk, KindOk, Making!Order, Making!Rows
<1>2. ASSUME NEW x
      PROVE  /\ IsFiniteSet(Making!Order(x)) /\ Making!Order(x) \subseteq DOMAIN rel
             /\ Cardinality(Making!Order(x)) \in 0..Cardinality(Ids)
  <2>1. Making!Order(x) \subseteq DOMAIN rel BY DEF Making!Order, Making!Rows
  <2>2. Making!Order(x) \in SUBSET Ids BY <2>1, MakeRows
  <2>3. IsFiniteSet(Making!Order(x)) /\ Cardinality(Making!Order(x)) <= Cardinality(Ids)
    BY <2>2, MakeFacts, FS_Subset
  <2>4. Cardinality(Making!Order(x)) \in Nat BY <2>3, FS_CardinalityType
  <2> QED BY <2>1, <2>3, <2>4, MakeFacts
<1> QED BY <1>1, <1>2

\* A command that adds a row, in the last place when it has one.
LEMMA RowKeeps ==
    ASSUME MakeInv, NEW x \in Making!Roots, NEW e \in RowRecs, e.root = x, RoleOwn(e),
           \A i \in DOMAIN rel : ~SameKey(e, rel[i]),
           KindOk(e),
           e.kind \in {"entry", "item"} =>
               /\ e.pos = Cardinality(Making!Order(x))
               /\ \A i \in Making!Order(x) : rel[i].pos # e.pos,
           Making!Insert(<<e>>),
           NEW new \in RootRecs, root[x].status # "NONE", new.status # "NONE",
           new.rev = root[x].rev, Making!Commit(x, new),
           UNCHANGED <<usable, profiled, unseen, erasing, gaps, screen>>,
           \/ new.cover = root[x].cover
           \/ new.cover = Making!Free[1] /\ e.kind = "entry" /\ e.who \in Images,
           pick' \subseteq Making!Picks,
           \A k \in pick' :
               \/ k \in pick
               \/ /\ k.item = Making!Free[1] /\ k.entry \in DOMAIN rel
                  /\ e.work = k.work /\ rel[k.entry].root = k.work /\ rel[k.entry].who = k.asset
                  /\ e.kind = "item" /\ rel[k.entry].kind = "entry"
    PROVE  MakeInv'
<1> DEFINE id == Making!Free[1]
<1>1. /\ id \in Ids \ DOMAIN rel /\ DOMAIN rel' = DOMAIN rel \cup {id} /\ rel'[id] = e
      /\ \A i \in DOMAIN rel : rel'[i] = rel[i]
  <2> DEFINE s == <<e>>
  <2>1. DOMAIN s = {1} /\ s[1] = e /\ Making!Insert(s) OBVIOUS
  <2> HIDE DEF s
  <2>2. /\ DOMAIN rel' = DOMAIN rel \cup {Making!Free[k] : k \in DOMAIN s}
        /\ \A i \in DOMAIN rel : rel'[i] = rel[i]
        /\ \A k \in DOMAIN s :
               Making!Free[k] \in Ids \ DOMAIN rel /\ rel'[Making!Free[k]] = s[k]
    BY <2>1, Inserted DEF MakeInv
  <2>3. {Making!Free[k] : k \in DOMAIN s} = {id} BY <2>1
  <2> QED BY <2>1, <2>2, <2>3
<1> HIDE DEF id
<1>2. MakeTyped' /\ Making!PicksBelong' /\ PicksAreRows' /\ Making!CoversBelong'
      /\ RowsHaveRoots' /\ ScreenIsOld' /\ Making!RevisionTellsContent'
  <2>1. /\ DOMAIN rel' \subseteq Ids /\ \A i \in DOMAIN rel' : rel'[i] \in RowRecs
        /\ \A i \in DOMAIN rel \cap DOMAIN rel' :
               rel'[i].root = rel[i].root /\ rel'[i].kind = rel[i].kind
               /\ rel'[i].who = rel[i].who /\ rel'[i].code = rel[i].code
               /\ rel'[i].work = rel[i].work
        /\ \A i \in DOMAIN rel \ DOMAIN rel' : rel[i].root = x
        /\ \A i \in DOMAIN rel' : rel'[i].root # x => i \in DOMAIN rel /\ rel'[i] = rel[i]
        /\ \A i \in DOMAIN rel' \ DOMAIN rel : KindOk(rel'[i])
        /\ usable' \subseteq Making!Roles \cup Assets \cup Parties
    BY <1>1, MakeRows
  <2>2. x \in Works /\ new.cover # None =>
               \/ new.cover = root[x].cover /\ new.cover \in DOMAIN rel'
               \/ /\ new.cover \in DOMAIN rel' /\ rel'[new.cover].root = x
                  /\ rel'[new.cover].kind = "entry" /\ rel'[new.cover].who \in Images
    BY <1>1, MakeRows DEF id
  <2>3. ASSUME NEW k \in pick'
        PROVE  \/ k \in pick /\ {k.item, k.entry} \subseteq DOMAIN rel'
               \/ /\ {k.item, k.entry} \subseteq DOMAIN rel'
                  /\ rel'[k.item].work = k.work /\ rel'[k.entry].root = k.work
                  /\ rel'[k.entry].who = k.asset
                  /\ rel'[k.item].kind = "item" /\ rel'[k.entry].kind = "entry"
    <3>1. CASE k \in pick
      <4>1. {k.item, k.entry} \subseteq DOMAIN rel BY <3>1 DEF MakeInv, Making!PicksBelong
      <4> QED BY <1>1, <3>1, <4>1
    <3>2. CASE /\ k.item = id /\ k.entry \in DOMAIN rel
               /\ e.work = k.work /\ rel[k.entry].root = k.work /\ rel[k.entry].who = k.asset
               /\ e.kind = "item" /\ rel[k.entry].kind = "entry"
      BY <1>1, <3>2
    <3> QED BY <3>1, <3>2 DEF id
  <2> QED BY <2>1, <2>2, <2>3, CommandStep
<1>3. Making!OnceEach' /\ Making!RolesAreOwn' /\ Making!PlacesInOrder'
  <2> DEFINE O == IF e.kind \in {"entry", "item"} THEN {1} ELSE {}
             s == <<e>>
  <2>1. DOMAIN s = {1} /\ s[1] = e OBVIOUS
  <2>2. IsFiniteSet(O) /\ Cardinality(O) = IF e.kind \in {"entry", "item"} THEN 1 ELSE 0
    BY FS_Singleton, FS_EmptySet
  <2>3. /\ Making!Insert(s) /\ O \in SUBSET DOMAIN s /\ gaps' = gaps
        /\ \A k \in DOMAIN s : s[k].root = x /\ RoleOwn(s[k])
        /\ \A k \in DOMAIN s, i \in DOMAIN rel : ~SameKey(s[k], rel[i])
        /\ \A k, m \in DOMAIN s : SameKey(s[k], s[m]) => k = m
        /\ \A k \in DOMAIN s : s[k].kind \in {"entry", "item"} <=> k \in O
        /\ \A k, m \in O : s[k].pos = s[m].pos => k = m
        /\ \A k \in O, i \in Making!Order(x) : s[k].pos # rel[i].pos
    BY <2>1
  <2>4. \A k \in O : s[k].pos < Cardinality(Making!Order(x)) + Cardinality(O)
    <3>1. Cardinality(Making!Order(x)) \in Nat BY OrderIs
    <3> QED BY <2>1, <2>2, <3>1
  <2> HIDE DEF O, s
  <2> QED BY <2>2, <2>3, <2>4, RowsAdded
<1> QED BY <1>2, <1>3 DEF MakeInv

LEMMA BumpIs ==
    ASSUME MakeInv, NEW x \in Making!Roots
    PROVE  /\ root[x] \in RootRecs
           /\ Making!Bump(x) => Making!Commit(x, root[x])
BY MakeRows DEF Making!Bump

LEMMA MakeAddAsset ==
    ASSUME MakeInv, NEW w \in Works, NEW a \in Assets, Making!AddAsset(w, a) PROVE MakeInv'
<1> DEFINE n == Cardinality(Making!Rows(w, "entry"))
           e == Making!Entry(w, a, n)
           new == [root[w] EXCEPT !.cover = IF @ = None /\ a \in Images THEN Making!Free[1] ELSE @]
<1>1. w \in Making!Roots /\ root[w] \in RootRecs /\ root[w].status # "NONE"
  BY MakeFacts, MakeRows DEF Making!AddAsset
<1>2. /\ Making!PlaceFree(w) /\ \A i \in Making!Rows(w, "entry") : rel[i].who # a
      /\ Making!Insert(<<e>>) /\ Making!Commit(w, new)
      /\ UNCHANGED <<pick, usable, profiled, gaps, unseen, erasing, screen>>
  BY MakeFacts DEF Making!AddAsset, Making!Elsewhere
<1>3. Making!Rows(w, "entry") = Making!Order(w) /\ n \in 0..Cardinality(Ids) BY OrderIs
<1>4. /\ e \in RowRecs /\ e.kind = "entry" /\ e.root = w /\ e.who = a /\ e.pos = n
      /\ e.code = None /\ e.work = None /\ e.role = None
  BY <1>3, RowsMade
<1>5. Making!Free[1] \in Ids
  <2>1. DOMAIN <<e>> = {1} OBVIOUS
  <2> QED BY <1>2, <2>1, Inserted DEF MakeInv
<1>6. new \in RootRecs /\ new.status = root[w].status /\ new.rev = root[w].rev
      /\ new.cover = IF root[w].cover = None /\ a \in Images THEN Making!Free[1] ELSE root[w].cover
  BY <1>1, <1>5 DEF RootRecs
<1>7. \A i \in DOMAIN rel : ~SameKey(e, rel[i])
  BY <1>2, <1>4 DEF SameKey, Making!Rows
<1>8. RoleOwn(e) /\ KindOk(e) BY <1>4 DEF RoleOwn, KindOk
<1>9. \A i \in Making!Order(w) : rel[i].pos # e.pos
  BY <1>2, <1>3, <1>4, MakeFacts DEF Making!PlaceFree
<1>10. pick' \subseteq Making!Picks BY <1>2, MakeRows
<1> HIDE DEF e, new, n
<1> QED BY <1>1, <1>2, <1>3, <1>4, <1>6, <1>7, <1>8, <1>9, <1>10, RowKeeps DEF n

LEMMA MakeAddCredit ==
    ASSUME MakeInv, NEW w \in Works, NEW p \in People, NEW c \in Codes, Making!AddCredit(w, p, c)
    PROVE  MakeInv'
<1> DEFINE e == Making!Credit(w, p, c, None)
<1>1. w \in Making!Roots /\ root[w] \in RootRecs /\ root[w].status # "NONE"
  BY MakeFacts, MakeRows DEF Making!AddCredit
<1>2. /\ ~\E i \in Making!Rows(w, "credit") : rel[i].who = p /\ rel[i].code = c
      /\ Making!Insert(<<e>>) /\ Making!Commit(w, root[w])
      /\ UNCHANGED <<pick, usable, profiled, gaps, unseen, erasing, screen>>
  BY <1>1, BumpIs DEF Making!AddCredit, Making!Elsewhere
<1>3. /\ e \in RowRecs /\ e.kind = "credit" /\ e.root = w /\ e.who = p /\ e.code = c
      /\ e.role = None /\ e.work = None
  BY RowsMade
<1>4. /\ \A i \in DOMAIN rel : ~SameKey(e, rel[i])
      /\ RoleOwn(e) /\ KindOk(e)
  BY <1>2, <1>3 DEF SameKey, Making!Rows, RoleOwn, KindOk
<1>5. pick' \subseteq Making!Picks BY <1>2, MakeRows
<1> HIDE DEF e
<1> QED BY <1>1, <1>2, <1>3, <1>4, <1>5, RowKeeps

LEMMA MakeAddParticipant ==
    ASSUME MakeInv, NEW x \in Projects, NEW p \in People, NEW c \in Codes,
           NEW s \in {"NOMINATED", "ACTUAL"}, Making!AddParticipant(x, p, c, s)
    PROVE  MakeInv'
<1> DEFINE e == [Making!Blank EXCEPT !.kind = "participant", !.root = x, !.who = p, !.code = c,
                                     !.state = s]
<1>1. x \in Making!Roots /\ root[x] \in RootRecs /\ root[x].status # "NONE"
  BY MakeFacts, MakeRows DEF Making!AddParticipant
<1>2. /\ ~\E i \in Making!Rows(x, "participant") : rel[i].who = p /\ rel[i].code = c
      /\ Making!Insert(<<e>>) /\ Making!Commit(x, root[x])
      /\ UNCHANGED <<pick, usable, profiled, gaps, unseen, erasing, screen>>
  BY <1>1, BumpIs DEF Making!AddParticipant, Making!Elsewhere
<1>3. /\ e \in RowRecs /\ e.kind = "participant" /\ e.root = x /\ e.who = p /\ e.code = c
      /\ e.role = None
  <2>1. 0 \in 0..Cardinality(Ids) BY MakeFacts
  <2>2. e \in RowRecs BY <1>1, <2>1 DEF Making!Blank, RowRecs
  <2>3. e.kind = "participant" /\ e.root = x /\ e.who = p /\ e.code = c /\ e.role = None
    BY DEF Making!Blank
  <2> QED BY <2>2, <2>3
<1>4. /\ \A i \in DOMAIN rel : ~SameKey(e, rel[i])
      /\ RoleOwn(e) /\ KindOk(e)
  BY <1>2, <1>3 DEF SameKey, Making!Rows, RoleOwn, KindOk
<1>5. pick' \subseteq Making!Picks BY <1>2, MakeRows
<1> HIDE DEF e
<1> QED BY <1>1, <1>2, <1>3, <1>4, <1>5, RowKeeps

LEMMA MakeAddItem ==
    ASSUME MakeInv, NEW x \in Lists, NEW p \in People, NEW r \in Making!Roles \cup {None},
           NEW w \in Works \cup {None}, NEW entries, Making!AddItem(x, p, r, w, entries)
    PROVE  MakeInv'
<1> DEFINE n == Cardinality(Making!Rows(x, "item"))
           e == Making!Item(x, p, r, w, n)
<1>1. x \in Making!Roots /\ root[x] \in RootRecs /\ root[x].status # "NONE"
  BY MakeFacts, MakeRows DEF Making!AddItem
<1>2. /\ Making!PlaceFree(x) /\ ~\E i \in Making!Rows(x, "item") : Making!Same(i, p, r, w)
      /\ Making!Insert(<<e>>) /\ Making!Commit(x, root[x])
      /\ Making!Candidate(p, r, w)
      /\ entries \subseteq (IF w = None THEN {} ELSE Making!Rows(w, "entry"))
      /\ pick' = pick \cup {[item |-> Making!Free[1], entry |-> i, work |-> w,
                             asset |-> rel[i].who] : i \in entries}
      /\ \A i \in entries : rel[i].who \in usable \ erasing
      /\ UNCHANGED <<usable, profiled, gaps, unseen, erasing, screen>>
  BY <1>1, BumpIs, MakeFacts DEF Making!AddItem, Making!Elsewhere, Making!Ready
<1>3. Making!Rows(x, "item") = Making!Order(x) /\ n \in 0..Cardinality(Ids) BY OrderIs
<1>4. /\ e \in RowRecs /\ e.kind = "item" /\ e.root = x /\ e.who = p /\ e.pos = n
      /\ e.code = None /\ e.work = w /\ e.role = r
  BY <1>3, RowsMade
<1>5. Making!Free[1] \in Ids
  <2>1. DOMAIN <<e>> = {1} OBVIOUS
  <2> QED BY <1>2, <2>1, Inserted DEF MakeInv
<1>6. \A i \in DOMAIN rel : ~SameKey(e, rel[i])
  BY <1>2, <1>4 DEF SameKey, Making!Rows, Making!Same
<1>7. RoleOwn(e) /\ KindOk(e) BY <1>2, <1>4 DEF RoleOwn, KindOk, Making!Candidate
<1>8. \A i \in Making!Order(x) : rel[i].pos # e.pos
  BY <1>2, <1>3, <1>4, MakeFacts DEF Making!PlaceFree
<1>9. \A i \in entries : i \in DOMAIN rel /\ rel[i].root = w /\ rel[i].kind = "entry" /\ w # None
  BY <1>2 DEF Making!Rows
<1>10. pick' \subseteq Making!Picks
  <2>1. ASSUME NEW i \in entries
        PROVE  [item |-> Making!Free[1], entry |-> i, work |-> w, asset |-> rel[i].who]
                   \in Making!Picks
    <3>1. i \in Ids /\ w \in Works BY <1>9, MakeRows
    <3>2. rel[i].who \in Assets BY <1>9 DEF MakeInv, RowsHaveRoots, RowOk, KindOk
    <3> QED BY <1>5, <3>1, <3>2 DEF Making!Picks
  <2> QED BY <1>2, <2>1, MakeRows
<1>11. \A k \in pick' :
           \/ k \in pick
           \/ /\ k.item = Making!Free[1] /\ k.entry \in DOMAIN rel
              /\ e.work = k.work /\ rel[k.entry].root = k.work /\ rel[k.entry].who = k.asset
              /\ e.kind = "item" /\ rel[k.entry].kind = "entry"
  BY <1>2, <1>4, <1>9
<1> HIDE DEF e, n
<1> QED BY <1>1, <1>2, <1>3, <1>4, <1>6, <1>7, <1>8, <1>10, <1>11, RowKeeps DEF n

-------------------------------------------------------------------------------
(* Production: rows changed in place, numbered again or removed *)

SameRow(e, f) ==
    /\ e.root = f.root /\ e.kind = f.kind /\ e.who = f.who /\ e.code = f.code /\ e.work = f.work

\* A command that changes what is in the rows, but not what they are.
LEMMA RewriteKeeps ==
    ASSUME MakeInv, NEW x \in Making!Roots, root[x].status # "NONE", Making!Commit(x, root[x]),
           DOMAIN rel' = DOMAIN rel, \A i \in DOMAIN rel : rel'[i] \in RowRecs,
           \A i \in DOMAIN rel : SameRow(rel'[i], rel[i]) /\ rel'[i].pos = rel[i].pos,
           \A i \in DOMAIN rel : rel[i].root # x => rel'[i] = rel[i],
           \A i \in DOMAIN rel : RoleOwn(rel'[i]),
           \/ \A i \in DOMAIN rel : rel'[i].kind = "item" => rel'[i].role = rel[i].role
           \/ Making!OnceEach',
           UNCHANGED <<pick, usable, profiled, gaps, unseen, erasing, screen>>
    PROVE  MakeInv'
<1>1. Making!RolesAreOwn' /\ Making!PlacesInOrder' /\ Making!OnceEach'
  <2>1. \A i \in DOMAIN rel : RoleOwn(rel[i])' BY DEF RoleOwn
  <2> QED BY <2>1, RowsRewritten DEF SameRow
<1>2. MakeTyped' /\ Making!PicksBelong' /\ PicksAreRows' /\ Making!CoversBelong'
      /\ RowsHaveRoots' /\ ScreenIsOld' /\ Making!RevisionTellsContent'
  <2>1. /\ DOMAIN rel' \subseteq Ids /\ root[x] \in RootRecs
        /\ usable' \subseteq Making!Roles \cup Assets \cup Parties
        /\ pick' \subseteq Making!Picks
        /\ x \in Works /\ root[x].cover # None => root[x].cover \in DOMAIN rel'
    BY MakeRows
  <2>2. \A k \in pick' : k \in pick /\ {k.item, k.entry} \subseteq DOMAIN rel'
    BY DEF MakeInv, Making!PicksBelong
  <2> QED BY <2>1, <2>2, CommandStep DEF SameRow
<1> QED BY <1>1, <1>2 DEF MakeInv

\* Numbering the rows of a root again, with or without one of them.
LEMMA NumberedAgain ==
    ASSUME MakeInv, NEW x \in Making!Roots, gaps' = gaps \ {x},
           NEW out \in SUBSET Making!Order(x), DOMAIN rel' = DOMAIN rel \ out,
           \A i \in DOMAIN rel' : SameRow(rel'[i], rel[i]) /\ rel'[i].role = rel[i].role,
           \A i \in DOMAIN rel' : i \notin Making!Order(x) => rel'[i] = rel[i],
           NEW place, \A i \in Making!Order(x) \ out : rel'[i].pos = place[i],
           \A i \in Making!Order(x) \ out :
               place[i] \in 0..(Cardinality(Making!Order(x) \ out) - 1),
           \A i, j \in Making!Order(x) \ out : place[i] = place[j] => i = j
    PROVE  Making!OnceEach' /\ Making!RolesAreOwn' /\ Making!PlacesInOrder'
<1>1. Making!OnceEach' /\ Making!RolesAreOwn'
  <2>1. Making!OnceEach' BY KeysStay DEF MakeInv, SameRow
  <2>2. Making!RolesAreOwn' BY DEF MakeInv, Making!RolesAreOwn, SameRow
  <2> QED BY <2>1, <2>2
<1>2. Making!Order(x)' = Making!Order(x) \ out
  BY DEF Making!Order, Making!Rows, SameRow
<1>3. \A y \in Making!Roots \ {x} : Making!Order(y)' = Making!Order(y)
  <2>1. \A y \in Making!Roots \ {x} : \A i \in Making!Order(y) : i \in DOMAIN rel'
    BY DEF Making!Order, Making!Rows
  <2> QED BY <2>1 DEF Making!Order, Making!Rows, SameRow
<1>4. Making!PlacesInOrder'
  <2> SUFFICES ASSUME NEW y \in Making!Roots
               PROVE  /\ \A i, j \in Making!Order(y)' : rel'[i].pos = rel'[j].pos => i = j
                      /\ y \notin gaps' =>
                           \A i \in Making!Order(y)' : rel'[i].pos < Cardinality(Making!Order(y)')
    BY MakeFacts DEF Making!PlacesInOrder
  <2>1. CASE y = x
    <3>1. Cardinality(Making!Order(x) \ out) \in Nat
      <4>1. IsFiniteSet(Making!Order(x)) BY OrderIs
      <4> QED BY <4>1, FS_Subset, FS_CardinalityType
    <3>2. ASSUME NEW i \in Making!Order(x) \ out
          PROVE  rel'[i].pos < Cardinality(Making!Order(x) \ out)
      <4>1. rel'[i].pos = place[i] /\ place[i] \in 0..(Cardinality(Making!Order(x) \ out) - 1)
        OBVIOUS
      <4> QED BY <3>1, <4>1
    <3>3. \A i, j \in Making!Order(x) \ out : rel'[i].pos = rel'[j].pos => i = j
      OBVIOUS
    <3> QED BY <1>2, <2>1, <3>2, <3>3
  <2>2. CASE y # x
    <3>1. /\ \A i, j \in Making!Order(y) : rel[i].pos = rel[j].pos => i = j
          /\ y \notin gaps => \A i \in Making!Order(y) : rel[i].pos < Cardinality(Making!Order(y))
      BY MakeFacts DEF MakeInv, Making!PlacesInOrder
    <3>2. \A i \in Making!Order(y) : i \in DOMAIN rel' /\ rel'[i] = rel[i]
      BY <2>2 DEF Making!Order, Making!Rows
    <3> QED BY <1>3, <2>2, <3>1, <3>2
  <2> QED BY <2>1, <2>2
<1> QED BY <1>1, <1>4

LEMMA OnePosition ==
    ASSUME MakeInv, NEW i \in DOMAIN rel, NEW n \in 0..Cardinality(Ids)
    PROVE  LET e == [rel[i] EXCEPT !.pos = n]
           IN  e \in RowRecs /\ SameRow(e, rel[i]) /\ e.role = rel[i].role /\ e.pos = n
BY MakeRows DEF RowRecs, SameRow

LEMMA RenumberIs ==
    ASSUME MakeInv, NEW x \in Making!Roots, Making!Renumber(x), gaps' = gaps \ {x}
    PROVE  /\ Making!OnceEach' /\ Making!RolesAreOwn' /\ Making!PlacesInOrder'
           /\ DOMAIN rel' = DOMAIN rel /\ \A i \in DOMAIN rel : rel'[i] \in RowRecs
           /\ \A i \in DOMAIN rel : SameRow(rel'[i], rel[i])
           /\ \A i \in DOMAIN rel : rel[i].root # x => rel'[i] = rel[i]
<1> DEFINE S == Making!Order(x)
<1>1. PICK place \in [S -> 0..(Cardinality(S) - 1)] :
          /\ \A i, j \in S : place[i] = place[j] => i = j
          /\ rel' = [i \in DOMAIN rel |->
                         IF i \in S THEN [rel[i] EXCEPT !.pos = place[i]] ELSE rel[i]]
  BY MakeFacts DEF Making!Renumber
<1>2. S \subseteq DOMAIN rel /\ Cardinality(S) \in 0..Cardinality(Ids) BY OrderIs
<1>3. ASSUME NEW i \in DOMAIN rel
      PROVE  /\ rel'[i] \in RowRecs /\ SameRow(rel'[i], rel[i]) /\ rel'[i].role = rel[i].role
             /\ i \notin S => rel'[i] = rel[i]
             /\ i \in S => rel'[i].pos = place[i]
  <2>1. CASE i \in S
    <3>1. place[i] \in 0..Cardinality(Ids) BY <1>1, <1>2, <2>1, MakeFacts
    <3> QED BY <1>1, <2>1, <3>1, OnePosition
  <2>2. CASE i \notin S BY <1>1, <2>2, MakeRows DEF SameRow
  <2> QED BY <2>1, <2>2
<1>4. \A i \in DOMAIN rel : rel[i].root # x => i \notin S BY DEF Making!Order, Making!Rows
<1>5. DOMAIN rel' = DOMAIN rel BY <1>1
<1>6. Making!OnceEach' /\ Making!RolesAreOwn' /\ Making!PlacesInOrder'
  <2> DEFINE out == {}
  <2>1. S \ out = S /\ DOMAIN rel \ out = DOMAIN rel OBVIOUS
  <2>2. /\ \A i \in S : rel'[i].pos = place[i]
        /\ \A i \in S : place[i] \in 0..(Cardinality(S) - 1)
        /\ \A i, j \in S : place[i] = place[j] => i = j
    BY <1>1, <1>2, <1>3
  <2>3. /\ out \in SUBSET S /\ DOMAIN rel' = DOMAIN rel \ out
        /\ \A i \in DOMAIN rel' : SameRow(rel'[i], rel[i]) /\ rel'[i].role = rel[i].role
        /\ \A i \in DOMAIN rel' : i \notin S => rel'[i] = rel[i]
    BY <1>3, <1>5
  <2> HIDE DEF out
  <2>4. /\ \A i \in S \ out : rel'[i].pos = place[i]
        /\ \A i \in S \ out : place[i] \in 0..(Cardinality(S \ out) - 1)
        /\ \A i, j \in S \ out : place[i] = place[j] => i = j
    BY <2>1, <2>2
  <2> QED BY <2>3, <2>4, NumberedAgain
<1> QED BY <1>3, <1>4, <1>5, <1>6

LEMMA WithoutIs ==
    ASSUME MakeInv, NEW x \in Making!Roots, NEW i \in Making!Order(x),
           rel' = Making!Without(x, i), gaps' = gaps \ {x}
    PROVE  /\ Making!OnceEach' /\ Making!RolesAreOwn' /\ Making!PlacesInOrder'
           /\ DOMAIN rel' = DOMAIN rel \ {i} /\ \A j \in DOMAIN rel' : rel'[j] \in RowRecs
           /\ \A j \in DOMAIN rel' : SameRow(rel'[j], rel[j])
           /\ \A j \in DOMAIN rel' : rel[j].root # x => rel'[j] = rel[j]
<1> DEFINE S == Making!Order(x)
           T == S \ {i}
           v == [k \in T |-> rel[k].pos]
           place == [j \in T |-> Cardinality({k \in T : v[k] < v[j]})]
<1>1. /\ S \subseteq DOMAIN rel /\ IsFiniteSet(T) /\ Cardinality(T) \in Nat
      /\ Cardinality(T) <= Cardinality(Ids)
  <2>1. S \subseteq DOMAIN rel /\ IsFiniteSet(S) BY OrderIs
  <2>2. T \in SUBSET Ids BY <2>1, MakeRows
  <2> QED BY <2>1, <2>2, FS_Subset, FS_CardinalityType, MakeFacts
<1>2. \A j \in T : {k \in T : rel[k].pos < rel[j].pos} = {k \in T : v[k] < v[j]}
  OBVIOUS
<1>3. rel' = [j \in DOMAIN rel \ {i} |->
                  IF j \in T THEN [rel[j] EXCEPT !.pos = place[j]] ELSE rel[j]]
  <2>1. rel' = [j \in DOMAIN rel \ {i} |->
                  IF j \in T
                    THEN [rel[j] EXCEPT !.pos = Cardinality({k \in T : rel[k].pos < rel[j].pos})]
                    ELSE rel[j]]
    BY MakeFacts DEF Making!Without
  <2>2. \A j \in T : place[j] = Cardinality({k \in T : rel[k].pos < rel[j].pos})
    BY <1>2
  <2> HIDE DEF T, place
  <2> QED BY <2>1, <2>2
<1>4. /\ \A j \in T : place[j] \in 0..(Cardinality(T) - 1)
      /\ \A j, k \in T : place[j] = place[k] => j = k
  <2>1. \A k \in T : v[k] \in Int
    <3>1. \A k \in T : rel[k] \in RowRecs BY <1>1, MakeRows
    <3> QED BY <3>1, MakeFacts DEF RowRecs
  <2>2. \A j, k \in T : v[j] = v[k] => j = k
    BY DEF MakeInv, Making!PlacesInOrder
  <2>3. \A j \in T : place[j] = Cardinality({k \in T : v[k] < v[j]}) OBVIOUS
  <2> HIDE DEF T, v, place
  <2> QED BY <1>1, <2>1, <2>2, <2>3, Ranks
<1> HIDE DEF place, v
<1>5. ASSUME NEW j \in DOMAIN rel \ {i}
      PROVE  /\ rel'[j] \in RowRecs /\ SameRow(rel'[j], rel[j]) /\ rel'[j].role = rel[j].role
             /\ j \notin S => rel'[j] = rel[j]
             /\ j \in T => rel'[j].pos = place[j]
  <2>1. CASE j \in T
    <3>1. place[j] \in 0..Cardinality(Ids) BY <1>1, <1>4, <2>1, MakeFacts
    <3>2. rel'[j] = [rel[j] EXCEPT !.pos = place[j]] BY <1>3, <2>1
    <3> QED BY <2>1, <3>1, <3>2, OnePosition
  <2>2. CASE j \notin T BY <1>3, <2>2, MakeRows DEF SameRow
  <2> QED BY <2>1, <2>2
<1>6. \A j \in DOMAIN rel : rel[j].root # x => j \notin S BY DEF Making!Order, Making!Rows
<1>7. DOMAIN rel' = DOMAIN rel \ {i} BY <1>3
<1>8. Making!OnceEach' /\ Making!RolesAreOwn' /\ Making!PlacesInOrder'
  <2>1. /\ {i} \in SUBSET S
        /\ \A j \in DOMAIN rel' : SameRow(rel'[j], rel[j]) /\ rel'[j].role = rel[j].role
        /\ \A j \in DOMAIN rel' : j \notin S => rel'[j] = rel[j]
        /\ \A j \in S \ {i} : rel'[j].pos = place[j]
    BY <1>1, <1>5, <1>7
  <2>2. /\ \A j \in S \ {i} : place[j] \in 0..(Cardinality(S \ {i}) - 1)
        /\ \A j, k \in S \ {i} : place[j] = place[k] => j = k
    BY <1>4
  <2> HIDE DEF S
  <2> QED BY <1>7, <2>1, <2>2, NumberedAgain DEF S
<1> QED BY <1>5, <1>6, <1>7, <1>8

LEMMA PicksAre ==
    ASSUME MakeInv, NEW k \in pick
    PROVE  /\ {k.item, k.entry} \subseteq DOMAIN rel
           /\ rel[k.item].kind = "item" /\ rel[k.entry].kind = "entry"
BY DEF MakeInv, Making!PicksBelong, PicksAreRows

LEMMA MakeRemoveAsset ==
    ASSUME MakeInv, NEW w \in Works, NEW i, Making!RemoveAsset(w, i) PROVE MakeInv'
<1> DEFINE new == Making!Left(w, i)
<1>1. /\ w \in Making!Roots /\ root[w] \in RootRecs /\ root[w].status # "NONE"
      /\ i \in Making!Rows(w, "entry") /\ Making!Commit(w, new)
      /\ rel' = Making!Without(w, i) /\ pick' = Making!Unpicked(i) /\ gaps' = gaps \ {w}
      /\ UNCHANGED <<usable, profiled, unseen, erasing, screen>>
  BY MakeFacts, MakeRows DEF Making!RemoveAsset, Making!Elsewhere
<1>2. /\ new \in RootRecs /\ new.status # "NONE" /\ new.rev = root[w].rev
      /\ new.cover = IF root[w].cover = i THEN None ELSE root[w].cover
  BY <1>1 DEF Making!Left, RootRecs
<1>3. i \in Making!Order(w) BY <1>1, OrderIs
<1>4. /\ Making!OnceEach' /\ Making!RolesAreOwn' /\ Making!PlacesInOrder'
      /\ DOMAIN rel' = DOMAIN rel \ {i} /\ \A j \in DOMAIN rel' : rel'[j] \in RowRecs
      /\ \A j \in DOMAIN rel' : SameRow(rel'[j], rel[j])
      /\ \A j \in DOMAIN rel' : rel[j].root # w => rel'[j] = rel[j]
  BY <1>1, <1>3, WithoutIs
<1>5. /\ pick' \subseteq Making!Picks
      /\ \A k \in pick' : k \in pick /\ {k.item, k.entry} \subseteq DOMAIN rel'
  BY <1>1, <1>4, PicksAre, MakeRows DEF Making!Unpicked
<1>6. /\ w \in Works /\ new.cover # None => new.cover = root[w].cover /\ new.cover \in DOMAIN rel'
      /\ \A j \in DOMAIN rel \ DOMAIN rel' : rel[j].root = w
      /\ DOMAIN rel' \subseteq Ids /\ usable' \subseteq Making!Roles \cup Assets \cup Parties
  BY <1>1, <1>2, <1>4, MakeRows DEF Making!Rows
<1> HIDE DEF new
<1>7. MakeTyped' /\ Making!PicksBelong' /\ PicksAreRows' /\ Making!CoversBelong'
      /\ RowsHaveRoots' /\ ScreenIsOld' /\ Making!RevisionTellsContent'
  BY <1>1, <1>2, <1>4, <1>5, <1>6, CommandStep DEF SameRow
<1> QED BY <1>4, <1>7 DEF MakeInv

LEMMA MakeRemoveItem ==
    ASSUME MakeInv, NEW x \in Lists, NEW i, Making!RemoveItem(x, i) PROVE MakeInv'
<1>1. /\ x \in Making!Roots /\ root[x] \in RootRecs /\ root[x].status # "NONE"
      /\ i \in Making!Rows(x, "item") /\ Making!Commit(x, root[x])
      /\ rel' = Making!Without(x, i) /\ pick' = Making!Unpicked(i) /\ gaps' = gaps \ {x}
      /\ UNCHANGED <<usable, profiled, unseen, erasing, screen>>
  BY MakeFacts, MakeRows, BumpIs DEF Making!RemoveItem, Making!Elsewhere
<1>2. i \in Making!Order(x) BY <1>1, OrderIs
<1>3. /\ Making!OnceEach' /\ Making!RolesAreOwn' /\ Making!PlacesInOrder'
      /\ DOMAIN rel' = DOMAIN rel \ {i} /\ \A j \in DOMAIN rel' : rel'[j] \in RowRecs
      /\ \A j \in DOMAIN rel' : SameRow(rel'[j], rel[j])
      /\ \A j \in DOMAIN rel' : rel[j].root # x => rel'[j] = rel[j]
  BY <1>1, <1>2, WithoutIs
<1>4. /\ pick' \subseteq Making!Picks
      /\ \A k \in pick' : k \in pick /\ {k.item, k.entry} \subseteq DOMAIN rel'
  BY <1>1, <1>3, PicksAre, MakeRows DEF Making!Unpicked
<1>5. /\ x \notin Works
      /\ \A j \in DOMAIN rel \ DOMAIN rel' : rel[j].root = x
      /\ DOMAIN rel' \subseteq Ids /\ usable' \subseteq Making!Roles \cup Assets \cup Parties
  BY <1>1, <1>3, MakeRows, MakeFacts DEF Making!Rows
<1>6. MakeTyped' /\ Making!PicksBelong' /\ PicksAreRows' /\ Making!CoversBelong'
      /\ RowsHaveRoots' /\ ScreenIsOld' /\ Making!RevisionTellsContent'
  BY <1>1, <1>3, <1>4, <1>5, CommandStep DEF SameRow
<1> QED BY <1>3, <1>6 DEF MakeInv

LEMMA MakeReorder ==
    ASSUME MakeInv, NEW x \in Making!Roots, NEW new \in RootRecs,
           root[x].status # "NONE", new.status # "NONE", new.rev = root[x].rev,
           Making!Renumber(x), Making!Commit(x, new), gaps' = gaps \ {x},
           UNCHANGED <<pick, usable, profiled, unseen, erasing, screen>>,
           x \in Works =>
               \/ new.cover \in {root[x].cover, None}
               \/ new.cover \in Making!Rows(x, "entry") /\ rel[new.cover].who \in Images
    PROVE  MakeInv'
<1>1. /\ Making!OnceEach' /\ Making!RolesAreOwn' /\ Making!PlacesInOrder'
      /\ DOMAIN rel' = DOMAIN rel /\ \A i \in DOMAIN rel : rel'[i] \in RowRecs
      /\ \A i \in DOMAIN rel : SameRow(rel'[i], rel[i])
      /\ \A i \in DOMAIN rel : rel[i].root # x => rel'[i] = rel[i]
  BY RenumberIs
<1>2. /\ pick' \subseteq Making!Picks
      /\ \A k \in pick' : k \in pick /\ {k.item, k.entry} \subseteq DOMAIN rel'
  BY <1>1, PicksAre, MakeRows
<1>3. x \in Works /\ new.cover # None =>
           \/ new.cover = root[x].cover /\ new.cover \in DOMAIN rel'
           \/ /\ new.cover \in DOMAIN rel' /\ rel'[new.cover].root = x
              /\ rel'[new.cover].kind = "entry" /\ rel'[new.cover].who \in Images
  BY <1>1, MakeRows DEF Making!Rows, SameRow
<1>4. /\ DOMAIN rel' \subseteq Ids /\ usable' \subseteq Making!Roles \cup Assets \cup Parties
  BY <1>1, MakeRows
<1>5. MakeTyped' /\ Making!PicksBelong' /\ PicksAreRows' /\ Making!CoversBelong'
      /\ RowsHaveRoots' /\ ScreenIsOld' /\ Making!RevisionTellsContent'
  BY <1>1, <1>2, <1>3, <1>4, CommandStep DEF SameRow
<1> QED BY <1>1, <1>5 DEF MakeInv

LEMMA MakeReorderAssets ==
    ASSUME MakeInv, NEW w \in Works, NEW cover, Making!ReorderAssets(w, cover) PROVE MakeInv'
<1> DEFINE new == [root[w] EXCEPT !.cover = cover]
<1>1. /\ w \in Making!Roots /\ root[w] \in RootRecs /\ root[w].status # "NONE"
      /\ cover \in Making!Rows(w, "entry") \cup {None}
      /\ cover \notin {None, root[w].cover} => rel[cover].who \in Images
      /\ Making!Renumber(w) /\ Making!Commit(w, new) /\ gaps' = gaps \ {w}
      /\ UNCHANGED <<pick, usable, profiled, unseen, erasing, screen>>
  BY MakeFacts, MakeRows DEF Making!ReorderAssets, Making!Elsewhere
<1>2. cover \in Ids \cup {None} BY <1>1, MakeRows DEF Making!Rows
<1>3. new \in RootRecs /\ new.status = root[w].status /\ new.rev = root[w].rev /\ new.cover = cover
  BY <1>1, <1>2 DEF RootRecs
<1> HIDE DEF new
<1>4. \/ new.cover \in {root[w].cover, None}
      \/ new.cover \in Making!Rows(w, "entry") /\ rel[new.cover].who \in Images
  BY <1>1, <1>3
<1> QED BY <1>1, <1>3, <1>4, MakeReorder

LEMMA MakeReorderItems ==
    ASSUME MakeInv, NEW x \in Lists, Making!ReorderItems(x) PROVE MakeInv'
<1>1. /\ x \in Making!Roots /\ root[x] \in RootRecs /\ root[x].status # "NONE"
      /\ Making!Renumber(x) /\ Making!Commit(x, root[x]) /\ gaps' = gaps \ {x}
      /\ UNCHANGED <<pick, usable, profiled, unseen, erasing, screen>>
  BY MakeFacts, MakeRows, BumpIs DEF Making!ReorderItems, Making!Elsewhere
<1> QED BY <1>1, MakeReorder

\* One row has another role, state or note.
LEMMA MakeRewrite ==
    ASSUME MakeInv, NEW x \in Making!Roots, root[x].status # "NONE", Making!Commit(x, root[x]),
           NEW i \in DOMAIN rel, rel[i].root = x, NEW e \in RowRecs,
           rel' = [rel EXCEPT ![i] = e], SameRow(e, rel[i]), e.pos = rel[i].pos, RoleOwn(e),
           \/ e.kind = "item" => e.role = rel[i].role
           \/ \A j \in DOMAIN rel \ {i} : ~SameKey(e, rel[j]),
           UNCHANGED <<pick, usable, profiled, gaps, unseen, erasing, screen>>
    PROVE  MakeInv'
<1>1. /\ DOMAIN rel' = DOMAIN rel /\ rel'[i] = e
      /\ \A j \in DOMAIN rel \ {i} : rel'[j] = rel[j]
  OBVIOUS
<1>2. \A j \in DOMAIN rel : rel'[j] \in RowRecs /\ RoleOwn(rel'[j])
                            /\ SameRow(rel'[j], rel[j]) /\ rel'[j].pos = rel[j].pos
  <2>1. \A j \in DOMAIN rel : SameRow(rel[j], rel[j]) BY DEF SameRow
  <2> QED BY <1>1, <2>1, MakeRows
<1>3. \/ \A j \in DOMAIN rel : rel'[j].kind = "item" => rel'[j].role = rel[j].role
      \/ Making!OnceEach'
  <2>1. CASE e.kind = "item" => e.role = rel[i].role BY <1>1, <2>1
  <2>2. CASE \A j \in DOMAIN rel \ {i} : ~SameKey(e, rel[j])
    <3> SUFFICES ASSUME NEW j \in DOMAIN rel, NEW k \in DOMAIN rel, SameKey(rel'[j], rel'[k])
                 PROVE  j = k
      BY <1>1 DEF Making!OnceEach, SameKey
    <3>1. CASE j # i /\ k # i BY <1>1, <3>1 DEF MakeInv, Making!OnceEach, SameKey
    <3>2. CASE j = i /\ k # i BY <1>1, <2>2, <3>2
    <3>3. CASE j # i /\ k = i
      <4>1. SameKey(e, rel[j]) BY <1>1, <3>3 DEF SameKey
      <4> QED BY <2>2, <3>3, <4>1
    <3> QED BY <3>1, <3>2, <3>3
  <2> QED BY <2>1, <2>2
<1>4. \A j \in DOMAIN rel : rel[j].root # x => rel'[j] = rel[j] BY <1>1
<1> QED BY <1>1, <1>2, <1>3, <1>4, RewriteKeeps

LEMMA MakeUpgradeCredit ==
    ASSUME MakeInv, NEW w \in Works, NEW i, Making!UpgradeCredit(w, i) PROVE MakeInv'
<1> DEFINE r == <<rel[i].who, rel[i].code>>
           e == [rel[i] EXCEPT !.role = r]
<1>1. /\ w \in Making!Roots /\ root[w] \in RootRecs /\ root[w].status # "NONE"
      /\ i \in DOMAIN rel /\ rel[i].root = w /\ rel[i].kind = "credit"
      /\ rel' = [rel EXCEPT ![i].role = r] /\ Making!Commit(w, root[w])
      /\ UNCHANGED <<pick, usable, profiled, gaps, unseen, erasing, screen>>
  BY MakeFacts, MakeRows, BumpIs DEF Making!UpgradeCredit, Making!Elsewhere, Making!Rows
<1>2. rel[i] \in RowRecs /\ rel[i].who \in People /\ rel[i].code \in Codes
  BY <1>1, MakeRows DEF MakeInv, RowsHaveRoots, RowOk, KindOk
<1>3. r \in Making!Roles /\ r[1] = rel[i].who /\ r[2] = rel[i].code BY <1>2, MakeFacts
<1> HIDE DEF r
<1>4. e \in RowRecs /\ SameRow(e, rel[i]) /\ e.pos = rel[i].pos /\ e.role = r /\ e.kind = "credit"
  BY <1>1, <1>2, <1>3 DEF RowRecs, SameRow
<1>5. RoleOwn(e) BY <1>3, <1>4 DEF RoleOwn, SameRow
<1>6. rel' = [rel EXCEPT ![i] = e] BY <1>1
<1> HIDE DEF e
<1> QED BY <1>1, <1>4, <1>5, <1>6, MakeRewrite

LEMMA MakeUpdateParticipant ==
    ASSUME MakeInv, NEW x \in Projects, NEW i, NEW s \in {"NOMINATED", "ACTUAL"},
           Making!UpdateParticipant(x, i, s)
    PROVE  MakeInv'
<1> DEFINE e == [rel[i] EXCEPT !.state = s]
<1>1. /\ x \in Making!Roots /\ root[x] \in RootRecs /\ root[x].status # "NONE"
      /\ i \in DOMAIN rel /\ rel[i].root = x
      /\ rel' = [rel EXCEPT ![i].state = s] /\ Making!Commit(x, root[x])
      /\ UNCHANGED <<pick, usable, profiled, gaps, unseen, erasing, screen>>
  BY MakeFacts, MakeRows, BumpIs DEF Making!UpdateParticipant, Making!Elsewhere, Making!Rows
<1>2. rel[i] \in RowRecs /\ RoleOwn(rel[i]) BY <1>1, MakeRows
<1>3. e \in RowRecs /\ SameRow(e, rel[i]) /\ e.pos = rel[i].pos /\ e.role = rel[i].role
  BY <1>2 DEF RowRecs, SameRow
<1>4. RoleOwn(e) BY <1>2, <1>3 DEF RoleOwn, SameRow
<1>5. rel' = [rel EXCEPT ![i] = e] BY <1>1
<1> HIDE DEF e
<1> QED BY <1>1, <1>3, <1>4, <1>5, MakeRewrite

LEMMA MakeUpdateItem ==
    ASSUME MakeInv, NEW x \in Lists, NEW i, NEW note \in BOOLEAN, Making!UpdateItem(x, i, note)
    PROVE  MakeInv'
<1> DEFINE e == [rel[i] EXCEPT !.note = note]
<1>1. /\ x \in Making!Roots /\ root[x] \in RootRecs /\ root[x].status # "NONE"
      /\ i \in DOMAIN rel /\ rel[i].root = x
      /\ rel' = [rel EXCEPT ![i].note = note] /\ Making!Commit(x, root[x])
      /\ UNCHANGED <<pick, usable, profiled, gaps, unseen, erasing, screen>>
  BY MakeFacts, MakeRows, BumpIs DEF Making!UpdateItem, Making!Elsewhere, Making!Rows
<1>2. rel[i] \in RowRecs /\ RoleOwn(rel[i]) BY <1>1, MakeRows
<1>3. e \in RowRecs /\ SameRow(e, rel[i]) /\ e.pos = rel[i].pos /\ e.role = rel[i].role
  BY <1>2 DEF RowRecs, SameRow
<1>4. RoleOwn(e) BY <1>2, <1>3 DEF RoleOwn, SameRow
<1>5. rel' = [rel EXCEPT ![i] = e] BY <1>1
<1> HIDE DEF e
<1> QED BY <1>1, <1>3, <1>4, <1>5, MakeRewrite

LEMMA MakeBindRole ==
    ASSUME MakeInv, NEW x \in Lists, NEW i, NEW r \in Making!Roles, Making!BindRole(x, i, r)
    PROVE  MakeInv'
<1> DEFINE e == [rel[i] EXCEPT !.role = r, !.state = "BOUND"]
<1>1. /\ x \in Making!Roots /\ root[x] \in RootRecs /\ root[x].status # "NONE"
      /\ i \in DOMAIN rel /\ rel[i].root = x /\ rel[i].kind = "item" /\ r[1] = rel[i].who
      /\ ~Making!Rival(x, i, r)
      /\ rel' = [rel EXCEPT ![i].role = r, ![i].state = "BOUND"] /\ Making!Commit(x, root[x])
      /\ UNCHANGED <<pick, usable, profiled, gaps, unseen, erasing, screen>>
  BY MakeFacts, MakeRows, BumpIs DEF Making!BindRole, Making!Elsewhere, Making!Rows
<1>2. rel[i] \in RowRecs BY <1>1, MakeRows
<1>3. e \in RowRecs /\ SameRow(e, rel[i]) /\ e.pos = rel[i].pos /\ e.role = r /\ e.kind = "item"
  BY <1>1, <1>2 DEF RowRecs, SameRow
<1>4. RoleOwn(e) BY <1>1, <1>3 DEF RoleOwn, SameRow
<1>5. rel' = [rel EXCEPT ![i] = e] BY <1>1
<1>6. \A j \in DOMAIN rel \ {i} : ~SameKey(e, rel[j])
  BY <1>1, <1>3 DEF Making!Rival, Making!Rows, Making!Same, SameKey, SameRow
<1> HIDE DEF e
<1> QED BY <1>1, <1>3, <1>4, <1>5, <1>6, MakeRewrite

\* A row goes; where it had a place, there is a gap, or none is known.
LEMMA RowGone ==
    ASSUME MakeInv, NEW g \in DOMAIN rel, DOMAIN rel' = DOMAIN rel \ {g},
           \A j \in DOMAIN rel' : rel'[j] = rel[j],
           \/ gaps' = gaps \cup {rel[g].root}
           \/ gaps' = gaps /\ rel[g].kind \notin {"entry", "item"}
    PROVE  Making!OnceEach' /\ Making!RolesAreOwn' /\ Making!PlacesInOrder'
<1>1. DOMAIN rel' = DOMAIN rel \ {g} /\ \A j \in DOMAIN rel' : rel'[j] = rel[j]
  OBVIOUS
<1>2. Making!OnceEach' BY <1>1, KeysStay DEF MakeInv
<1>3. Making!RolesAreOwn' BY <1>1 DEF MakeInv, Making!RolesAreOwn
<1>4. Making!PlacesInOrder'
  <2> SUFFICES ASSUME NEW y \in Making!Roots
               PROVE  /\ \A i, j \in Making!Order(y)' : rel'[i].pos = rel'[j].pos => i = j
                      /\ y \notin gaps' =>
                           \A i \in Making!Order(y)' : rel'[i].pos < Cardinality(Making!Order(y)')
    BY MakeFacts DEF Making!PlacesInOrder
  <2>1. /\ \A i, j \in Making!Order(y) : rel[i].pos = rel[j].pos => i = j
        /\ y \notin gaps => \A i \in Making!Order(y) : rel[i].pos < Cardinality(Making!Order(y))
    BY MakeFacts DEF MakeInv, Making!PlacesInOrder
  <2>2. Making!Order(y)' \subseteq Making!Order(y) /\ Making!Order(y)' \subseteq DOMAIN rel'
    BY <1>1 DEF Making!Order, Making!Rows
  <2>3. y \notin gaps' => y \notin gaps /\ Making!Order(y)' = Making!Order(y)
    BY <1>1 DEF Making!Order, Making!Rows
  <2> QED BY <1>1, <2>1, <2>2, <2>3
<1> QED BY <1>2, <1>3, <1>4

LEMMA MakeRemoveRow ==
    ASSUME MakeInv, NEW x \in Making!Roots, NEW i, Making!RemoveRow(x, i) PROVE MakeInv'
<1>1. /\ root[x] \in RootRecs /\ root[x].status # "NONE"
      /\ i \in DOMAIN rel /\ rel[i].root = x /\ rel[i].kind \in {"credit", "participant", "work"}
      /\ rel' = [j \in DOMAIN rel \ {i} |-> rel[j]] /\ Making!Commit(x, root[x])
      /\ UNCHANGED <<pick, usable, profiled, gaps, unseen, erasing, screen>>
  BY MakeRows, BumpIs DEF Making!RemoveRow, Making!Elsewhere, Making!Rows
<1>2. DOMAIN rel' = DOMAIN rel \ {i} /\ \A j \in DOMAIN rel' : rel'[j] = rel[j] BY <1>1
<1>3. Making!OnceEach' /\ Making!RolesAreOwn' /\ Making!PlacesInOrder' BY <1>1, <1>2, RowGone
<1>4. /\ pick' \subseteq Making!Picks
      /\ \A k \in pick' : k \in pick /\ {k.item, k.entry} \subseteq DOMAIN rel'
  BY <1>1, <1>2, PicksAre, MakeRows
<1>5. /\ DOMAIN rel' \subseteq Ids /\ usable' \subseteq Making!Roles \cup Assets \cup Parties
      /\ \A j \in DOMAIN rel' : rel'[j] \in RowRecs
      /\ x \in Works /\ root[x].cover # None => root[x].cover \in DOMAIN rel'
  BY <1>1, <1>2, MakeRows
<1>6. MakeTyped' /\ Making!PicksBelong' /\ PicksAreRows' /\ Making!CoversBelong'
      /\ RowsHaveRoots' /\ ScreenIsOld' /\ Making!RevisionTellsContent'
  BY <1>1, <1>2, <1>4, <1>5, CommandStep
<1> QED BY <1>3, <1>6 DEF MakeInv

LEMMA MakeCleanRow ==
    ASSUME MakeInv, NEW i \in DOMAIN rel, Making!CleanRow(i) PROVE MakeInv'
<1>1. UNCHANGED <<root, usable, profiled, unseen, erasing, screen>> BY DEF Making!CleanRow
<1>2. CASE UNCHANGED <<rel, gaps>> /\ pick' \subseteq pick
  <2>1. MakeTyped' BY <1>1, <1>2, MakeTypes, MakeTypesNext DEF MakeInv, MakeTyped
  <2> QED BY <1>1, <1>2, <2>1, QuietKeeps
<1>3. CASE /\ root[rel[i].root].cover # i
           /\ rel' = [j \in DOMAIN rel \ {i} |-> rel[j]] /\ pick' = Making!Unpicked(i)
           /\ gaps' = gaps \cup {rel[i].root}
  <2>1. DOMAIN rel' = DOMAIN rel \ {i} /\ \A j \in DOMAIN rel' : rel'[j] = rel[j] BY <1>3
  <2>2. Making!OnceEach' /\ Making!RolesAreOwn' /\ Making!PlacesInOrder' BY <1>3, <2>1, RowGone
  <2>3. /\ pick' \subseteq Making!Picks
        /\ \A k \in pick' : k \in pick /\ {k.item, k.entry} \subseteq DOMAIN rel'
    BY <1>3, <2>1, PicksAre, MakeRows DEF Making!Unpicked
  <2>4. MakeTyped' BY <1>1, <2>1, <2>3, MakeTypes, MakeTypesNext DEF MakeInv, MakeTyped
  <2>5. \A x \in Making!Roots : Making!Content(x)' \subseteq Making!Content(x)
    BY <2>1 DEF Making!Content
  <2>6. \A w \in Works : root[w].cover # None => root[w].cover \in DOMAIN rel'
    BY <1>3, <2>1, MakeRows
  <2>7. Making!PicksBelong' /\ PicksAreRows' /\ Making!CoversBelong'
        /\ RowsHaveRoots' /\ ScreenIsOld' /\ Making!RevisionTellsContent'
    BY <1>1, <2>1, <2>3, <2>4, <2>5, <2>6, MakeStep
  <2> QED BY <2>2, <2>4, <2>7 DEF MakeInv
<1> QED BY <1>2, <1>3 DEF Making!CleanRow

LEMMA MakeLinkWork ==
    ASSUME MakeInv, NEW x \in Projects, NEW w \in Works,
           NEW relation \in {"REFERENCE", "DELIVERABLE"}, Making!LinkWork(x, w, relation)
    PROVE  MakeInv'
<1> DEFINE old == {i \in Making!Rows(x, "work") : rel[i].who = w}
           e == [Making!Blank EXCEPT !.kind = "work", !.root = x, !.who = w, !.state = relation]
<1>1. /\ x \in Making!Roots /\ root[x] \in RootRecs /\ root[x].status # "NONE"
      /\ Making!Commit(x, root[x])
      /\ UNCHANGED <<pick, usable, profiled, gaps, unseen, erasing, screen>>
      /\ \/ rel' = [i \in DOMAIN rel |->
                        IF i \in old THEN [rel[i] EXCEPT !.state = relation] ELSE rel[i]]
         \/ old = {} /\ Making!Insert(<<e>>)
  BY MakeFacts, MakeRows, BumpIs DEF Making!LinkWork, Making!Elsewhere
<1>2. CASE rel' = [i \in DOMAIN rel |->
                       IF i \in old THEN [rel[i] EXCEPT !.state = relation] ELSE rel[i]]
  <2>1. ASSUME NEW i \in DOMAIN rel
        PROVE  /\ rel'[i] \in RowRecs /\ SameRow(rel'[i], rel[i]) /\ rel'[i].pos = rel[i].pos
               /\ rel'[i].role = rel[i].role /\ RoleOwn(rel'[i])
               /\ rel[i].root # x => rel'[i] = rel[i]
    <3>1. rel[i] \in RowRecs /\ RoleOwn(rel[i]) BY MakeRows
    <3>2. CASE i \in old
      <4> DEFINE f == [rel[i] EXCEPT !.state = relation]
      <4>1. rel'[i] = f /\ rel[i].root = x BY <1>2, <3>2 DEF Making!Rows
      <4>2. f \in RowRecs /\ SameRow(f, rel[i]) /\ f.pos = rel[i].pos /\ f.role = rel[i].role
        BY <3>1 DEF RowRecs, SameRow
      <4> HIDE DEF f
      <4> QED BY <3>1, <4>1, <4>2 DEF RoleOwn, SameRow
    <3>3. CASE i \notin old BY <1>2, <3>1, <3>3 DEF SameRow
    <3> QED BY <3>2, <3>3
  <2>2. DOMAIN rel' = DOMAIN rel BY <1>2
  <2> QED BY <1>1, <2>1, <2>2, RewriteKeeps
<1>3. CASE old = {} /\ Making!Insert(<<e>>)
  <2>1. /\ e \in RowRecs /\ e.kind = "work" /\ e.root = x /\ e.who = w /\ e.role = None
    <3>1. 0 \in 0..Cardinality(Ids) BY MakeFacts
    <3>2. e \in RowRecs BY <1>1, <3>1 DEF Making!Blank, RowRecs
    <3>3. e.kind = "work" /\ e.root = x /\ e.who = w /\ e.role = None BY DEF Making!Blank
    <3> QED BY <3>2, <3>3
  <2>2. /\ \A i \in DOMAIN rel : ~SameKey(e, rel[i])
        /\ RoleOwn(e) /\ KindOk(e)
    BY <1>3, <2>1 DEF SameKey, Making!Rows, RoleOwn, KindOk
  <2>3. pick' \subseteq Making!Picks BY <1>1, MakeRows
  <2> HIDE DEF e
  <2> QED BY <1>1, <1>3, <2>1, <2>2, <2>3, RowKeeps
<1> QED BY <1>1, <1>2, <1>3

\* The rows of a work that is made: a credit, and its pictures in their order.
LEMMA NewWork ==
    ASSUME NEW c, NEW m \in Nat, NEW t, DOMAIN t = 1..m, t = [k \in 1..m |-> t[k]],
           NEW new, new = <<c>> \o t
    PROVE  DOMAIN new = 1..(m + 1) /\ new[1] = c /\ \A k \in 1..m : new[k + 1] = t[k]
<1> DEFINE T == {t[k] : k \in 1..m} \cup {c}
           s == <<c>>
<1>1. \A k \in 1..m : t[k] \in T OBVIOUS
<1>2. t \in [1..m -> T] BY <1>1
<1>3. s \in Seq(T) /\ Len(s) = 1 /\ s[1] = c OBVIOUS
<1>4. new = s \o t OBVIOUS
<1> HIDE DEF T, s
<1>5. t \in Seq(T) /\ Len(t) = m BY <1>2
<1>6. /\ new \in Seq(T) /\ Len(new) = 1 + m
      /\ \A i \in 1..(1 + m) : new[i] = IF i <= 1 THEN s[i] ELSE t[i - 1]
  BY <1>3, <1>4, <1>5, ConcatProperties
<1>7. DOMAIN new = 1..(m + 1) BY <1>6
<1>8. new[1] = c BY <1>3, <1>6
<1>9. ASSUME NEW k \in 1..m PROVE new[k + 1] = t[k]
  <2>1. k + 1 \in 1..(1 + m) /\ ~(k + 1 <= 1) /\ (k + 1) - 1 = k OBVIOUS
  <2> QED BY <1>6, <2>1
<1> QED BY <1>7, <1>8, <1>9

\* A work is made, with a credit and its pictures, in their order.
LEMMA WorkMade ==
    ASSUME MakeInv, NEW w \in Works, root[w].status = "NONE", NEW r \in Making!Roles,
           NEW m \in Nat, NEW media \in [1..m -> Assets],
           \A j, k \in 1..m : media[j] = media[k] => j = k,
           NEW new, Making!Insert(new),
           DOMAIN new = 1..(m + 1), new[1] = Making!Credit(w, r[1], r[2], r),
           \A k \in 1..m : new[k + 1] = Making!Entry(w, media[k], k - 1),
           NEW rec \in RootRecs, rec.status # "NONE", root' = [root EXCEPT ![w] = rec],
           \/ rec.cover = None
           \/ \E k \in 1..m : rec.cover = Making!Free[1 + k] /\ media[k] \in Images,
           usable' \subseteq Making!Roles \cup Assets \cup Parties,
           UNCHANGED <<pick, profiled, gaps, unseen, erasing, screen>>
    PROVE  MakeInv'
<1> DEFINE c == Making!Credit(w, r[1], r[2], r)
           F == Making!Free
           O == 2..(m + 1)
<1>1. /\ w \in Making!Roots /\ DOMAIN root = Making!Roots
      /\ \A i \in DOMAIN rel : rel[i].root # w
  BY MakeFacts, MakeRows
<1>2. r[1] \in People /\ r[2] \in Codes /\ r = <<r[1], r[2]>> BY MakeFacts
<1>3. /\ c \in RowRecs /\ c.kind = "credit" /\ c.root = w /\ c.who = r[1] /\ c.code = r[2]
      /\ c.role = r /\ c.work = None
  BY <1>2, RowsMade
<1>4. DOMAIN new = 1..(m + 1) /\ new[1] = c OBVIOUS
<1>5. \A k \in 1..m : new[k + 1] = Making!Entry(w, media[k], k - 1) OBVIOUS
<1>6. \A k \in O : k - 1 \in 1..m /\ new[k] = Making!Entry(w, media[k - 1], k - 2)
  <2>1. ASSUME NEW k \in O PROVE k - 1 \in 1..m /\ (k - 1) + 1 = k /\ (k - 1) - 1 = k - 2
    OBVIOUS
  <2> QED BY <1>5, <2>1
<1>7. Making!Insert(new) OBVIOUS
<1>8. /\ \A k \in DOMAIN new : k = 1 \/ k \in O
      /\ O \in SUBSET DOMAIN new /\ IsFiniteSet(O) /\ Cardinality(O) = m /\ 1 \notin O
  <2>1. 2 \in Int /\ m + 1 \in Int OBVIOUS
  <2>2. IsFiniteSet(O) /\ Cardinality(O) = m BY <2>1, FS_Interval
  <2>3. O \in SUBSET (1..(m + 1)) /\ 1 \notin O /\ \A k \in 1..(m + 1) : k = 1 \/ k \in O
    OBVIOUS
  <2> HIDE DEF O
  <2> QED BY <1>4, <2>2, <2>3
<1> HIDE DEF c
<1>9. m <= Cardinality(Ids) /\ Cardinality(Making!Order(w)) = 0 /\ Making!Order(w) = {}
  <2>1. Making!Order(w) = {} BY <1>1 DEF Making!Order, Making!Rows
  <2>2. Cardinality(Making!Order(w)) = 0 BY <2>1, FS_EmptySet
  <2> HIDE DEF O
  <2>3. Cardinality(Making!Order(w)) + Cardinality(O) <= Cardinality(Ids) BY <1>7, <1>8, Places
  <2> QED BY <1>8, <2>1, <2>2, <2>3
<1>10. ASSUME NEW k \in O
       PROVE  /\ new[k] \in RowRecs /\ new[k].kind = "entry" /\ new[k].root = w
              /\ new[k].who = media[k - 1] /\ new[k].pos = k - 2 /\ new[k].role = None
              /\ media[k - 1] \in Assets /\ k - 2 \in 0..(m - 1)
  <2>1. k - 1 \in 1..m /\ k - 2 \in 0..(m - 1) OBVIOUS
  <2>2. k - 2 \in 0..Cardinality(Ids) BY <1>9, <2>1, MakeFacts
  <2>3. new[k] = Making!Entry(w, media[k - 1], k - 2) /\ media[k - 1] \in Assets BY <1>6, <2>1
  <2> QED BY <2>1, <2>2, <2>3, RowsMade
<1> HIDE DEF F
<1>11. /\ DOMAIN rel' = DOMAIN rel \cup {F[k] : k \in DOMAIN new}
       /\ \A i \in DOMAIN rel : rel'[i] = rel[i]
       /\ \A k \in DOMAIN new : F[k] \in Ids \ DOMAIN rel /\ rel'[F[k]] = new[k]
  BY <1>7, Inserted DEF MakeInv, F
<1>12. \A k \in DOMAIN new : new[k] \in RowRecs /\ KindOk(new[k]) /\ new[k].root = w
                             /\ RoleOwn(new[k])
  BY <1>2, <1>3, <1>4, <1>8, <1>10 DEF KindOk, RoleOwn
<1>13. Making!OnceEach' /\ Making!RolesAreOwn' /\ Making!PlacesInOrder'
  <2>1. \A k \in DOMAIN new, i \in DOMAIN rel : ~SameKey(new[k], rel[i])
    BY <1>1, <1>12 DEF SameKey
  <2>2. ASSUME NEW j \in O, NEW k \in O, media[j - 1] = media[k - 1] PROVE j = k
    <3>1. j - 1 \in 1..m /\ k - 1 \in 1..m /\ j \in Int /\ k \in Int OBVIOUS
    <3>2. j - 1 = k - 1 BY <2>2, <3>1
    <3> QED BY <3>1, <3>2
  <2>3. \A j, k \in DOMAIN new : SameKey(new[j], new[k]) => j = k
    BY <1>3, <1>4, <1>8, <1>10, <2>2 DEF SameKey
  <2>4. \A k \in DOMAIN new : new[k].kind \in {"entry", "item"} <=> k \in O
    BY <1>3, <1>4, <1>8, <1>10
  <2>5. ASSUME NEW j \in O, NEW k \in O, new[j].pos = new[k].pos PROVE j = k
    <3>1. j \in Int /\ k \in Int OBVIOUS
    <3> HIDE DEF O
    <3>2. j - 2 = k - 2 BY <1>10, <2>5
    <3> QED BY <3>1, <3>2
  <2>6. \A k \in O : new[k].pos < Cardinality(Making!Order(w)) + Cardinality(O)
    BY <1>8, <1>9, <1>10
  <2> HIDE DEF O
  <2>7. \A k \in O, i \in Making!Order(w) : new[k].pos # rel[i].pos BY <1>9
  <2>8. \A k \in DOMAIN new : new[k].root = w /\ RoleOwn(new[k]) BY <1>12
  <2>9. gaps' = gaps OBVIOUS
  <2>10. \A k, j \in O : new[k].pos = new[j].pos => k = j BY <2>5
  <2> QED BY <1>1, <1>8, <2>1, <2>3, <2>4, <2>6, <2>7, <2>8, <2>9, <2>10, RowsAdded
<1>14. /\ DOMAIN root' = Making!Roots /\ root'[w] = rec
       /\ \A y \in Making!Roots \ {w} : root'[y] = root[y]
  BY <1>1
<1>15. MakeTyped'
  <2>1. DOMAIN rel' \subseteq Ids /\ \A i \in DOMAIN rel' : rel'[i] \in RowRecs
    <3>1. DOMAIN rel \subseteq Ids /\ \A i \in DOMAIN rel : rel[i] \in RowRecs BY MakeRows
    <3>2. \A k \in DOMAIN new : F[k] \in Ids /\ rel'[F[k]] \in RowRecs BY <1>11, <1>12
    <3>3. DOMAIN rel' \subseteq Ids BY <1>11, <3>1, <3>2
    <3>4. ASSUME NEW i \in DOMAIN rel' PROVE rel'[i] \in RowRecs
      <4>1. CASE i \in DOMAIN rel BY <1>11, <3>1, <4>1
      <4>2. CASE \E k \in DOMAIN new : i = F[k] BY <3>2, <4>2
      <4> QED BY <1>11, <4>1, <4>2
    <3> QED BY <3>3, <3>4
  <2>2. \A x \in Making!Roots : root'[x] \in RootRecs BY <1>14, MakeRows
  <2>3. /\ pick' \subseteq Making!Picks /\ profiled' \subseteq People
        /\ unseen' \subseteq People \cup Works \cup Projects
        /\ erasing' \subseteq People \cup Works \cup Projects \cup Assets
    BY MakeTypes DEF MakeInv, MakeTyped
  <2> QED BY <1>14, <2>1, <2>2, <2>3, MakeTypesNext
<1>16. /\ Making!PicksBelong' /\ PicksAreRows' /\ Making!CoversBelong'
       /\ RowsHaveRoots' /\ ScreenIsOld' /\ Making!RevisionTellsContent'
  <2>1. /\ \A i \in DOMAIN rel \cap DOMAIN rel' :
               rel'[i].root = rel[i].root /\ rel'[i].kind = rel[i].kind
               /\ rel'[i].who = rel[i].who /\ rel'[i].code = rel[i].code
               /\ rel'[i].work = rel[i].work
        /\ \A i \in DOMAIN rel' \ DOMAIN rel : RowOk(rel[i])'
        /\ screen' = screen
    BY <1>11, <1>12, <1>14 DEF RowOk, KindOk
  <2>2. ASSUME NEW v \in Works, root'[v].cover # None
        PROVE  \/ root'[v].cover = root[v].cover /\ root[v].cover \in DOMAIN rel'
               \/ /\ root'[v].cover \in Making!Rows(v, "entry")'
                  /\ rel'[root'[v].cover].who \in Images
    <3>1. CASE v # w
      <4>1. v \in Making!Roots BY MakeFacts
      <4> QED BY <1>11, <1>14, <2>2, <3>1, <4>1, MakeRows
    <3>2. CASE v = w
      <4>1. PICK k \in 1..m : rec.cover = F[1 + k] /\ media[k] \in Images
        BY <1>14, <2>2, <3>2 DEF F
      <4>2. 1 + k \in O /\ (1 + k) - 1 = k OBVIOUS
      <4>3. 1 + k \in DOMAIN new /\ new[1 + k].kind = "entry" /\ new[1 + k].root = w
            /\ new[1 + k].who \in Images
        BY <1>8, <1>10, <4>1, <4>2
      <4> HIDE DEF O
      <4> QED BY <1>11, <1>14, <3>2, <4>1, <4>3 DEF Making!Rows
    <3> QED BY <3>1, <3>2
  <2>3. ASSUME NEW y \in Making!Roots, root[y].status # "NONE"
        PROVE  root'[y] = root[y] /\ Making!Content(y)' \subseteq Making!Content(y)
    <3>1. y # w BY <2>3
    <3>2. \A i \in DOMAIN rel' : rel'[i].root = y => i \in DOMAIN rel /\ rel'[i] = rel[i]
      BY <1>11, <1>12, <3>1
    <3>3. Making!Content(y)' \subseteq Making!Content(y) BY <3>2, ContentElsewhere
    <3> QED BY <1>14, <3>1, <3>3
  <2>4. \A k \in pick' : k \in pick /\ {k.item, k.entry} \subseteq DOMAIN rel'
    BY <1>11 DEF MakeInv, Making!PicksBelong
  <2> QED BY <1>15, <2>1, <2>2, <2>3, <2>4, MakeStep
<1> QED BY <1>13, <1>15, <1>16 DEF MakeInv

LEMMA MakeCreatePersonCase ==
    ASSUME MakeInv, NEW w \in Works, NEW r \in Making!Roles,
           NEW m \in Nat, NEW media \in [1..m -> Assets], Len(media) = m,
           \A j, k \in 1..m : media[j] = media[k] => j = k,
           NEW cover \in Assets \cup {None}, Making!CreatePersonCase(w, r, media, cover)
    PROVE  MakeInv'
<1> DEFINE at == CHOOSE k \in 1..m : media[k] = cover
           rec == [status |-> "ACTIVE", rev |-> 1, parties |-> {},
                   cover |-> IF cover = None THEN None ELSE Making!Free[1 + at]]
           new == <<Making!Credit(w, r[1], r[2], r)>> \o
                      [k \in 1..m |-> Making!Entry(w, media[k], k - 1)]
<1>1. /\ root[w].status = "NONE" /\ Making!Insert(new) /\ root' = [root EXCEPT ![w] = rec]
      /\ cover # None => cover \in Images /\ \E k \in 1..m : media[k] = cover
      /\ UNCHANGED <<pick, usable, profiled, gaps, unseen, erasing, screen>>
  BY DEF Making!CreatePersonCase, Making!Elsewhere
<1>2. cover # None => at \in 1..m /\ media[at] = cover BY <1>1
<1>7. /\ DOMAIN new = 1..(m + 1) /\ new[1] = Making!Credit(w, r[1], r[2], r)
      /\ \A k \in 1..m : new[k + 1] = Making!Entry(w, media[k], k - 1)
  <2> DEFINE t == [k \in 1..m |-> Making!Entry(w, media[k], k - 1)]
             c == Making!Credit(w, r[1], r[2], r)
  <2>1. /\ DOMAIN t = 1..m /\ t = [k \in 1..m |-> t[k]]
        /\ \A k \in 1..m : t[k] = Making!Entry(w, media[k], k - 1)
    OBVIOUS
  <2>2. new = <<c>> \o t OBVIOUS
  <2> HIDE DEF t, c, new
  <2>3. DOMAIN new = 1..(m + 1) /\ new[1] = c /\ \A k \in 1..m : new[k + 1] = t[k]
    BY <2>1, <2>2, NewWork
  <2> QED BY <2>1, <2>3 DEF c
<1>3. cover # None => Making!Free[1 + at] \in Ids
  <2> SUFFICES ASSUME cover # None PROVE Making!Free[1 + at] \in Ids OBVIOUS
  <2>1. 1 + at \in DOMAIN new BY <1>2, <1>7
  <2> HIDE DEF new, at
  <2> QED BY <1>1, <2>1, Inserted DEF MakeInv
<1> HIDE DEF at, new
<1>4. rec \in RootRecs
  <2>1. 1 \in 0..MaxRev BY MakeFacts
  <2> QED BY <1>3, <2>1 DEF RootRecs
<1>5. rec.status # "NONE"
      /\ (rec.cover = None \/ \E k \in 1..m : rec.cover = Making!Free[1 + k] /\ media[k] \in Images)
  BY <1>1, <1>2
<1>6. usable' \subseteq Making!Roles \cup Assets \cup Parties BY <1>1, MakeRows
<1> HIDE DEF rec
<1> QED BY <1>1, <1>4, <1>5, <1>6, <1>7, WorkMade

LEMMA MakeApplyWorkCase ==
    ASSUME MakeInv, NEW w \in Works, NEW r \in Making!Roles,
           NEW m \in Nat, NEW media \in [1..m -> Assets], Len(media) = m,
           \A j, k \in 1..m : media[j] = media[k] => j = k,
           Making!ApplyWorkCase(w, r, media)
    PROVE  MakeInv'
<1>1. /\ UNCHANGED <<pick, profiled, gaps, unseen, erasing, screen>>
      /\ usable' \subseteq Making!Roles \cup Assets \cup Parties
  BY MakeRows DEF Making!ApplyWorkCase, Making!Elsewhere
<1>2. w \in Making!Roots /\ r[1] \in People /\ r[2] \in Codes /\ r = <<r[1], r[2]>> BY MakeFacts
<1>3. CASE /\ root[w].status = "NONE"
           /\ Making!Insert(<<Making!Credit(w, r[1], r[2], r)>> \o
                                [k \in 1..m |-> Making!Entry(w, media[k], k - 1)])
           /\ root' = [root EXCEPT ![w] = [Making!Absent EXCEPT !.status = "ACTIVE", !.rev = 1]]
  <2> DEFINE rec == [Making!Absent EXCEPT !.status = "ACTIVE", !.rev = 1]
  <2>1. rec \in RootRecs /\ rec.status # "NONE" /\ rec.cover = None
    <3>1. /\ 1 \in 0..MaxRev
          /\ Making!Absent \in [status: {"NONE"}, rev: {0}, cover: {None}, parties: {{}}]
      BY MakeFacts DEF Making!Absent
    <3> QED BY <3>1 DEF RootRecs
  <2> HIDE DEF rec
  <2>2. root' = [root EXCEPT ![w] = rec] BY <1>3 DEF rec
  <2> DEFINE new == <<Making!Credit(w, r[1], r[2], r)>> \o
                        [k \in 1..m |-> Making!Entry(w, media[k], k - 1)]
  <2>3. /\ DOMAIN new = 1..(m + 1) /\ new[1] = Making!Credit(w, r[1], r[2], r)
        /\ \A k \in 1..m : new[k + 1] = Making!Entry(w, media[k], k - 1)
    <3> DEFINE t == [k \in 1..m |-> Making!Entry(w, media[k], k - 1)]
               c == Making!Credit(w, r[1], r[2], r)
    <3>1. /\ DOMAIN t = 1..m /\ t = [k \in 1..m |-> t[k]]
          /\ \A k \in 1..m : t[k] = Making!Entry(w, media[k], k - 1)
      OBVIOUS
    <3>2. new = <<c>> \o t OBVIOUS
    <3> HIDE DEF t, c, new
    <3>3. DOMAIN new = 1..(m + 1) /\ new[1] = c /\ \A k \in 1..m : new[k + 1] = t[k]
      BY <3>1, <3>2, NewWork
    <3> QED BY <3>1, <3>3 DEF c
  <2>4. Making!Insert(new) BY <1>3
  <2>5. root[w].status = "NONE" BY <1>3
  <2> HIDE DEF new
  <2> QED BY <1>1, <2>5, <2>1, <2>2, <2>3, <2>4, WorkMade
<1>4. CASE root[w].status = "ACTIVE" /\ UNCHANGED <<root, rel>>
  <2>1. MakeTyped' BY <1>1, <1>4, MakeTypes, MakeTypesNext DEF MakeInv, MakeTyped
  <2> QED BY <1>1, <1>4, <2>1, QuietKeeps
<1>5. CASE /\ root[w].status = "ACTIVE" /\ UNCHANGED root
           /\ {i \in Making!Rows(w, "credit") : rel[i].who = r[1] /\ rel[i].code = r[2]} = {}
           /\ Making!Insert(<<Making!Credit(w, r[1], r[2], r)>>)
  <2> DEFINE e == Making!Credit(w, r[1], r[2], r)
             s == <<e>>
             id == Making!Free[1]
             out == {}
  <2>1. /\ e \in RowRecs /\ e.kind = "credit" /\ e.root = w /\ e.who = r[1] /\ e.code = r[2]
        /\ e.role = r /\ e.work = None
    BY <1>2, RowsMade
  <2>2. DOMAIN s = {1} /\ s[1] = e OBVIOUS
  <2>3. Making!Insert(s) BY <1>5
  <2>4. /\ \A i \in DOMAIN rel : ~SameKey(e, rel[i])
        /\ RoleOwn(e) /\ KindOk(e)
    BY <1>2, <1>5, <2>1 DEF SameKey, Making!Rows, RoleOwn, KindOk
  <2>5. out \in SUBSET DOMAIN s /\ IsFiniteSet(out) /\ \A k \in DOMAIN s : k \notin out
    BY FS_EmptySet
  <2> HIDE DEF e, s, id
  <2>6. \A k \in out : FALSE OBVIOUS
  <2> HIDE DEF out
  <2>7. id \in Ids \ DOMAIN rel /\ DOMAIN rel' = DOMAIN rel \cup {id} /\ rel'[id] = e
        /\ \A i \in DOMAIN rel : rel'[i] = rel[i]
    <3>1. /\ DOMAIN rel' = DOMAIN rel \cup {Making!Free[k] : k \in DOMAIN s}
          /\ \A i \in DOMAIN rel : rel'[i] = rel[i]
          /\ \A k \in DOMAIN s :
                 Making!Free[k] \in Ids \ DOMAIN rel /\ rel'[Making!Free[k]] = s[k]
      BY <2>3, Inserted DEF MakeInv
    <3>2. {Making!Free[k] : k \in DOMAIN s} = {id} BY <2>2 DEF id
    <3> QED BY <2>2, <3>1, <3>2 DEF id
  <2>8. Making!OnceEach' /\ Making!RolesAreOwn' /\ Making!PlacesInOrder'
    <3>1. /\ \A k \in DOMAIN s : s[k].root = w /\ RoleOwn(s[k])
          /\ \A k \in DOMAIN s, i \in DOMAIN rel : ~SameKey(s[k], rel[i])
          /\ \A k, j \in DOMAIN s : SameKey(s[k], s[j]) => k = j
          /\ \A k \in DOMAIN s : s[k].kind \in {"entry", "item"} <=> k \in out
      BY <2>1, <2>2, <2>4, <2>5
    <3>2. /\ \A k, j \in out : s[k].pos = s[j].pos => k = j
          /\ \A k \in out, i \in Making!Order(w) : s[k].pos # rel[i].pos
          /\ \A k \in out : s[k].pos < Cardinality(Making!Order(w)) + Cardinality(out)
      BY <2>6
    <3> QED BY <1>1, <1>2, <2>3, <2>5, <3>1, <3>2, RowsAdded
  <2>9. MakeTyped'
    BY <1>1, <1>5, <2>1, <2>7, MakeTypes, MakeTypesNext, MakeRows DEF MakeInv, MakeTyped
  <2>10. /\ Making!PicksBelong' /\ PicksAreRows' /\ Making!CoversBelong'
         /\ RowsHaveRoots' /\ ScreenIsOld' /\ Making!RevisionTellsContent'
    <3>1. /\ \A i \in DOMAIN rel \cap DOMAIN rel' :
                 rel'[i].root = rel[i].root /\ rel'[i].kind = rel[i].kind
                 /\ rel'[i].who = rel[i].who /\ rel'[i].code = rel[i].code
                 /\ rel'[i].work = rel[i].work
          /\ \A i \in DOMAIN rel' \ DOMAIN rel : RowOk(rel[i])'
          /\ screen' = screen
      BY <1>1, <1>5, <2>1, <2>4, <2>7 DEF RowOk, KindOk
    <3>2. \A v \in Works : root'[v].cover # None =>
              root'[v].cover = root[v].cover /\ root[v].cover \in DOMAIN rel'
      BY <1>5, <2>7, MakeRows
    <3>3. ASSUME NEW y \in Making!Roots
          PROVE  root'[y] = root[y] /\ Making!Content(y)' \subseteq Making!Content(y)
      <4>1. \A i \in DOMAIN rel' : rel'[i].root = y /\ rel'[i].kind # "credit" =>
                i \in DOMAIN rel /\ rel'[i] = rel[i]
        BY <2>1, <2>7
      <4> QED BY <1>5, <4>1, ContentElsewhere
    <3>4. \A k \in pick' : k \in pick /\ {k.item, k.entry} \subseteq DOMAIN rel'
      BY <1>1, <2>7 DEF MakeInv, Making!PicksBelong
    <3> QED BY <2>9, <3>1, <3>2, <3>3, <3>4, MakeStep
  <2> QED BY <2>8, <2>9, <2>10 DEF MakeInv
<1> QED BY <1>3, <1>4, <1>5 DEF Making!ApplyWorkCase

LEMMA MakeBatchAdd ==
    ASSUME MakeInv, NEW x \in Lists, NEW cands, IsFiniteSet(DOMAIN cands),
           DOMAIN cands \subseteq Int,
           \A k \in DOMAIN cands : /\ cands[k][1] \in People
                                   /\ cands[k][2] \in Making!Roles \cup {None},
           \A j, k \in DOMAIN cands : cands[j][1] = cands[k][1] => j = k,
           Making!BatchAdd(x, cands)
    PROVE  MakeInv'
<1> DEFINE N == {k \in DOMAIN cands : ~\E i \in Making!Rows(x, "item") :
                     Making!Same(i, cands[k][1], cands[k][2], None)}
           n == Cardinality(Making!Rows(x, "item"))
           place == [k \in N |-> n + Cardinality({j \in N : j < k})]
           new == [k \in N |-> Making!Item(x, cands[k][1], cands[k][2], None, place[k])]
           F == Making!Free
           v == [k \in N |-> k]
           rank == [j \in N |-> Cardinality({k \in N : v[k] < v[j]})]
<1>1. x \in Making!Roots /\ root[x] \in RootRecs /\ root[x].status # "NONE"
  BY MakeFacts, MakeRows DEF Making!BatchAdd
<1>2. /\ \A k \in DOMAIN cands : Making!Candidate(cands[k][1], cands[k][2], None)
      /\ \A i \in Making!Rows(x, "item") : rel[i].pos \notin n..(n + Cardinality(N) - 1)
      /\ Making!Insert(new) /\ Making!Commit(x, root[x])
      /\ UNCHANGED <<pick, usable, profiled, gaps, unseen, erasing, screen>>
  BY <1>1, BumpIs, MakeFacts DEF Making!BatchAdd, Making!Elsewhere
<1>3. Making!Rows(x, "item") = Making!Order(x) /\ n \in Nat BY OrderIs, MakeFacts
<1>4. N \subseteq DOMAIN cands /\ IsFiniteSet(N) /\ N \in SUBSET Int /\ DOMAIN new = N
  BY FS_Subset
<1>5. Cardinality(N) \in Nat BY <1>4, FS_CardinalityType
<1>6. n + Cardinality(N) <= Cardinality(Ids)
  <2>1. N \in SUBSET DOMAIN new BY <1>4
  <2> HIDE DEF N, new, n
  <2>2. Cardinality(Making!Order(x)) + Cardinality(N) <= Cardinality(Ids)
    BY ONLY MakeInv, <1>2, <1>4, <2>1, Places
  <2> QED BY <1>3, <2>2 DEF n
<1>7. /\ \A k \in N : rank[k] \in 0..(Cardinality(N) - 1)
      /\ \A j, k \in N : rank[j] = rank[k] => j = k
  <2>1. /\ \A k \in N : v[k] \in Int
        /\ \A j, k \in N : v[j] = v[k] => j = k
        /\ \A j \in N : rank[j] = Cardinality({k \in N : v[k] < v[j]})
    BY <1>4
  <2> HIDE DEF N, v, rank
  <2>2. IsFiniteSet(N) BY <1>4
  <2> QED BY ONLY <2>1, <2>2, Ranks
<1>8. ASSUME NEW k \in N
      PROVE  place[k] = n + rank[k] /\ place[k] \in 0..Cardinality(Ids)
             /\ place[k] < n + Cardinality(N) /\ place[k] >= n
  <2>1. {j \in N : j < k} = {j \in N : v[j] < v[k]} OBVIOUS
  <2>2. place[k] = n + rank[k] BY <2>1
  <2> HIDE DEF place, rank, n, N
  <2> QED BY <1>3, <1>5, <1>6, <1>7, <2>2, MakeFacts
<1>9. ASSUME NEW k \in N
      PROVE  /\ new[k] \in RowRecs /\ new[k].kind = "item" /\ new[k].root = x
             /\ new[k].who = cands[k][1] /\ new[k].pos = place[k] /\ new[k].role = cands[k][2]
             /\ new[k].code = None /\ new[k].work = None
  <2>1. cands[k][1] \in People /\ cands[k][2] \in Making!Roles \cup {None} BY <1>4
  <2>2. new[k] = Making!Item(x, cands[k][1], cands[k][2], None, place[k]) OBVIOUS
  <2>3. place[k] \in 0..Cardinality(Ids) BY <1>8
  <2>4. ASSUME NEW q \in People, NEW r \in Making!Roles \cup {None}, NEW m \in 0..Cardinality(Ids)
        PROVE  LET e == Making!Item(x, q, r, None, m)
               IN  /\ e \in RowRecs /\ e.kind = "item" /\ e.root = x /\ e.who = q /\ e.pos = m
                   /\ e.role = r /\ e.code = None /\ e.work = None
    BY RowsMade
  <2> HIDE DEF new, place, N
  <2>5. LET e == Making!Item(x, cands[k][1], cands[k][2], None, place[k])
        IN  /\ e \in RowRecs /\ e.kind = "item" /\ e.root = x /\ e.who = cands[k][1]
            /\ e.pos = place[k] /\ e.role = cands[k][2] /\ e.code = None /\ e.work = None
    BY ONLY <2>1, <2>3, <2>4
  <2> QED BY ONLY <2>2, <2>5
<1> HIDE DEF N, new, place, n, v, rank
<1>10. \A k \in N : RoleOwn(new[k]) /\ KindOk(new[k]) /\ new[k].root = x
  <2>1. ASSUME NEW k \in N PROVE new[k].role # None => new[k].role[1] = new[k].who
    BY <1>2, <1>4, <1>9 DEF Making!Candidate
  <2> QED BY <1>9, <2>1 DEF RoleOwn, KindOk
<1>11. \A k \in N, i \in DOMAIN rel : ~SameKey(new[k], rel[i])
  <2> SUFFICES ASSUME NEW k \in N, NEW i \in DOMAIN rel, SameKey(new[k], rel[i]) PROVE FALSE
    OBVIOUS
  <2>1. /\ rel[i].kind = "item" /\ rel[i].root = x /\ rel[i].who = cands[k][1]
        /\ rel[i].role = cands[k][2] /\ rel[i].work = None
    BY <1>9 DEF SameKey
  <2>2. i \in Making!Rows(x, "item") /\ Making!Same(i, cands[k][1], cands[k][2], None)
    BY <2>1 DEF Making!Rows, Making!Same
  <2> QED BY <2>2 DEF N
<1>12. \A j, k \in N : SameKey(new[j], new[k]) => j = k
  <2> SUFFICES ASSUME NEW j \in N, NEW k \in N, SameKey(new[j], new[k]) PROVE j = k
    OBVIOUS
  <2>1. cands[j][1] = cands[k][1] BY <1>9 DEF SameKey
  <2> QED BY <1>4, <2>1
<1>13. \A j, k \in N : new[j].pos = new[k].pos => j = k
  <2> SUFFICES ASSUME NEW j \in N, NEW k \in N, new[j].pos = new[k].pos PROVE j = k
    OBVIOUS
  <2>1. n + rank[j] = n + rank[k] BY <1>8, <1>9
  <2>2. rank[j] \in Int /\ rank[k] \in Int BY <1>5, <1>7
  <2>3. n \in Int BY <1>3
  <2>4. rank[j] = rank[k] BY ONLY <2>1, <2>2, <2>3
  <2> QED BY <1>7, <2>4
<1>14. \A k \in N : new[k].pos < Cardinality(Making!Order(x)) + Cardinality(N)
  BY <1>3, <1>8, <1>9 DEF n
<1>15. \A k \in N, i \in Making!Order(x) : new[k].pos # rel[i].pos
  <2> SUFFICES ASSUME NEW k \in N, NEW i \in Making!Order(x), new[k].pos = rel[i].pos PROVE FALSE
    OBVIOUS
  <2>1. place[k] \in n..(n + Cardinality(N) - 1) BY <1>3, <1>5, <1>8
  <2> QED BY <1>2, <1>3, <1>9, <2>1
<1>16. Making!OnceEach' /\ Making!RolesAreOwn' /\ Making!PlacesInOrder'
  <2>1. /\ Making!Insert(new) /\ gaps' = gaps /\ N \in SUBSET DOMAIN new
        /\ \A k \in DOMAIN new : new[k].root = x /\ RoleOwn(new[k])
        /\ \A k \in DOMAIN new, i \in DOMAIN rel : ~SameKey(new[k], rel[i])
        /\ \A k, m \in DOMAIN new : SameKey(new[k], new[m]) => k = m
        /\ \A k \in DOMAIN new : new[k].kind \in {"entry", "item"} <=> k \in N
        /\ \A k, m \in N : new[k].pos = new[m].pos => k = m
    BY <1>2, <1>4, <1>9, <1>10, <1>11, <1>12, <1>13
  <2> QED BY <1>1, <1>4, <1>14, <1>15, <2>1, RowsAdded
<1> HIDE DEF F
<1>17. /\ DOMAIN rel' = DOMAIN rel \cup {F[k] : k \in N}
       /\ \A i \in DOMAIN rel : rel'[i] = rel[i]
       /\ \A k \in N : F[k] \in Ids \ DOMAIN rel /\ rel'[F[k]] = new[k]
  BY <1>2, <1>4, Inserted DEF MakeInv, F
<1>18. MakeTyped' /\ Making!PicksBelong' /\ PicksAreRows' /\ Making!CoversBelong'
       /\ RowsHaveRoots' /\ ScreenIsOld' /\ Making!RevisionTellsContent'
  <2>1. ASSUME NEW i \in DOMAIN rel' \ DOMAIN rel
        PROVE  i \in Ids /\ rel'[i] \in RowRecs /\ rel'[i].root = x /\ KindOk(rel'[i])
    <3>1. PICK k \in N : i = F[k] BY <1>17
    <3> QED BY <1>9, <1>10, <1>17, <3>1
  <2>2. DOMAIN rel \subseteq Ids /\ \A i \in DOMAIN rel : rel[i] \in RowRecs BY MakeRows
  <2>3. /\ DOMAIN rel' \subseteq Ids /\ \A i \in DOMAIN rel' : rel'[i] \in RowRecs
        /\ \A i \in DOMAIN rel \cap DOMAIN rel' :
               rel'[i].root = rel[i].root /\ rel'[i].kind = rel[i].kind
               /\ rel'[i].who = rel[i].who /\ rel'[i].code = rel[i].code
               /\ rel'[i].work = rel[i].work
        /\ \A i \in DOMAIN rel \ DOMAIN rel' : rel[i].root = x
        /\ \A i \in DOMAIN rel' : rel'[i].root # x => i \in DOMAIN rel /\ rel'[i] = rel[i]
        /\ \A i \in DOMAIN rel' \ DOMAIN rel : KindOk(rel'[i])
    <3>1. DOMAIN rel \subseteq DOMAIN rel' BY <1>17
    <3>2. \A i \in DOMAIN rel : rel'[i] = rel[i] BY <1>17
    <3> QED BY <2>1, <2>2, <3>1, <3>2
  <2>4. /\ pick' \subseteq Making!Picks /\ usable' \subseteq Making!Roles \cup Assets \cup Parties
        /\ x \in Works /\ root[x].cover # None => root[x].cover \in DOMAIN rel'
    BY <1>2, <1>17, MakeRows
  <2>5. \A k \in pick' : k \in pick /\ {k.item, k.entry} \subseteq DOMAIN rel'
    BY <1>2, <1>17 DEF MakeInv, Making!PicksBelong
  <2> QED BY <1>1, <1>2, <2>3, <2>4, <2>5, CommandStep
<1> QED BY <1>16, <1>18 DEF MakeInv

LEMMA MakeEnroll ==
    ASSUME MakeInv, NEW p \in People, Making!Enroll(p) PROVE MakeInv'
<1> DEFINE mine == {i \in DOMAIN rel : rel[i].kind = "item" /\ rel[i].who = p /\ rel[i].role = None}
           lists == {rel[i].root : i \in mine}
<1>1. /\ profiled' = profiled \cup {p} /\ usable' = usable \cup {r \in LegacyRoles : r[1] = p}
      /\ rel' = [i \in DOMAIN rel |->
                     IF i \in mine THEN [rel[i] EXCEPT !.state = "LEGACY_REVIEW"] ELSE rel[i]]
      /\ \A x \in lists : root[x].rev < MaxRev
      /\ root' = [x \in Making!Roots |->
                      IF x \in lists THEN [root[x] EXCEPT !.rev = @ + 1] ELSE root[x]]
      /\ UNCHANGED <<pick, gaps, unseen, erasing, screen>>
  BY DEF Making!Enroll, Making!Touched, Making!Elsewhere
<1>2. ASSUME NEW i \in DOMAIN rel
      PROVE  /\ rel'[i] \in RowRecs /\ SameRow(rel'[i], rel[i]) /\ rel'[i].pos = rel[i].pos
             /\ rel'[i].role = rel[i].role /\ RoleOwn(rel'[i])
             /\ rel[i].root \notin lists => rel'[i] = rel[i]
  <2>1. rel[i] \in RowRecs /\ RoleOwn(rel[i]) BY MakeRows
  <2>2. CASE i \in mine
    <3> DEFINE f == [rel[i] EXCEPT !.state = "LEGACY_REVIEW"]
    <3>1. rel'[i] = f /\ rel[i].root \in lists BY <1>1, <2>2
    <3>2. f \in RowRecs /\ SameRow(f, rel[i]) /\ f.pos = rel[i].pos /\ f.role = rel[i].role
      BY <2>1 DEF RowRecs, SameRow
    <3> HIDE DEF f, lists
    <3> QED BY <2>1, <3>1, <3>2 DEF RoleOwn, SameRow
  <2>3. CASE i \notin mine BY <1>1, <2>1, <2>3 DEF SameRow
  <2> QED BY <2>2, <2>3
<1>3. DOMAIN rel' = DOMAIN rel BY <1>1
<1> HIDE DEF mine, lists
<1>4. ASSUME NEW x \in Making!Roots
      PROVE  /\ root'[x] \in RootRecs /\ root'[x].status = root[x].status
             /\ root'[x].cover = root[x].cover
             /\ x \in lists => root'[x].rev = root[x].rev + 1
             /\ x \notin lists => root'[x] = root[x]
  <2>1. root[x] \in RootRecs BY MakeRows
  <2>2. CASE x \in lists
    <3> DEFINE f == [root[x] EXCEPT !.rev = @ + 1]
    <3>1. root'[x] = f /\ root[x].rev < MaxRev BY <1>1, <2>2
    <3>2. f \in RootRecs /\ f.status = root[x].status /\ f.cover = root[x].cover
          /\ f.rev = root[x].rev + 1
      BY <2>1, <3>1, MakeFacts DEF RootRecs
    <3> HIDE DEF f
    <3> QED BY <2>2, <3>1, <3>2
  <2>3. CASE x \notin lists BY <1>1, <2>1, <2>3
  <2> QED BY <2>2, <2>3
<1>5. DOMAIN root' = Making!Roots BY <1>1
<1>6. MakeTyped'
  <2>1. usable' \subseteq Making!Roles \cup Assets \cup Parties /\ profiled' \subseteq People
    BY <1>1, MakeTypes, MakeFacts DEF MakeInv, MakeTyped
  <2>2. /\ pick' \subseteq Making!Picks /\ unseen' \subseteq People \cup Works \cup Projects
        /\ erasing' \subseteq People \cup Works \cup Projects \cup Assets
    BY <1>1, MakeTypes DEF MakeInv, MakeTyped
  <2>3. DOMAIN rel' \subseteq Ids BY <1>3, MakeRows
  <2> QED BY <1>2, <1>3, <1>4, <1>5, <2>1, <2>2, <2>3, MakeTypesNext
<1>7. Making!OnceEach' /\ Making!RolesAreOwn' /\ Making!PlacesInOrder'
  <2>1. gaps' = gaps BY <1>1
  <2>2. \A i \in DOMAIN rel :
            /\ rel'[i].root = rel[i].root /\ rel'[i].kind = rel[i].kind
            /\ rel'[i].who = rel[i].who /\ rel'[i].code = rel[i].code
            /\ rel'[i].work = rel[i].work /\ rel'[i].pos = rel[i].pos
            /\ rel'[i].role = rel[i].role
    BY <1>2 DEF SameRow
  <2>3. \A i \in DOMAIN rel : RoleOwn(rel[i])' BY <1>2 DEF RoleOwn
  <2> QED BY <1>3, <2>1, <2>2, <2>3, RowsRewritten
<1>8. /\ Making!PicksBelong' /\ PicksAreRows' /\ Making!CoversBelong'
      /\ RowsHaveRoots' /\ ScreenIsOld' /\ Making!RevisionTellsContent'
  <2>1. /\ \A i \in DOMAIN rel \cap DOMAIN rel' :
               rel'[i].root = rel[i].root /\ rel'[i].kind = rel[i].kind
               /\ rel'[i].who = rel[i].who /\ rel'[i].code = rel[i].code
               /\ rel'[i].work = rel[i].work
        /\ \A i \in DOMAIN rel' \ DOMAIN rel : RowOk(rel[i])'
    BY <1>2, <1>3 DEF SameRow
  <2>2. \A w \in Works : root'[w].cover # None =>
            root'[w].cover = root[w].cover /\ root[w].cover \in DOMAIN rel'
    <3>1. Works \subseteq Making!Roots BY MakeFacts
    <3> QED BY <1>3, <1>4, <3>1, MakeRows
  <2>3. ASSUME NEW x \in Making!Roots, root[x].status # "NONE"
        PROVE  /\ root'[x].status # "NONE"
               /\ \/ root'[x].rev = root[x].rev + 1
                  \/ root'[x] = root[x] /\ Making!Content(x)' \subseteq Making!Content(x)
    <3>1. CASE x \in lists BY <1>4, <2>3, <3>1
    <3>2. CASE x \notin lists
      <4>1. \A i \in DOMAIN rel' : rel'[i].root = x => i \in DOMAIN rel /\ rel'[i] = rel[i]
        BY <1>2, <1>3, <3>2 DEF SameRow
      <4>2. Making!Content(x)' \subseteq Making!Content(x) BY <4>1, ContentElsewhere
      <4> QED BY <1>4, <2>3, <3>2, <4>2
    <3> QED BY <3>1, <3>2
  <2>4. \A k \in pick' : k \in pick /\ {k.item, k.entry} \subseteq DOMAIN rel'
    BY <1>1, <1>3 DEF MakeInv, Making!PicksBelong
  <2>5. screen' = screen BY <1>1
  <2> QED BY <1>6, <2>1, <2>2, <2>3, <2>4, <2>5, MakeStep
<1> QED BY <1>6, <1>7, <1>8 DEF MakeInv

-------------------------------------------------------------------------------
(* Production: the three desks *)

LEMMA MakeInit ==
    ASSUME Making!ProdInit PROVE MakeInv
<1>1. /\ pick = {} /\ unseen = {} /\ erasing = {} /\ gaps = {} /\ screen.root = None
      /\ 0 \in 0..Cardinality(Ids) /\ 1 \in 0..Cardinality(Ids)
      /\ wo \in Making!Roots /\ pj \in Making!Roots /\ l \in Making!Roots /\ wo # l
  <2>1. {1} \in SUBSET Ids /\ IsFiniteSet({1}) /\ Cardinality({1}) = 1
    BY MakeFacts, FS_Singleton
  <2>2. Cardinality({1}) <= Cardinality(Ids) BY <2>1, MakeFacts, FS_Subset
  <2> QED BY <2>1, <2>2, MakeFacts DEF Making!ProdInit, Making!NoScreen
<1>2. /\ Making!Absent \in RootRecs /\ Making!Absent.cover = None
      /\ Making!Draft \in RootRecs /\ Making!Draft.cover = None /\ Making!Draft.status = "DRAFT"
  <2>1. /\ 1 \in 0..MaxRev /\ 0 \in 0..MaxRev
        /\ Making!Absent \in [status: {"NONE"}, rev: {0}, cover: {None}, parties: {{}}]
    BY MakeFacts DEF Making!Absent
  <2>2. /\ Making!Draft \in RootRecs /\ Making!Draft.status = "DRAFT"
        /\ Making!Draft.cover = None
    BY <2>1 DEF RootRecs, Making!Draft
  <2> QED BY <2>1, <2>2 DEF RootRecs
<1>3. CASE rel = << >> /\ \E bare \in {Making!Draft, Making!Absent} :
               root = [r \in Making!Roots |-> IF r \in {wo, pj} THEN bare ELSE Making!Absent]
  <2>1. DOMAIN rel = {} BY <1>3
  <2>2. /\ DOMAIN root = Making!Roots
        /\ \A x \in Making!Roots : root[x] \in RootRecs /\ root[x].cover = None
    BY <1>2, <1>3
  <2>3. usable \subseteq Making!Roles \cup Assets \cup Parties /\ profiled \subseteq People
    BY MakeFacts DEF Making!ProdInit
  <2>4. MakeTyped BY <1>1, <2>1, <2>2, <2>3, MakeTypes DEF MakeTyped
  <2>5. Making!PicksBelong /\ PicksAreRows BY <1>1 DEF Making!PicksBelong, PicksAreRows
  <2>6. Making!CoversBelong BY <2>2, MakeFacts DEF Making!CoversBelong
  <2>7. Making!PlacesInOrder BY <2>1 DEF Making!PlacesInOrder, Making!Order, Making!Rows
  <2>8. Making!OnceEach /\ Making!RolesAreOwn /\ RowsHaveRoots
    BY <2>1 DEF Making!OnceEach, Making!RolesAreOwn, RowsHaveRoots
  <2>9. Making!RevisionTellsContent /\ ScreenIsOld
    BY <1>1 DEF Making!RevisionTellsContent, ScreenIsOld
  <2> QED BY <2>4, <2>5, <2>6, <2>7, <2>8, <2>9 DEF MakeInv
<1>4. CASE /\ rel = Making!Case
           /\ root = [r \in Making!Roots |-> IF r = wo THEN Making!Active(1)
                                             ELSE IF r = l THEN Making!Draft ELSE Making!Absent]
  <2> DEFINE e1 == Making!Entry(wo, ph1, 0)
             e2 == Making!Entry(wo, ph2, 1)
             c3 == Making!Credit(wo, p1, j1, <<p1, j1>>)
             act == Making!Active(1)
  <2>1. DOMAIN rel = {1, 2, 3} /\ rel[1] = e1 /\ rel[2] = e2 /\ rel[3] = c3
    BY <1>4 DEF Making!Case
  <2>2. /\ e1 \in RowRecs /\ e1.kind = "entry" /\ e1.root = wo /\ e1.who = ph1 /\ e1.pos = 0
        /\ e1.role = None
        /\ e2 \in RowRecs /\ e2.kind = "entry" /\ e2.root = wo /\ e2.who = ph2 /\ e2.pos = 1
        /\ e2.role = None
    BY <1>1, RowsMade, MakeFacts
  <2>3. /\ c3 \in RowRecs /\ c3.kind = "credit" /\ c3.root = wo /\ c3.who = p1 /\ c3.code = j1
        /\ c3.role = <<p1, j1>>
    BY <1>1, RowsMade, MakeFacts
  <2>4. act \in RootRecs /\ act.cover = 1 /\ act.status = "ACTIVE"
    <3>1. /\ 1 \in 0..MaxRev /\ 0 \in 0..MaxRev /\ 1 \in Ids
          /\ Making!Absent \in [status: {"NONE"}, rev: {0}, cover: {None}, parties: {{}}]
      BY MakeFacts DEF Making!Absent
    <3> QED BY <3>1 DEF RootRecs, Making!Active
  <2> HIDE DEF e1, e2, c3, act
  <2>5. /\ DOMAIN root = Making!Roots /\ root[wo] = act
        /\ \A x \in Making!Roots : root[x] \in RootRecs
        /\ \A x \in Making!Roots \ {wo} : root[x].cover = None
    BY <1>1, <1>2, <1>4, <2>4 DEF act
  <2>6. usable \subseteq Making!Roles \cup Assets \cup Parties /\ profiled \subseteq People
    BY MakeFacts DEF Making!ProdInit
  <2>7. DOMAIN rel \subseteq Ids /\ \A i \in DOMAIN rel : rel[i] \in RowRecs
    BY <2>1, <2>2, <2>3, MakeFacts
  <2>8. MakeTyped BY <1>1, <2>5, <2>6, <2>7, MakeTypes DEF MakeTyped
  <2>9. Making!PicksBelong /\ PicksAreRows BY <1>1 DEF Making!PicksBelong, PicksAreRows
  <2>10. Making!CoversBelong
    <3> SUFFICES ASSUME NEW w \in Works, root[w].cover # None
                
                 PROVE  /\ root[w].cover \in Making!Rows(w, "entry")
                        /\ rel[root[w].cover].who \in Images
      BY DEF Making!CoversBelong
    <3>1. w = wo BY <2>5, MakeFacts
    <3> QED BY <2>1, <2>2, <2>4, <2>5, <3>1, MakeFacts DEF Making!Rows
  <2>11. Making!PlacesInOrder
    <3>1. Making!Order(wo) = {1, 2} /\ \A x \in Making!Roots \ {wo} : Making!Order(x) = {}
      <4>1. \A x : Making!Order(x) =
                {i \in {1, 2, 3} : rel[i].root = x /\ rel[i].kind \in {"entry", "item"}}
        BY <2>1 DEF Making!Order, Making!Rows
      <4> QED BY <2>1, <2>2, <2>3, <4>1
    <3>2. Cardinality({1, 2}) = 2
      <4>1. IsFiniteSet({1}) /\ Cardinality({1}) = 1 BY FS_Singleton
      <4>2. Cardinality({1} \cup {2}) = 2 BY <4>1, FS_AddElement
      <4>3. {1} \cup {2} = {1, 2} OBVIOUS
      <4> QED BY <4>2, <4>3
    <3> SUFFICES ASSUME NEW x \in Making!Roots
                 PROVE  /\ \A i, j \in Making!Order(x) : rel[i].pos = rel[j].pos => i = j
                        /\ \A i \in Making!Order(x) : rel[i].pos < Cardinality(Making!Order(x))
      BY MakeFacts DEF Making!PlacesInOrder
    <3>3. CASE x # wo BY <3>1, <3>3
    <3>4. CASE x = wo BY <2>1, <2>2, <3>1, <3>2, <3>4
    <3> QED BY <3>3, <3>4
  <2>12. Making!OnceEach
    BY <2>1, <2>2, <2>3, MakeFacts DEF Making!OnceEach
  <2>13. Making!RolesAreOwn BY <2>1, <2>2, <2>3 DEF Making!RolesAreOwn
  <2>14. RowsHaveRoots
    BY <2>1, <2>2, <2>3, <2>4, <2>5, MakeFacts DEF RowsHaveRoots, RowOk, KindOk
  <2>15. Making!RevisionTellsContent /\ ScreenIsOld
    BY <1>1 DEF Making!RevisionTellsContent, ScreenIsOld
  <2> QED BY <2>8, <2>9, <2>10, <2>11, <2>12, <2>13, <2>14, <2>15 DEF MakeInv
<1>5. CASE desk = "works" /\ rel = << >> /\ root = [r \in Making!Roots |-> Making!Absent]
  <2>1. root = [r \in Making!Roots |-> IF r \in {wo, pj} THEN Making!Absent ELSE Making!Absent]
    BY <1>5
  <2> QED BY <1>3, <1>5, <2>1
<1> QED BY <1>3, <1>4, <1>5 DEF Making!ProdInit

LEMMA MakeNames ==
    /\ wo \in Making!Roots /\ pj \in Making!Roots /\ l \in Making!Roots
    /\ p1 \in People /\ p2 \in People /\ j1 \in Codes /\ <<p1, j1>> \in Making!Roles
    /\ ph1 \in Assets /\ ph2 \in Assets
BY MakeFacts

LEMMA MakeWorks ==
    ASSUME MakeInv, Making!WorkSteps PROVE MakeInv'
<1>1. CASE Making!CreateRoot(wo) BY <1>1, MakeNames, MakeCreateRoot
<1>2. ASSUME NEW m \in {<<ph1>>, <<ph2, ph1>>}, NEW cover \in {ph1, None},
             Making!CreatePersonCase(wo, <<p1, j1>>, m, cover)
      PROVE  MakeInv'
  <2>1. \E n \in Nat : /\ m \in [1..n -> Assets] /\ Len(m) = n
                       /\ \A j, k \in 1..n : m[j] = m[k] => j = k
    <3>1. CASE m = <<ph1>>
      <4>1. m \in [1..1 -> Assets] /\ Len(m) = 1 BY <3>1, MakeNames
      <4>2. \A j, k \in 1..1 : j = k OBVIOUS
      <4> QED BY <4>1, <4>2
    <3>2. CASE m = <<ph2, ph1>>
      <4>1. m \in [1..2 -> Assets] /\ Len(m) = 2 /\ m[1] = ph2 /\ m[2] = ph1
        BY <3>2, MakeNames
      <4>2. \A j, k \in 1..2 : m[j] = m[k] => j = k BY <4>1, MakeFacts
      <4> QED BY <4>1, <4>2
    <3> QED BY <3>1, <3>2
  <2> QED BY <1>2, <2>1, MakeNames, MakeFacts, MakeCreatePersonCase
<1>3. ASSUME NEW s \in {"DRAFT", "ACTIVE", "ARCHIVED"}, Making!UpdateRoot(wo, s) PROVE MakeInv'
  BY <1>3, MakeNames, MakeUpdateRoot
<1>4. ASSUME NEW m \in Assets, Making!AddAsset(wo, m) PROVE MakeInv'
  BY <1>4, MakeFacts, MakeAddAsset
<1>5. ASSUME NEW i, Making!RemoveAsset(wo, i) PROVE MakeInv' BY <1>5, MakeFacts, MakeRemoveAsset
<1>6. ASSUME NEW cover, Making!ReorderAssets(wo, cover) PROVE MakeInv'
  BY <1>6, MakeFacts, MakeReorderAssets
<1>7. CASE Making!AddCredit(wo, p1, j1) BY <1>7, MakeNames, MakeFacts, MakeAddCredit
<1>8. ASSUME NEW i, Making!UpgradeCredit(wo, i) \/ Making!RemoveRow(wo, i) PROVE MakeInv'
  BY <1>8, MakeNames, MakeFacts, MakeUpgradeCredit, MakeRemoveRow
<1>9. CASE Making!ApplyWorkCase(wo, <<p1, j1>>, <<ph2>>)
  <2> DEFINE m == <<ph2>>
  <2>1. m \in [1..1 -> Assets] /\ Len(m) = 1 /\ \A j, k \in 1..1 : m[j] = m[k] => j = k
    BY MakeNames
  <2>2. Making!ApplyWorkCase(wo, <<p1, j1>>, m) BY <1>9
  <2> HIDE DEF m
  <2> QED BY <2>1, <2>2, MakeNames, MakeFacts, MakeApplyWorkCase
<1>10. CASE Making!Open(wo) BY <1>10, MakeNames, MakeOpen
<1>11. CASE (\E u \in {ph1, <<p1, j1>>} : Making!ChangeUse(u))
            \/ \E u \in {wo, ph1} : Making!BlockForDeletion(u)
  BY <1>11, MakeFacts, MakeNames, MakeAround
<1>12. ASSUME NEW i \in DOMAIN rel, Making!CleanRow(i) PROVE MakeInv' BY <1>12, MakeCleanRow
<1> QED BY <1>1, <1>2, <1>3, <1>4, <1>5, <1>6, <1>7, <1>8, <1>9, <1>10, <1>11, <1>12
        DEF Making!WorkSteps

LEMMA MakeProjects ==
    ASSUME MakeInv, Making!ProjectSteps PROVE MakeInv'
<1>1. ASSUME NEW s \in {"ACTIVE", "COMPLETED", "ARCHIVED", "DRAFT"}, Making!UpdateRoot(pj, s)
      PROVE  MakeInv'
  BY <1>1, MakeNames, MakeUpdateRoot
<1>2. ASSUME NEW p \in {p1, p2}, NEW s \in {"NOMINATED", "ACTUAL"},
             Making!AddParticipant(pj, p, j1, s)
      PROVE  MakeInv'
  BY <1>2, MakeNames, MakeFacts, MakeAddParticipant
<1>3. ASSUME NEW i, NEW s \in {"NOMINATED", "ACTUAL"}, Making!UpdateParticipant(pj, i, s)
      PROVE  MakeInv'
  BY <1>3, MakeFacts, MakeUpdateParticipant
<1>4. ASSUME NEW relation \in {"REFERENCE", "DELIVERABLE"}, Making!LinkWork(pj, wo, relation)
      PROVE  MakeInv'
  BY <1>4, MakeFacts, MakeLinkWork
<1>5. ASSUME NEW i, Making!RemoveRow(pj, i) PROVE MakeInv' BY <1>5, MakeNames, MakeRemoveRow
<1>6. ASSUME NEW parties \in {{}, {brand}}, Making!BindParties(pj, parties) PROVE MakeInv'
  BY <1>6, MakeNames, MakeFacts, MakeBindParties
<1>7. CASE Making!Open(pj) BY <1>7, MakeNames, MakeOpen
<1>8. CASE (\E u \in {p1, brand, wo} : Making!ChangeUse(u))
           \/ \E u \in {wo, p2} : Making!BlockForDeletion(u)
  BY <1>8, MakeFacts, MakeNames, MakeAround
<1>9. ASSUME NEW i \in DOMAIN rel, Making!CleanRow(i) PROVE MakeInv' BY <1>9, MakeCleanRow
<1> QED BY <1>1, <1>2, <1>3, <1>4, <1>5, <1>6, <1>7, <1>8, <1>9 DEF Making!ProjectSteps

LEMMA MakeLists ==
    ASSUME MakeInv, Making!ListSteps PROVE MakeInv'
<1>1. ASSUME NEW p \in {p1, p2}, NEW r \in {None, <<p1, j1>>}, NEW w \in {None, wo},
             NEW entries, Making!AddItem(l, p, r, w, entries)
      PROVE  MakeInv'
  BY <1>1, MakeNames, MakeFacts, MakeAddItem
<1>2. CASE Making!BatchAdd(l, <<<<p2, None>>, <<p1, <<p1, j1>>>>>>)
  <2> DEFINE cs == <<<<p2, None>>, <<p1, <<p1, j1>>>>>>
  <2>1. /\ DOMAIN cs = {1, 2} /\ cs[1][1] = p2 /\ cs[1][2] = None /\ cs[2][1] = p1
        /\ cs[2][2] = <<p1, j1>>
    OBVIOUS
  <2>2. Making!BatchAdd(l, cs) BY <1>2
  <2>3. IsFiniteSet({1, 2})
    <3>1. IsFiniteSet({1} \cup {2}) BY FS_Singleton, FS_AddElement
    <3>2. {1} \cup {2} = {1, 2} OBVIOUS
    <3> QED BY <3>1, <3>2
  <2> HIDE DEF cs
  <2>4. /\ IsFiniteSet(DOMAIN cs) /\ DOMAIN cs \subseteq Int
        /\ \A k \in DOMAIN cs : cs[k][1] \in People /\ cs[k][2] \in Making!Roles \cup {None}
        /\ \A j, k \in DOMAIN cs : cs[j][1] = cs[k][1] => j = k
    BY <2>1, <2>3, MakeNames, MakeFacts
  <2> QED BY <2>2, <2>4, MakeFacts, MakeBatchAdd
<1>3. CASE Making!BatchAdd(l, <<<<p1, None>>>>)
  <2> DEFINE cs == <<<<p1, None>>>>
  <2>1. DOMAIN cs = {1} /\ cs[1][1] = p1 /\ cs[1][2] = None OBVIOUS
  <2>2. Making!BatchAdd(l, cs) BY <1>3
  <2>3. IsFiniteSet({1}) BY FS_Singleton
  <2> HIDE DEF cs
  <2>4. /\ IsFiniteSet(DOMAIN cs) /\ DOMAIN cs \subseteq Int
        /\ \A k \in DOMAIN cs : cs[k][1] \in People /\ cs[k][2] \in Making!Roles \cup {None}
        /\ \A j, k \in DOMAIN cs : cs[j][1] = cs[k][1] => j = k
    BY <2>1, <2>3, MakeNames, MakeFacts
  <2> QED BY <2>2, <2>4, MakeFacts, MakeBatchAdd
<1>4. ASSUME NEW i, Making!UpdateItem(l, i, TRUE) PROVE MakeInv' BY <1>4, MakeFacts, MakeUpdateItem
<1>5. ASSUME NEW i, Making!RemoveItem(l, i) PROVE MakeInv' BY <1>5, MakeFacts, MakeRemoveItem
<1>6. ASSUME NEW i, Making!BindRole(l, i, <<p1, j1>>) PROVE MakeInv'
  BY <1>6, MakeNames, MakeFacts, MakeBindRole
<1>7. CASE Making!ReorderItems(l) BY <1>7, MakeFacts, MakeReorderItems
<1>8. CASE Making!Enroll(p1) BY <1>8, MakeNames, MakeEnroll
<1>9. CASE Making!RemoveAsset(wo, 1) BY <1>9, MakeFacts, MakeRemoveAsset
<1>10. CASE Making!Open(l) BY <1>10, MakeNames, MakeOpen
<1>11. CASE Making!ChangeUse(<<p1, j1>>) \/ Making!BlockForDeletion(ph1)
  BY <1>11, MakeNames, MakeAround
<1>12. ASSUME NEW i \in DOMAIN rel, Making!CleanRow(i) PROVE MakeInv' BY <1>12, MakeCleanRow
<1> QED BY <1>1, <1>2, <1>3, <1>4, <1>5, <1>6, <1>7, <1>8, <1>9, <1>10, <1>11, <1>12
        DEF Making!ListSteps

LEMMA MakeKeeps ==
    ASSUME MakeInv, Making!ProdNext \/ UNCHANGED makeVars PROVE MakeInv'
<1>1. CASE Making!ProdNext
  BY <1>1, MakeWorks, MakeProjects, MakeLists DEF Making!ProdNext
<1>2. CASE UNCHANGED makeVars
  <2>1. UNCHANGED <<root, rel, pick, usable, profiled, unseen, erasing, gaps, screen, stuck>>
    BY <1>2 DEF makeVars
  <2>2. MakeTyped' BY <2>1, MakeTypes, MakeTypesNext DEF MakeInv, MakeTyped
  <2> QED BY <2>1, <2>2, QuietKeeps
<1> QED BY <1>1, <1>2

-------------------------------------------------------------------------------
(* Merging: the rows that a merge makes of those it found *)

MergeRow ==
    [kind: Merging!Kinds, person: People \cup {Nobody}, agent: People \cup {Nobody},
     source: Sources \cup {NoSource}, root: RootIds, during: Merging!Periods,
     state: Merging!States, note: Notes, pinned: BOOLEAN]
MergePerson ==
    [source: Sources, value: Notes, from: Sources, rev: Nat, status: {"ACTIVE", "ARCHIVED"}]

\* only a representation names an agent; media are in use or staged
MergeRows ==
    \A i \in DOMAIN rows :
        /\ rows[i].agent # Nobody => rows[i].kind = "representation"
        /\ rows[i].kind = "media" => rows[i].state \in {"ACTIVE", "STAGED"}

\* the digest on the screen is one of the notes on the screen
MergeScreen ==
    preview.canonical # Nobody =>
        /\ preview.canonical \in People /\ preview.duplicate \in People
        /\ preview.canonical # preview.duplicate
        /\ \A x \in preview.digest.collisions :
               x[2] = preview.notes[x[1][1]] /\ x[3] = preview.notes[x[1][2]]
        /\ \A i \in DOMAIN preview.digest.whole : preview.digest.whole[i].note = preview.notes[i]

MergeInv ==
    /\ Merging!TypeOK /\ DOMAIN person = People /\ MergeRows /\ MergeScreen
    /\ Merging!NoChains /\ Merging!NothingLeftBehind /\ Merging!OneOfEach
    /\ Merging!ValuesHaveTheirSource

LEMMA MergeNamed ==
    /\ Nobody \notin People /\ NoSource \notin Sources /\ MaxOther \in Nat
    /\ {p1, p2, p3} \subseteq People /\ {s1, s2} \subseteq Sources
    /\ wo \in RootIds /\ {1, 2} \subseteq Notes /\ {1, 2, 3} \subseteq MergeIds
BY TalentConstants DEF TalentConstants, Merging!MergeNames, Merging!MergeConstants

LEMMA MergeTypes ==
    Merging!TypeOK <=>
        /\ \A p \in People : person[p] \in MergePerson
        /\ DOMAIN rows \subseteq MergeIds /\ \A i \in DOMAIN rows : rows[i] \in MergeRow
        /\ DOMAIN alias \subseteq People /\ hidden \subseteq Sources \cup RootIds
        /\ deleting \subseteq People /\ other \in 0..MaxOther
BY DEF Merging!TypeOK, MergePerson, MergeRow

LEMMA MergeTypesNext ==
    Merging!TypeOK' <=>
        /\ \A p \in People : person'[p] \in MergePerson
        /\ DOMAIN rows' \subseteq MergeIds /\ \A i \in DOMAIN rows' : rows'[i] \in MergeRow
        /\ DOMAIN alias' \subseteq People /\ hidden' \subseteq Sources \cup RootIds
        /\ deleting' \subseteq People /\ other' \in 0..MaxOther
BY DEF Merging!TypeOK, MergePerson, MergeRow

MergeHistory == {"REVOKED", "SUPERSEDED", "ERASED", "STAGED"}

\* what Moved does to a row
LEMMA MovedRow ==
    ASSUME NEW c \in People, NEW d \in People, c # d, NEW r \in MergeRow, r.kind # "text",
           r.kind = "media" => r.state \in {"ACTIVE", "STAGED"},
           NEW m, m = Merging!Moved(c, d, r)
    PROVE  /\ m \in MergeRow
           /\ m.kind = r.kind /\ m.root = r.root /\ m.during = r.during /\ m.pinned = r.pinned
           /\ m.source = r.source /\ m.note = r.note
           /\ r.kind \in Merging!Collide \cup {"fact", "profile"} =>
                  m.state = r.state /\ m.person = IF r.person = d THEN c ELSE r.person
           /\ r.kind # "representation" => m.agent = r.agent
           /\ r.kind = "representation" =>
                  m.agent = (IF r.agent = d THEN c ELSE r.agent)
           /\ m.person \in {r.person, c, Nobody}
           /\ r.person \notin {c, d} => m.state = r.state /\ m.person = r.person
           /\ m.person = d => \/ m.state \in MergeHistory
                              \/ m.kind \in {"upload", "asset"} /\ m.source = NoSource
           /\ r.kind = "media" => m.state = r.state
           /\ r.kind \in Merging!Grantlike /\ m.state = "ACTIVE" => m.person \notin {c, d}
<1> DEFINE G == r.kind \in Merging!Grantlike
           C == r.kind \in {"contact", "evidence", "fact", "profile"} \cup Merging!Collide
<1> USE DEF MergeRow, Merging!Grantlike, Merging!Collide, Merging!Kinds, Merging!States,
       MergeHistory, Merging!Facts
<1>n. Nobody \notin People /\ NoSource \notin Sources BY MergeNamed
<1>1. CASE G
  <2>1. CASE r.person \in {c, d}
    <3>1. m = [r EXCEPT !.state = "REVOKED"] BY <1>1, <2>1 DEF Merging!Moved
    <3> QED BY <1>n, <1>1, <2>1, <3>1
  <2>2. CASE r.person \notin {c, d}
    <3>1. m = r BY <1>1, <2>2 DEF Merging!Moved
    <3> QED BY <1>n, <1>1, <2>2, <3>1
  <2> QED BY <2>1, <2>2
<1>2. CASE r.kind = "upload"
  <2>1. CASE r.person = d /\ r.source # NoSource /\ r.state # "ERASED"
    <3>1. m = [r EXCEPT !.person = Nobody] BY <1>2, <2>1 DEF Merging!Moved
    <3> QED BY <1>n, <1>2, <2>1, <3>1
  <2>2. CASE ~(r.person = d /\ r.source # NoSource /\ r.state # "ERASED")
    <3>1. m = r BY <1>2, <2>2 DEF Merging!Moved
    <3> QED BY <1>n, <1>2, <2>2, <3>1
  <2> QED BY <2>1, <2>2
<1>3. CASE r.kind = "asset"
  <2>1. CASE r.person = d /\ r.source # NoSource /\ r.state # "ERASED"
    <3>1. \E q \in {c, Nobody} : m = [r EXCEPT !.person = q]
      BY <1>3, <2>1 DEF Merging!Moved
    <3> QED BY <1>n, <1>3, <2>1, <3>1
  <2>2. CASE ~(r.person = d /\ r.source # NoSource /\ r.state # "ERASED")
    <3>1. m = r BY <1>3, <2>2 DEF Merging!Moved
    <3> QED BY <1>n, <1>3, <2>2, <3>1
  <2> QED BY <2>1, <2>2
<1>4. CASE r.kind = "media"
  <2>1. CASE r.person = d /\ r.state = "ACTIVE"
    <3>1. m = [r EXCEPT !.person = c] BY <1>4, <2>1 DEF Merging!Moved
    <3> QED BY <1>n, <1>4, <2>1, <3>1
  <2>2. CASE ~(r.person = d /\ r.state = "ACTIVE")
    <3>1. m = r BY <1>4, <2>2 DEF Merging!Moved
    <3> QED BY <1>n, <1>4, <2>2, <3>1
  <2> QED BY <2>1, <2>2
<1>5. CASE r.kind = "representation"
  <2> DEFINE p == IF r.person = d THEN c ELSE r.person
             a == IF r.agent = d THEN c ELSE r.agent
  <2>1. m = [r EXCEPT !.person = IF r.person = d THEN c ELSE r.person,
                      !.agent = IF r.agent = d THEN c ELSE r.agent]
    BY <1>5 DEF Merging!Moved
  <2>2. m = [r EXCEPT !.person = p, !.agent = a] BY <2>1
  <2>3. p \in People \cup {Nobody} /\ a \in People \cup {Nobody} /\ p # d /\ a # d BY <1>n
  <2>4. p \in {r.person, c} /\ (r.person \notin {c, d} => p = r.person) BY <1>n
  <2>5. a = (IF r.agent = d THEN c ELSE r.agent) OBVIOUS
  <2> HIDE DEF p, a
  <2> QED BY <1>n, <1>5, <2>2, <2>3, <2>4, <2>5
<1>6. CASE r.kind = "proposal"
  <2>1. CASE r.person \in {c, d}
    <3>1. PICK q \in {r.state, "STALE"} : m = [r EXCEPT !.person = c, !.state = q]
      BY <1>6, <2>1 DEF Merging!Moved
    <3>2. q \in Merging!States OBVIOUS
    <3> QED BY <1>n, <1>6, <2>1, <3>1, <3>2
  <2>2. CASE r.person \notin {c, d}
    <3>1. m = r BY <1>6, <2>2 DEF Merging!Moved
    <3> QED BY <1>n, <1>6, <2>2, <3>1
  <2> QED BY <2>1, <2>2
<1>7. CASE C
  <2>1. CASE r.person = d
    <3>1. m = [r EXCEPT !.person = c] BY <1>7, <2>1 DEF Merging!Moved
    <3> QED BY <1>n, <1>7, <2>1, <3>1
  <2>2. CASE r.person # d
    <3>1. m = r BY <1>7, <2>2 DEF Merging!Moved
    <3> QED BY <1>n, <1>7, <2>2, <3>1
  <2> QED BY <2>1, <2>2
<1> QED BY <1>1, <1>2, <1>3, <1>4, <1>5, <1>6, <1>7


\* the row of a text that stays, of the texts of one language
TextKept(c, d, chosen, g) ==
    LET group == {j \in Merging!Texts(c, d) : rows[j].root = g}
        best == CHOOSE j \in group \cap chosen : TRUE
    IN  IF group \cap Merging!Of(c, {"text"}) # {} THEN CHOOSE j \in group : rows[j].person = c
        ELSE best

\* Of two facts that overlap one is dropped, and only facts are.
LEMMA DroppedFacts ==
    ASSUME NEW c \in People, NEW d \in People, Merging!TypeOK,
           NEW dropped, dropped \in Merging!Resolutions(c, d)
    PROVE  /\ \A i \in dropped :
                  i \in DOMAIN rows /\ rows[i].kind = "fact" /\ rows[i].person \in {c, d}
           /\ \A x \in Merging!Conflicts(c, d) :
                  rows[x[1]].kind = "fact" => x[1] \in dropped \/ x[2] \in dropped
<1> DEFINE pairs == {x \in Merging!Conflicts(c, d) : rows[x[1]].kind = "fact"}
<1>1. PICK f \in [pairs -> {"CANONICAL", "DUPLICATE"}] :
         dropped = {IF f[x] = "CANONICAL" THEN x[2] ELSE x[1] : x \in pairs}
  BY DEF Merging!Resolutions
<1>2. ASSUME NEW x \in pairs
      PROVE  /\ {x[1], x[2]} \subseteq DOMAIN rows
             /\ rows[x[1]].kind = "fact" /\ rows[x[2]].kind = "fact"
             /\ rows[x[1]].person = c /\ rows[x[2]].person = d
  <2>1. x \in Merging!Of(c, Merging!Facts) \X Merging!Of(d, Merging!Facts)
    BY DEF Merging!Conflicts
  <2>2. {x[1], x[2]} \subseteq DOMAIN rows /\ rows[x[1]].person = c /\ rows[x[2]].person = d
    BY <2>1 DEF Merging!Of
  <2>3. Merging!Clash([rows[x[1]] EXCEPT !.person = d], rows[x[2]]) BY DEF Merging!Conflicts
  <2>4. rows[x[1]] \in MergeRow BY <2>2, MergeTypes
  <2>5. rows[x[1]].kind = rows[x[2]].kind BY <2>3, <2>4 DEF Merging!Clash, MergeRow
  <2> QED BY <2>2, <2>5
<1>3. \A i \in dropped :
         i \in DOMAIN rows /\ rows[i].kind = "fact" /\ rows[i].person \in {c, d}
  BY <1>1, <1>2
<1>4. \A x \in pairs : x[1] \in dropped \/ x[2] \in dropped BY <1>1
<1> QED BY <1>3, <1>4

\* a professional fact after the merge
LEMMA MergedFact ==
    ASSUME NEW c \in People, NEW d \in People, c # d, Merging!TypeOK, MergeRows,
           NEW dropped,
           \A j \in dropped :
               j \in DOMAIN rows /\ rows[j].kind = "fact" /\ rows[j].person \in {c, d},
           NEW i \in DOMAIN rows, rows[i].kind \in Merging!Facts,
           NEW m, m = Merging!MovedFact(c, d, dropped, i)
    PROVE  /\ m \in MergeRow
           /\ m.kind = rows[i].kind /\ m.root = rows[i].root /\ m.during = rows[i].during
           /\ m.pinned = rows[i].pinned /\ m.source = rows[i].source
           /\ m.agent # Nobody => m.kind = "representation" /\ m.agent # d
                                  /\ m.agent \in {rows[i].agent, c}
           /\ rows[i].person \notin {c, d} =>
                  m.person = rows[i].person /\ m.state = rows[i].state
           /\ m.person \in {rows[i].person, c, Nobody}
           /\ m.person = d => m.state \in MergeHistory
           /\ rows[i].kind \in {"fact", "profile"} /\ m.state = "ACTIVE" =>
                  /\ rows[i].state = "ACTIVE" /\ i \notin dropped
                  /\ m.person = (IF rows[i].person = d THEN c ELSE rows[i].person)
                  /\ rows[i].kind = "profile" => \A x \in Merging!Conflicts(c, d) : x[2] # i
<1> DEFINE retained == \E x \in Merging!Conflicts(c, d) : x[2] = i /\ rows[i].kind = "profile"
           row == IF i \in dropped THEN [rows[i] EXCEPT !.state = "INACTIVE"] ELSE rows[i]
<1>n. Nobody \notin People BY MergeNamed
<1>1. m = IF retained THEN [row EXCEPT !.state = "SUPERSEDED"] ELSE Merging!Moved(c, d, row)
  BY DEF Merging!MovedFact
<1>2. rows[i] \in MergeRow BY MergeTypes
<1>3. /\ row \in MergeRow /\ row.kind = rows[i].kind /\ row.root = rows[i].root
      /\ row.during = rows[i].during /\ row.pinned = rows[i].pinned
      /\ row.source = rows[i].source /\ row.agent = rows[i].agent /\ row.person = rows[i].person
      /\ row.state = IF i \in dropped THEN "INACTIVE" ELSE rows[i].state
  BY <1>2 DEF MergeRow, Merging!States
<1>4. rows[i].agent # Nobody => rows[i].kind = "representation" BY DEF MergeRows
<1>5. rows[i].kind # "media" /\ rows[i].kind # "text" BY DEF Merging!Facts
<1> HIDE DEF row
<1>6. CASE retained
  <2>1. m = [row EXCEPT !.state = "SUPERSEDED"] BY <1>1, <1>6
  <2>2. rows[i].kind = "profile" BY <1>6
  <2>3. PICK x \in Merging!Conflicts(c, d) : x[2] = i BY <1>6
  <2>4. rows[i].person = d BY <2>3 DEF Merging!Conflicts, Merging!Of
  <2> QED BY <1>n, <1>3, <1>4, <2>1, <2>2, <2>4 DEF MergeRow, Merging!States, MergeHistory
<1>7. CASE ~retained
  <2>1. m = Merging!Moved(c, d, row) BY <1>1, <1>7
  <2>a. row \in MergeRow /\ row.kind # "text"
        /\ (row.kind = "media" => row.state \in {"ACTIVE", "STAGED"})
    BY <1>3, <1>5
  <2>2. /\ m \in MergeRow
        /\ m.kind = row.kind /\ m.root = row.root /\ m.during = row.during
        /\ m.pinned = row.pinned /\ m.source = row.source
        /\ row.kind \in {"fact", "profile"} =>
               m.state = row.state /\ m.person = IF row.person = d THEN c ELSE row.person
        /\ row.kind # "representation" => m.agent = row.agent
        /\ row.kind = "representation" => m.agent = (IF row.agent = d THEN c ELSE row.agent)
        /\ m.person \in {row.person, c, Nobody}
        /\ row.person \notin {c, d} => m.state = row.state /\ m.person = row.person
        /\ m.person = d => \/ m.state \in MergeHistory
                           \/ m.kind \in {"upload", "asset"} /\ m.source = NoSource
    BY <2>1, <2>a, MovedRow
  <2>3. m.kind \notin {"upload", "asset"} BY <1>3, <2>2 DEF Merging!Facts
  <2>4. rows[i].kind = "profile" => \A x \in Merging!Conflicts(c, d) : x[2] # i BY <1>7
  <2>5. m.agent # Nobody => m.kind = "representation" /\ m.agent # d
                            /\ m.agent \in {rows[i].agent, c}
    BY <1>n, <1>3, <1>4, <2>2
  <2>6. rows[i].kind \in {"fact", "profile"} /\ m.state = "ACTIVE" =>
          /\ rows[i].state = "ACTIVE" /\ i \notin dropped
          /\ m.person = (IF rows[i].person = d THEN c ELSE rows[i].person)
    BY <1>3, <2>2
  <2>7. rows[i].person \notin {c, d} => m.state = rows[i].state
    BY <1>3, <2>2
  <2> QED BY <1>3, <2>2, <2>3, <2>4, <2>5, <2>6, <2>7
<1> QED BY <1>6, <1>7

\* a text after the merge
LEMMA MergedText ==
    ASSUME NEW c \in People, NEW d \in People, c # d, Merging!TypeOK, MergeRows,
           NEW chosen, chosen \in Merging!TextChoices(c, d),
           NEW i \in DOMAIN rows, rows[i].kind = "text",
           NEW m, m = Merging!MovedText(c, d, chosen, i)
    PROVE  /\ m \in MergeRow
           /\ m.kind = rows[i].kind /\ m.root = rows[i].root /\ m.during = rows[i].during
           /\ m.pinned = rows[i].pinned /\ m.source = rows[i].source /\ m.agent = rows[i].agent
           /\ m.person \in {rows[i].person, c}
           /\ rows[i].person \notin {c, d} => m = rows[i]
           /\ m.person = d => m.state \in MergeHistory
           /\ m.state = "ACTIVE" /\ rows[i].person \in {c, d} =>
                  m.person = c /\ i = TextKept(c, d, chosen, rows[i].root)
<1> DEFINE group == {j \in Merging!Texts(c, d) : rows[j].root = rows[i].root}
           best == CHOOSE j \in group \cap chosen : TRUE
<1>1. rows[i] \in MergeRow BY MergeTypes
<1>2. CASE i \notin Merging!Texts(c, d)
  <2>1. m = rows[i] BY <1>2 DEF Merging!MovedText
  <2>2. rows[i].person \in {c, d} => rows[i].state = "ERASED"
    BY <1>2 DEF Merging!Texts, Merging!Of
  <2> QED BY <1>1, <2>1, <2>2 DEF MergeHistory
<1>3. CASE i \in Merging!Texts(c, d)
  <2>0. rows[i].person \in {c, d} BY <1>3 DEF Merging!Texts, Merging!Of
  <2>1. PICK j \in chosen : rows[j].root = rows[i].root BY <1>3 DEF Merging!TextChoices
  <2>2. chosen \subseteq Merging!Texts(c, d) BY DEF Merging!TextChoices
  <2>3. j \in group \cap chosen BY <2>1, <2>2
  <2>4. best \in group \cap chosen BY <2>3
  <2>5. best \in DOMAIN rows BY <2>4 DEF Merging!Texts, Merging!Of
  <2>6. rows[best].note \in Notes BY <2>5, MergeTypes DEF MergeRow
  <2>7. m = IF i = TextKept(c, d, chosen, rows[i].root)
            THEN [rows[i] EXCEPT !.person = c, !.note = rows[best].note]
            ELSE [rows[i] EXCEPT !.state = "ERASED"]
    BY <1>3 DEF Merging!MovedText, TextKept
  <2> HIDE DEF best
  <2>8. CASE i = TextKept(c, d, chosen, rows[i].root)
    <3>1. m = [rows[i] EXCEPT !.person = c, !.note = rows[best].note] BY <2>7, <2>8
    <3> QED BY <1>1, <2>0, <2>6, <2>8, <3>1 DEF MergeRow
  <2>9. CASE i # TextKept(c, d, chosen, rows[i].root)
    <3>1. m = [rows[i] EXCEPT !.state = "ERASED"] BY <2>7, <2>9
    <3> QED BY <1>1, <2>0, <3>1 DEF MergeRow, Merging!States, MergeHistory
  <2> QED BY <2>8, <2>9
<1> QED BY <1>2, <1>3


\* the note of a row after the merge is one of the notes of its collision
LEMMA ChosenNote ==
    ASSUME NEW c \in People, NEW d \in People, Merging!TypeOK,
           NEW kept, kept \subseteq Merging!Collisions(c, d), NEW i \in DOMAIN rows
    PROVE  Merging!NoteOf(kept, i) \in Notes
<1>1. rows[i].note \in Notes BY MergeTypes DEF MergeRow
<1>2. ASSUME \E x \in kept : Merging!Survivor(x, TRUE) = i /\ i = x[1]
      PROVE  rows[(CHOOSE x \in kept : x[1] = i)[2]].note \in Notes
  <2> DEFINE y == CHOOSE x \in kept : x[1] = i
  <2>1. y \in kept BY <1>2
  <2>2. y \in Merging!Collisions(c, d) BY <2>1
  <2>3. y[2] \in DOMAIN rows BY <2>2 DEF Merging!Collisions, Merging!Of
  <2> HIDE DEF y
  <2>4. rows[y[2]].note \in Notes BY <2>3, MergeTypes DEF MergeRow
  <2> QED BY <2>4 DEF y
<1> QED BY <1>1, <1>2 DEF Merging!NoteOf

\* any row after the merge
LEMMA MergedRow ==
    ASSUME NEW c \in People, NEW d \in People, c # d, Merging!TypeOK, MergeRows,
           NEW kept, kept \subseteq Merging!Collisions(c, d),
           NEW dropped, dropped \in Merging!Resolutions(c, d),
           NEW chosen, chosen \in Merging!TextChoices(c, d),
           NEW i \in DOMAIN rows,
           NEW m, m = Merging!Result(c, d, kept, dropped, chosen, i)
    PROVE  /\ m \in MergeRow
           /\ m.kind = rows[i].kind /\ m.root = rows[i].root /\ m.during = rows[i].during
           /\ m.pinned = rows[i].pinned
           /\ m.agent # Nobody => m.kind = "representation" /\ m.agent # d
                                  /\ m.agent \in {rows[i].agent, c}
           /\ m.kind = "media" => m.state \in {"ACTIVE", "STAGED"}
           /\ m.person \in {rows[i].person, c, Nobody}
           /\ rows[i].person \notin {c, d} =>
                  m.person = rows[i].person /\ m.state = rows[i].state
           /\ m.person = d => \/ m.state \in MergeHistory
                              \/ m.kind \in {"upload", "asset"} /\ m.source = NoSource
           /\ m.kind \in Merging!Grantlike /\ m.state = "ACTIVE" => m.person \notin {c, d}
           /\ m.source = rows[i].source
<1>n. Nobody \notin People BY MergeNamed
<1>0. rows[i] \in MergeRow BY MergeTypes
<1>1. CASE rows[i].kind = "text"
  <2>1. m = Merging!MovedText(c, d, chosen, i) BY <1>1 DEF Merging!Result, Merging!Facts
  <2> QED BY <1>0, <1>1, <2>1, MergedText DEF Merging!Grantlike, MergeRows
<1>2. CASE rows[i].kind \in Merging!Facts
  <2>0. rows[i].kind # "text" BY <1>2 DEF Merging!Facts
  <2>1. m = Merging!MovedFact(c, d, dropped, i) BY <1>2, <2>0 DEF Merging!Result
  <2>2. \A j \in dropped :
           j \in DOMAIN rows /\ rows[j].kind = "fact" /\ rows[j].person \in {c, d}
    BY DroppedFacts
  <2>3. /\ m \in MergeRow
        /\ m.kind = rows[i].kind /\ m.root = rows[i].root /\ m.during = rows[i].during
        /\ m.pinned = rows[i].pinned /\ m.source = rows[i].source
        /\ m.agent # Nobody => m.kind = "representation" /\ m.agent # d
                               /\ m.agent \in {rows[i].agent, c}
        /\ rows[i].person \notin {c, d} =>
               m.person = rows[i].person /\ m.state = rows[i].state
        /\ m.person \in {rows[i].person, c, Nobody}
        /\ m.person = d => m.state \in MergeHistory
    BY <1>2, <2>1, <2>2, MergedFact
  <2>4. m.kind \notin Merging!Grantlike /\ m.kind # "media"
    BY <1>2, <2>3 DEF Merging!Facts, Merging!Grantlike
  <2> QED BY <2>2, <2>3, <2>4
<1>3. CASE rows[i].kind # "text" /\ rows[i].kind \notin Merging!Facts
  <2> DEFINE r == Merging!Moved(c, d, rows[i])
             w == Merging!NoteOf(kept, i)
  <2>1. m = [r EXCEPT !.note = w] BY <1>3 DEF Merging!Result
  <2>2. w \in Notes BY ChosenNote
  <2>3. /\ r \in MergeRow
        /\ r.kind = rows[i].kind /\ r.root = rows[i].root /\ r.during = rows[i].during
        /\ r.pinned = rows[i].pinned /\ r.source = rows[i].source
        /\ r.kind # "representation" => r.agent = rows[i].agent
        /\ r.person \in {rows[i].person, c, Nobody}
        /\ rows[i].person \notin {c, d} => r.state = rows[i].state /\ r.person = rows[i].person
        /\ r.person = d => \/ r.state \in MergeHistory
                           \/ r.kind \in {"upload", "asset"} /\ r.source = NoSource
        /\ r.kind = "media" => r.state = rows[i].state
        /\ r.kind \in Merging!Grantlike /\ r.state = "ACTIVE" => r.person \notin {c, d}
    BY <1>0, <1>3, MovedRow DEF MergeRows
  <2>4. r.kind # "representation" /\ rows[i].agent = Nobody
    BY <1>3, <2>3 DEF MergeRows, Merging!Facts
  <2> HIDE DEF r, w
  <2>5. /\ m \in MergeRow /\ m.kind = r.kind /\ m.root = r.root /\ m.during = r.during
        /\ m.pinned = r.pinned /\ m.source = r.source /\ m.agent = r.agent
        /\ m.person = r.person /\ m.state = r.state
    BY <2>1, <2>2, <2>3 DEF MergeRow
  <2>6. m.kind = "media" => m.state \in {"ACTIVE", "STAGED"} BY <2>3, <2>5 DEF MergeRows
  <2> QED BY <2>3, <2>4, <2>5, <2>6
<1> QED BY <1>1, <1>2, <1>3

\* A row of a kind that may be there once is active only where one was, and where two would
\* meet one of them is gone, dropped, retained as history or not the one that stays.
LEMMA MergedOnce ==
    ASSUME NEW c \in People, NEW d \in People, c # d, Merging!TypeOK, MergeRows,
           NEW kept, kept \subseteq Merging!Collisions(c, d),
           NEW dropped, dropped \in Merging!Resolutions(c, d),
           NEW chosen, chosen \in Merging!TextChoices(c, d),
           NEW i \in DOMAIN rows, rows[i].kind \in Merging!Collide \cup {"fact", "profile", "text"},
           NEW m, m = Merging!Result(c, d, kept, dropped, chosen, i), m.state = "ACTIVE"
    PROVE  /\ rows[i].state = "ACTIVE"
           /\ m.person = IF rows[i].person = d THEN c ELSE rows[i].person
           /\ i \notin dropped
           /\ rows[i].kind = "profile" => \A x \in Merging!Conflicts(c, d) : x[2] # i
           /\ rows[i].kind = "text" /\ rows[i].person \in {c, d} =>
                  i = TextKept(c, d, chosen, rows[i].root)
<1>0. rows[i] \in MergeRow BY MergeTypes
<1>d. \A j \in dropped :
         j \in DOMAIN rows /\ rows[j].kind = "fact" /\ rows[j].person \in {c, d}
  BY DroppedFacts
<1>1. CASE rows[i].kind = "text"
  <2>1. m = Merging!MovedText(c, d, chosen, i) BY <1>1 DEF Merging!Result, Merging!Facts
  <2>2. rows[i].state = "ACTIVE"
    BY <1>0, <1>1, <2>1 DEF Merging!MovedText, MergeRow
  <2> QED BY <1>0, <1>1, <1>d, <2>1, <2>2, MergedText
<1>2. CASE rows[i].kind \in {"fact", "profile"}
  <2>0. rows[i].kind # "text" /\ rows[i].kind \in Merging!Facts BY <1>2 DEF Merging!Facts
  <2>1. m = Merging!MovedFact(c, d, dropped, i) BY <1>2, <2>0 DEF Merging!Result
  <2> QED BY <1>2, <1>d, <2>0, <2>1, MergedFact
<1>3. CASE rows[i].kind \in Merging!Collide
  <2> DEFINE r == Merging!Moved(c, d, rows[i])
             w == Merging!NoteOf(kept, i)
  <2>0. rows[i].kind # "text" /\ rows[i].kind \notin Merging!Facts /\ rows[i].kind # "media"
        /\ rows[i].kind # "fact" /\ rows[i].kind # "profile"
    BY <1>3 DEF Merging!Facts, Merging!Collide
  <2>1. m = [r EXCEPT !.note = w] BY <1>3, <2>0 DEF Merging!Result
  <2>2. /\ r \in MergeRow
        /\ r.state = rows[i].state
        /\ r.person = IF rows[i].person = d THEN c ELSE rows[i].person
    BY <1>0, <1>3, <2>0, MovedRow
  <2> HIDE DEF r, w
  <2>3. m.person = r.person /\ m.state = r.state BY <2>1, <2>2 DEF MergeRow
  <2> QED BY <1>d, <2>0, <2>2, <2>3
<1> QED BY <1>1, <1>2, <1>3


LEMMA ExecuteKeepsOne ==
    ASSUME NEW c \in People, NEW d \in People, c # d, Merging!TypeOK, MergeRows,
           Merging!OneOfEach, c # Nobody,
           NEW kept, kept \subseteq Merging!Collisions(c, d),
           NEW dropped, dropped \in Merging!Resolutions(c, d),
           NEW chosen, chosen \in Merging!TextChoices(c, d),
           DOMAIN rows' = DOMAIN rows \ Merging!Gone(c, d, kept),
           \A i \in DOMAIN rows' : rows'[i] = Merging!Result(c, d, kept, dropped, chosen, i)
    PROVE  Merging!OneOfEach'
<1> SUFFICES ASSUME NEW i \in DOMAIN rows', NEW j \in DOMAIN rows', i # j,
                    Merging!Clash(rows'[i], rows'[j])
             PROVE  FALSE
  BY DEF Merging!OneOfEach, Merging!OneOfEachIn
<1> DEFINE a == rows'[i]
           b == rows'[j]
<1>1. i \in DOMAIN rows /\ j \in DOMAIN rows OBVIOUS
<1>2. /\ a = Merging!Result(c, d, kept, dropped, chosen, i)
      /\ b = Merging!Result(c, d, kept, dropped, chosen, j)
  OBVIOUS
<1>3. /\ a.kind = b.kind /\ a.person = b.person /\ a.root = b.root
      /\ a.kind \in Merging!Collide \cup {"fact", "profile", "text"}
      /\ a.state = "ACTIVE" /\ b.state = "ACTIVE"
      /\ a.kind = "fact" => a.during \cap b.during # {}
      /\ a.kind = "item" => a.pinned = b.pinned
  BY DEF Merging!Clash
<1>4. /\ a.kind = rows[i].kind /\ a.root = rows[i].root /\ a.during = rows[i].during
      /\ a.pinned = rows[i].pinned
  BY <1>1, <1>2, MergedRow
<1>5. /\ b.kind = rows[j].kind /\ b.root = rows[j].root /\ b.during = rows[j].during
      /\ b.pinned = rows[j].pinned
  BY <1>1, <1>2, MergedRow
<1> HIDE DEF a, b
<1>k. /\ rows[i].kind \in Merging!Collide \cup {"fact", "profile", "text"}
      /\ rows[j].kind \in Merging!Collide \cup {"fact", "profile", "text"}
  BY <1>3, <1>4, <1>5
<1>6. /\ rows[i].state = "ACTIVE"
      /\ a.person = (IF rows[i].person = d THEN c ELSE rows[i].person)
      /\ i \notin dropped
      /\ rows[i].kind = "profile" => \A x \in Merging!Conflicts(c, d) : x[2] # i
      /\ rows[i].kind = "text" /\ rows[i].person \in {c, d} =>
             i = TextKept(c, d, chosen, rows[i].root)
  BY <1>1, <1>2, <1>3, <1>k, MergedOnce
<1>7. /\ rows[j].state = "ACTIVE"
      /\ b.person = (IF rows[j].person = d THEN c ELSE rows[j].person)
      /\ j \notin dropped
      /\ rows[j].kind = "profile" => \A x \in Merging!Conflicts(c, d) : x[2] # j
      /\ rows[j].kind = "text" /\ rows[j].person \in {c, d} =>
             j = TextKept(c, d, chosen, rows[j].root)
  BY <1>1, <1>2, <1>3, <1>k, MergedOnce
<1>8. rows[i].person # rows[j].person
  <2>1. ~Merging!Clash(rows[i], rows[j]) BY <1>1 DEF Merging!OneOfEach, Merging!OneOfEachIn
  <2> QED BY <2>1, <1>3, <1>4, <1>5, <1>6, <1>7 DEF Merging!Clash
<1>9. {rows[i].person, rows[j].person} = {c, d} BY <1>3, <1>6, <1>7, <1>8
\* the row of c and the row of d that meet
<1>10. PICK k \in {i, j}, m \in {i, j} : k # m /\ rows[k].person = c /\ rows[m].person = d
  BY <1>8, <1>9
<1>11. /\ k \in DOMAIN rows /\ m \in DOMAIN rows /\ k \in DOMAIN rows' /\ m \in DOMAIN rows'
       /\ rows[k].kind = rows[m].kind /\ rows[k].root = rows[m].root
       /\ rows[k].state = "ACTIVE" /\ rows[m].state = "ACTIVE"
       /\ rows[k].kind = "fact" => rows[k].during \cap rows[m].during # {}
       /\ rows[k].kind = "item" => rows[k].pinned = rows[m].pinned
       /\ rows[k].kind \in Merging!Collide \cup {"fact", "profile", "text"}
  BY <1>1, <1>3, <1>4, <1>5, <1>6, <1>7, <1>10
<1>12. /\ k \notin dropped /\ m \notin dropped
       /\ rows[m].kind = "profile" => \A x \in Merging!Conflicts(c, d) : x[2] # m
       /\ rows[k].kind = "text" => k = TextKept(c, d, chosen, rows[k].root)
       /\ rows[m].kind = "text" => m = TextKept(c, d, chosen, rows[m].root)
  BY <1>6, <1>7, <1>10
<1>13. CASE rows[k].kind \in Merging!Collide
  <2> DEFINE x == <<k, m>>
  <2>1. x \in Merging!Collisions(c, d)
    BY <1>10, <1>11, <1>13 DEF Merging!Collisions, Merging!Of
  <2>2. \E g \in {k, m} : g \in Merging!Gone(c, d, kept)
    <3>1. x[1] = k /\ x[2] = m OBVIOUS
    <3> HIDE DEF x
    <3>2. (IF Merging!Survivor(x, x \in kept) = x[1] THEN x[2] ELSE x[1])
            \in Merging!Gone(c, d, kept)
      BY <2>1 DEF Merging!Gone
    <3> QED BY <3>1, <3>2
  <2> QED BY <2>2, <1>11
<1>14. CASE rows[k].kind \in {"fact", "profile"}
  <2> DEFINE x == <<k, m>>
             r == [rows[k] EXCEPT !.person = d]
  <2>1. x \in Merging!Of(c, Merging!Facts) \X Merging!Of(d, Merging!Facts)
    BY <1>10, <1>11, <1>14 DEF Merging!Of, Merging!Facts
  <2>2. rows[k] \in MergeRow BY <1>11, MergeTypes
  <2>3. /\ r.kind = rows[k].kind /\ r.person = d /\ r.root = rows[k].root
        /\ r.state = rows[k].state /\ r.during = rows[k].during
    BY <2>2 DEF MergeRow
  <2>i. rows[k].kind # "item" BY <1>14
  <2> HIDE DEF r
  <2>4. Merging!Clash(r, rows[m])
    BY <1>10, <1>11, <2>3, <2>i DEF Merging!Clash
  <2>5. x[1] = k /\ x[2] = m OBVIOUS
  <2>6. x \in Merging!Conflicts(c, d)
    BY <2>1, <2>4, <2>5 DEF r, Merging!Conflicts
  <2> HIDE DEF x
  <2>7. CASE rows[k].kind = "fact" BY <1>12, <2>5, <2>6, <2>7, DroppedFacts
  <2>8. CASE rows[k].kind = "profile" BY <1>11, <1>12, <2>5, <2>6, <2>8
  <2> QED BY <1>14, <2>7, <2>8
<1>15. CASE rows[k].kind = "text" BY <1>10, <1>11, <1>12, <1>15
<1> QED BY <1>11, <1>13, <1>14, <1>15

LEMMA ExecuteLeavesNothing ==
    ASSUME NEW c \in People, NEW d \in People, c # d, Merging!TypeOK, MergeRows,
           Merging!NothingLeftBehind, c \notin DOMAIN alias, d \notin DOMAIN alias,
           DOMAIN alias' = DOMAIN alias \cup {d},
           NEW kept, kept \subseteq Merging!Collisions(c, d),
           NEW dropped, dropped \in Merging!Resolutions(c, d),
           NEW chosen, chosen \in Merging!TextChoices(c, d),
           DOMAIN rows' = DOMAIN rows \ Merging!Gone(c, d, kept),
           \A i \in DOMAIN rows' : rows'[i] = Merging!Result(c, d, kept, dropped, chosen, i)
    PROVE  Merging!NothingLeftBehind'
<1> SUFFICES ASSUME NEW i \in DOMAIN rows'
             PROVE  /\ rows'[i].agent \notin DOMAIN alias'
                    /\ rows'[i].person \in DOMAIN alias' =>
                         \/ rows'[i].state \in MergeHistory
                         \/ rows'[i].kind \in {"upload", "asset"} /\ rows'[i].source = NoSource
  BY DEF Merging!NothingLeftBehind, MergeHistory
<1>n. Nobody \notin DOMAIN alias' BY MergeNamed, MergeTypes
<1>0. i \in DOMAIN rows OBVIOUS
<1> DEFINE m == rows'[i]
<1>1. m = Merging!Result(c, d, kept, dropped, chosen, i) OBVIOUS
<1>2. /\ m.kind = rows[i].kind /\ m.source = rows[i].source
      /\ m.agent # Nobody => m.agent # d /\ m.agent \in {rows[i].agent, c}
      /\ m.person \in {rows[i].person, c, Nobody}
      /\ rows[i].person \notin {c, d} => m.person = rows[i].person /\ m.state = rows[i].state
      /\ m.person = d => \/ m.state \in MergeHistory
                         \/ m.kind \in {"upload", "asset"} /\ m.source = NoSource
  BY <1>0, <1>1, MergedRow
<1>3. /\ rows[i].agent \notin DOMAIN alias
      /\ rows[i].person \in DOMAIN alias =>
             \/ rows[i].state \in MergeHistory
             \/ rows[i].kind \in {"upload", "asset"} /\ rows[i].source = NoSource
  BY <1>0 DEF Merging!NothingLeftBehind, MergeHistory
<1>4. m.agent \notin DOMAIN alias' BY <1>2, <1>3, <1>n
<1>5. ASSUME m.person \in DOMAIN alias', m.person # d
      PROVE  \/ m.state \in MergeHistory
             \/ m.kind \in {"upload", "asset"} /\ m.source = NoSource
  BY <1>2, <1>3, <1>5, <1>n
<1> QED BY <1>2, <1>4, <1>5


LEMMA MergedPersons ==
    ASSUME NEW c \in People, NEW d \in People, NEW value,
           person[c] \in MergePerson, person[d] \in MergePerson
    PROVE  /\ Merging!Retired(d) \in MergePerson
           /\ Merging!Canonical(value, c, d) \in MergePerson
           /\ Merging!Canonical(value, c, d).source = person[c].source
           /\ Merging!Canonical(value, c, d).from =
                 IF value = "CANONICAL" THEN person[c].from ELSE person[d].from
<1> DEFINE q == person[c]
           r == person[d]
<1>0. q \in MergePerson /\ r \in MergePerson OBVIOUS
<1>1. q.rev + 1 \in Nat /\ r.rev + 1 \in Nat BY <1>0 DEF MergePerson
<1>a. Merging!Retired(d) = [r EXCEPT !.rev = r.rev + 1, !.status = "ARCHIVED"]
  BY DEF Merging!Retired
<1>b. Merging!Canonical(value, c, d) =
        [q EXCEPT !.rev = q.rev + 1, !.value = IF value = "CANONICAL" THEN q.value ELSE r.value,
                  !.from = IF value = "CANONICAL" THEN q.from ELSE r.from]
  BY DEF Merging!Canonical
<1> HIDE DEF q, r
<1>2. Merging!Retired(d) \in MergePerson BY <1>0, <1>1, <1>a DEF MergePerson
<1>3. CASE value = "CANONICAL"
  <2>1. Merging!Canonical(value, c, d) =
          [q EXCEPT !.rev = q.rev + 1, !.value = q.value, !.from = q.from]
    BY <1>b, <1>3
  <2> QED BY <1>0, <1>1, <1>2, <1>3, <2>1 DEF MergePerson, q, r
<1>4. CASE value # "CANONICAL"
  <2>1. Merging!Canonical(value, c, d) =
          [q EXCEPT !.rev = q.rev + 1, !.value = r.value, !.from = r.from]
    BY <1>b, <1>4
  <2> QED BY <1>0, <1>1, <1>2, <1>4, <2>1 DEF MergePerson, q, r
<1> QED BY <1>3, <1>4

\* the execution of a merge: what its screen showed, and the records after it
LEMMA MergeExecute ==
    ASSUME MergeInv, NEW value, NEW kept, NEW dropped, NEW chosen,
           Merging!Execute(value, kept, dropped, chosen)
    PROVE  MergeInv' /\ Merging!MergesAsShown
<1> DEFINE c == preview.canonical
           d == preview.duplicate
<1>n. Nobody \notin People BY MergeNamed
<1>i. /\ Merging!TypeOK /\ DOMAIN person = People /\ MergeRows /\ MergeScreen
      /\ Merging!NoChains /\ Merging!NothingLeftBehind /\ Merging!OneOfEach
      /\ Merging!ValuesHaveTheirSource
  BY DEF MergeInv
<1>1. /\ c # Nobody /\ Merging!Open(c) /\ Merging!Open(d)
      /\ Merging!Digest(c, d) = preview.digest /\ ~Merging!Blocked(c, d)
      /\ value \in Merging!Choices(c, d) /\ kept \subseteq Merging!Collisions(c, d)
      /\ dropped \in Merging!Resolutions(c, d) /\ chosen \in Merging!TextChoices(c, d)
  BY DEF Merging!Execute
<1>2. /\ DOMAIN rows' = DOMAIN rows \ Merging!Gone(c, d, kept)
      /\ \A i \in DOMAIN rows' : rows'[i] = Merging!Result(c, d, kept, dropped, chosen, i)
      /\ alias' = [p \in DOMAIN alias \cup {d} |-> IF p = d THEN c ELSE alias[p]]
      /\ preview' = Merging!NoPreview /\ UNCHANGED <<hidden, perms, deleting, other>>
  BY DEF Merging!Execute
<1>3. person' = [person EXCEPT ![c] = Merging!Canonical(value, c, d),
                               ![d] = Merging!Retired(d)]
  BY DEF Merging!Execute
<1>4. /\ c \in People /\ d \in People /\ c # d
      /\ \A x \in preview.digest.collisions :
             x[2] = preview.notes[x[1][1]] /\ x[3] = preview.notes[x[1][2]]
      /\ \A i \in DOMAIN preview.digest.whole :
             preview.digest.whole[i].note = preview.notes[i]
  BY <1>1, <1>i DEF MergeScreen
<1>5. /\ c \notin DOMAIN alias /\ d \notin DOMAIN alias
      /\ \A old \in DOMAIN alias : alias[old] # d
  BY <1>1 DEF Merging!Open, Merging!Blocked
<1>k. /\ DOMAIN alias' = DOMAIN alias \cup {d} /\ alias'[d] = c
      /\ \A p \in DOMAIN alias : alias'[p] = alias[p]
  BY <1>2, <1>5
<1> DEFINE T == Merging!Collisions(c, d)
           G == Merging!Digest(c, d)
<1>6. G = preview.digest BY <1>1
<1>7. \A x \in T : \A i \in {x[1], x[2]} : preview.notes[i] = rows[i].note
  <2> TAKE x \in T
  <2> DEFINE t == <<x, rows[x[1]].note, rows[x[2]].note>>
  <2>1. t[1] = x /\ t[2] = rows[x[1]].note /\ t[3] = rows[x[2]].note OBVIOUS
  <2>2. t \in G.collisions BY DEF Merging!Digest
  <2> HIDE DEF t, T, G, c, d
  <2> QED BY <2>1, <2>2, <1>4, <1>6
<1> DEFINE W == {i \in DOMAIN rows : rows[i].kind \in Merging!Facts \cup {"grant", "item"}}
                  \cup Merging!Texts(c, d)
<1>8. G.whole = [i \in W |-> rows[i]] BY DEF Merging!Digest
<1>9. \A i \in W : preview.notes[i] = rows[i].note
  <2> HIDE DEF W, G
  <2> QED BY <1>4, <1>6, <1>8
<1>10. \A x \in Merging!Conflicts(c, d) : x[1] \in W /\ x[2] \in W
  <2> TAKE x \in Merging!Conflicts(c, d)
  <2>1. x \in Merging!Of(c, Merging!Facts) \X Merging!Of(d, Merging!Facts)
    BY DEF Merging!Conflicts
  <2> QED BY <2>1 DEF Merging!Of
<1>11. \A i \in Merging!Texts(c, d) : i \in W OBVIOUS
<1> HIDE DEF W, T, G
<1>12. \A i \in DOMAIN rows' :
         /\ rows'[i] \in MergeRow
         /\ rows'[i].agent # Nobody => rows'[i].kind = "representation"
         /\ rows'[i].kind = "media" => rows'[i].state \in {"ACTIVE", "STAGED"}
         /\ rows'[i].kind \in Merging!Grantlike /\ rows'[i].state = "ACTIVE"
              => rows'[i].person \notin {c, d}
  <2> TAKE i \in DOMAIN rows'
  <2>1. i \in DOMAIN rows /\ rows'[i] = Merging!Result(c, d, kept, dropped, chosen, i) BY <1>2
  <2> HIDE DEF c, d
  <2> QED BY <2>1, <1>1, <1>4, <1>i, MergedRow
<1> HIDE DEF c, d
<1>13. /\ \A p \in People : person'[p] \in MergePerson
       /\ DOMAIN person' = People
       /\ \A p \in People \ {d} : person'[p].from = person'[p].source \/ p \in DOMAIN alias
  <2>0. person[c] \in MergePerson /\ person[d] \in MergePerson BY <1>4, <1>i, MergeTypes
  <2>1. person[c].from = person[c].source /\ person[d].from = person[d].source
    BY <1>4, <1>5, <1>i DEF Merging!ValuesHaveTheirSource
  <2>2. value = "CANONICAL" \/ person[c].source = person[d].source
    BY <1>1 DEF Merging!Choices
  <2>3. /\ DOMAIN person' = People
        /\ \A p \in People \ {c, d} : person'[p] = person[p]
        /\ person'[d] = Merging!Retired(d) /\ person'[c] = Merging!Canonical(value, c, d)
    BY <1>3, <1>4, <1>i
  <2>5. person'[d] \in MergePerson BY <1>4, <2>0, <2>3, MergedPersons
  <2>6. /\ person'[c] \in MergePerson /\ person'[c].source = person[c].source
        /\ person'[c].from = IF value = "CANONICAL" THEN person[c].from ELSE person[d].from
    BY <1>4, <2>0, <2>3, MergedPersons
  <2>7. person'[c].from = person'[c].source BY <2>1, <2>2, <2>6
  <2>8. \A p \in People : person[p] \in MergePerson BY <1>i, MergeTypes
  <2> QED BY <2>3, <2>5, <2>6, <2>7, <2>8, <1>4, <1>i DEF Merging!ValuesHaveTheirSource
<1>14. Merging!TypeOK'
  <2>1. DOMAIN rows' \subseteq MergeIds BY <1>2, <1>i, MergeTypes
  <2> QED BY <2>1, <1>k, <1>2, <1>4, <1>12, <1>13, <1>i, MergeTypes, MergeTypesNext
<1>15. Merging!NoChains' BY <1>4, <1>5, <1>i, <1>k DEF Merging!NoChains
<1>16. Merging!ValuesHaveTheirSource' BY <1>13, <1>k DEF Merging!ValuesHaveTheirSource
<1>17. Merging!OneOfEach' BY <1>1, <1>2, <1>4, <1>i, ExecuteKeepsOne
<1>18. Merging!NothingLeftBehind' BY <1>1, <1>2, <1>4, <1>5, <1>i, <1>k, ExecuteLeavesNothing
<1>19. MergeRows' BY <1>12 DEF MergeRows
<1>20. MergeScreen' BY <1>2 DEF MergeScreen, Merging!NoPreview
<1>21. MergeInv' BY <1>13, <1>14, <1>15, <1>16, <1>17, <1>18, <1>19, <1>20 DEF MergeInv
<1>22. /\ \A x \in T : \A i \in {x[1], x[2]} : preview.notes[i] = rows[i].note
       /\ \A x \in Merging!Conflicts(c, d) : \A i \in {x[1], x[2]} :
              preview.notes[i] = rows[i].note
       /\ \A i \in Merging!Texts(c, d) : preview.notes[i] = rows[i].note
  BY <1>7, <1>9, <1>10, <1>11
<1> QED BY <1>12, <1>21, <1>22 DEF T, c, d, Merging!MergesAsShown


LEMMA MergePreview ==
    ASSUME MergeInv, NEW c \in People, NEW d \in People, Merging!Preview(c, d)
    PROVE  MergeInv' /\ UNCHANGED alias
<1>1. /\ c # d /\ UNCHANGED <<person, rows, alias, hidden, perms, deleting, other>>
      /\ preview' = [canonical |-> c, duplicate |-> d, digest |-> Merging!Digest(c, d),
                     notes |-> [i \in DOMAIN rows |-> rows[i].note]]
  BY DEF Merging!Preview
<1> DEFINE g == Merging!Digest(c, d)
           q == [i \in DOMAIN rows |-> rows[i].note]
<1>2. \A x \in g.collisions : x[2] = q[x[1][1]] /\ x[3] = q[x[1][2]]
  <2> TAKE x \in g.collisions
  <2>1. g.collisions =
          {<<y, rows[y[1]].note, rows[y[2]].note>> : y \in Merging!Collisions(c, d)}
    BY DEF Merging!Digest
  <2>2. PICK y \in Merging!Collisions(c, d) : x = <<y, rows[y[1]].note, rows[y[2]].note>>
    BY <2>1
  <2>3. y[1] \in DOMAIN rows /\ y[2] \in DOMAIN rows
    BY DEF Merging!Collisions, Merging!Of
  <2> HIDE DEF g
  <2> QED BY <2>2, <2>3
<1>3. \A i \in DOMAIN g.whole : g.whole[i].note = q[i]
  <2> DEFINE W == {i \in DOMAIN rows : rows[i].kind \in Merging!Facts \cup {"grant", "item"}}
                    \cup Merging!Texts(c, d)
  <2>1. g.whole = [i \in W |-> rows[i]] BY DEF Merging!Digest
  <2>2. W \subseteq DOMAIN rows BY DEF Merging!Texts, Merging!Of
  <2> HIDE DEF W, g
  <2> QED BY <2>1, <2>2
<1> HIDE DEF g, q
<1>4. /\ preview'.canonical = c /\ preview'.duplicate = d /\ preview'.digest = g
      /\ preview'.notes = q
  BY <1>1 DEF g, q
<1>5. MergeScreen' BY <1>1, <1>2, <1>3, <1>4 DEF MergeScreen
<1> QED BY <1>1, <1>5, MergeTypes, MergeTypesNext
    DEF MergeInv, MergeRows, Merging!NoChains, Merging!NothingLeftBehind, Merging!OneOfEach,
        Merging!OneOfEachIn, Merging!Clash, Merging!ValuesHaveTheirSource

LEMMA MergeEdit ==
    ASSUME MergeInv, NEW i \in DOMAIN rows, NEW n \in Notes, Merging!Edit(i, n)
    PROVE  MergeInv' /\ UNCHANGED alias
<1>1. /\ UNCHANGED <<alias, hidden, perms, deleting, preview>>
      /\ rows' = [rows EXCEPT ![i].note = n] /\ other < MaxOther /\ other' = other + 1
      /\ person' = IF rows[i].kind = "contact"
                   THEN [person EXCEPT ![rows[i].person].rev = @ + 1] ELSE person
  BY DEF Merging!Edit, Merging!Request
<1>i. /\ Merging!TypeOK /\ DOMAIN person = People /\ MergeRows /\ MergeScreen
      /\ Merging!NoChains /\ Merging!NothingLeftBehind /\ Merging!OneOfEach
      /\ Merging!ValuesHaveTheirSource
  BY DEF MergeInv
<1>2. /\ DOMAIN person' = People
      /\ \A p \in People : /\ person'[p] \in MergePerson
                           /\ person'[p].source = person[p].source
                           /\ person'[p].from = person[p].from
  <2>1. \A p \in People : person[p] \in MergePerson BY <1>i, MergeTypes
  <2>2. CASE rows[i].kind = "contact" /\ rows[i].person \in People
    <3> DEFINE q == rows[i].person
               v == person[q]
    <3>1. v \in MergePerson /\ v.rev + 1 \in Nat BY <2>1, <2>2 DEF MergePerson
    <3>2. person' = [person EXCEPT ![q] = [v EXCEPT !.rev = v.rev + 1]] BY <1>1, <2>2
    <3> DEFINE u == [v EXCEPT !.rev = v.rev + 1]
    <3>3. u \in MergePerson /\ u.source = v.source /\ u.from = v.from
      <4> HIDE DEF v
      <4> QED BY <3>1 DEF MergePerson
    <3>4. person'[q] = u /\ \A p \in People \ {q} : person'[p] = person[p]
      BY <1>i, <2>2, <3>2
    <3>5. DOMAIN person' = People BY <1>i, <3>2
    <3> HIDE DEF u
    <3> QED BY <2>1, <3>3, <3>4, <3>5
  <2>3. CASE ~(rows[i].kind = "contact" /\ rows[i].person \in People)
    <3>1. DOMAIN person' = People /\ \A p \in People : person'[p] = person[p]
      BY <1>1, <1>i, <2>3
    <3> QED BY <2>1, <3>1
  <2> QED BY <2>2, <2>3
<1>3. /\ DOMAIN rows' = DOMAIN rows
      /\ \A j \in DOMAIN rows :
           /\ rows'[j] \in MergeRow /\ rows'[j].kind = rows[j].kind
           /\ rows'[j].person = rows[j].person /\ rows'[j].agent = rows[j].agent
           /\ rows'[j].source = rows[j].source /\ rows'[j].root = rows[j].root
           /\ rows'[j].during = rows[j].during /\ rows'[j].state = rows[j].state
           /\ rows'[j].pinned = rows[j].pinned
  <2>1. DOMAIN rows' = DOMAIN rows BY <1>1
  <2>2. \A j \in DOMAIN rows : rows[j] \in MergeRow BY <1>i, MergeTypes
  <2>3. \A j \in DOMAIN rows \ {i} : rows'[j] = rows[j] BY <1>1
  <2>4. rows'[i] = [rows[i] EXCEPT !.note = n] BY <1>1
  <2>5. /\ rows'[i] \in MergeRow /\ rows'[i].kind = rows[i].kind
        /\ rows'[i].person = rows[i].person /\ rows'[i].agent = rows[i].agent
        /\ rows'[i].source = rows[i].source /\ rows'[i].root = rows[i].root
        /\ rows'[i].during = rows[i].during /\ rows'[i].state = rows[i].state
        /\ rows'[i].pinned = rows[i].pinned
    BY <2>2, <2>4 DEF MergeRow
  <2> QED BY <2>1, <2>2, <2>3, <2>5
<1>4. other' \in 0..MaxOther BY <1>1, <1>i, MergeTypes, MergeNamed
<1>5. Merging!TypeOK' BY <1>1, <1>2, <1>3, <1>4, <1>i, MergeTypes, MergeTypesNext
<1>6. MergeRows' BY <1>3, <1>i DEF MergeRows
<1>7. MergeScreen' BY <1>1, <1>i DEF MergeScreen
<1>8. Merging!NoChains' BY <1>1, <1>i DEF Merging!NoChains
<1>9. Merging!NothingLeftBehind' BY <1>1, <1>3, <1>i DEF Merging!NothingLeftBehind
<1>10. Merging!OneOfEach'
  BY <1>3, <1>i DEF Merging!OneOfEach, Merging!OneOfEachIn, Merging!Clash
<1>11. Merging!ValuesHaveTheirSource' BY <1>1, <1>2, <1>i DEF Merging!ValuesHaveTheirSource
<1> QED BY <1>1, <1>2, <1>5, <1>6, <1>7, <1>8, <1>9, <1>10, <1>11 DEF MergeInv

LEMMA MergeAdd ==
    ASSUME MergeInv, NEW i \in MergeIds, NEW r \in MergeRow, r.agent = Nobody,
           r.kind # "media", Merging!Add(i, r)
    PROVE  MergeInv' /\ UNCHANGED alias
<1>1. /\ UNCHANGED <<person, alias, hidden, perms, deleting, preview>>
      /\ other < MaxOther /\ other' = other + 1
      /\ i \notin DOMAIN rows /\ r.person \notin DOMAIN alias /\ r.agent \notin DOMAIN alias
      /\ Merging!OneOfEachIn(Merging!Added(i, r)) /\ rows' = Merging!Added(i, r)
  BY DEF Merging!Add, Merging!Request
<1>i. /\ Merging!TypeOK /\ DOMAIN person = People /\ MergeRows /\ MergeScreen
      /\ Merging!NoChains /\ Merging!NothingLeftBehind /\ Merging!OneOfEach
      /\ Merging!ValuesHaveTheirSource
  BY DEF MergeInv
<1>2. /\ DOMAIN rows' = DOMAIN rows \cup {i} /\ rows'[i] = r
      /\ \A j \in DOMAIN rows : rows'[j] = rows[j]
  BY <1>1 DEF Merging!Added
<1>3. other' \in 0..MaxOther BY <1>1, <1>i, MergeTypes, MergeNamed
<1>4. Merging!TypeOK' BY <1>1, <1>2, <1>3, <1>i, MergeTypes, MergeTypesNext
<1>5. MergeRows' BY <1>2, <1>i DEF MergeRows
<1>6. MergeScreen' BY <1>1, <1>i DEF MergeScreen
<1>7. Merging!NothingLeftBehind' BY <1>1, <1>2, <1>i DEF Merging!NothingLeftBehind
<1>8. Merging!OneOfEach'
  BY <1>1 DEF Merging!OneOfEach, Merging!OneOfEachIn, Merging!Clash
<1> QED BY <1>1, <1>4, <1>5, <1>6, <1>7, <1>8, <1>i
    DEF MergeInv, Merging!NoChains, Merging!ValuesHaveTheirSource

\* a suspension, a change of scope, a request to delete
LEMMA MergeAround ==
    ASSUME MergeInv,
           \/ \E x \in Sources \cup RootIds : Merging!Hide(x)
           \/ \E p \in People : Merging!RequestDeletion(p)
           \/ UNCHANGED mergeVars
    PROVE  MergeInv' /\ UNCHANGED alias
<1>i. /\ Merging!TypeOK /\ DOMAIN person = People /\ MergeRows /\ MergeScreen
      /\ Merging!NoChains /\ Merging!NothingLeftBehind /\ Merging!OneOfEach
      /\ Merging!ValuesHaveTheirSource
  BY DEF MergeInv
<1>1. UNCHANGED <<person, rows, alias, perms, preview>>
  BY DEF Merging!Hide, Merging!RequestDeletion, mergeVars
<1>2. hidden' \subseteq Sources \cup RootIds /\ deleting' \subseteq People
  BY <1>i, MergeTypes DEF Merging!Hide, Merging!RequestDeletion, mergeVars
<1>3. other' \in 0..MaxOther
  BY <1>i, MergeTypes, MergeNamed
  DEF Merging!Hide, Merging!RequestDeletion, Merging!Request, mergeVars
<1>4. Merging!TypeOK' BY <1>1, <1>2, <1>3, <1>i, MergeTypes, MergeTypesNext
<1>5. MergeRows' /\ MergeScreen' BY <1>1, <1>i DEF MergeRows, MergeScreen
<1>6. Merging!OneOfEach'
  BY <1>1, <1>i DEF Merging!OneOfEach, Merging!OneOfEachIn, Merging!Clash
<1> QED BY <1>1, <1>4, <1>5, <1>6, <1>i
    DEF MergeInv, Merging!NoChains, Merging!ValuesHaveTheirSource, Merging!NothingLeftBehind

LEMMA MergeStepKeeps ==
    ASSUME MergeInv, Merging!MergeNext \/ UNCHANGED mergeVars
    PROVE  MergeInv' /\ Merging!MergesAsShown
<1>a. UNCHANGED alias => Merging!MergesAsShown BY DEF Merging!MergesAsShown
<1>1. CASE UNCHANGED mergeVars BY <1>1, <1>a, MergeAround
<1>2. CASE Merging!MergeNext
  <2>1. ASSUME NEW c \in People, NEW d \in People, Merging!Preview(c, d)
        PROVE  MergeInv' /\ Merging!MergesAsShown
    BY <1>a, <2>1, MergePreview
  <2>2. ASSUME NEW value, NEW kept, NEW dropped, NEW chosen,
               Merging!Execute(value, kept, dropped, chosen)
        PROVE  MergeInv' /\ Merging!MergesAsShown
    BY <2>2, MergeExecute
  <2>3. ASSUME NEW i \in DOMAIN rows, NEW n \in Notes, Merging!Edit(i, n)
        PROVE  MergeInv' /\ Merging!MergesAsShown
    BY <1>a, <2>3, MergeEdit
  <2>4. ASSUME NEW i \in MergeIds, NEW p \in {p1, p2},
               Merging!Add(i, Merging!Row("handoff", p, s1))
        PROVE  MergeInv' /\ Merging!MergesAsShown
    <3> DEFINE r == Merging!Row("handoff", p, s1)
    <3>1. r \in MergeRow /\ r.agent = Nobody /\ r.kind # "media"
      BY MergeNamed DEF Merging!Row, MergeRow, Merging!Kinds, Merging!Grantlike, Merging!Periods,
         Merging!States
    <3> QED BY <1>a, <2>4, <3>1, MergeAdd
  <2>5. CASE \/ \E x \in Sources \cup RootIds : Merging!Hide(x)
             \/ \E p \in People : Merging!RequestDeletion(p)
    BY <1>a, <2>5, MergeAround
  <2> QED BY <1>2, <2>1, <2>2, <2>3, <2>4, <2>5
      DEF Merging!MergeNext, Merging!MergeSteps, Merging!Both
<1> QED BY <1>1, <1>2

LEMMA MergeStarts ==
    ASSUME Merging!MergeInit PROVE MergeInv
<1>n. /\ Nobody \notin People /\ NoSource \notin Sources
      /\ {p1, p2, p3} \subseteq People /\ {s1, s2} \subseteq Sources
      /\ wo \in RootIds /\ {1, 2} \subseteq Notes
  BY MergeNamed
<1> DEFINE InUse(r) ==
             /\ r \in MergeRow /\ (r.agent # Nobody => r.kind = "representation")
             /\ r.kind = "media" => r.state \in {"ACTIVE", "STAGED"}
<1>1. \A r \in Merging!AllRows : InUse(r)
  <2>1. \A k \in Merging!Kinds, p \in {p1, p2, p3}, s \in Sources \cup {NoSource} :
          /\ Merging!Row(k, p, s) \in MergeRow /\ Merging!Row(k, p, s).agent = Nobody
          /\ Merging!Row(k, p, s).state = "ACTIVE" /\ Merging!Row(k, p, s).kind = k
    BY <1>n DEF Merging!Row, MergeRow, Merging!Periods, Merging!States
  <2>k. /\ {"fact", "proposal", "representation", "upload", "credit", "item", "asset", "media"}
             \subseteq Merging!Kinds
        /\ s1 \in Sources \cup {NoSource} /\ NoSource \in Sources \cup {NoSource}
    BY <1>n DEF Merging!Kinds, Merging!Grantlike, Merging!Collide, Merging!Facts
  <2>2. \A r \in Merging!Plain \cup Merging!Rooted : InUse(r)
    BY <2>1, <1>n DEF Merging!Plain, Merging!Rooted, Merging!Both, Merging!Kinds,
       Merging!Grantlike, Merging!Collide, Merging!Facts
  <2>3. \A r \in Merging!Periodic : InUse(r)
    <3> SUFFICES ASSUME NEW p \in {p1, p2}, NEW t \in Merging!Periods, NEW r,
                        r = [Merging!Row("fact", p, s1) EXCEPT !.during = t]
                 PROVE  InUse(r)
      BY DEF Merging!Periodic, Merging!Both
    <3> DEFINE q == Merging!Row("fact", p, s1)
    <3>1. q \in MergeRow /\ q.agent = Nobody /\ q.kind = "fact"
      BY <2>1, <2>k
    <3> HIDE DEF q
    <3>2. r = [q EXCEPT !.during = t] BY DEF q
    <3> QED BY <3>1, <3>2 DEF MergeRow
  <2>4. \A r \in Merging!Pending : InUse(r)
    <3> SUFFICES ASSUME NEW p \in {p1, p2}, NEW r,
                        r = [Merging!Row("proposal", p, s1) EXCEPT !.state = "PENDING"]
                 PROVE  InUse(r)
      BY DEF Merging!Pending, Merging!Both
    <3> DEFINE q == Merging!Row("proposal", p, s1)
    <3>1. q \in MergeRow /\ q.agent = Nobody /\ q.kind = "proposal"
      BY <2>1, <2>k
    <3> HIDE DEF q
    <3>2. r = [q EXCEPT !.state = "PENDING"] BY DEF q
    <3> QED BY <3>1, <3>2 DEF MergeRow, Merging!States
  <2>5. \A r \in Merging!Represented : InUse(r)
    <3> SUFFICES ASSUME NEW p \in {p1, p3}, NEW r,
                        r = [Merging!Row("representation", p, s1) EXCEPT !.agent = p2]
                 PROVE  InUse(r)
      BY DEF Merging!Represented
    <3> DEFINE q == Merging!Row("representation", p, s1)
    <3>1. q \in MergeRow /\ q.kind = "representation"
      BY <2>1, <2>k
    <3> HIDE DEF q
    <3>2. r = [q EXCEPT !.agent = p2] BY DEF q
    <3> QED BY <3>1, <3>2, <1>n DEF MergeRow
  <2>6. \A r \in Merging!Pinned : InUse(r)
    <3> SUFFICES ASSUME NEW p \in {p1, p2}, NEW k \in {"upload", "credit", "item"}, NEW r,
                        r = [Merging!Row(k, p, s1) EXCEPT !.pinned = TRUE]
                 PROVE  InUse(r)
      BY DEF Merging!Pinned, Merging!Both
    <3> DEFINE q == Merging!Row(k, p, s1)
    <3>1. q \in MergeRow /\ q.agent = Nobody /\ q.kind = k
      BY <2>1, <2>k
    <3> HIDE DEF q
    <3>2. r = [q EXCEPT !.pinned = TRUE] BY DEF q
    <3> QED BY <3>1, <3>2 DEF MergeRow
  <2>7. \A r \in Merging!Staged : InUse(r)
    <3> SUFFICES ASSUME NEW k \in {"upload", "asset", "media"}, NEW r,
                        r = [Merging!Row(k, p2, NoSource) EXCEPT !.state = "STAGED"]
                 PROVE  InUse(r)
      BY DEF Merging!Staged
    <3> DEFINE q == Merging!Row(k, p2, NoSource)
    <3>1. q \in MergeRow /\ q.agent = Nobody /\ q.kind = k
      BY <2>1, <2>k
    <3> HIDE DEF q
    <3>2. r = [q EXCEPT !.state = "STAGED"] BY DEF q
    <3> QED BY <3>1, <3>2 DEF MergeRow, Merging!States
  <2> QED BY <2>2, <2>3, <2>4, <2>5, <2>6, <2>7 DEF Merging!AllRows
<1> HIDE DEF InUse
<1>2. DOMAIN rows \subseteq MergeIds /\ \A i \in DOMAIN rows : InUse(rows[i])
  <2>1. ASSUME NEW a \in Merging!AllRows, rows = <<a>>
        PROVE  DOMAIN rows \subseteq MergeIds /\ \A i \in DOMAIN rows : InUse(rows[i])
    <3>1. DOMAIN rows = {1} /\ rows[1] = a BY <2>1
    <3> QED BY <3>1, <1>1 DEF MergeIds
  <2>2. ASSUME rows \in Merging!AllRows \X Merging!AllRows
        PROVE  DOMAIN rows \subseteq MergeIds /\ \A i \in DOMAIN rows : InUse(rows[i])
    <3>1. PICK a \in Merging!AllRows, b \in Merging!AllRows : rows = <<a, b>> BY <2>2
    <3>2. DOMAIN rows = {1, 2} /\ rows[1] = a /\ rows[2] = b BY <3>1
    <3> QED BY <3>2, <1>1 DEF MergeIds
  <2>3. ASSUME rows \in Merging!Overlapping
        PROVE  DOMAIN rows \subseteq MergeIds /\ \A i \in DOMAIN rows : InUse(rows[i])
    <3>1. PICK x \in {<<p1, p2>>, <<p2, p1>>} :
            rows = [i \in 1..3 |-> [Merging!Row("fact", IF i = 3 THEN x[1] ELSE x[2], s1)
                          EXCEPT !.during = IF i = 3 THEN {1, 2} ELSE {i}]]
      BY <2>3 DEF Merging!Overlapping
    <3>2. DOMAIN rows = {1, 2, 3} BY <3>1
    <3>3. x[1] \in {p1, p2} /\ x[2] \in {p1, p2} BY <3>1
    <3>4. \A i \in {1, 2, 3} : rows[i] \in Merging!Periodic
      <4> TAKE i \in {1, 2, 3}
      <4> DEFINE p == IF i = 3 THEN x[1] ELSE x[2]
                 t == IF i = 3 THEN {1, 2} ELSE {i}
      <4>1. rows[i] = [Merging!Row("fact", p, s1) EXCEPT !.during = t] BY <3>1
      <4>2. p \in Merging!Both /\ t \in Merging!Periods
        BY <3>3 DEF Merging!Both, Merging!Periods
      <4> HIDE DEF p, t
      <4> QED BY <4>1, <4>2 DEF Merging!Periodic
    <3>5. \A i \in {1, 2, 3} : InUse(rows[i]) BY <3>4, <1>1 DEF Merging!AllRows
    <3> QED BY <3>2, <3>5 DEF MergeIds
  <2> QED BY <2>1, <2>2, <2>3 DEF Merging!MergeInit, Merging!OneOrTwo
<1>3. /\ DOMAIN person = People
      /\ \A p \in People : person[p] \in MergePerson /\ person[p].from = person[p].source
  BY <1>n DEF Merging!MergeInit, Merging!Record, MergePerson
<1>4. /\ DOMAIN alias = {} /\ hidden = {} /\ deleting = {} /\ preview = Merging!NoPreview
      /\ other = 0 /\ Merging!OneOfEachIn(rows)
  BY DEF Merging!MergeInit
<1>5. Merging!TypeOK BY <1>2, <1>3, <1>4, MergeTypes, MergeNamed DEF InUse
<1>6. MergeRows BY <1>2 DEF InUse, MergeRows
<1>7. MergeScreen BY <1>4 DEF MergeScreen, Merging!NoPreview
<1> QED BY <1>3, <1>4, <1>5, <1>6, <1>7
    DEF MergeInv, Merging!NoChains, Merging!ValuesHaveTheirSource, Merging!NothingLeftBehind,
        Merging!OneOfEach

-------------------------------------------------------------------------------
(* The parts in a behaviour *)

\* the invariant of the parts that are proved about, each of its own behaviours
RestoringInv == part = "restoring" => RecoveryInv
JoiningInv == part = "joining" => IntakeInv
MakingInv == part = "making" => MakeInv
MergingInv == part = "merging" => MergeInv

LEMMA TalentStarts ==
    Init => RestoringInv /\ JoiningInv /\ MakingInv /\ MergingInv
<1>1. Init => RestoringInv /\ JoiningInv
  BY RecoveryStarts, IntakeStarts DEF Init, RestoringInv, JoiningInv
<1>2. Init => MakingInv BY MakeInit DEF Init, MakingInv
<1>3. Init => MergingInv BY MergeStarts DEF Init, MergingInv
<1> QED BY <1>1, <1>2, <1>3

\* A step of one part leaves the others alone.
LEMMA OnePart ==
    ASSUME [Next]_vars
    PROVE  /\ part' = part
           /\ part = "restoring" => Restoring!Next \/ UNCHANGED restoreVars
           /\ part = "joining" => Joining!IntakeNext \/ UNCHANGED joinVars
           /\ part = "making" => Making!ProdNext \/ UNCHANGED makeVars
           /\ part = "merging" => Merging!MergeNext \/ UNCHANGED mergeVars
<1>1. CASE UNCHANGED vars BY <1>1 DEF vars
<1>2. CASE MergingStep BY <1>2 DEF MergingStep
<1>3. CASE MakingStep BY <1>3 DEF MakingStep
<1>4. CASE RecordingStep BY <1>4 DEF RecordingStep
<1>5. CASE JoiningStep BY <1>5 DEF JoiningStep
<1>6. CASE MovingStep BY <1>6 DEF MovingStep
<1>7. CASE RestoringStep BY <1>7 DEF RestoringStep
<1> QED BY <1>1, <1>2, <1>3, <1>4, <1>5, <1>6, <1>7 DEF Next

LEMMA TalentKeeps == RestoringInv /\ [Next]_vars => RestoringInv'
BY OnePart, RecoveryKeeps, RecoveryStutters DEF RestoringInv

LEMMA IntakeStays ==
    ASSUME JoiningInv, [Next]_vars
    PROVE  JoiningInv' /\ (part = "joining" => Joining!ReviewedAsSubmitted)
<1>1. part' = part BY OnePart
<1>2. CASE part = "joining"
  <2>1. IntakeInv BY <1>2 DEF JoiningInv
  <2>2. Joining!IntakeNext \/ UNCHANGED joinVars BY <1>2, OnePart
  <2>3. IntakeInv' /\ Joining!ReviewedAsSubmitted BY <2>1, <2>2, IntakeKeeps
  <2> QED BY <2>3 DEF JoiningInv
<1>3. CASE part # "joining" BY <1>1, <1>3 DEF JoiningInv
<1> QED BY <1>2, <1>3

LEMMA MakingStays ==
    ASSUME MakingInv, [Next]_vars PROVE MakingInv'
<1>1. part' = part BY OnePart
<1>2. CASE part = "making"
  <2>1. MakeInv BY <1>2 DEF MakingInv
  <2>2. Making!ProdNext \/ UNCHANGED makeVars BY <1>2, OnePart
  <2>3. MakeInv' BY <2>1, <2>2, MakeKeeps
  <2> QED BY <2>3 DEF MakingInv
<1>3. CASE part # "making" BY <1>1, <1>3 DEF MakingInv
<1> QED BY <1>2, <1>3

LEMMA MergingStays ==
    ASSUME MergingInv, [Next]_vars
    PROVE  MergingInv' /\ (part = "merging" => Merging!MergesAsShown)
<1>1. part' = part BY OnePart
<1>2. CASE part = "merging"
  <2>1. MergeInv BY <1>2 DEF MergingInv
  <2>2. Merging!MergeNext \/ UNCHANGED mergeVars BY <1>2, OnePart
  <2>3. MergeInv' /\ Merging!MergesAsShown BY <2>1, <2>2, MergeStepKeeps
  <2> QED BY <2>3 DEF MergingInv
<1>3. CASE part # "merging" BY <1>1, <1>3 DEF MergingInv
<1> QED BY <1>2, <1>3

-------------------------------------------------------------------------------
(* Theorems *)

\* Recovery: the invariant holds in every behaviour of that part.
THEOREM RecoveryInvariant == Spec => []RestoringInv
BY TalentStarts, TalentKeeps, PTL DEF Spec

\* The journal can be read back, its entries once each and no completion before its
\* intent, however often commands are sent again (safety-journal.ts readSafetyJournal).
THEOREM JournalReadsBack == Spec => []JournalOK
<1>1. RestoringInv => JournalOK
  BY DEF RestoringInv, JournalOK, RecoveryInv, RecoveryTyped, Restoring!JournalOK
<1> QED BY <1>1, RecoveryInvariant, PTL

\* Opening the restored database gives nobody a right that the lost one had already
\* withdrawn, and what is opened is what was reviewed (delta-resolution.ts, recovery.ts
\* approve).
THEOREM OpeningGivesNothingBack == Spec => OpenedAsReviewed
<1>1. RestoringInv /\ [Next]_vars =>
        [part = "restoring" =>
            Restoring!GivesNothingBack /\ Restoring!ApprovesAsReviewed]_vars
  <2> SUFFICES ASSUME RestoringInv, Next, part = "restoring"
               PROVE  Restoring!GivesNothingBack /\ Restoring!ApprovesAsReviewed
    OBVIOUS
  <2>1. CASE Restoring!Next BY <2>1, ApprovalSound DEF RestoringInv
  <2>2. CASE UNCHANGED restoreVars
    BY <2>2 DEF restoreVars, Restoring!GivesNothingBack, Restoring!ApprovesAsReviewed,
       Restoring!Approval
  <2> QED BY <2>1, <2>2, OnePart
<1> QED BY <1>1, RecoveryInvariant, PTL DEF Spec, OpenedAsReviewed

\* Intake: the invariant holds in every behaviour of that part.
THEOREM IntakeInvariant == Spec => []JoiningInv
<1>1. Init => JoiningInv BY TalentStarts
<1>2. JoiningInv /\ [Next]_vars => JoiningInv' BY IntakeStays
<1> QED BY <1>1, <1>2, PTL DEF Spec

\* No place of an invitation is given twice or lost, whoever claims, renews, is approved,
\* rejected, erased, merged, closed or recovered in between; and of every record there is
\* one keeper of their own, in use (talent-maintenance.ts, talent-maintenance-lifecycle.ts).
THEOREM PlacesAreHeldOnce == Spec => []IntakeOK
<1>1. JoiningInv => IntakeOK BY IntakeIsSound DEF JoiningInv, IntakeOK
<1> QED BY <1>1, IntakeInvariant, PTL

\* What a review writes is what was submitted, on a consent that still stands, over the
\* text that the talent had before them (talent-maintenance.ts review).
THEOREM ReviewsApplyWhatWasSent == Spec => AppliedAsSubmitted
<1>1. JoiningInv /\ [Next]_vars => [part = "joining" => Joining!ReviewedAsSubmitted]_vars
  BY IntakeStays
<1> QED BY <1>1, IntakeInvariant, PTL DEF Spec, AppliedAsSubmitted

\* Production: the invariant holds in every behaviour of that part.
THEOREM MakeInvariant == Spec => []MakingInv
<1>1. Init => MakingInv BY TalentStarts
<1>2. MakingInv /\ [Next]_vars => MakingInv' BY MakingStays
<1> QED BY <1>1, <1>2, PTL DEF Spec

\* However works, projects and lists are edited, enrolled from and cleaned, picks and covers
\* belong to their work, places are in order, nobody is there twice, and a role is one's own
\* (portfolio.ts, projects.ts, shortlists.ts, deletion-execution.ts).
THEOREM WorksAndListsHold == Spec => []ProductionOK
<1>1. MakingInv => ProductionOK
  BY DEF MakingInv, MakeInv, MakeTyped, ProductionOK, Making!ProductionOK
<1> QED BY <1>1, MakeInvariant, PTL

\* A command that names the revision changes nothing that its sender has not seen: the screen
\* with the current revision shows the root as it is, and all its rows (helpers.ts cas).
THEOREM ScreensShowAll == Spec => []RevisionTellsContent
<1>1. MakingInv => RevisionTellsContent BY DEF MakingInv, MakeInv, RevisionTellsContent
<1> QED BY <1>1, MakeInvariant, PTL

\* Merging: the invariant holds in every behaviour of that part.
THEOREM MergeInvariant == Spec => []MergingInv
<1>1. Init => MergingInv BY TalentStarts
<1>2. MergingInv /\ [Next]_vars => MergingInv' BY MergingStays
<1> QED BY <1>1, <1>2, PTL DEF Spec

\* However often records are merged, edited and erased, an alias leads to a record that has
\* none, nothing in force is left under a merged id, a record has one row of each kind that may
\* be there once, and a value has the source it came from (person-merges.ts execute).
THEOREM MergesLeaveNothing == Spec => []MergeOK
<1>1. MergingInv => MergeOK BY DEF MergingInv, MergeInv, MergeOK, Merging!MergeOK
<1> QED BY <1>1, MergeInvariant, PTL

\* A merge that goes through gives nobody a delegation, and in every collision of rows it does
\* what the operator chose over the rows that the screen showed (person-merges.ts execute).
THEOREM MergesDoAsShown == Spec => ShownIsMerged
<1>1. MergingInv /\ [Next]_vars => [part = "merging" => Merging!MergesAsShown]_vars
  BY MergingStays
<1> QED BY <1>1, MergeInvariant, PTL DEF Spec, ShownIsMerged

==============================================================================
