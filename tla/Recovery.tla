-------------------------------- MODULE Recovery --------------------------------
(***************************************************************************)
(* Disaster recovery: the write-ahead journal that every authenticated      *)
(* command leaves outside the database (api.ts, safety-journal.ts), the     *)
(* backup that is anchored in it, and the restoration of a dump: isolate    *)
(* (recovery.ts prepare), inspect, and approve, where the entries written   *)
(* after the anchor are accounted for (delta-resolution.ts).                *)
(*                                                                         *)
(* A command withdraws or opens one right (a source, a permission, an       *)
(* account ...). The operations whose effect isolation repeats are the      *)
(* contained ones: losing them with the database loses nothing.             *)
(***************************************************************************)
EXTENDS Integers, Sequences, FiniteSets

CONSTANTS
    Rights,             \* what a row may let somebody do
    Restricts, Opens,   \* commands, by idempotency key: each acts on one right
    RightOf,            \* the right a command acts on
    Contained,          \* rights isolation withdraws; commands that withdraw one are contained
    Assets,             \* media objects
    MaxRequests,        \* bound on the requests sent
    RetryAcrossBackup   \* whether a command that failed before a backup is sent again after it

Commands == Restricts \cup Opens

\* what the constants must satisfy
RecoveryConstants ==
    /\ Restricts \cap Opens = {} /\ IsFiniteSet(Commands)
    /\ RightOf \in [Commands -> Rights] /\ Contained \subseteq Rights
    /\ MaxRequests \in Nat \ {0} /\ RetryAcrossBackup \in BOOLEAN

VARIABLES
    db,        \* the database in use: receipts and audits, rights, a session, assets, epoch
    files,     \* media objects in the private store
    journal,   \* the safety journal: intents, completion markers, audits
    request,   \* of each command, the request in progress
    sent,      \* requests sent so far: names the next one
    backup,    \* what the backup in progress, or the finished one, consists of
    run,       \* the recovery run of the restored database
    lost       \* rights in force in the database that was lost

vars == <<db, files, journal, request, sent, backup, run, lost>>

NoRequest == 0
OldEpoch == 1
NewEpoch == 2
Epochs == {OldEpoch, NewEpoch}

\* by[c] is the request whose transaction applied c, as its receipt and audit record it
Databases == [by: [Commands -> 0..MaxRequests], rights: SUBSET Rights,
              session: BOOLEAN, assets: SUBSET Assets, epoch: Epochs]
Entries == [kind: {"INTENT", "COMMIT", "AUDIT"}, command: Commands, request: 1..MaxRequests]
Reports == [rights: SUBSET Rights, session: BOOLEAN, assets: SUBSET Assets,
            clean: BOOLEAN]
NoReport == [rights |-> {}, session |-> FALSE, assets |-> {}, clean |-> FALSE]

TypeOK ==
    /\ db \in Databases
    /\ files \subseteq Assets
    /\ journal \in Seq(Entries)
    /\ request \in [Commands -> [stage: {"IDLE", "WRITTEN", "APPLIED"}, id: 0..MaxRequests]]
    /\ sent \in 0..MaxRequests
    /\ backup.stage \in {"NONE", "ANCHORED", "COPIED", "DONE", "RESTORED"}
    /\ backup.anchor \in 0..Len(journal)
    /\ backup.bundle \subseteq Assets /\ backup.dump \in Databases
    /\ run \in [state: {"NONE", "PREPARED", "INSPECTED", "APPROVED"}, report: Reports]
    /\ lost \subseteq Rights

Idle == [stage |-> "IDLE", id |-> NoRequest]

Init ==
    /\ files \in SUBSET Assets
    /\ db = [by |-> [c \in Commands |-> NoRequest], rights |-> Rights, session |-> FALSE,
             assets |-> files, epoch |-> OldEpoch]
    /\ journal = <<>>
    /\ request = [c \in Commands |-> Idle]
    /\ sent = 0
    /\ backup = [stage |-> "NONE", anchor |-> 0, bundle |-> {}, dump |-> db]
    /\ run = [state |-> "NONE", report |-> NoReport]
    /\ lost = Rights

----------------------------------------------------------------------------
(* The journal *)

Written(kind, c) == \E i \in DOMAIN journal : journal[i].kind = kind /\ journal[i].command = c

\* the positions of what was written after the anchor of the backup
AfterAnchor == (backup.anchor + 1)..Len(journal)

\* A mutation of Known: an entry is appended as often as it is written.
NeverKnown(kind, c) == FALSE

\* appendRows: an entry whose id the journal has is not written again
Known(kind, c) == Written(kind, c)

Entry(kind, c, r) == [kind |-> kind, command |-> c, request |-> r]

Append1(kind, c, r) ==
    journal' = IF Known(kind, c) THEN journal ELSE Append(journal, Entry(kind, c, r))

----------------------------------------------------------------------------
(* Commands *)

\* authenticate, in a process configured with the old epoch. Those of the new one
\* start after the approval, where the model ends.
Authenticated == db.session /\ db.epoch = OldEpoch

\* signing in leaves no entry: it is not a command
Login ==
    /\ db.epoch = OldEpoch
    /\ db' = [db EXCEPT !.session = TRUE]
    /\ UNCHANGED <<files, journal, request, sent, backup, run, lost>>

\* a command that the operator's backup found unfinished
LeftOver(c) == \E i \in 1..backup.anchor : journal[i] = Entry("INTENT", c, journal[i].request)

\* A request is authenticated in a transaction of its own, then its intent is
\* written outside the database. The intent is named by the key: a command that
\* is sent again finds it written.
WriteAhead(c) ==
    /\ request[c].stage = "IDLE" /\ sent < MaxRequests
    /\ Authenticated
    /\ RetryAcrossBackup \/ ~LeftOver(c)
    /\ sent' = sent + 1
    /\ request' = [request EXCEPT ![c] = [stage |-> "WRITTEN", id |-> sent + 1]]
    /\ Append1("INTENT", c, sent + 1)
    /\ UNCHANGED <<db, files, backup, run, lost>>

\* The transaction authenticates again. It replays the receipt, or applies the
\* command and records the audit under this request.
Transact(c) ==
    /\ request[c].stage = "WRITTEN" /\ Authenticated
    /\ request' = [request EXCEPT ![c].stage = "APPLIED"]
    /\ db' = IF db.by[c] # NoRequest
             THEN db
             ELSE [db EXCEPT !.by[c] = request[c].id,
                             !.rights = IF c \in Opens THEN @ \cup {RightOf[c]}
                                                       ELSE @ \ {RightOf[c]}]
    /\ UNCHANGED <<files, journal, sent, backup, run, lost>>

\* markCommitted
Mark(c) ==
    /\ request[c].stage = "APPLIED"
    /\ request' = [request EXCEPT ![c] = Idle]
    /\ Append1("COMMIT", c, request[c].id)
    /\ UNCHANGED <<db, files, sent, backup, run, lost>>

\* The command is refused or its process dies before the transaction, or the
\* marker cannot be written after it: the caller is told or not, the intent stays.
Fail(c) ==
    /\ request[c].stage # "IDLE"
    /\ request' = [request EXCEPT ![c] = Idle]
    /\ UNCHANGED <<db, files, journal, sent, backup, run, lost>>

\* A media object is published, or erased, while a backup copies them. At other
\* times it makes no difference: a disaster replaces the rows and the store.
AssetChanges(a) ==
    /\ backup.stage \in {"ANCHORED", "COPIED"}
    /\ IF a \in db.assets
       THEN db' = [db EXCEPT !.assets = @ \ {a}] /\ files' = files \ {a}
       ELSE db' = [db EXCEPT !.assets = @ \cup {a}] /\ files' = files \cup {a}
    /\ UNCHANGED <<journal, request, sent, backup, run, lost>>

----------------------------------------------------------------------------
(* Backup *)

\* the audits the journal does not have
Missing == {c \in Commands : db.by[c] # NoRequest /\ ~Written("AUDIT", c)}

\* append: they are added in the order of their transactions, which nothing reads
Audits ==
    LET inOrder == CHOOSE order \in [1..Cardinality(Missing) -> Missing] :
                     \A i, j \in DOMAIN order : i # j => order[i] # order[j]
    IN  [i \in DOMAIN inOrder |-> Entry("AUDIT", inOrder[i], db.by[inOrder[i]])]

\* recovery-backup.ts, once the operator has quiesced the system: no request is in
\* progress. The audits are written to the journal and its end is the anchor.
BackupAnchors ==
    /\ backup.stage = "NONE" /\ \A c \in Commands : request[c].stage = "IDLE"
    /\ journal' = journal \o Audits
    /\ backup' = [backup EXCEPT !.stage = "ANCHORED", !.anchor = Len(journal')]
    /\ UNCHANGED <<db, files, request, sent, run, lost>>

BackupCopiesMedia ==
    /\ backup.stage = "ANCHORED"
    /\ backup' = [backup EXCEPT !.stage = "COPIED", !.bundle = db.assets]
    /\ UNCHANGED <<db, files, journal, request, sent, run, lost>>

\* the manifest is written only if the assets are those that were copied
BackupDumps ==
    /\ backup.stage = "COPIED"
    /\ backup' = IF db.assets = backup.bundle
                 THEN [backup EXCEPT !.stage = "DONE", !.dump = db]
                 ELSE [backup EXCEPT !.stage = "NONE", !.anchor = 0, !.bundle = {}]
    /\ UNCHANGED <<db, files, journal, request, sent, run, lost>>

----------------------------------------------------------------------------
(* Restoration *)

\* the database and the private store are lost, and the processes with them
Disaster ==
    /\ backup.stage = "DONE"
    /\ db' = backup.dump /\ files' = {}
    /\ request' = [c \in Commands |-> Idle]
    /\ backup' = [backup EXCEPT !.stage = "RESTORED"]
    /\ lost' = db.rights
    /\ UNCHANGED <<journal, sent, run>>

RestoreMedia ==
    /\ backup.stage = "RESTORED"
    /\ files' = backup.bundle
    /\ UNCHANGED <<db, journal, request, sent, backup, run, lost>>

\* prepare: sessions are revoked, contained rights withdrawn
Prepare ==
    /\ backup.stage = "RESTORED" /\ run.state = "NONE"
    /\ db' = [db EXCEPT !.session = FALSE, !.rights = @ \ Contained]
    /\ run' = [run EXCEPT !.state = "PREPARED"]
    /\ UNCHANGED <<files, journal, request, sent, backup, lost>>

\* collectRecoveryExternalCheck: every asset row has its bytes
MediaComplete == db.assets \subseteq files

\* inspection: what blocks approval, and the digest of the state it was found in
Report ==
    [rights |-> db.rights, session |-> db.session, assets |-> db.assets,
     clean |-> /\ ~db.session /\ db.rights \cap Contained = {}
               /\ MediaComplete]

Inspect ==
    /\ run.state \in {"PREPARED", "INSPECTED"}
    /\ run' = [state |-> "INSPECTED", report |-> Report]
    /\ UNCHANGED <<db, files, journal, request, sent, backup, lost>>

IsContained(c) == c \in Restricts /\ RightOf[c] \in Contained

Evidence(c) ==
    {i \in AfterAnchor : journal[i].command = c /\ journal[i].kind \in {"INTENT", "COMMIT"}}

\* A mutation of CommandResolved: an intent without a completion is no mutation.
MarkedResolved(c) == Evidence(c) # {} /\ Written("COMMIT", c) => IsContained(c)

\* an intent or a marker after the anchor: only a contained command that is known
\* to have committed is resolved
CommandResolved(c) ==
    Evidence(c) # {} => Written("INTENT", c) /\ Written("COMMIT", c) /\ IsContained(c)

\* an audit after the anchor is explained by the marker of the same request
AuditResolved(i) ==
    /\ Written("INTENT", journal[i].command)
    /\ \E j \in DOMAIN journal : /\ journal[j].kind = "COMMIT"
                                 /\ journal[j].command = journal[i].command
                                 /\ journal[j].request = journal[i].request

\* analyzeSafetyDeltas finds nothing unresolved
DeltaResolved ==
    /\ \A c \in Commands : CommandResolved(c)
    /\ \A i \in AfterAnchor : journal[i].kind = "AUDIT" => AuditResolved(i)

\* A mutation of StillAsInspected: the recorded report is taken at its word.
TakenAtItsWord == run.report.clean

\* approve inspects again and compares
StillAsInspected == run.report.clean /\ Report = run.report

\* under the lock of the journal, so that nothing is appended meanwhile
Approve ==
    /\ run.state = "INSPECTED"
    /\ DeltaResolved /\ StillAsInspected
    /\ db' = [db EXCEPT !.epoch = NewEpoch]
    /\ run' = [run EXCEPT !.state = "APPROVED"]
    /\ UNCHANGED <<files, journal, request, sent, backup, lost>>

\* the safety-journal CLI copies the audits at any other time; before the backup,
\* BackupAnchors does it
Sync ==
    /\ Missing # {} /\ backup.stage \in {"DONE", "RESTORED"}
    /\ journal' = journal \o Audits
    /\ UNCHANGED <<db, files, request, sent, backup, run, lost>>

----------------------------------------------------------------------------
Next ==
    \/ BackupAnchors \/ BackupCopiesMedia \/ BackupDumps
    \/ Disaster \/ RestoreMedia \/ Prepare \/ Inspect \/ Approve \/ Sync \/ Login
    \/ \E c \in Commands : WriteAhead(c) \/ Transact(c) \/ Mark(c) \/ Fail(c)
    \/ \E a \in Assets : AssetChanges(a)

Spec == Init /\ [][Next]_vars

----------------------------------------------------------------------------
(* Properties *)

Approval == db'.epoch # db.epoch

\* Opening the restored database gives nobody a right the lost one had already
\* withdrawn, whatever was committed after the dump and wherever its request, its
\* marker or its process died (delta-resolution.ts and recovery.ts approve).
GivesNothingBack == Approval => db'.rights \subseteq lost

NothingIsGivenBack == [][GivesNothingBack]_vars

\* What is opened is what was reviewed: no session, no right that isolation
\* withdraws, no asset without its bytes has come in since the inspection
\* (recovery.ts RECOVERY_CHECK_STALE).
ApprovesAsReviewed ==
    Approval => /\ ~db.session /\ db.rights \cap Contained = {}
                /\ db.assets \subseteq files /\ db.assets = run.report.assets

ApprovedAsReviewed == [][ApprovesAsReviewed]_vars

\* The journal can be read back: no entry is there twice and no completion
\* precedes its intent, however often commands are sent again
\* (safety-journal.ts readSafetyJournal, delta-resolution.ts).
JournalIsReadable ==
    \A i, j \in DOMAIN journal :
        journal[i].command = journal[j].command =>
            /\ journal[i].kind = journal[j].kind => i = j
            /\ journal[i].kind = "INTENT" /\ journal[j].kind = "COMMIT" => i < j

=============================================================================
