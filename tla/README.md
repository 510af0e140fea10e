# ONCE Production OS: formal models

These modules model the parts of ONCE Production OS in which several actors
meet: HTTP commands, browsers, worker processes, administrators, a restored database
and external services (an AI provider, an object store, a mail and SMS provider). They
are written in TLA+, checked with TLC on small instances and, for the
components marked below, proved with TLAPS for every instance. `PROJECT.json` maps each
definition to the lines it models and lists the runs, the mutations, the hazards, the
findings and the theorems.

## 1. The system

One workspace of talent, production and rights records behind an HTTP API over
PostgreSQL, and worker processes that run the same code in a loop
(`src/apps/api/src/worker-main.ts:35-85`): import jobs, export jobs, deletion cleanup,
the AI dispatcher, deletion finalization, the retention purge and the media worker,
in this order; a throw ends the cycle, not the process.

**What can interleave.** Every database transaction takes one global advisory
lock (`PrismaStore.transaction`, `src/apps/api/src/prisma-store.ts`) and may take 15
s. Transactions are therefore atomic and serial. What interleaves is what
happens *between* them: the transactions before and after a network call or a slow
hash, the steps of a worker whose lease may end, a crash, a commit whose answer is
lost, a stream that breaks, a request that is handled after its browser gave it up,
a restore. In every module a transaction is one action; the files, the objects and the
journal, which the lock does not cover, have actions of their own.

### Components

| Component | State | Operations | Hard behaviours | What makes it correct |
|---|---|---|---|---|
| AI cost ledger, dispatch, worker | budgets by day, runs, attempts, response metadata, proposals, connection | reserve, cancel, begin, complete, record failure, sweep, reconcile, unfreeze, isolate | a network call between two transactions, lost commits, late answers, midnight, restores | no request is sent twice; money is what the runs say; a response is never denied |
| Media upload | uploads, private files, markers, objects | create, renew, receive, complete, claim, seal, publish, finish, fail, expire, purge | streams that break, delayed PUTs, late workers, crashes while publishing | READY means complete, purged means empty, all uploads end |
| Media retention purge | purge plans with state, lease and fence; assets | plan, claim, fence, record result, defer, finalize | two kinds of deleters on one object, a store that does not answer, restore | what is readable is stored, what is recorded as gone is gone, one deleter |
| Imports, exports | jobs with lease, checkpoints of rows, payloads | create, claim, row by row, finish, fail, erase, isolate | lost commits between rows, takeovers, a withdrawn source | a row becomes one person, nothing is made of withdrawn material |
| Deletion | requests with two leases, frozen items, dependencies | draft, block, decide, plan, clean, report, finalize | a stale plan, late reports, a waiting pair | the plan misses nothing, what is done stays done, a cleanup ends |
| Identity and sessions; store and commands | users, memberships, activations, sessions, receipts | login, logout, activate, change password, create, reset, change role; execute, replay, inspect | a slow hash between two transactions, two administrators at once, repeated requests | a reset cuts off, an administrator remains, a command is applied once and told truly |
| Talent accounts | accounts, challenges, deliveries, sessions | create, dispatch, verify, disable, isolate | a provider called between two transactions | a code is sent once and opens one session |
| Sources, people, contacts; handoffs; policy | sources with history, people, evidence, grants | create, edit, review, suspend, share, confirm, offer, accept, publish, merge | what a grant rests on is lost and comes back; a screen that is out of date | what ended stays ended, evidence vouches for what was seen, lists and pages agree |
| Person merge | merges, aliases, all rows that name a person | preview, decide, execute | edits between the preview and the merge | what was shown is what is merged; no row is lost or names an alias |
| Works, projects, shortlists | roots with revisions, entries, credits, items, picks | edits under compare-and-set, enrolment, approved work cases, cleanup | changes made through another root; a cover that is an entry | no two rows stand for the same; a revision tells what was on the screen |
| Talent facts | records, their evidence, proposals, collections | edit, propose, decide, withdraw, erase | the last basis of a field goes; a proposal outlives what it is about | periods do not overlap, nothing unsupported is shown as certain |
| Talent maintenance and ingestion | invitations, claims, grants, drafts, submissions | invite, claim, decide, renew, draft, submit, review, isolate | places held and freed on seven paths; a review of weeks-old texts | places are what the claims hold; what is applied is what was submitted |
| Rebuild | payloads, an isolated installation | export, edit by hand, check, rebuild | a payload cut by hand, sources that run out | what is rebuilt is what was exported and names nothing absent |
| Recovery | safety journal, backups, recovery runs | intend, commit, complete, back up, restore, inspect, approve | a crash between commit and journal, retries across a backup | nothing that was withdrawn comes back |
| Locale texts; API; web interface; migrations | rows with a revision; none | | | not modelled |

**How they interact.** A revision or containment of a source, a change of a member, an
approval and the recovery epoch are read again by each worker transaction (`basis`,
`active`, `conf` and `recovery` in the modules). Deletion meets the retention
purge over an asset: a purge past its fence makes the deletion wait, one before it is
taken over. Deletion erases exports, imports and proposals under their workers. Recovery
isolates them all. Uploads make the assets that both deleters erase. A merge revokes the
handoffs of both people and moves the rows of every other component.

## 2. Modules

| Module | Models | Composed with |
|---|---|---|
| `AiCalls` | abstract: what the ledger promises of one provider call | implemented by `AiDispatch` |
| `AiDispatch` | `ai-ledger.ts`, `ai-dispatch.ts`, `ai-maintenance.ts`, `ai/worker.ts` | administrators, members, provider, recovery |
| `MediaUpload` | `media.ts`, `media/http.ts`, `media/worker.ts`, `cos-provider.ts` | database x staging volume x object store |
| `MediaPurge` | `media-purge.ts`, `purge-worker.ts`, with the finalization of a deletion, adoption, backup and restore | purge x finalization x journal x store x restore |
| `Jobs` | `imports.ts`, `exports.ts` | workers x members x deletion x recovery |
| `Deletion` | `deletions.ts`, `deletion-cleanup.ts`, `deletion-finalization.ts`, `deletion/finalizer.ts` | request x cleanup x finalization x exports |
| `Identity` | `identity.ts`, `commands.ts`, the command branch of `api.ts`, `admin-web/src/api.ts` | database x browsers x network |
| `TalentAuth` | `talent-auth.ts`, the authentication routes of `talent-portal.ts` | database x provider x browsers |
| `Records` | `talent.ts`, `handoffs.ts`, `handoff-policy.ts`, `source-review.ts`, `source-history.ts`, `policy.ts`, `visibility.ts` | members x merge x deletion |
| `PersonMerge` | `person-merges.ts`, `talent-v2-merge.ts`, `locale-merge.ts` | operator x everyone else |
| `Production` | `portfolio.ts`, `projects.ts`, `project-parties.ts`, `shortlists.ts`, `talent-work-cases.ts` | editors x cleanup |
| `Facts` | `talent-v2.ts`, `talent-v2-graph.ts`, `talent-*-erasure.ts`, `media-collections.ts` | editors x deletion |
| `Intake` | `talent-maintenance.ts`, `talent-maintenance-lifecycle.ts` | people x office x recovery |
| `Rebuild` | `talent-transfer.ts`, `rebuild.ts`, `exports.ts` (payload) | installation x hand edits x target |
| `Recovery` | `safety-journal.ts`, `recovery.ts`, `delta-resolution.ts`, the journal branch of `api.ts` | commands x journal x backup x restored database |
| `SafetyProofs`, `MediaPurgeProofs`, `MediaUploadProofs`, `JobsProofs`, `PrivacyProofs`, `RecordsProofs`, `TalentProofs`, `FactsProofs` | theorems | section 4 |
| `MCSafety`, `MCProgress`, `MCTalent`, `MCIdentity` | several instances that share one run of TLC | section 3 |
| `MCDeletion`, `MCRecords`, `MCPersonMerge`, `MCProduction`, `MCFacts`, `MCIntake`, `MCRebuild`, `MCRecovery` | small sets, initial rows and narrowed inputs of one module | |

Operators whose comment begins with *A mutation of* are not part of any behaviour:
each is the plausible mistake that a property catches (`mutants` in `PROJECT.json`).

### AiDispatch

`conf` is the connection with its approval and the epoch, `budget` and `releases` the
`aiBudgets` and `aiBudgetReleases` rows, `run`, `att`, `meta` and `task` the rows of a
run, `wk` the local variables of `AiWorker.cycle`. Its transactions are `Sweep`, `Pick`,
`Configure`, `Begin`/`Refuse`/`GiveUp`, then the call `Send`, `Receive` or `Fail` and
`Complete` or `RecordFailure`. `begin`'s commit may be lost (`Crash` after it).
`Age` counts the time since an attempt in ticks; `Timeout` stands for the
abort of the request, `SweepAge` for the 130 s of the sweep, and all that is used of them
is `Timeout < SweepAge`. Prompt construction, grants and what a proposal writes are
one Boolean, `basis`. `Isolate` and `IsolateRun` are the isolation of a restored
database, one transaction whose visits are steps during which nothing else may run.

### MediaPurge

An asset, its upload and its `personMedia` row are one record; formal references attach
only to adopted assets. `intent` is the `mediaPurgeIntents` row, `req` a deletion request
that lists the asset, `stored` its objects, `journal` what the safety journal has
written ahead. A purger claims, writes ahead, fences (`DELETE_PENDING`), stats and
deletes object by object, and records `MISSING` or `UNKNOWN`; `gone` is its own copy of
what was recorded. When the last object is seen to be gone it purges the upload's
namespace (`PurgeNamespace`, `purge-worker.ts:31`) before that counts as missing; a
finalizer purges the namespace at once. `publisher` is an abandoned attempt at the same
upload: one that may yet publish its objects (COMING) or one whose `.cos-publishing`
marker stands (MARKED), which forbids the purge, whoever asks for it, for as long as it
stands. The other refusals of `purgeOwnedNamespace` (symbolic links, files of unknown names)
are left out: the program puts no such files there. A lease is taken by a worker (its identity is
the token) and ends at any time. `TakeBackup`/`Restore`/`Approve` follow
`recovery.ts`: the restored workspace runs in MAINTENANCE until an administrator
approves, which changes the epoch (`recovery.ts:416`); processes of the old
deployment may live on under the old one.

### MediaUpload

`up` and `asset` are rows; `group`, `staged`, `sealed` and `marked` the private directory,
the ingest file, the work directory and the `.cos-publishing` marker; `flying` are PUTs
that may still take effect and `remote` the objects. The number of attempts is the lease
token. The COS provider is modelled, of which the local one is a special case. `Age` says
that a request is over (`receiveMs`, 60 s) long before a cleanup may touch its file
(`cleanupMs`, 24 h); workers may be late by any time.

### Jobs

One module for both kinds, since their claim, lease and report are one design with
different rows: `kind` is chosen once, and `Import(j)` guards what differs. `job` is the
`jobs` or `exports` row, `rows` the checkpoints of the batch and `people` a history of how
many people a row has become. The token is the number of attempts. `basis` falls when
a source is contained or revised, a batch emptied or a subject deleted. A step of a worker
commits and is answered, commits and is not, or fails.

### Deletion

A person with exports, each with a dependency row, and an original. `req` holds both
leases of the request, `item` the frozen items, ordered by `Priority` as `actionPriority`
does. The cleanup is `Claim`, `List`, one transaction per item, a `ReportItem` for what
threw, `CloseCycle`; the finalization `ClaimFinal`, `Tasks`, the provider's
`EraseObject`, `CompletePurge`, `Finish`, and `FailFinal`. An original either waits for
the finalization or is detached and kept under a decision with an independent basis,
which may lapse. The catch of `processItem` asks for the token and not for the time,
and so does `MayReport`. `scan` is only what it finds of exports and originals. An export
selects other subjects as well, which is what makes `validateDependencies` accept it once
the dependency on the person is gone. A plan that has gone stale after the block can
only fail. A retention purge in the way of an item or of the finalization
(`deletion-cleanup.ts:133`, `deletion-finalization.ts:56`) is in `MediaPurge` and not here, so
`CleaningEnds` rests on the purges' ending, as `PurgesEnd` says when.

### Identity and TalentAuth

`user`, `token` and `session` are the rows; passwords are numbered as they are set, and
`origin` remembers of each the activation token it descends from, which is what a reset
takes away. `work` is a login or a change of password between its two transactions, while
scrypt runs. `form` is the command a browser has not resolved, `net` the copies of its
request (one it waits for, one it gave up and which may still arrive), `applied` how often
the command took effect. In `TalentAuth` `sender` is the process that dispatches a
challenge, `sent` counts what the provider was given.

### Records

A value stands for the identity fields of a person, a text for the content of a source.
Commands are one transaction at the row's revision. `at` of a handoff or review is the
snapshot it was given on; `form` is what a member who is about to confirm evidence has on
the screen. Machine actors, erased rows and the professional fields of the first schema
are left out. Visibility is modelled twice, as the code has it: row by row (`PersonVisible`)
and from one batch of reads (`IndexPersonVisible`).

### PersonMerge, Production, Facts, Intake

*PersonMerge*: one record stands for a row of any table that names a person. A digest is
what goes into it, so that what it leaves out may change unnoticed. Scope mismatches, the
cover-detach conflict (`person-merges.ts:174-175`) and the revision bumps of roots are left
out. *Production*: `rel` holds the rows of works, projects and lists, `screen` a root as an
editor last saw it. Modelled as the code has them: linking an existing work case and the
cascade of picks do not bump revisions, `applyWorkCase` does not check the limit of
credits, and a cleanup leaves gaps in the positions, so that the next add collides until
the root is reordered. *Facts*: one followed field per record. `patchPerson` writes no
evidence, so that after an adopted proposal a later edit of the name makes the header
show it as unavailable. A collection is kept by a source whose deletion erases its cover
when only `evidenceAssetId` is looked at (`validateSourceFactPlan`); its deletion then
cannot be finished. `SourceAssets` has the assets a source owns; pictures that a submission
adopted name their source in `personMedia` only, and are left out (finalization refuses
while there are any, `deletion-finalization.ts:107`). `SaveCollection` takes `now` from every
other collection, because the instance has collections of one role and type. *Intake*: the text fields are followed. A second
submission on the same enrolment claim, or one whose claim was rejected, can never be
reviewed and only expires; saving a draft again keeps its old baseline.

A person may be erased in two ways, and only one of them ends what was granted. A
deletion that targets the person revokes its grants, claims and invitations
(`ErasePerson`, `talent-v2-erasure.ts:76`). A deletion of the source that owns the person
(`EraseWithSource`; `deletions.ts:116-121`, `deletion-cleanup.ts:293`,
`deletion-finalization.ts:186,221-223`) leaves a tombstone and calls nothing of
`talent-maintenance-lifecycle.ts`: a grant stays ACTIVE on an ERASED person. It opens
nothing, because `person()` refuses an erased person (`Granted`), but the office cannot
revoke it any more, and it goes on counting as the one record of its account
(`SelfBound`), so that the account gets no other until it is closed or the workspace is
recovered. `OneKeeper` therefore speaks of merged people and of people deleted in
their own name, and not of those erased with a source. No document of the repository
says what is meant, so this is an observation and not a finding.

### Rebuild and Recovery

*Rebuild*: a world is the sources, rows and evidence of an installation; the payload may
be edited, its sources may run out and the target may be used before it is applied. Three
things do not travel: an ACTIVE work without originals, a work whose placements have a gap
(`REBUILD_MEDIA_ORDER_INVALID`), and an ACTUAL participation. A credit whose role's source
has ended is left out silently; a rebuilt DRAFT work that got back only some placements has
gaps. *Recovery*: a command withdraws or opens one right; the contained operations are
those whose effect isolation repeats. `journal` survives the database that is lost; `lost`
remembers what was in force in it.

## 3. Checks

Every run reports the whole reachable state space of its instance. Several components
share a run where they do not meet: `part` (or `scene`) is chosen in the initial state and
says whose behaviour it is, the rows of the others stay as they are. It is a device for
TLC: what is explored is the sum of the instances, not their product, and each
property is about one of them. In `safety` the two workers of each scene are the same two
values, so that one symmetry serves all scenes.

| Run | Instance | Shows |
|---|---|---|
| `safety` (`MCSafety`) | AI: 1 run, 2 symmetric workers, 2 attempts, 2 configurations, a midnight, a restore; or 2 runs that share a day's money. Upload: 1 upload, 2 symmetric workers, 2 attempts, 2 objects, 1 renewal. Purge: 2 symmetric purgers, 1 finalizer, 2 objects, an abandoned attempt that does not publish; or 1 purger, 1 finalizer, 1 object, an abandoned attempt with its marker, a backup and a restore | no request leaves twice or after its attempt was given up, a recorded response is never settled as not executed, the inductive invariant, the implementation of `AiCalls`, budgets are the sums of their runs; READY is complete, purged is empty, received bytes stay; readable is stored, gone is gone and journalled first, one deleter, the fence holds, over a restore with old processes alive |
| `progress` (`MCProgress`) | Jobs: an import of 2 rows or an export, 2 workers, 3 attempts. Purge: 1 purger, 1 finalizer, 2 objects, a marker that may go, failures stop. AI: 1 run, 1 worker, 2 epochs | one person per row, nothing made of withdrawn material, outcomes stand, only the holder decides; jobs end, purges and deletions end although each may wait for the other (unless the marker of a dead publication blocks them), AI runs leave the queue and the limbo |
| `uploads` (`MediaUpload`) | 1 upload, 1 worker, 2 attempts, 2 objects, 1 renewal | uploads end, leftovers go |
| `deletion` (`MCDeletion`) | 1 export, 1 original, 2 workers, 2 attempts | the plan is complete, what is finished is clean, only what was planned is erased, done stands, a cleanup ends |
| `accounts` (`MCIdentity`) | 2 members, 2 browsers of which 1 submits 1 form, 3 passwords, 2 tokens; 2 identities, 2 visitors, 2 challenges of 2 attempts | a reset cuts off, an administrator remains, commands are told truly, codes serve once |
| `records` (`MCRecords`) | 3 members (maintainer, reviewer, administrator), 2 people, 2 sources and room for a third, 3 scopes, 2 values, up to 4 commands | rows keep their shape, histories are whole, grants do not pile up, what is offered is allowed; evidence vouches for what was seen; ended handoffs stay ended; what is accepted or published is what was offered or reviewed |
| `talent` (`MCTalent`) | six small instances: `PersonMerge` (3 people, up to 3 rows of every pair of kinds), `Production` (1 work, 1 project, 1 list, 3 people), `Facts` (11 records in 4 groups), `Intake` (2 invitations, 2 people, 2 accounts), `Rebuild` (small worlds, 1 mishap), `Recovery` (2 rights, 2 requests) | what was shown is merged and nothing is lost; rows do not double and covers are entries; revisions tell content; periods are apart, unsupported values are not certain; proposals and submissions are applied as written; places add up; a copy is the same; the journal is readable, approval opens what was reviewed |
| `purge_retention` (`MediaPurge`) | 1 purger, 1 finalizer | *violation*, see findings |
| `deletion_exports` (`MCDeletion`) | 1 export, 1 worker | *violation* |
| `recovery_retry` (`MCRecovery`) | a command is retried across the backup | *violation* |
| `visibility` (`MCRecords`) | as `records` | *violation* |
| `cover` (`MCProduction`) | as in `talent` | *violation* |

**Bounds.** Two workers are what a takeover needs (the one that lost the lease and the one
that has it). Two objects, rows or attempts make *some but
not all* and *the last one* differ. Two configurations and days make *old* and *new*
differ. Two epochs are one restore. `MaxUnits` is the code's own limit on amounts
(2 000 000 000), so small (6) that settlements reach it, with charges of 3 against a
reservation of 1 or 2; `MaxRenewals`, `MaxDay`, `MaxRev`, `MaxEpoch`, `MaxPasswords`,
`MaxTokens`, `MaxForms`, `MaxChallenges`, `MaxRequests`, `MaxTime` and `MaxOther` cap what
people may repeat for ever. The attempts of
cleanup items and finalizations, 3 in the code, are 2 in `Deletion` and in
`MediaPurge` (1 in the restore scene): a first, a last, and none left. In `MCRecords` a
behaviour takes one kind of grant or fact, with all steps that may take its ground away;
the parts `evidence` and `reviews` begin in a restricted scope only, and the number
of commands still allowed depends on the part (2 to 4). `MCFacts` follows one group of rows at a
time, `MCIntake`, `MCProduction`, `MCRebuild` and `MCPersonMerge` narrow what is entered
and never what the system does with it. Deadlock is not an error: a
system may rest when everything has ended and nobody asks for anything.

**Fairness.** No run assumes that a member, an administrator or the AI provider does
anything. Assumed is that clocks advance and leases pass; that a worker's loop comes
round for as long as the service runs (`worker-main.ts`), so that a step it could
take is taken; in `AiDispatch` and `MediaUpload` that a cycle that is begun again
and again is not cut off for ever at the same step (strong fairness of those
steps; attempts there are bounded or the cause is a transient failure). In `MediaPurge`
and `Deletion` claims are not bounded by attempts, so a system that
crashes for ever makes no progress; there `calm` says that crashes and lost answers
stop at some time that nobody knows (`FailuresEnd`, `CalmDown`); from then on a lease does
not end under a worker at work, because 30 s or more with a heartbeat outlast a
transaction of 15 s. Nothing is assumed of an abandoned publication: its marker may
stand for ever. In `MediaPurge` the approval of a restored database is assumed as
well, since isolation is meant to stop everything until then. For `RunsMoveOn` an adapter is assumed to be configured again
and again: without one a run stays QUEUED. In `Jobs` workers may crash for
ever: attempts end it. The safety runs and `accounts`, `records` and `talent` assume none.

### Findings

* `purge_retention`: a staged asset that is quarantined before its purge is
  fenced is not purged at the end of its retention, contrary to what
  `docs/release/PR03E_ACCEPTANCE.md:25` says: the plan backs off for ever, or is
  SKIPPED as if it had become formal.
* `deletion_exports`: when the item that erases an export has failed three times the next
  cycle leaves it aside and goes on to the dependency row
  (`deletion-cleanup.ts:143,243`), which is all that made the export undownloadable
  (`exports.ts:383-411`). The export with the person's data is served again until it expires,
  while `docs/release/WP5_DELETION_CLEANING.md:23` says that a block invalidates old exports.
* `recovery_retry`: a command that failed before a backup, is sent again after it with its
  key and commits without its completion marker has its only journal entry before the
  anchor; approval passes although the restriction is missing (`delta-resolution.ts:97`),
  while `api.ts:176` says that missing evidence must block a later recovery.
* `visibility`: lists leave out the evidence unless some source needs it
  (`visibility.ts:41`), so a person backed by another source's evidence is on no list
  and open on the detail page, although `visibility.ts:9` says that the two are equivalent.
* `cover`: the cleanup that comes to the entry a work has for its cover is refused by the
  foreign key and clears nothing, while `docs/release/TALENT_EXPERIENCE_PR03.md:71` says
  that the cover is cleared.

Two hazards have no property on purpose. A worker that dies while it publishes leaves its
`.cos-publishing` marker for good (`cos-provider.ts:47`), and `LeftoversGo` and `PurgesEnd`
exclude such uploads: the marker is there so that nobody pretends that they are gone
(`docs/release/PR03E_ACCEPTANCE.md:37`). What holds in spite of it is that nothing is recorded
as gone meanwhile (`BytesAsRecorded`, `GoneAsRecorded`). The
requester of a deletion who is disabled makes it fail (`deletion-cleanup.ts:309`): two
documents disagree on whether that is meant (`docs/spec/09_STATES_WORKFLOWS.md:112`,
`docs/release/TD2_SHARED_ASSET_ERASURE.md:11`), and no property takes a side.

## 4. Proofs

The theorems hold for every value of the constants: any number of runs, workers,
uploads, objects, exports, members, people, sources, accounts, claims, browsers, attempts
and restores. `RecordsProofs`, `TalentProofs` and `FactsProofs` start from the initial rows of
`MCRecords` and of the parts `Merging`, `Making`, `Joining`, `Restoring` and `Recording` of
`MCTalent`, since those modules leave the rows of a database to the instance; recovery has one
media object there, and a revision of a professional record goes up to 6.
Each component has one inductive invariant, its initial lemma, a lemma per action and the
temporal theorems at the end; TLC checked each invariant on the instances above before it
was proved, with bounded sets in place of those it cannot enumerate.

| Module | Inductive invariant | Properties that follow | Assumptions |
|---|---|---|---|
| `SafetyProofs` (about `AiDispatch`) | `DispatchInv`, `LedgerInv` | `NoSecondSend`, `SendOnlyWhileUndecided`, `ResponseRulesOutNonexecution`, `CancelledHasNoProposal`, `RunsMatchAttempts`, `BudgetsMatchRuns`, `SpendWithinLimit`, implementation of `AiCalls` | `ModelConstants` (finite `Runs`, bounds that are numbers), `CodeConstants` (a task fits in a day's budget; `Timeout < SweepAge`) |
| `MediaUploadProofs` | `UploadInv` | `ReadyIsComplete`, `PurgedIsEmpty`, `ReceivedBytesStay` | `UploadConstants` (finite sets, positive bounds) |
| `MediaPurgeProofs` | `PurgeInv` | `ReadableIsStored`, `MissingIsGone`, `JournalFirst`, `OneDeleter`, `FenceHolds` | `PurgeConstants` (positive bounds), a hypothesis of the theorems |
| `SafetyProofs` (about `MCSafety`) | those of the two modules above | `MoneyAddsUp` and the six properties of the `safety` run that are not `AiDispatch`'s | `SafetyConstants` |
| `JobsProofs` | `JobsInv` | `EachRowOnce`, `OutcomesStand`, `WithdrawnMakesNothing`, `HolderDecides`, together `JobsAnswerOnce` | as `Jobs` declares |
| `PrivacyProofs` (about `MCDeletion`) | `DeletionInv` | `PlanIsComplete`, `ErasedAsPlanned`, `DoneStands` | as `Deletion` declares |
| `RecordsProofs` | `RecordsInv` | `VerifiedIsReviewed`, `HandoffsStayEnded`, `GivenAsAsked`, and `MCRecordsOK` (types, `HistoryIsWhole`, `OneGrantAtATime`, `OfferedIsAllowed`) | `RecordsConstants`, `MCRecordsConstants` |
| `TalentProofs` | `RestoringInv`, `JoiningInv`, `MakingInv`, `MergingInv` | `JournalOK`, `OpenedAsReviewed`; `IntakeOK`, `AppliedAsSubmitted`; `ProductionOK`, `RevisionTellsContent`; `MergeOK`, `ShownIsMerged` | `TalentConstants` |
| `FactsProofs` (the part `Recording` of `MCTalent`) | `RecordingInv` | `FactsOK`; `AppliedAsProposed` | `TalentConstants` |
| `PrivacyProofs` (about `MCIdentity`) | `IdentityInv`, `PortalInv` | `ResetCutsOff`, `SomeAdminRemains`, `ToldIsTrue`, `CodeIsSentOnce`, `CodesEnd`, together `CodesServeOnce` | as `Identity` and `TalentAuth` declare |

*`AiDispatch`.* `NoSecondSend` is not
inductive: whether a second request can leave depends on whether a run can have a second
attempt, since `Settle` puts a run that was NOT_EXECUTED back in the queue.
`DispatchInv` adds the three facts it rests on. (1) `RunInv`: a run has at most one
attempt and its state agrees with it, and an attempt that is NOT_EXECUTED belongs to a run
whose cancellation was asked for. Only reconciliation settles so, and it
cancels the run first; `Requeues` is then never true, which is why the re-queueing
branch of `settle` does no harm. (2) `HeldAlone` and `AttemptHeld`: an
attempt in hand is in the hands of one worker, and as long as it has not sent
either nobody has decided the attempt or it is as old as the sweep's age, when the
send window is closed; here `Timeout < SweepAge` is used. (3)
`NobodyWorksInIsolation`. For `DispatchImplementsCalls`, `Phase(r)` reads the phase of a call
off the run and its attempt; every step is a step of `AiCalls` or a stutter, by
the frame lemmas `PhasesStay` and `StateStays` for the steps that do not touch an attempt.

*Money.* A budget is compared with a sum over the runs of its day, a fold over a finite set.
That such a sum does not depend on the order in which the fold takes the elements, and changes
by the difference when one of its terms changes, is induction over finite sets; the theorems
of the library that say so take an operator and cannot be used. `AddsOnce` and its companions
get it from the well-foundedness of strict inclusion among the subsets of a finite set
(`SmallestSubset`: a claim that fails for some subset fails for a smallest one). Every transaction
then moves at most one run of one day (`MoneySettles`, `MoneyReserved`) or none (`MoneyStays`),
and `SpendWithinLimit` needs no more than that a reservation is checked when it is made.

*Uploads.* Attempts are drawn once, so that no two workers share one (`Apart`), and whatever
a worker of an older attempt does touches objects of its own only. A PUT on its way is
vouched for by a marker (`ObjectsSound`), which is why nothing can come back once an upload
is recorded as purged; an upload that is overdue for its cleanup has no receiver writing; a
worker's objects may then go, and none come back (`Onward`).

*Purge.* Rows, backup and store are compared by the same predicate `Sound`, applied to the
rows and to the backup (`Snapshot`), so that a restore keeps the invariant by
exchanging the two. The namespace is why an erased asset stays so: when the last object
counts as missing no abandoned publication is left that could put one back
(`PublisherInv`), and a worker that is about to say so of the last knows the others
from the rows, where they are still so (`gone`). `JournalFirst` speaks of a service with a
safety journal; without one nothing is written ahead. A worker of an old deployment keeps only that its asset is not
readable; all else is tied to the current epoch. From a live lease it follows that no purge is
past its fence, so the finalizer's own check of the purge (`mediaTasks`) is never what
decides; `Restore` needs that the journal only grows.

*Jobs.* The checkpoint of a row is tied to the person it became, and a worker's local
variables to the rows of the job even after its lease is lost, since people are never
taken back. Tokens differ (`TokensDiffer`) because attempts only grow.

*Deletion.* The invariant needs that nothing has touched an item before the cleanup is
started, and that even a worker that is late is at `ERASE` only where the plan erases.

*Accounts.* A password descends from the activation token it was set with. The shapes of
the rows are inductive only with `ActiveHasPassword`, because a change of password copies
the origin of the old one. For the commands, receipts, forms and copies under way are related
browser by browser (`CommandInv`).

*Records.* A revision tells the value of a person or the text of a source, an epoch the
fields that protect the row, and neither ever goes back (`Advance`). So a form, a
grant or an evidence that finds its revision again finds what it was made on (`Seen`,
`Grounded`), and ground once lost stays lost (`CurrentBefore`): hence
`HandoffsStayEnded`. At most one review of a person is open (`ReviewsSound`). What a list
shows the point check admits (`ListedIsVisible`); the converse is false, see the
`visibility` finding. A scope keeps the members it was made with (`ScopesStay`).

*Recovery.* Every command under way while there is a backup has its intent after the anchor
(`AskedAfterAnchor`), because the anchor waits for those before it. The
rights that the dump gives and the lost database did not, and those
opened since, are told by entries after the anchor (`Accounted`), and an approval passes only
what is contained. The step that would break this is an operator who sends again what
failed before the backup: the theorem has `RetryAcrossBackup = FALSE`, and
`Recovery_retry` shows the other case.

*Intake.* The places reserved on an invitation are the pending claims that hold one, those
used the claims approved (`SeatsSound`), and an invitation for one person is unused until its
approval, so that an approval finds the place it takes. Cleanup, merge, erasure, closing and
recovery take as many places off the count as claims lose theirs
(`SeatsFreed`, about the cardinality of any finite set of claims). No grant outlives its
account, a recovery, or the merge or the deletion of its person (`KeepersSound`; a person erased
along with its source keeps them, see section 2), and who is not a keeper yet submits with
a claim (`ClaimKnown`), from which its review makes the person.

*Production.* Beside the properties, `MakeInv` says that every row belongs to a root that was made
and has the fields of its kind (`RowsHaveRoots`), that a pick is of a candidate and names a
picture (`PicksAreRows`), and that what an editor has on the screen was made and has a revision
that has not gone back (`ScreenIsOld`). Places are kept as a numbering: a row more goes to the end,
a removal closes the gap unless a cleanup leaves one, and a new order is a permutation; what
the ranks of a finite set of numbers are is stated once (`Ranks` and the lemmas after it).
`ScreensShowAll` is the converse of the usual reading of a revision: equal revisions and a
screen that lacks nothing mean equal content, so every command that changes a row of a root also
raises the revision of that root, the rows that an enrolment or a binding takes along included.

*Merge.* The digest that is compared on execution is one of the notes on the screen
(`MergeScreen`), so an execution that finds its digest again finds, for each pair of rows that
collide, the notes the operator had read. Only a representation names an agent, and only media
are staged (`MergeRows`). A record to which an alias leads, or that is one, is
not merged away again: hence no alias of an alias.

*Facts.* `FactInv` has five parts. `RowsInv`: a row has the fields and states of its kind,
refers to rows that are there, and what a measurement follows has been confirmed. `PicsInv`:
what is shown exists, once each. `BasisInv`: what once had evidence keeps some for as long as
it is in force, and every record of an erased source once had evidence, which is what keeps a
field from falling back to its origin. `OffersInv`: a proposal whose base is still the revision
of its record has seen the value that the record has now, so a decision that compares revisions
compares values. `PlanInv` is what the properties alone do not say: what the execution of a
deletion promises to its finalization. Between the two, edits go on; that they bring back
nothing of what was cleaned up needs that the target is blocked for them, that a picture of it
is on no list and proves nothing, and that a person whose own source goes, and who is not kept,
has no record left (`FactExecute`, `FactFinish`). What a source supports is the least set closed under reference
(`Selected`), and that it is closed is all that the proofs use of it.

*The scenes of `MCSafety`.* Its instances are instances of the proof modules. A step of
a scene is a step of its module and stutters in the others, so that `SafetySpec`
implements each of them and their theorems apply, once their assumptions are shown of the
values `MCSafety` gives to the constants.

**Only model-checked.** Every liveness property (`JobsEnd`, `PurgesEnd`, `RunsMoveOn`,
`UploadsEnd`, `LeftoversGo`, `CleaningEnds`): fairness and ENABLED are out of the prover's
reach. `RebuildOK`: the worlds of `Rebuild` are concrete values, and that a copy is the same is a
statement about the whole transfer at once, which TLC evaluates on each of them.

## 5. Not modelled

* Locale texts: edits under compare-and-set in one transaction. Routing, the web interface
  (except what its `api.ts` does with commands), migrations and generated code.
* AI: the content of prompts, grants, and what an applied proposal writes.
* Media: playback, previews, limits of the decoder, the three kinds of uploaders.
* Imports and exports: the validation of rows in a preview, the upgrade of legacy
  batches, the preparation and bytes of originals, encrypted identifiers.
* Deletion: sources, works and projects as targets; contacts, evidence, AI tasks, locale
  texts and graphs of facts as items (`Facts` has the erasure of facts).
* Identity: rate limits, extra permissions, machine principals. Talent accounts: rate
  limits and the binding of keys.
* Records: the dictionary, machine actors, erased rows. Facts: search and facets,
  organizations, external references, credentials, languages, representation and
  translators; one person, one followed field per record, scopes visible. Production:
  paging, filters, text fields. Intake: pictures, collections and works of a submission,
  guardians, recipients, the ingestion by machines.
* Rebuild: parties and merge history. Recovery: abort markers, which nothing
  writes, and the entries of workers; digests and key checks are comparisons of what was
  recorded.

## 6. Plan

1. A proof of `Rebuild`, as a part of `MCTalent`, for worlds that are not fixed.
2. Items of a deletion that meet the AI ledger, and targets other than people; locale texts.
