------------------------------ MODULE MCTalent ------------------------------
(***************************************************************************)
(* Six small instances side by side: merging, production, facts, intake,     *)
(* exports and rebuild, recovery. A behaviour is of one part, which part      *)
(* says; the variables of the others are empty and stay so. The parts do not *)
(* meet: the instances share a run of TLC and the names of people.           *)
(***************************************************************************)
EXTENDS Naturals, TLC, MCRebuild

CONSTANTS
    \* names
    p1, p2, p3, s1, s2, wo, pj, l, j1, j2, ph1, ph2, brand, me, pr, r1, r2, cap, cas, m1, m2, ad, k1, k2,
    o1, i1, i2, c1, c2, u1, u2, t1, t2, x1, x2, name, intro,
    source, account, suspend, disable, confirm,
    \* the constants of the parts
    People, Sources, RootIds, NoSource, Notes, MaxOther,
    Works, Projects, Lists, Codes, Assets, Parties, Images, LegacyRoles, Ids, None,
    EntryLimit, CreditLimit, ParticipantLimit, WorkLimit, ItemLimit, MaxRev,
    FactRows, Me, KindOf, AssetSource, Offers, MaxItems,
    Accounts, Invites, Claims, Subs, Fields, TextValues, TargetOf, MaxUses, MaxSecret, MaxEpoch,
    Rights, Restricts, Opens, RightOf, Contained, MaxRequests

MCLegacyRoles == {<<p1, j1>>, <<p2, j2>>}
MCKindOf ==
    (me :> "person") @@ (pr :> "profile") @@ (r1 :> "role") @@ (r2 :> "role") @@ (cap :> "capability")
        @@ (cas :> "casting") @@ (m1 :> "measurement") @@ (m2 :> "measurement") @@ (ad :> "adult")
        @@ (k1 :> "collection") @@ (k2 :> "collection")
MCAssetSource == (ph1 :> s1) @@ (ph2 :> s2)
MCTargetOf == (i1 :> None) @@ (i2 :> p1)
MCRightOf == (suspend :> source) @@ (disable :> account) @@ (confirm :> source)
MergeIds == {1, 2, 3}
Newcomers == {p1, p2}

VARIABLES
    part,                                                           \* which of them it is
    person, rows, alias, hidden, perms, deleting, preview, other,   \* PersonMerge
    root, rel, pick, usable, profiled, unseen, erasing, gaps, screen, stuck, desk, \* Production
    src, fact, items, evid, offer, asset, plan, spoken, bench,      \* Facts
    active, human, inv, ctx, claim, grant, sub, consent, era, room, \* Intake
    here, choice, file, edited, late, there,                        \* Rebuild
    db, files, journal, request, sent, backup, run, lost            \* Recovery

Merging == INSTANCE MCPersonMerge WITH Ids <- MergeIds, Roots <- RootIds
Making == INSTANCE MCProduction
Recording == INSTANCE MCFacts WITH Facts <- FactRows, MaxRev <- 6
Joining == INSTANCE MCIntake WITH People <- Newcomers, Texts <- TextValues
Moving == INSTANCE Rebuild WITH
              Rows <- MCRows, Origins <- MCOrigins, Values <- MCValues, RowKind <- MCRowKind,
              Worlds <- MCWorlds, Choices <- MCChoices, Mishaps <- 1
Restoring == INSTANCE MCRecovery WITH Assets <- {ph1}, RetryAcrossBackup <- FALSE

ASSUME TalentConstants ==
    /\ Merging!MergeNames /\ Making!ProductionConstants /\ Making!ProductionNames
    /\ Recording!FactsAssumption /\ Recording!FactNames /\ Joining!IntakeAssumption /\ Joining!RoomConstants
    /\ Moving!RebuildAssumption /\ Restoring!RecoveryConstants

mergeVars == <<person, rows, alias, hidden, perms, deleting, preview, other>>
makeVars == <<root, rel, pick, usable, profiled, unseen, erasing, gaps, screen, stuck, desk>>
factsVars == <<src, fact, items, evid, offer, asset, plan, spoken, bench>>
joinVars == <<active, human, inv, ctx, claim, grant, sub, consent, era, room>>
moveVars == <<here, choice, file, edited, late, there>>
restoreVars == <<db, files, journal, request, sent, backup, run, lost>>

\* the variables of a part that a behaviour is not of
NoMerging ==
    /\ person = {} /\ rows = {} /\ alias = {} /\ hidden = {} /\ perms = {}
    /\ deleting = {} /\ preview = {} /\ other = {}
NoMaking ==
    /\ root = {} /\ rel = {} /\ pick = {} /\ usable = {} /\ profiled = {}
    /\ unseen = {} /\ erasing = {} /\ gaps = {} /\ screen = {} /\ stuck = {}
    /\ desk = {}
NoRecording ==
    /\ src = {} /\ fact = {} /\ items = {} /\ evid = {} /\ offer = {}
    /\ asset = {} /\ plan = {} /\ spoken = {} /\ bench = {}
NoJoining ==
    /\ active = {} /\ human = {} /\ inv = {} /\ ctx = {} /\ claim = {}
    /\ grant = {} /\ sub = {} /\ consent = {} /\ era = {} /\ room = {}
NoMoving ==
    /\ here = {} /\ choice = {} /\ file = {} /\ edited = {} /\ late = {}
    /\ there = {}
NoRestoring ==
    /\ db = {} /\ files = {} /\ journal = {} /\ request = {} /\ sent = {}
    /\ backup = {} /\ run = {} /\ lost = {}

Init ==
    \/ /\ part = "merging" /\ Merging!MergeInit
       /\ NoMaking /\ NoRecording /\ NoJoining /\ NoMoving /\ NoRestoring
    \/ /\ part = "making" /\ Making!ProdInit
       /\ NoMerging /\ NoRecording /\ NoJoining /\ NoMoving /\ NoRestoring
    \/ /\ part = "recording" /\ Recording!FactsInit
       /\ NoMerging /\ NoMaking /\ NoJoining /\ NoMoving /\ NoRestoring
    \/ /\ part = "joining" /\ Joining!IntakeInit
       /\ NoMerging /\ NoMaking /\ NoRecording /\ NoMoving /\ NoRestoring
    \/ /\ part = "moving" /\ Moving!RebuildInit
       /\ NoMerging /\ NoMaking /\ NoRecording /\ NoJoining /\ NoRestoring
    \/ /\ part = "restoring" /\ Restoring!Init
       /\ NoMerging /\ NoMaking /\ NoRecording /\ NoJoining /\ NoMoving

MergingStep ==
    /\ part = "merging" /\ UNCHANGED part
    /\ UNCHANGED <<makeVars, factsVars, joinVars, moveVars, restoreVars>>
    /\ Merging!MergeNext

MakingStep ==
    /\ part = "making" /\ UNCHANGED part
    /\ UNCHANGED <<mergeVars, factsVars, joinVars, moveVars, restoreVars>>
    /\ Making!ProdNext

RecordingStep ==
    /\ part = "recording" /\ UNCHANGED part
    /\ UNCHANGED <<mergeVars, makeVars, joinVars, moveVars, restoreVars>>
    /\ Recording!FactsNext

JoiningStep ==
    /\ part = "joining" /\ UNCHANGED part
    /\ UNCHANGED <<mergeVars, makeVars, factsVars, moveVars, restoreVars>>
    /\ Joining!IntakeNext

MovingStep ==
    /\ part = "moving" /\ UNCHANGED part
    /\ UNCHANGED <<mergeVars, makeVars, factsVars, joinVars, restoreVars>>
    /\ Moving!RebuildNext

RestoringStep ==
    /\ part = "restoring" /\ UNCHANGED part
    /\ UNCHANGED <<mergeVars, makeVars, factsVars, joinVars, moveVars>>
    /\ Restoring!Next

Next ==
    \/ MergingStep \/ MakingStep \/ RecordingStep \/ JoiningStep
    \/ MovingStep \/ RestoringStep

vars == <<part, mergeVars, makeVars, factsVars, joinVars, moveVars, restoreVars>>

Spec == Init /\ [][Next]_vars

-----------------------------------------------------------------------------
(* Properties, each of one part. *)

\* No alias of an alias, nothing in force under a merged id, one of each kind of row that may
\* be there once, and no value of another source (person-merges.ts).
MergeOK == part = "merging" => Merging!MergeOK

\* Merging never gives anybody a delegation, and what the operator chose to keep, or to
\* drop, in a collision of rows is what the screen showed (person-merges.ts execute).
ShownIsMerged == [][part = "merging" => Merging!MergesAsShown]_vars

\* Picks and covers belong to their work, places are in order, nobody is there twice, and a
\* role is one's own (portfolio.ts, projects.ts, shortlists.ts).
ProductionOK == part = "making" => Making!ProductionOK

\* A command that names the revision changes nothing that its sender has not seen; only a
\* cleanup may have taken rows away (helpers.ts cas).
RevisionTellsContent == part = "making" => Making!RevisionTellsContent

\* No field falls back to its origin, every reference holds, measurements, periods and pictures
\* are in order, and an erased source is gone (talent-v2-integrity.ts).
FactsOK == part = "recording" => Recording!FactsOK

\* A proposal is applied to the very value its author saw, from a source still in use, and the
\* field then has the proposed value (talent-v2.ts decide).
AppliedAsProposed ==
    [][part = "recording" => Recording!DecidedAsProposed]_vars

\* No place of an invitation is given twice or lost, and every record has one keeper
\* (talent-maintenance.ts).
IntakeOK == part = "joining" => Joining!IntakeOK

\* What a review writes is what was submitted, on a consent that still stands, over the text
\* that the talent had before them (talent-maintenance.ts review, NEEDS_REBASE).
AppliedAsSubmitted ==
    [][part = "joining" => Joining!ReviewedAsSubmitted]_vars

\* What an isolated rebuild makes is whole, every export that was not edited and is in time
\* arrives, and what arrived can be exported again and is the same (exports.ts, rebuild.ts,
\* talent-transfer.ts, retained-origin-transfer.ts).
RebuildOK == part = "moving" => Moving!RebuildOK /\ Moving!CopyIsTheSame

\* The journal can be read back, its entries once each and no completion before its intent
\* (safety-journal.ts readSafetyJournal, delta-resolution.ts).
JournalOK == part = "restoring" => Restoring!JournalOK

\* Opening the restored database gives nobody a right the lost one had already withdrawn, and
\* what is opened is what was reviewed (delta-resolution.ts, recovery.ts RECOVERY_CHECK_STALE).
OpenedAsReviewed ==
    [][part = "restoring" => Restoring!GivesNothingBack /\ Restoring!ApprovesAsReviewed]_vars
=============================================================================
