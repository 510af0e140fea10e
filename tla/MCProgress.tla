------------------------------ MODULE MCProgress ------------------------------
(***************************************************************************)
(* That the background work goes on: Jobs with two workers, MediaPurge with *)
(* one purge worker and one finalizer, AiDispatch with one worker at one run. *)
(* A behaviour is of one of these parts, the others stay in their initial     *)
(* state: the parts do not meet, they share a run of TLC.                    *)
(***************************************************************************)
EXTENDS Jobs

CONSTANTS p1, f1, r1, v1, NoRun, Nobody

VARIABLES
    part,                                                                   \* whose behaviour it is
    asset, sub, due, intent, req, recovery, stored, journal, backup,
    pw, fw, publisher, calm, \* MediaPurge
    day, conf, budget, releases, run, att, meta, task, standing, aw, isolating, sends \* AiDispatch

Purging == INSTANCE MediaPurge WITH
    NParts <- 2, Purgers <- {p1}, Finalizers <- {f1}, MaxAttempts <- 2, MaxEpoch <- 1,
    FailuresStop <- TRUE

OnePrice == <<2>>
OneLimit == <<3>>

Sending == INSTANCE AiDispatch WITH
    Runs <- {r1}, TestRuns <- {}, Workers <- {v1}, PerTask <- OnePrice, Daily <- OneLimit,
    Charges <- {3}, MaxUnits <- 6, MaxAttempts <- 1, Timeout <- 1, SweepAge <- 2,
    MaxDay <- 1, MaxRev <- 1, MaxEpoch <- 2, basis <- standing, wk <- aw

purgeVars == <<asset, sub, due, intent, req, recovery, stored, journal, backup, pw, fw,
               publisher, calm>>
aiVars == <<day, conf, budget, releases, run, att, meta, task, standing, aw, isolating, sends>>
progressVars == <<part, vars, purgeVars, aiVars>>

\* What has yet to begin a publication when a purge comes is left to MCSafety.
ProgressInit ==
    /\ Init /\ Purging!Init /\ Sending!Init
    /\ part \in {"jobs", "purge", "ai"}
    /\ publisher = IF part = "purge" THEN "MARKED" ELSE "NONE"

JobStep == part = "jobs" /\ Next /\ UNCHANGED <<purgeVars, aiVars>>
PurgePart == part = "purge" /\ Purging!Next /\ UNCHANGED <<vars, aiVars>>
AiStep == part = "ai" /\ Sending!Next /\ UNCHANGED <<vars, purgeVars>>

ProgressNext == UNCHANGED part /\ (JobStep \/ PurgePart \/ AiStep)

\* The fairness of MediaPurge and of AiDispatch, in the behaviours that are theirs; of Jobs
\* nothing is enabled in an initial state.
PurgeFairness ==
    LET here(A) == part = "purge" /\ A IN
    /\ WF_purgeVars(here(~recovery.open /\ Purging!CleanItem))
    /\ WF_purgeVars(here(Purging!Approve))
    /\ WF_purgeVars(here(Purging!FailuresEnd)) /\ WF_purgeVars(here(Purging!PurgeLeaseEnds))
    /\ WF_purgeVars(here(Purging!DeletionLeaseEnds)) /\ WF_purgeVars(here(Purging!RetryDue))
    /\ WF_purgeVars(here(~recovery.open /\ Purging!PurgeStep(p1)))
    /\ WF_purgeVars(here(~recovery.open /\ Purging!FinalizerStep(f1)))

AiFairness ==
    LET here(A) == part = "ai" /\ isolating = {} /\ A IN
    /\ WF_aiVars(here(Sending!Tick)) /\ WF_aiVars(\E r \in isolating : Sending!IsolateRun(r))
    /\ WF_aiVars(here(Sending!Advance(v1))) /\ SF_aiVars(here(Sending!Pick(v1)))
    /\ SF_aiVars(here(Sending!Configure(v1))) /\ SF_aiVars(here(Sending!GiveUp(v1)))
    /\ SF_aiVars(here(Sending!Begin(v1) \/ Sending!Refuse(v1)))

ProgressSpec == /\ ProgressInit /\ [][ProgressNext]_progressVars
                /\ Fairness /\ PurgeFairness /\ AiFairness

\* A purge past its fence ends, also when its worker dies or the store's answer is unknown, and so
\* does a deletion request that waits for it (claim, objectResult, defer; finalization's claim,
\* fail), unless the marker of a publication with an unknown end blocks them
\* (PR03E_ACCEPTANCE.md:37).
PurgesEnd ==
    LET busy == Purging!PurgeUnfinished \/ req.state = "CLEANING"
    IN  busy ~> ~busy \/ publisher = "MARKED"

\* An attempt that may have been executed is given up sooner or later, and a queued run is sent or
\* ended (AiWorker.cycle).  A run waits as long as no adapter is configured; that one is again,
\* sooner or later, is an assumption (the fairness of Configure).
RunsMoveOn ==
    LET waits == run[r1].state = "QUEUED" \/ att[r1][1].state = "MAY_HAVE_EXECUTED"
    IN  waits ~> ~waits
===============================================================================
