------------------------------- MODULE MCDeletion -------------------------------
(* Instances of Deletion for TLC.                                            *)
EXTENDS Deletion, TLC

CONSTANTS e1, w1, w2

OneExport == {e1}
OneWorker == {w1}
TwoWorkers == {w1, w2}

\* A request that is complete left nothing of the person, and nothing was erased that the plan
\* retains or before a member started the cleanup (deletion-finalization.ts).
ErasedAsPlanned == DeletionTypeOK /\ FinishedIsClean /\ NothingUnplannedIsErased
===============================================================================
