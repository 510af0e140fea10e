------------------------------ MODULE MCRecovery ------------------------------
(***************************************************************************)
(* Two commands that restrict, one of them contained, and one that opens    *)
(* the contained right again; one media object.                             *)
(***************************************************************************)
EXTENDS Recovery

CONSTANTS source, account, suspend, disable, confirm

MCRights == {source, account}
MCRestricts == {suspend, disable}
MCOpens == {confirm}
MCContained == {source}
MCRightOf == [c \in MCRestricts \cup MCOpens |-> IF c = disable THEN account ELSE source]

\* Rows have the shape of their tables and the journal can be read back, its entries
\* once each and no completion before its intent, however often commands are sent
\* (safety-journal.ts readSafetyJournal, delta-resolution.ts).
JournalOK == TypeOK /\ JournalIsReadable
=============================================================================
