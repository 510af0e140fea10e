------------------------------- MODULE AiCalls --------------------------------
(***************************************************************************)
(* What the AI ledger promises its callers, with no budget, worker or clock. *)
(* A call is requested, opened (from then on the provider may have been     *)
(* contacted), sent at most once and only while it is open, and closed for  *)
(* ever.  A closed call is never opened again: whoever wants another try    *)
(* requests a new call.                                                     *)
(***************************************************************************)
EXTENDS Naturals

CONSTANT Runs

VARIABLES phase,   \* how far each call has come
          sends    \* how often its request left for the provider

vars == <<phase, sends>>

Phases == {"IDLE", "QUEUED", "OPEN", "CLOSED"}

Init == /\ phase = [r \in Runs |-> "IDLE"]
        /\ sends = [r \in Runs |-> 0]

Request(r) == /\ phase[r] = "IDLE"
              /\ phase' = [phase EXCEPT ![r] = "QUEUED"]
              /\ UNCHANGED sends

Open(r) == /\ phase[r] = "QUEUED"
           /\ phase' = [phase EXCEPT ![r] = "OPEN"]
           /\ UNCHANGED sends

Send(r) == /\ phase[r] = "OPEN"
           /\ sends[r] = 0
           /\ sends' = [sends EXCEPT ![r] = 1]
           /\ UNCHANGED phase

Close(r) == /\ phase[r] \in {"QUEUED", "OPEN"}
            /\ phase' = [phase EXCEPT ![r] = "CLOSED"]
            /\ UNCHANGED sends

Next == \E r \in Runs : Request(r) \/ Open(r) \/ Send(r) \/ Close(r)

Spec == Init /\ [][Next]_vars
===============================================================================
