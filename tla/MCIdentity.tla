------------------------------ MODULE MCIdentity ------------------------------
(***************************************************************************)
(* Members and portal accounts. The two share no row, so a behaviour moves  *)
(* one of them only: interleaving them adds nothing.                        *)
(***************************************************************************)
EXTENDS Identity, TalentAuth

VARIABLE part

MCInit == Init /\ PortalInit /\ part \in {"MEMBERS", "PORTAL"}

MCNext ==
    \/ part = "MEMBERS" /\ Next /\ UNCHANGED <<portalVars, part>>
    \/ part = "PORTAL" /\ PortalNext /\ UNCHANGED <<vars, part>>

MCSpec == MCInit /\ [][MCNext]_<<vars, portalVars, part>>

\* Every row has the shape of its table, and a code is given to the provider once, opens one
\* session and is gone with its challenge (talent-auth.ts createChallenge, verify).
CodesServeOnce == TypeOK /\ PortalTypeOK /\ CodeIsSentOnce /\ CodesEnd
=============================================================================
