------------------------------ MODULE MCIntake ------------------------------
(***************************************************************************)
(* Intake in two small rooms: the places of two invitations and the people   *)
(* who want them; one keeper of a record and the office writing it at once.   *)
(***************************************************************************)
EXTENDS Intake

VARIABLE room   \* what is going on

CONSTANTS i1, i2, p1, p2, c1, c2, u1, u2, t1, t2, x1, x2, name, intro

\* what the names of the rooms must satisfy
RoomConstants ==
    /\ {i1, i2} \subseteq Invites /\ {p1, p2} \subseteq People /\ {c1, c2} \subseteq Claims
    /\ {u1, u2} \subseteq Accounts /\ {t1, t2} \subseteq Subs
    /\ {x1, x2} \subseteq Texts /\ name \in Fields /\ IsFiniteSet(Claims)

roomVars == <<intakeVars, room>>

Human(state) == [state |-> state, text |-> [f \in Fields |-> x1], epoch |-> 0]
Everyone(open) == [p \in People |-> Human(IF p \in open THEN "OPEN" ELSE "ABSENT")]
All(t) == [f \in Fields |-> t]
Only(f, t) == [g \in {f} |-> t]
\* u1 keeps p1 already
Kept == [NoClaim EXCEPT !.state = "APPROVED", !.acct = u1, !.inv = i2, !.person = p1]
Keeper == [state |-> "ACTIVE", acct |-> u1, person |-> p1, rel |-> "SELF", era |-> 0]
Used == [NoInv EXCEPT !.state = "CLAIMED", !.used = 1]
Issued == [NoInv EXCEPT !.state = "ACTIVE", !.secret = 1]
\* claims are named in the order they are made
NextClaim == IF claim[c1] = NoClaim THEN c1 ELSE c2

IntakeInit ==
    /\ active = {u1, u2} /\ era = 0
    /\ ctx = [x \in Accounts |-> NoCtx]
    /\ sub = [s \in Subs |-> NoSub] /\ consent = [s \in Subs |-> "NONE"]
    /\ \/ /\ room = "seats" /\ human = Everyone({p1})
          /\ inv = [i \in Invites |-> IF i = i1 THEN Issued ELSE NoInv]
          /\ claim = [c \in Claims |-> NoClaim] /\ grant = [c \in Claims |-> NoGrant]
       \/ /\ room = "texts" /\ human = Everyone({p1, p2})
          /\ inv = [i \in Invites |-> IF i = i2 THEN Used ELSE NoInv]
          /\ claim = [c \in Claims |-> IF c = c1 THEN Kept ELSE NoClaim]
          /\ grant = [c \in Claims |-> IF c = c1 THEN Keeper ELSE NoGrant]

SeatSteps ==
    \/ \E i \in Invites : CreateInvitation(i) \/ Issue(i) \/ RevokeInvitation(i)
    \/ InvitationEnds(i1)
    \/ \E x \in Accounts : MakeClaim(x, NextClaim, "SELF") \/ \E i \in Invites : Exchange(x, i)
    \/ MakeClaim(u2, NextClaim, "AGENT")
    \/ \E c \in Claims :
          \/ \E x \in Accounts : Renew(x, c)
          \/ DecideClaim(c, TRUE) \/ DecideClaim(c, FALSE) \/ RevokeGrant(c) \/ AdmissionEnds(c)
          \/ CreateDraft(t1, claim[c].acct, c, All(x2))
    \/ EraseWithSource(p1)
    \/ Submit(t1) \/ \E A \in {{}, Fields}, q \in People : Review(t1, A, q)
    \/ Cleanup

TextSteps ==
    \/ CreateDraft(t1, u1, c1, All(x2)) \/ SaveDraft(t1, Only(name, x2))
    \/ CreateDraft(t2, u1, c1, Only(name, x1))
    \/ Fork(t1, t2) \/ Withdraw(t1) \/ SubmissionEnds(t1)
    \/ \E s \in Subs :
          \/ Submit(s) \/ RevokeConsent(s)
          \/ \E A \in SUBSET Fields : Review(s, A, p1)
    \/ PatchPerson(p1, name, x2)
    \/ \E state \in {"OPEN", "ARCHIVED", "BLOCKED"} : PersonStatus(p1, state)
    \/ ErasePerson(p1) \/ EraseWithSource(p1) \/ Merge(p2, p1) \/ RevokeGrant(c1) \/ CloseAccount(u1) \/ Recover \/ Cleanup

IntakeNext ==
    /\ room' = room
    /\ \/ room = "seats" /\ SeatSteps
       \/ room = "texts" /\ TextSteps

\* What holds in every state (Intake): no place is given twice or lost, one keeper of each record.
IntakeOK == TypeOK /\ PlacesHold /\ OneKeeper

IntakeSpec == IntakeInit /\ [][IntakeNext]_roomVars
=============================================================================
