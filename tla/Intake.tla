------------------------------- MODULE Intake -------------------------------
(***************************************************************************)
(* How people come to keep their own records (talent-maintenance.ts,        *)
(* talent-maintenance-lifecycle.ts): invitations with a number of places,    *)
(* claims that hold a place for a while, grants, drafts that are frozen on    *)
(* submission and reviewed, and all that takes these away again.             *)
(*                                                                         *)
(* The text fields of the identity are followed; pictures, collections and    *)
(* works of a submission, the source and evidence a review writes, guardians, *)
(* recipients and ages are left out. Every command is one transaction, at the *)
(* revision it was given.                                                    *)
(***************************************************************************)
EXTENDS Naturals, FiniteSets

CONSTANTS
    Accounts,   \* talent accounts
    People,     \* people, absent ones among them
    Invites,    \* invitations
    Claims,     \* claims; the grant of a claim has its name
    Subs,       \* submissions; the consent a draft was created with has its name
    Fields,     \* TEXT_FIELDS
    Texts,      \* what a field may say
    TargetOf,   \* the person an invitation is for, None for one to enrol
    None,
    MaxUses,    \* places of an invitation to enrol (100)
    MaxSecret,  \* bound: times an invitation is issued
    MaxEpoch    \* bound: changes of the status of a person, and recoveries

\* what the constants must satisfy
IntakeAssumption ==
    /\ TargetOf \in [Invites -> People \cup {None}]
    /\ MaxUses \in Nat \ {0} /\ MaxSecret \in Nat /\ MaxEpoch \in Nat
    /\ None \notin People \cup Invites \cup Claims \cup Subs \cup Accounts

VARIABLES
    active,    \* talentAccounts: the accounts in use
    human,     \* people: state, texts, protection epoch
    inv,       \* talentInvitations
    ctx,       \* talentInvitationContexts: the invitation a browser has open
    claim,     \* talentClaims
    grant,     \* talentAccessGrants
    sub,       \* talentSubmissions and their items
    consent,   \* talentConsents
    era        \* the recovery epoch

intakeVars == <<active, human, inv, ctx, claim, grant, sub, consent, era>>

NoInv == [state |-> "NONE", secret |-> 0, used |-> 0, reserved |-> 0, late |-> FALSE, era |-> 0]
NoCtx == [inv |-> None, secret |-> 0, era |-> 0]
NoClaim == [state |-> "NONE", acct |-> None, inv |-> None, person |-> None, rel |-> "SELF",
            reserved |-> FALSE, late |-> FALSE, era |-> 0]
NoGrant == [state |-> "NONE", acct |-> None, person |-> None, rel |-> "SELF", era |-> 0]
NoBase == [text |-> None, epoch |-> 0]
NoSub == [state |-> "NONE", acct |-> None, person |-> None, claim |-> None, by |-> None,
          consent |-> None, items |-> << >>, sent |-> << >>, late |-> FALSE, era |-> 0]

TypeOK ==
    /\ active \subseteq Accounts
    /\ \A p \in People : human[p].state \in {"ABSENT", "OPEN", "ARCHIVED", "BLOCKED", "GONE", "ERASED"}
    /\ \A i \in Invites : inv[i].state \in {"NONE", "DRAFT", "ACTIVE", "CLAIMED", "EXHAUSTED", "REVOKED"}
                            /\ inv[i].reserved \in Nat
    /\ \A c \in Claims : claim[c].state \in {"NONE", "PENDING", "APPROVED", "REJECTED", "WITHDRAWN", "EXPIRED"}
    /\ \A c \in Claims : grant[c].state \in {"NONE", "ACTIVE", "REVOKED", "RECOVERY_REVIEW"}
    /\ \A s \in Subs : sub[s].state \in {"NONE", "DRAFT", "SUBMITTED", "WITHDRAWN", "EXPIRED", "NEEDS_REBASE",
                                         "APPROVED", "PARTIALLY_APPROVED", "REJECTED"}

-----------------------------------------------------------------------------
(* Invitations and the places they have *)

Enrols(i) == TargetOf[i] = None
Places(i) == IF Enrols(i) THEN MaxUses ELSE 1
LiveInv(i) == inv[i].state = "ACTIVE" /\ ~inv[i].late /\ inv[i].era = era
Open(p) == p \in People /\ human[p].state = "OPEN"
Seen(p) == p \in People /\ human[p].state \in {"OPEN", "ARCHIVED"}
\* invitation(): one for a person is handled only by who sees the person
Handled(i) == Enrols(i) \/ Seen(TargetOf[i])

CreateInvitation(i) ==
    /\ inv[i] = NoInv /\ Handled(i)
    /\ inv' = [inv EXCEPT ![i].state = "DRAFT", ![i].era = era]
    /\ UNCHANGED <<active, human, ctx, claim, grant, sub, consent, era>>

Issue(i) ==
    /\ Handled(i) /\ inv[i].secret < MaxSecret
    /\ inv[i].state \in {"DRAFT", "ACTIVE"} /\ ~inv[i].late /\ inv[i].era = era
    /\ inv' = [inv EXCEPT ![i].state = "ACTIVE", ![i].secret = @ + 1]
    /\ UNCHANGED <<active, human, ctx, claim, grant, sub, consent, era>>

\* the reserved claims whose place is to be given back
Idle(I, current) ==
    {c \in Claims : claim[c].reserved
        /\ (claim[c].late \/ I[claim[c].inv].state # "ACTIVE" \/ I[claim[c].inv].late
              \/ (current /\ claim[c].era # era))}

\* A mutation of FreeInv: the claims lose their places and the invitation does not get them back.
PlacesKept(I, S) == I

FreeInv(I, S) == [i \in Invites |-> [I[i] EXCEPT !.reserved = @ - Cardinality({c \in S : claim[c].inv = i})]]

FreeClaims(S) == [c \in Claims |-> IF c \in S THEN [claim[c] EXCEPT !.reserved = FALSE] ELSE claim[c]]

RevokeInvitation(i) ==
    LET I == [inv EXCEPT ![i].state = "REVOKED"]  S == Idle(I, TRUE)
    IN  /\ inv[i].state # "NONE" /\ Handled(i)
        /\ inv' = FreeInv(I, S) /\ claim' = FreeClaims(S)
        /\ UNCHANGED <<active, human, ctx, grant, sub, consent, era>>

\* exchange: the link, of one secret version, opens the invitation in a browser
Exchange(x, i) ==
    /\ LiveInv(i)
    /\ ctx' = [ctx EXCEPT ![x] = [inv |-> i, secret |-> inv[i].secret, era |-> era]]
    /\ UNCHANGED <<active, human, inv, claim, grant, sub, consent, era>>

InContext(x, i) == ctx[x] = [inv |-> i, secret |-> inv[i].secret, era |-> era] /\ LiveInv(i)

SelfBound(x, p) == \E g \in Claims : grant[g].state = "ACTIVE" /\ grant[g].rel = "SELF"
                                        /\ (grant[g].acct = x \/ grant[g].person = p)

MakeClaim(x, c, rel) ==
    \E i \in Invites :
        LET S == Idle(inv, TRUE)
            I == FreeInv(inv, S)
            again == \E d \in Claims : claim[d].state = "PENDING" /\ claim[d].acct = x /\ claim[d].rel = rel
                        /\ IF Enrols(i) THEN Enrols(claim[d].inv) ELSE claim[d].inv = i
        IN  /\ x \in active /\ InContext(x, i) /\ (rel = "SELF" => ~SelfBound(x, None))
            /\ \/ again /\ claim' = FreeClaims(S) /\ inv' = I
               \/ /\ ~again /\ claim[c] = NoClaim /\ I[i].used + I[i].reserved < Places(i)
                  /\ Enrols(i) \/ Open(TargetOf[i])
                  /\ claim' = [FreeClaims(S) EXCEPT ![c] =
                        [NoClaim EXCEPT !.state = "PENDING", !.acct = x, !.inv = i, !.person = TargetOf[i],
                                        !.rel = rel, !.reserved = Enrols(i), !.era = era]]
                  /\ inv' = [I EXCEPT ![i].reserved = @ + (IF Enrols(i) THEN 1 ELSE 0)]
            /\ UNCHANGED <<active, human, ctx, grant, sub, consent, era>>

\* ownClaim: of one's own, and with active: still admitted
OwnClaim(x, c) == x \in active /\ claim[c].acct = x
Admitted(c) == /\ claim[c].state = "PENDING" /\ claim[c].era = era /\ ~claim[c].late
               /\ (Enrols(claim[c].inv) => claim[c].reserved) /\ LiveInv(claim[c].inv)

Renew(x, c) ==
    \E i \in Invites :
        LET S == Idle(inv, TRUE)  I == FreeInv(inv, S)
        IN  /\ OwnClaim(x, c) /\ claim[c].state = "PENDING" /\ Enrols(claim[c].inv)
            /\ InContext(x, i) /\ Enrols(i) /\ (c \in S \/ ~claim[c].reserved)
            /\ I[i].used + I[i].reserved < Places(i)
            /\ claim' = [FreeClaims(S) EXCEPT ![c].inv = i, ![c].reserved = TRUE, ![c].late = FALSE, ![c].era = era]
            /\ inv' = [I EXCEPT ![i].reserved = @ + 1]
            /\ UNCHANGED <<active, human, ctx, grant, sub, consent, era>>

MayApprove(c, p) ==
    /\ claim[c].acct \in active /\ Open(p) /\ Admitted(c)
    /\ claim[c].rel = "SELF" => ~SelfBound(claim[c].acct, p)

Approve(c, p) ==
    LET i == claim[c].inv  used == inv[i].used + 1 IN
    /\ claim' = [claim EXCEPT ![c].state = "APPROVED", ![c].person = p, ![c].reserved = FALSE]
    /\ grant' = [grant EXCEPT ![c] = [state |-> "ACTIVE", acct |-> claim[c].acct, person |-> p,
                                      rel |-> claim[c].rel, era |-> era]]
    /\ inv' = [inv EXCEPT ![i].used = used, ![i].reserved = @ - (IF claim[c].reserved THEN 1 ELSE 0),
                          ![i].state = IF ~Enrols(i) THEN "CLAIMED"
                                       ELSE IF used = MaxUses THEN "EXHAUSTED" ELSE "ACTIVE"]
Reject(c) ==
    /\ claim' = [claim EXCEPT ![c].state = "REJECTED", ![c].reserved = FALSE]
    /\ inv' = [inv EXCEPT ![claim[c].inv].reserved = @ - (IF claim[c].reserved THEN 1 ELSE 0)]

\* an applicant who enrols is approved with the first submission only
DecideClaim(c, accept) ==
    /\ claim[c].state = "PENDING"
    /\ IF accept THEN ~Enrols(claim[c].inv) /\ MayApprove(c, claim[c].person) /\ Approve(c, claim[c].person)
                 ELSE Reject(c) /\ UNCHANGED grant
    /\ UNCHANGED <<active, human, ctx, sub, consent, era>>

RevokeGrant(c) ==
    /\ grant[c].state # "NONE" /\ Seen(grant[c].person)
    /\ grant' = [grant EXCEPT ![c].state = "REVOKED"]
    /\ UNCHANGED <<active, human, inv, ctx, claim, sub, consent, era>>

-----------------------------------------------------------------------------
(* Drafts and submissions *)

Granted(x, c) ==
    /\ x \in active /\ grant[c].acct = x /\ grant[c].state = "ACTIVE" /\ grant[c].era = era
    /\ claim[c].state = "APPROVED" /\ claim[c].acct = x /\ claim[c].person = grant[c].person
    /\ Open(grant[c].person)

\* submissionAccess
Access(s, write) ==
    /\ sub[s].state # "NONE" /\ ~sub[s].late /\ sub[s].acct \in active
    /\ IF sub[s].person # None
       THEN Granted(sub[s].acct, sub[s].by) /\ grant[sub[s].by].person = sub[s].person
       ELSE OwnClaim(sub[s].acct, sub[s].claim) /\ (write => Admitted(sub[s].claim))
    /\ write => sub[s].era = era

\* putItems: an item keeps the baseline of the same field, a new one takes that of the person now
Items(p, old, texts) ==
    [f \in DOMAIN texts |->
        [text |-> texts[f], state |-> "PENDING",
         base |-> IF f \in DOMAIN old THEN old[f].base
                  ELSE IF p = None THEN NoBase ELSE [text |-> human[p].text[f], epoch |-> human[p].epoch]]]

CreateDraft(s, x, c, texts) ==
    /\ sub[s] = NoSub
    /\ \/ Granted(x, c)
       \/ OwnClaim(x, c) /\ Admitted(c) /\ Enrols(claim[c].inv)
    /\ LET p == IF Granted(x, c) THEN grant[c].person ELSE None IN
       sub' = [sub EXCEPT ![s] = [NoSub EXCEPT
          !.state = "DRAFT", !.acct = x, !.person = p, !.claim = IF p = None THEN c ELSE None,
          !.by = IF p = None THEN None ELSE c, !.consent = s, !.items = Items(p, << >>, texts), !.era = era]]
    /\ consent' = [consent EXCEPT ![s] = "ACTIVE"]
    /\ UNCHANGED <<active, human, inv, ctx, claim, grant, era>>

SaveDraft(s, texts) ==
    /\ Access(s, TRUE) /\ sub[s].state = "DRAFT" /\ (sub[s].person = None \/ Open(sub[s].person))
    /\ sub' = [sub EXCEPT ![s].items = Items(sub[s].person, @, texts)]
    /\ UNCHANGED <<active, human, inv, ctx, claim, grant, consent, era>>

Submit(s) ==
    /\ Access(s, TRUE) /\ sub[s].state = "DRAFT" /\ sub[s].items # << >> /\ consent[sub[s].consent] = "ACTIVE"
    /\ sub' = [sub EXCEPT ![s].state = "SUBMITTED", ![s].sent = sub[s].items]
    /\ UNCHANGED <<active, human, inv, ctx, claim, grant, consent, era>>

Withdraw(s) ==
    /\ Access(s, FALSE) /\ sub[s].state \in {"DRAFT", "SUBMITTED"}
    /\ sub' = [sub EXCEPT ![s].state = "WITHDRAWN"]
    /\ UNCHANGED <<active, human, inv, ctx, claim, grant, consent, era>>

\* fork: a new draft of what was not applied, on the same consent and with the baselines of now
Fork(s, n) ==
    LET left == {f \in DOMAIN sub[s].items : sub[s].state = "APPROVED" \/ sub[s].items[f].state # "APPLIED"} IN
    /\ Access(s, TRUE) /\ sub[s].state \notin {"DRAFT", "SUBMITTED"} /\ sub[n] = NoSub
    /\ consent[sub[s].consent] = "ACTIVE"
    /\ sub' = [sub EXCEPT ![n] = [sub[s] EXCEPT
          !.state = "DRAFT", !.sent = << >>,
          !.items = Items(sub[s].person, << >>, [f \in left |-> sub[s].items[f].text])]]
    /\ UNCHANGED <<active, human, inv, ctx, claim, grant, consent, era>>

\* A mutation of Rebase: what was submitted is applied to the person as it is by then.
ReviewedAnyway(s, A) == FALSE
\* the person has changed since the talent wrote
Rebase(s, A) ==
    LET p == sub[s].person IN
    \E f \in A : sub[s].items[f].base # [text |-> human[p].text[f], epoch |-> human[p].epoch]

\* the items A of a submission applied to p, the others rejected
Apply(s, A, p) ==
    human' = IF A = {} THEN human
             ELSE [human EXCEPT ![p].state = "OPEN",
                                ![p].text = [f \in Fields |-> IF f \in A THEN sub[s].items[f].text ELSE @[f]]]
Decided(s, A, p, g) ==
    sub' = [sub EXCEPT
        ![s].person = p, ![s].by = g,
        ![s].state = IF A = {} THEN "REJECTED"
                     ELSE IF A = DOMAIN sub[s].items THEN "APPROVED" ELSE "PARTIALLY_APPROVED",
        ![s].items = [f \in DOMAIN sub[s].items |->
                         [sub[s].items[f] EXCEPT !.state = IF f \in A THEN "APPLIED" ELSE "REJECTED"]]]

\* review, of one who keeps a record already
ReviewKnown(s, A) ==
    LET p == sub[s].person IN
    /\ Granted(sub[s].acct, sub[s].by)
    /\ IF Rebase(s, A) THEN sub' = [sub EXCEPT ![s].state = "NEEDS_REBASE"] /\ UNCHANGED human
                       ELSE Apply(s, A, p) /\ Decided(s, A, p, sub[s].by)
    /\ UNCHANGED <<claim, grant, inv>>

\* of one who enrols: all the fields or none, for a new person or one that is there
ReviewNew(s, A, q) ==
    LET c == sub[s].claim IN
    /\ OwnClaim(sub[s].acct, c) /\ Admitted(c)
    /\ IF A = {} THEN Reject(c) /\ Decided(s, A, None, None) /\ UNCHANGED grant
       ELSE /\ A = Fields
            /\ IF human[q].state = "ABSENT" THEN claim[c].rel = "SELF" => ~SelfBound(claim[c].acct, q)
                                            ELSE MayApprove(c, q)
            /\ Approve(c, q) /\ Decided(s, A, q, c)
    /\ Apply(s, A, q)

Review(s, A, q) ==
    /\ sub[s].state = "SUBMITTED" /\ ~sub[s].late /\ sub[s].era = era /\ sub[s].acct \in active
    /\ A \subseteq DOMAIN sub[s].items /\ sub[s].items = sub[s].sent
    /\ A # {} => consent[sub[s].consent] = "ACTIVE"
    /\ IF sub[s].person # None THEN q = sub[s].person /\ ReviewKnown(s, A) ELSE ReviewNew(s, A, q)
    /\ UNCHANGED <<active, ctx, consent, era>>

RevokeConsent(s) ==
    /\ consent[s] = "ACTIVE" /\ sub[s].acct \in active
    /\ consent' = [consent EXCEPT ![s] = "REVOKED"]
    /\ UNCHANGED <<active, human, inv, ctx, claim, grant, sub, era>>

-----------------------------------------------------------------------------
(* What else happens to the people, the accounts and the workspace *)

PatchPerson(p, f, t) ==
    /\ Open(p) /\ human[p].text[f] # t
    /\ human' = [human EXCEPT ![p].text[f] = t]
    /\ UNCHANGED <<active, inv, ctx, claim, grant, sub, consent, era>>
PersonStatus(p, state) ==
    /\ Seen(p) /\ state # human[p].state /\ human[p].epoch < MaxEpoch
    /\ state \in {"OPEN", "ARCHIVED", "BLOCKED"}
    /\ human' = [human EXCEPT ![p].state = state, ![p].epoch = @ + 1]
    /\ UNCHANGED <<active, inv, ctx, claim, grant, sub, consent, era>>

\* revokePersonMaintenance, on the deletion of a person (erase) or the merge of two
RevokeMaintenance(P, erase) ==
    /\ grant' = [c \in Claims |-> IF grant[c].person \in P THEN [grant[c] EXCEPT !.state = "REVOKED"] ELSE grant[c]]
    /\ claim' = [c \in Claims |-> IF claim[c].person \in P
          THEN [claim[c] EXCEPT !.reserved = FALSE, !.state = IF @ = "PENDING" THEN "WITHDRAWN" ELSE @]
          ELSE claim[c]]
    /\ inv' = [i \in Invites |->
          [inv[i] EXCEPT !.state = IF TargetOf[i] \in P /\ @ # "NONE" THEN "REVOKED" ELSE @,
              !.reserved = @ - Cardinality({c \in Claims : claim[c].reserved /\ claim[c].person \in P /\ claim[c].inv = i})]]
    /\ sub' = [s \in Subs |-> IF sub[s].person \notin P THEN sub[s]
          ELSE [sub[s] EXCEPT !.state = IF @ \in {"DRAFT", "SUBMITTED"} THEN "WITHDRAWN" ELSE @,
                              !.late = @ \/ erase, !.items = IF erase THEN << >> ELSE @]]
    /\ UNCHANGED <<active, ctx, consent, era>>
\* a deletion request for the person itself
ErasePerson(p) ==
    /\ human[p].state = "BLOCKED"
    /\ human' = [human EXCEPT ![p].state = "GONE"]
    /\ RevokeMaintenance({p}, TRUE)
\* A deletion request for the source that owns the person leaves the tombstone only: the grants,
\* claims, invitations and submissions of the person stay as they are. The plan of that request is
\* refused while the person is under a deletion of its own.
EraseWithSource(p) ==
    /\ Seen(p)
    /\ human' = [human EXCEPT ![p].state = "ERASED"]
    /\ UNCHANGED <<active, inv, ctx, claim, grant, sub, consent, era>>
Merge(p, q) ==
    /\ p # q /\ human[p].state = "OPEN" /\ human[q].state = "OPEN"
    /\ human' = [human EXCEPT ![q].state = "GONE"]
    /\ RevokeMaintenance({p, q}, FALSE)

\* isolateTalentMaintenance: one account is closed, or the workspace is recovered
Isolate(X, state) ==
    LET mine == {c \in Claims : claim[c].acct \in X /\ claim[c].state = "PENDING"} IN
    /\ grant' = [c \in Claims |-> IF grant[c].acct \in X THEN [grant[c] EXCEPT !.state = state] ELSE grant[c]]
    /\ claim' = [c \in Claims |-> IF c \in mine THEN [claim[c] EXCEPT !.state = "EXPIRED", !.reserved = FALSE] ELSE claim[c]]
    /\ sub' = [s \in Subs |-> IF sub[s].acct \in X /\ sub[s].state \in {"DRAFT", "SUBMITTED"}
                              THEN [sub[s] EXCEPT !.state = "EXPIRED"] ELSE sub[s]]
CloseAccount(x) ==
    /\ x \in active /\ active' = active \ {x}
    /\ Isolate({x}, "REVOKED")
    /\ inv' = FreeInv(inv, {c \in Claims : claim[c].reserved /\ claim[c].acct = x})
    /\ UNCHANGED <<human, ctx, consent, era>>
Recover ==
    /\ era < MaxEpoch /\ era' = era + 1
    /\ Isolate(Accounts, "RECOVERY_REVIEW")
    /\ inv' = [i \in Invites |-> [inv[i] EXCEPT !.state = IF @ = "NONE" THEN @ ELSE "REVOKED", !.reserved = 0]]
    /\ UNCHANGED <<active, human, ctx, consent>>

\* cleanupTalentMaintenance, as part of the worker's round
Cleanup ==
    LET S == Idle(inv, FALSE) IN
    /\ claim' = FreeClaims(S) /\ inv' = FreeInv(inv, S)
    /\ sub' = [s \in Subs |-> IF ~sub[s].late \/ sub[s].state = "NONE" THEN sub[s]
          ELSE [sub[s] EXCEPT !.state = IF @ \in {"DRAFT", "SUBMITTED"} THEN "EXPIRED" ELSE @, !.items = << >>]]
    /\ UNCHANGED <<active, human, ctx, grant, consent, era>>

\* time: the claims of an invitation end with it at the latest
InvitationEnds(i) ==
    /\ inv[i].state # "NONE" /\ ~inv[i].late
    /\ inv' = [inv EXCEPT ![i].late = TRUE]
    /\ claim' = [c \in Claims |-> IF claim[c].inv = i THEN [claim[c] EXCEPT !.late = TRUE] ELSE claim[c]]
    /\ UNCHANGED <<active, human, ctx, grant, sub, consent, era>>
AdmissionEnds(c) ==
    /\ claim[c].state = "PENDING" /\ ~claim[c].late
    /\ claim' = [claim EXCEPT ![c].late = TRUE]
    /\ UNCHANGED <<active, human, inv, ctx, grant, sub, consent, era>>
SubmissionEnds(s) ==
    /\ sub[s].state # "NONE" /\ ~sub[s].late
    /\ sub' = [sub EXCEPT ![s].late = TRUE]
    /\ UNCHANGED <<active, human, inv, ctx, claim, grant, consent, era>>

-----------------------------------------------------------------------------
(* Properties *)

\* The places of an invitation are never given twice nor lost: what it counts as reserved are the
\* claims that hold a place, what it counts as used the approved ones, and together they never
\* exceed its places (claim, renew, releaseReservations, approveClaim, decideClaim, isolate).
PlacesHold ==
    \A i \in Invites :
        /\ inv[i].reserved = Cardinality({c \in Claims : claim[c].reserved /\ claim[c].inv = i})
        /\ inv[i].used = Cardinality({c \in Claims : claim[c].state = "APPROVED" /\ claim[c].inv = i})
        /\ inv[i].used + inv[i].reserved <= Places(i)
\* A person has one keeper of their own and an account is the keeper of one person, whichever two
\* claims were approved; and no grant outlives its account, a recovery, or the merge or the
\* deletion of the person it is for. A person that is erased along with the source that owns it
\* (EraseWithSource) keeps its grants: they open nothing more (Granted), and still count as the one
\* record of their account.
OneKeeper ==
    \A c \in Claims : grant[c].state = "ACTIVE" =>
        /\ grant[c].acct \in active /\ grant[c].era = era /\ human[grant[c].person].state \notin {"ABSENT", "GONE"}
        /\ grant[c].rel = "SELF" => \A d \in Claims \ {c} :
              grant[d].state = "ACTIVE" /\ grant[d].rel = "SELF" =>
                  grant[d].acct # grant[c].acct /\ grant[d].person # grant[c].person

\* What a review writes is what was submitted, on a consent that still stands, over the very text
\* that the talent had before them when they wrote (review, NEEDS_REBASE).
ReviewedAsSubmitted ==
    \A s \in Subs :
        sub[s].state = "SUBMITTED" /\ sub'[s].state \in {"APPROVED", "PARTIALLY_APPROVED"} =>
            /\ consent[sub[s].consent] = "ACTIVE"
            /\ \A f \in DOMAIN sub[s].items : sub'[s].items[f].state = "APPLIED" =>
                  /\ human'[sub'[s].person].text[f] = sub[s].sent[f].text
                  /\ sub[s].person # None => human[sub[s].person].text[f] = sub[s].sent[f].base.text

AppliedAsSubmitted == [][ReviewedAsSubmitted]_intakeVars
=============================================================================
