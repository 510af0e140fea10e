------------------------------- MODULE TalentAuth -------------------------------
(***************************************************************************)
(* The portal's accounts: one-time codes sent to a mailbox or a telephone,  *)
(* the sessions they open, and what ends them (talent-auth.ts, the          *)
(* authentication routes of talent-portal.ts).                              *)
(*                                                                         *)
(* A transaction is one action. A code is handed to the provider between    *)
(* two of them: the process may die in between, and the answer may come     *)
(* after the code was used, replaced, or taken away.                        *)
(***************************************************************************)
EXTENDS Integers, FiniteSets

CONSTANTS
    Identities,     \* mailboxes and telephones
    Visitors,       \* browsers, each with one authentication context
    MaxChallenges,  \* bound on the challenges created
    MaxGuesses,    \* maxAttempts of the configuration
    MaxAccountEpoch \* bound on sessionEpoch of an account

ASSUME TalentAuthConstants ==
    /\ IsFiniteSet(Identities) /\ IsFiniteSet(Visitors) /\ Identities # {} /\ Visitors # {}
    /\ {MaxChallenges, MaxGuesses, MaxAccountEpoch} \subseteq Nat \ {0}

Challenges == 1..MaxChallenges

VARIABLES
    account,    \* talentAccounts and talentIdentities rows
    challenge,  \* talentAuthChallenges rows, in the order they are created
    delivery,   \* talentAuthDeliveries rows: their state, and whether the payload is kept
    sender,     \* the process that dispatches a challenge
    sent,       \* times the provider was given the code
    opened,     \* sessions a challenge opened
    visit       \* talentSessions rows, by the browser that holds the cookie

portalVars == <<account, challenge, delivery, sender, sent, opened, visit>>

Over == {"CONSUMED", "EXPIRED", "FAILED"}
Answers == {"ACCEPTED", "DELIVERED", "FAILED", "UNKNOWN"}
ChallengeRows == [state: {"NONE", "QUEUED"} \cup Answers \cup Over, identity: Identities,
                  visitor: Visitors, code: BOOLEAN, attempts: 0..MaxGuesses]
DeliveryRows == [state: {"NONE", "QUEUED"} \cup Answers \cup Over, payload: BOOLEAN]
Visits == [identity: Identities, epoch: 0..MaxAccountEpoch]

PortalTypeOK ==
    /\ account \in [Identities -> [status: {"NONE", "ACTIVE", "DISABLED", "ERASED"},
                                   epoch: 1..MaxAccountEpoch]]
    /\ challenge \in [Challenges -> ChallengeRows]
    /\ delivery \in [Challenges -> DeliveryRows]
    /\ sender \in [Challenges -> {"IDLE", "READY", "SENDING", "SENT"}]
    /\ sent \in [Challenges -> 0..2]
    /\ opened \in [Challenges -> 0..2]
    /\ visit \in [Visitors -> Visits]

PortalInit ==
    /\ account = [i \in Identities |-> [status |-> "NONE", epoch |-> 1]]
    /\ challenge \in {[c \in Challenges |-> [state |-> "NONE", identity |-> i, visitor |-> v,
                        code |-> FALSE, attempts |-> 0]] :
                        i \in {CHOOSE i \in Identities : TRUE},
                        v \in {CHOOSE v \in Visitors : TRUE}}
    /\ delivery = [c \in Challenges |-> [state |-> "NONE", payload |-> FALSE]]
    /\ sender = [c \in Challenges |-> "IDLE"]
    /\ sent = [c \in Challenges |-> 0]
    /\ opened = [c \in Challenges |-> 0]
    /\ visit = [v \in Visitors |-> [identity |-> CHOOSE i \in Identities : TRUE, epoch |-> 0]]

----------------------------------------------------------------------------
Live(c) == challenge[c].state \notin Over \cup {"NONE"}

\* expire: the code and the payload go; an uncertain delivery stays so
Expired(c) == [challenge[c] EXCEPT !.state = "EXPIRED", !.code = FALSE]
PayloadGone(c) ==
    [state |-> IF delivery[c].state = "UNKNOWN" THEN "UNKNOWN" ELSE "EXPIRED", payload |-> FALSE]

\* A mutation of Replaced: only the challenge of the same browser is replaced.
SameBrowser(i, v) == {c \in Challenges : Live(c) /\ challenge[c].visitor = v}

\* the challenges a new one replaces, across tabs: those of the same identity
\* and those of the same context
Replaced(i, v) == {c \in Challenges : Live(c) /\ (challenge[c].identity = i \/ challenge[c].visitor = v)}

CreateChallenge(c, i, v) ==
    /\ challenge[c].state = "NONE" /\ \A d \in 1..(c - 1) : challenge[d].state # "NONE"
    /\ challenge' = [d \in Challenges |->
         IF d = c THEN [state |-> "QUEUED", identity |-> i, visitor |-> v, code |-> TRUE, attempts |-> 0]
         ELSE IF d \in Replaced(i, v) THEN Expired(d) ELSE challenge[d]]
    /\ delivery' = [d \in Challenges |->
         IF d = c THEN [state |-> "QUEUED", payload |-> TRUE]
         ELSE IF d \in Replaced(i, v) THEN PayloadGone(d) ELSE delivery[d]]
    /\ sender' = [sender EXCEPT ![c] = "READY"]
    /\ UNCHANGED <<account, sent, opened, visit>>

\* A mutation of MayDispatch: a delivery whose outcome is unknown is sent again.
UntilAnswered(c) == challenge[c].state \in {"QUEUED", "UNKNOWN"}

\* dispatch persists the uncertainty before the code leaves the transaction; the delivery of a
\* challenge that is over already (guessed at too often before it was sent) is closed instead
MayDispatch(c) == delivery[c].state = "QUEUED" /\ delivery[c].payload

Dispatch(c) ==
    /\ sender[c] = "READY"
    /\ \/ /\ MayDispatch(c) /\ Live(c)
          /\ delivery' = [delivery EXCEPT ![c] = [state |-> "UNKNOWN", payload |-> FALSE]]
          /\ challenge' = [challenge EXCEPT ![c].state = "UNKNOWN"]
          /\ sender' = [sender EXCEPT ![c] = "SENDING"]
       \/ /\ MayDispatch(c) /\ ~Live(c)
          /\ delivery' = [delivery EXCEPT ![c] = PayloadGone(c)]
          /\ challenge' = [challenge EXCEPT ![c] = Expired(c)]
          /\ sender' = [sender EXCEPT ![c] = "IDLE"]
       \/ /\ ~MayDispatch(c)
          /\ sender' = [sender EXCEPT ![c] = "IDLE"]
          /\ UNCHANGED <<challenge, delivery>>
    /\ UNCHANGED <<account, sent, opened, visit>>

ProviderTakes(c) ==
    /\ sender[c] = "SENDING"
    /\ sent' = [sent EXCEPT ![c] = @ + 1]
    /\ sender' = [sender EXCEPT ![c] = "SENT"]
    /\ UNCHANGED <<account, challenge, delivery, opened, visit>>

\* the answer is recorded if the challenge still waits for it
RecordAnswer(c, answer) ==
    /\ \/ sender[c] = "SENT"
       \/ sender[c] = "SENDING" /\ answer \in {"FAILED", "UNKNOWN"}
    /\ sender' = [sender EXCEPT ![c] = "IDLE"]
    /\ IF challenge[c].state = "UNKNOWN"
       THEN /\ challenge' = [challenge EXCEPT ![c].state = answer,
                                              ![c].code = @ /\ answer # "FAILED"]
            /\ delivery' = [delivery EXCEPT ![c] = [state |-> answer, payload |-> FALSE]]
       ELSE UNCHANGED <<challenge, delivery>>
    /\ UNCHANGED <<account, sent, opened, visit>>

\* The process dies, and dispatch is called once more: it reads the rows.
SenderDies(c) ==
    /\ sender[c] \in {"SENDING", "SENT"} /\ sent[c] < 2
    /\ sender' = [sender EXCEPT ![c] = "READY"]
    /\ UNCHANGED <<account, challenge, delivery, sent, opened, visit>>

\* the time of the challenge is up: cleanupTalentAuth, or expire in dispatch
Lapse(c) ==
    /\ Live(c)
    /\ challenge' = [challenge EXCEPT ![c] = Expired(c)]
    /\ delivery' = [delivery EXCEPT ![c] = PayloadGone(c)]
    /\ UNCHANGED <<account, sender, sent, opened, visit>>

\* verify: a code is entered in the context the challenge was created in
Open(c) == Live(c) /\ challenge[c].code

WrongCode(c) ==
    /\ Live(c) /\ challenge[c].attempts < MaxGuesses
    /\ LET n == challenge[c].attempts + 1
           last == n >= MaxGuesses
       IN  challenge' = [challenge EXCEPT ![c].attempts = n,
                            ![c].state = IF last THEN "FAILED" ELSE @,
                            ![c].code = @ /\ ~last]
    /\ UNCHANGED <<account, delivery, sender, sent, opened, visit>>

RightCode(c) ==
    LET i == challenge[c].identity
    IN  /\ Open(c) /\ challenge[c].attempts < MaxGuesses
        /\ account[i].status \in {"NONE", "ACTIVE"}
        /\ opened[c] < 2
        /\ account' = [account EXCEPT ![i].status = "ACTIVE"]
        /\ challenge' = [challenge EXCEPT ![c].state = "CONSUMED", ![c].code = FALSE]
        /\ delivery' = [delivery EXCEPT ![c] = [state |-> "CONSUMED", payload |-> FALSE]]
        /\ visit' = [visit EXCEPT ![challenge[c].visitor] =
                        [identity |-> i, epoch |-> account[i].epoch]]
        /\ opened' = [opened EXCEPT ![c] = @ + 1]
        /\ UNCHANGED <<sender, sent>>

\* authenticate
SignedIn(v) ==
    /\ visit[v].epoch > 0
    /\ account[visit[v].identity].status = "ACTIVE"
    /\ account[visit[v].identity].epoch = visit[v].epoch

NoVisit(v) == [visit[v] EXCEPT !.epoch = 0]

SignOut(v) ==
    /\ SignedIn(v)
    /\ visit' = [visit EXCEPT ![v] = NoVisit(v)]
    /\ UNCHANGED <<account, challenge, delivery, sender, sent, opened>>

\* the session stays, the others of the account go
SignOutOthers(v) ==
    /\ SignedIn(v)
    /\ visit' = [w \in Visitors |->
                    IF w # v /\ visit[w].identity = visit[v].identity THEN NoVisit(w) ELSE visit[w]]
    /\ visit' # visit
    /\ UNCHANGED <<account, challenge, delivery, sender, sent, opened>>

\* isolateTalentAuth: an administrator disables or erases accounts, or a
\* recovery isolates all of them and leaves their status alone
Reached(c, accounts) == challenge[c].identity \in accounts

Isolate(accounts, status) ==
    /\ \A i \in accounts : account[i].epoch < MaxAccountEpoch
    /\ account' = [i \in Identities |->
         IF i \in accounts /\ account[i].status # "NONE"
         THEN [status |-> IF status = "SAME" THEN account[i].status ELSE status,
               epoch |-> account[i].epoch + 1]
         ELSE account[i]]
    /\ visit' = [v \in Visitors |-> IF visit[v].identity \in accounts THEN NoVisit(v) ELSE visit[v]]
    /\ challenge' = [c \in Challenges |->
         IF challenge[c].state \in {"NONE", "CONSUMED"} \/ ~Reached(c, accounts) THEN challenge[c]
         ELSE Expired(c)]
    /\ delivery' = [c \in Challenges |->
         IF challenge[c].state # "NONE" /\ Reached(c, accounts)
         THEN PayloadGone(c) ELSE delivery[c]]
    /\ UNCHANGED <<sender, sent, opened>>

DisableAccount(i, status) ==
    /\ account[i].status \in {"ACTIVE", "DISABLED"}
    /\ Isolate({i}, status)

Recover == Isolate(Identities, "SAME")

PortalNext ==
    \/ \E c \in Challenges :
        \/ \E i \in Identities, v \in Visitors : CreateChallenge(c, i, v)
        \/ Dispatch(c) \/ ProviderTakes(c) \/ SenderDies(c) \/ Lapse(c)
        \/ \E answer \in Answers : RecordAnswer(c, answer)
        \/ WrongCode(c) \/ RightCode(c)
    \/ \E v \in Visitors : SignOut(v) \/ SignOutOthers(v)
    \/ \E i \in Identities, status \in {"DISABLED", "ERASED"} : DisableAccount(i, status)
    \/ Recover

PortalSpec == PortalInit /\ [][PortalNext]_portalVars

----------------------------------------------------------------------------
(* Properties *)

\* However a dispatch dies and is repeated, the provider is given a code once
\* (talent-auth.ts: "Crash/retry can never send this delivery twice").
CodeIsSentOnce == \A c \in Challenges : sent[c] <= 1

\* A code opens one session at most, an identity and a browser have one code at
\* a time, whichever tab or device asked for it, and nothing of a code is left
\* when its challenge is over (createChallenge, verify, isolateTalentAuth).
CodesEnd ==
    \A c \in Challenges :
        /\ opened[c] <= 1
        /\ challenge[c].code => Live(c)
        /\ \A d \in Challenges \ {c} :
            challenge[c].code /\ challenge[d].code =>
                /\ challenge[d].identity # challenge[c].identity
                /\ challenge[d].visitor # challenge[c].visitor
        /\ challenge[c].state \in {"EXPIRED", "CONSUMED"} => ~delivery[c].payload
=============================================================================
