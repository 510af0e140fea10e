-------------------------------- MODULE Identity --------------------------------
(***************************************************************************)
(* The members of the installation: their accounts, activation tokens,      *)
(* passwords and sessions (identity.ts), the idempotent commands an         *)
(* administrator changes them with (commands.ts, the COMMAND branch of      *)
(* api.ts) and the browser that sends a command again with the same key     *)
(* while it does not know what became of it (admin-web/src/api.ts).         *)
(*                                                                         *)
(* A transaction is one action. Hashing a password is slow and is done      *)
(* between two transactions. A request may be handled after its browser     *)
(* has given up waiting for it, and its answer may be lost.                 *)
(***************************************************************************)
EXTENDS Integers, FiniteSets

CONSTANTS
    Members,       \* accounts the installation may have
    Founder,       \* the one bootstrap makes
    Browsers,      \* each holds one session at a time
    Submitters,    \* those that submit commands
    MaxPasswords,  \* bound on the passwords set
    MaxTokens,     \* bound on the activation tokens of an account
    MaxEpoch,      \* bound on sessionEpoch
    MaxForms       \* bound on the commands a browser submits

ASSUME IdentityConstants ==
    /\ Founder \in Members /\ IsFiniteSet(Members) /\ IsFiniteSet(Browsers)
    /\ Submitters \subseteq Browsers
    /\ {MaxPasswords, MaxTokens, MaxEpoch, MaxForms} \subseteq Nat \ {0}

VARIABLES
    user,       \* users and memberships rows
    token,      \* activations rows: the latest token of a member, and whether it is spent
    passwords,  \* number of passwords set so far: names the next one
    origin,     \* of each password, the activation token it descends from
    session,    \* sessions rows, by the browser that holds the cookie
    work,       \* what a browser's login or password change is in the middle of
    form,       \* the command a browser has not resolved
    net,        \* copies of its request: the one it waits for, and one it gave up
    applied     \* times the command of the form took effect

accounts == <<user, token, passwords, origin>>
commands == <<form, net, applied>>
vars == <<accounts, session, work, commands>>

Roles == {"ADMIN", "EDITOR"}
NoPassword == 0
Users == [status: {"NONE", "PENDING", "ACTIVE", "DISABLED"}, member: {"ACTIVE", "DISABLED"},
          role: Roles, password: 0..MaxPasswords, epoch: 1..MaxEpoch, revision: 1..MaxEpoch]
Sessions == [member: Members, epoch: 0..MaxEpoch, password: 0..MaxPasswords]
NoSession == [member |-> Founder, epoch |-> 0, password |-> NoPassword]
Works == [kind: {"NONE", "LOGIN", "CHANGE"}, member: Members, typed: 0..MaxPasswords]
NoWork == [kind |-> "NONE", member |-> Founder, typed |-> NoPassword]
\* changeMember's commands, and one that creates a row of its own
Kinds == {"DISABLE", "SCOPE"} \cup Roles
Forms == [number: 0..MaxForms, kind: Kinds, target: Members,
          revision: 1..MaxEpoch, owner: Members, uncertain: BOOLEAN,
          told: {"NONE", "OPEN", "DONE", "REFUSED"}]
NoForm == [number |-> 0, kind |-> "DISABLE", target |-> Founder, revision |-> 1,
           owner |-> Founder, uncertain |-> FALSE, told |-> "NONE"]

TypeOK ==
    /\ user \in [Members -> Users]
    /\ token \in [Members -> [number: 0..MaxTokens, spent: BOOLEAN]]
    /\ passwords \in 1..MaxPasswords
    /\ origin \in [1..MaxPasswords -> 0..MaxTokens]
    /\ session \in [Browsers -> Sessions]
    /\ work \in [Browsers -> Works]
    /\ form \in [Browsers -> Forms]
    /\ net \in [Browsers -> SUBSET {"WAITED_FOR", "GIVEN_UP"}]
    /\ applied \in [Browsers -> 0..2]

\* bootstrap: one active administrator, who chose the first password
Init ==
    /\ user = [m \in Members |->
                [status |-> IF m = Founder THEN "ACTIVE" ELSE "NONE", member |-> "ACTIVE",
                 role |-> IF m = Founder THEN "ADMIN" ELSE "EDITOR",
                 password |-> IF m = Founder THEN 1 ELSE NoPassword, epoch |-> 1, revision |-> 1]]
    /\ token = [m \in Members |-> [number |-> 0, spent |-> TRUE]]
    /\ passwords = 1
    /\ origin = [p \in 1..MaxPasswords |-> 0]
    /\ session = [b \in Browsers |-> NoSession]
    /\ work = [b \in Browsers |-> NoWork]
    /\ form = [b \in Browsers |-> NoForm]
    /\ net = [b \in Browsers |-> {}]
    /\ applied = [b \in Browsers |-> 0]

----------------------------------------------------------------------------
(* Sessions *)

MayAct(m) == user[m].status = "ACTIVE" /\ user[m].member = "ACTIVE"

\* authenticate: the cookie names a session nothing has ended since
Usable(b) ==
    /\ session[b].epoch > 0
    /\ MayAct(session[b].member)
    /\ session[b].epoch = user[session[b].member].epoch

IsAdmin(b) == Usable(b) /\ user[session[b].member].role = "ADMIN"

\* The first transaction of login reads the account. The password typed is one
\* the member has had at some time; only the one that matches is let through.
LoginReads(b, m, typed) ==
    /\ work[b].kind = "NONE"
    /\ typed # NoPassword /\ typed = user[m].password
    /\ work' = [work EXCEPT ![b] = [kind |-> "LOGIN", member |-> m, typed |-> typed]]
    /\ UNCHANGED <<accounts, session, commands>>

\* A mutation of StillCurrent: the account is checked, the password is not.
StillActive(b) == MayAct(work[b].member)

\* the second one opens the session if nothing has changed since
StillCurrent(b) == MayAct(work[b].member) /\ user[work[b].member].password = work[b].typed

LoginOpens(b) ==
    /\ work[b].kind = "LOGIN"
    /\ work' = [work EXCEPT ![b] = NoWork]
    /\ IF StillCurrent(b)
       THEN session' = [session EXCEPT ![b] =
                [member |-> work[b].member, epoch |-> user[work[b].member].epoch,
                 password |-> work[b].typed]]
       ELSE UNCHANGED session
    /\ UNCHANGED <<accounts, commands>>

\* logout, and a session that reaches its idle or absolute end
Logout(b) ==
    /\ session[b].epoch > 0
    /\ session' = [session EXCEPT ![b] = NoSession]
    /\ UNCHANGED <<accounts, work, commands>>

----------------------------------------------------------------------------
(* Passwords and activation tokens *)

SetPassword(m, from) ==
    /\ passwords < MaxPasswords /\ user[m].epoch < MaxEpoch
    /\ passwords' = passwords + 1
    /\ origin' = [origin EXCEPT ![passwords + 1] = from]
    /\ user' = [user EXCEPT ![m].password = passwords + 1, ![m].status = "ACTIVE",
                            ![m].epoch = @ + 1]

\* a token is good while it is the latest and unspent; an expired one is not used
GoodToken(m, t) == token[m] = [number |-> t, spent |-> FALSE]

Activate(m, t) ==
    /\ GoodToken(m, t)
    /\ user[m].status \in {"PENDING", "ACTIVE"} /\ user[m].member = "ACTIVE"
    /\ token' = [token EXCEPT ![m].spent = TRUE]
    /\ SetPassword(m, t)
    /\ UNCHANGED <<session, work, commands>>

\* changePassword: the old password is verified between the two transactions
ChangeReads(b) ==
    /\ work[b].kind = "NONE" /\ Usable(b)
    /\ work' = [work EXCEPT ![b] = [kind |-> "CHANGE", member |-> session[b].member,
                                    typed |-> user[session[b].member].password]]
    /\ UNCHANGED <<accounts, session, commands>>

ChangeWrites(b) ==
    /\ work[b].kind = "CHANGE"
    /\ work' = [work EXCEPT ![b] = NoWork]
    /\ IF /\ Usable(b) /\ session[b].member = work[b].member
          /\ user[work[b].member].password = work[b].typed
       THEN /\ SetPassword(work[b].member, origin[work[b].typed])
            /\ session' = [session EXCEPT ![b] = NoSession]
       ELSE UNCHANGED <<user, passwords, origin, session>>
    /\ UNCHANGED <<token, commands>>

IssueToken(m) ==
    /\ token[m].number < MaxTokens
    /\ token' = [token EXCEPT ![m] = [number |-> @.number + 1, spent |-> FALSE]]

\* the answer carries the token, so it is not replayed and the browser does not retry
CreateMember(b, m, role) ==
    /\ IsAdmin(b) /\ user[m].status = "NONE"
    /\ user' = [user EXCEPT ![m].status = "PENDING", ![m].role = role]
    /\ IssueToken(m)
    /\ UNCHANGED <<passwords, origin, session, work, commands>>

ResetMember(b, m) ==
    /\ IsAdmin(b) /\ m # session[b].member
    /\ user[m].member = "ACTIVE" /\ user[m].status \in {"PENDING", "ACTIVE"}
    /\ user[m].epoch < MaxEpoch /\ user[m].revision < MaxEpoch
    /\ user' = [user EXCEPT ![m].password = NoPassword, ![m].status = "PENDING",
                            ![m].epoch = @ + 1, ![m].revision = @ + 1]
    /\ IssueToken(m)
    /\ UNCHANGED <<passwords, origin, session, work, commands>>

----------------------------------------------------------------------------
(* Commands *)

\* a browser submits a form about the revision it sees, under a new key
Submit(b, kind, m) ==
    /\ b \in Submitters
    /\ form[b].told # "OPEN" /\ net[b] = {} /\ form[b].number < MaxForms
    /\ IsAdmin(b) /\ user[m].status # "NONE"
    /\ form' = [form EXCEPT ![b] =
                 [number |-> @.number + 1, kind |-> kind, target |-> m,
                  revision |-> user[m].revision, owner |-> session[b].member,
                  uncertain |-> FALSE, told |-> "OPEN"]]
    /\ net' = [net EXCEPT ![b] = {"WAITED_FOR"}]
    /\ applied' = [applied EXCEPT ![b] = 0]
    /\ UNCHANGED <<accounts, session, work>>

\* the same form again, or a replay of what is pending: the key is the same
SendAgain(b) ==
    /\ form[b].told = "OPEN" /\ "WAITED_FOR" \notin net[b] /\ Usable(b)
    /\ form[b].owner = session[b].member
    /\ net' = [net EXCEPT ![b] = @ \cup {"WAITED_FOR"}]
    /\ UNCHANGED <<accounts, session, work, form, applied>>

\* the request is lost, or the browser stops waiting while it is on its way
NetworkFails(b) ==
    /\ "WAITED_FOR" \in net[b]
    /\ \E late \in BOOLEAN :
        net' = [net EXCEPT ![b] = (@ \ {"WAITED_FOR"}) \cup (IF late THEN {"GIVEN_UP"} ELSE {})]
    /\ form' = [form EXCEPT ![b].uncertain = TRUE]
    /\ UNCHANGED <<accounts, session, work, applied>>

LateOneIsLost(b) ==
    /\ "GIVEN_UP" \in net[b]
    /\ net' = [net EXCEPT ![b] = @ \ {"GIVEN_UP"}]
    /\ UNCHANGED <<accounts, session, work, form, applied>>

ActiveAdmins == {m \in Members : user[m].role = "ADMIN" /\ MayAct(m)}

\* A mutation of KeepsAnAdmin: administrators who have yet to activate count.
CountsPending(m, kind) ==
    m \in ActiveAdmins /\ kind # "ADMIN" =>
        Cardinality({a \in Members : /\ user[a].role = "ADMIN" /\ user[a].member = "ACTIVE"
                                     /\ user[a].status # "NONE"}) > 1

\* changeMember: the last administrator who is active stays
KeepsAnAdmin(m, kind) ==
    m \in ActiveAdmins /\ kind # "ADMIN" => Cardinality(ActiveAdmins) > 1

Allowed(b) == IsAdmin(b) /\ session[b].member = form[b].owner

\* A mutation of Receipt: every request is a command of its own.
NoReceipt(b) == FALSE

\* execute: a receipt under the key is the answer; otherwise the command is applied
Receipt(b) == applied[b] > 0

Applies(b) ==
    LET m == form[b].target
    IN  \/ form[b].kind = "SCOPE"
        \/ /\ user[m].revision = form[b].revision
           /\ user[m].epoch < MaxEpoch /\ user[m].revision < MaxEpoch
           /\ KeepsAnAdmin(m, form[b].kind)

Apply(b) ==
    LET m == form[b].target
    IN  /\ user' = CASE form[b].kind = "DISABLE" ->
                          [user EXCEPT ![m].status = "DISABLED", ![m].member = "DISABLED",
                                       ![m].epoch = @ + 1, ![m].revision = @ + 1]
                     [] form[b].kind \in Roles ->
                          [user EXCEPT ![m].role = form[b].kind,
                                       ![m].epoch = @ + 1, ![m].revision = @ + 1]
                     [] OTHER -> user
        /\ applied' = [applied EXCEPT ![b] = @ + 1]

\* A mutation of Settles: any refusal discards the key.
AnySettles(b, answer) == TRUE

\* what the browser makes of an answer: a refusal settles nothing once an
\* earlier answer was lost
Settles(b, answer) == answer = "DONE" \/ ~form[b].uncertain

Hear(b, answer) ==
    form' = [form EXCEPT ![b].told = IF Settles(b, answer) THEN answer ELSE @,
                         ![b].uncertain = @ /\ ~Settles(b, answer)]

Unheard(b) == form' = [form EXCEPT ![b].uncertain = TRUE]

\* One copy of the request is handled; only the one the browser waits for is
\* answered, unless the answer is lost.
Handle(b, copy) ==
    /\ copy \in net[b]
    /\ net' = [net EXCEPT ![b] = @ \ {copy}]
    /\ LET replay == Allowed(b) /\ Receipt(b)
           done == Allowed(b) /\ ~Receipt(b) /\ Applies(b)
           answer == IF replay \/ done THEN "DONE" ELSE "REFUSED"
       IN  /\ IF done THEN Apply(b) ELSE UNCHANGED <<user, applied>>
           /\ IF copy = "GIVEN_UP" THEN UNCHANGED form ELSE Hear(b, answer) \/ Unheard(b)
    /\ UNCHANGED <<token, passwords, origin, session, work>>

\* The browser asks for the receipt under its key. That there is none settles
\* nothing: the request may still be on its way.
Inspect(b) ==
    /\ form[b].told = "OPEN" /\ "WAITED_FOR" \notin net[b]
    /\ Allowed(b) /\ Receipt(b)
    /\ Hear(b, "DONE")
    /\ UNCHANGED <<accounts, session, work, net, applied>>

----------------------------------------------------------------------------
Next ==
    \/ \E b \in Browsers :
        \/ LoginOpens(b) \/ Logout(b) \/ ChangeReads(b) \/ ChangeWrites(b)
        \/ SendAgain(b) \/ Inspect(b) \/ NetworkFails(b) \/ LateOneIsLost(b)
        \/ \E copy \in {"WAITED_FOR", "GIVEN_UP"} : Handle(b, copy)
        \/ \E m \in Members :
            \/ LoginReads(b, m, user[m].password) \/ ResetMember(b, m)
            \/ \E kind \in Kinds : Submit(b, kind, m)
            \/ \E role \in Roles : CreateMember(b, m, role)
    \/ \E m \in Members : \E t \in 1..MaxTokens : Activate(m, t)

Spec == Init /\ [][Next]_vars

----------------------------------------------------------------------------
(* Properties *)

\* A reset cuts the member off from everything obtained before it. Whatever
\* logins, activations and password changes were under way, the password in
\* force descends from the token of the last reset, and a session that
\* authenticates was opened with the password in force (identity.ts
\* passwordHash and sessionEpoch in login, activate, changePassword, resetMember).
ResetCutsOff ==
    /\ \A m \in Members :
        user[m].password # NoPassword => origin[user[m].password] = token[m].number
    /\ \A b \in Browsers :
        Usable(b) => session[b].password = user[session[b].member].password

\* No sequence of resets, role changes and disabling, by administrators who act
\* on each other at the same time, leaves the installation without one who can
\* log in (identity.ts LAST_ADMIN and USE_CHANGE_PASSWORD).
SomeAdminRemains == ActiveAdmins # {}

\* What a browser was told is what happened: a command it counts as done took
\* effect once, however often it was sent; one it counts as refused did not and
\* no copy of it can any more (commands.ts receipts, admin-web api.ts unresolved).
ToldIsTrue ==
    \A b \in Browsers :
        /\ applied[b] <= 1
        /\ form[b].told = "DONE" => applied[b] = 1
        /\ form[b].told = "REFUSED" => applied[b] = 0 /\ net[b] = {}

=============================================================================
