---------------------------- MODULE PrivacyProofs ----------------------------
(***************************************************************************)
(* Theorems about who may get at what the house keeps, and about what is    *)
(* erased when a person asks: the accounts of members (Identity) and of the *)
(* portal (TalentAuth), for every set of members, browsers, identities and  *)
(* visitors and for every bound; and Deletion, for every set of exports and *)
(* of workers and every bound on the attempts. The models share no state.   *)
(***************************************************************************)
EXTENDS MCIdentity, MCDeletion, TLAPS, FiniteSetTheorems

----------------------------------------------------------------------------
(* Members: the rows keep their shape. *)

LEMMA MemberBounds ==
    /\ MaxPasswords \in Nat /\ MaxPasswords > 0 /\ MaxTokens \in Nat /\ MaxTokens > 0
    /\ MaxEpoch \in Nat /\ MaxEpoch > 0 /\ MaxForms \in Nat /\ MaxForms > 0
    /\ Founder \in Members
BY IdentityConstants

LEMMA MembersTypeInit == Init => TypeOK
BY MemberBounds
   DEF Init, TypeOK, Users, Sessions, Works, Forms, NoSession, NoWork, NoForm, NoPassword, Kinds,
       Roles

\* The rows that the four kinds of writes to a user leave.
LEMMA PasswordRow ==
    ASSUME NEW u \in Users, NEW p \in 0..MaxPasswords, NEW e \in 1..MaxEpoch
    PROVE  [u EXCEPT !.password = p, !.status = "ACTIVE", !.epoch = e] \in Users
BY DEF Users

LEMMA ResetRow ==
    ASSUME NEW u \in Users, NEW e \in 1..MaxEpoch, NEW v \in 1..MaxEpoch, NEW p \in 0..MaxPasswords
    PROVE  [u EXCEPT !.password = p, !.status = "PENDING", !.epoch = e, !.revision = v] \in Users
BY DEF Users

LEMMA NewRow ==
    ASSUME NEW u \in Users, NEW r \in Roles
    PROVE  [u EXCEPT !.status = "PENDING", !.role = r] \in Users
BY DEF Users

LEMMA OffRow ==
    ASSUME NEW u \in Users, NEW e \in 1..MaxEpoch, NEW v \in 1..MaxEpoch
    PROVE  [u EXCEPT !.status = "DISABLED", !.member = "DISABLED",
                     !.epoch = e, !.revision = v] \in Users
BY DEF Users

LEMMA RoleRow ==
    ASSUME NEW u \in Users, NEW e \in 1..MaxEpoch, NEW v \in 1..MaxEpoch, NEW r \in Roles
    PROVE  [u EXCEPT !.role = r, !.epoch = e, !.revision = v] \in Users
BY DEF Users

\* What a step does to the users: nothing but to one row, with a new session epoch
\* whenever the password or the right to act is touched.
OnlyRow(m) == \A n \in Members \ {m} : user'[n] = user[n]

LEMMA SetPasswordDoes ==
    ASSUME TypeOK, NEW m \in Members, NEW from \in 0..MaxTokens, SetPassword(m, from)
    PROVE  /\ user' \in [Members -> Users] /\ OnlyRow(m)
           /\ user'[m].password = passwords + 1 /\ user'[m].status = "ACTIVE"
           /\ user'[m].epoch = user[m].epoch + 1
           /\ user'[m].member = user[m].member /\ user'[m].role = user[m].role
           /\ passwords' \in 1..MaxPasswords /\ passwords' = passwords + 1
           /\ origin' \in [1..MaxPasswords -> 0..MaxTokens] /\ origin'[passwords + 1] = from
           /\ \A p \in 1..passwords : origin'[p] = origin[p]
<1> USE MemberBounds
<1> DEFINE p == passwords + 1
           e == user[m].epoch + 1
           row == [user[m] EXCEPT !.password = p, !.status = "ACTIVE", !.epoch = e]
<1>1. user[m] \in Users /\ passwords \in 1..MaxPasswords BY DEF TypeOK
<1>2. passwords < MaxPasswords /\ user[m].epoch < MaxEpoch BY DEF SetPassword
<1>3. user[m].epoch \in 1..MaxEpoch BY <1>1 DEF Users
<1>4. p \in 0..MaxPasswords /\ e \in 1..MaxEpoch BY <1>1, <1>2, <1>3
<1>5. row \in Users
  <2> HIDE DEF p, e
  <2> QED BY <1>1, <1>4, PasswordRow
<1>6. user' = [user EXCEPT ![m] = row] BY DEF SetPassword, TypeOK
<1>7. user' \in [Members -> Users] /\ OnlyRow(m) BY <1>5, <1>6 DEF TypeOK, OnlyRow
<1>8. user'[m] = row BY <1>6 DEF TypeOK
<1>9. /\ user'[m].password = p /\ user'[m].status = "ACTIVE" /\ user'[m].epoch = e
      /\ user'[m].member = user[m].member /\ user'[m].role = user[m].role
  BY <1>1, <1>8 DEF Users
<1>10. passwords' \in 1..MaxPasswords BY <1>1, <1>2 DEF SetPassword
<1>11. /\ origin' \in [1..MaxPasswords -> 0..MaxTokens] /\ origin'[passwords + 1] = from
       /\ \A q \in 1..passwords : origin'[q] = origin[q]
  BY <1>1, <1>2 DEF SetPassword, TypeOK
<1> QED BY <1>7, <1>9, <1>10, <1>11 DEF SetPassword

LEMMA IssueTokenDoes ==
    ASSUME TypeOK, NEW m \in Members, IssueToken(m)
    PROVE  /\ token' \in [Members -> [number: 0..MaxTokens, spent: BOOLEAN]]
           /\ \A n \in Members \ {m} : token'[n] = token[n]
BY MemberBounds DEF TypeOK, IssueToken

LEMMA ResetDoes ==
    ASSUME TypeOK, NEW b \in Browsers, NEW m \in Members, ResetMember(b, m)
    PROVE  /\ user' \in [Members -> Users] /\ OnlyRow(m)
           /\ user'[m].password = NoPassword /\ user'[m].status = "PENDING"
           /\ user'[m].epoch = user[m].epoch + 1
<1> USE MemberBounds
<1> DEFINE p == NoPassword
           e == user[m].epoch + 1
           v == user[m].revision + 1
           row == [user[m] EXCEPT !.password = p, !.status = "PENDING", !.epoch = e, !.revision = v]
<1>1. user[m] \in Users BY DEF TypeOK
<1>2. user[m].epoch \in 1..MaxEpoch /\ user[m].revision \in 1..MaxEpoch BY <1>1 DEF Users
<1>3. p \in 0..MaxPasswords /\ e \in 1..MaxEpoch /\ v \in 1..MaxEpoch
  BY <1>2 DEF ResetMember, NoPassword
<1>4. row \in Users
  <2> HIDE DEF p, e, v
  <2> QED BY <1>1, <1>3, ResetRow
<1>5. user' = [user EXCEPT ![m] = row] BY DEF ResetMember, TypeOK
<1>6. user'[m] = row BY <1>5 DEF TypeOK
<1>7. user'[m].password = p /\ user'[m].status = "PENDING" /\ user'[m].epoch = e
  BY <1>1, <1>6 DEF Users
<1> QED BY <1>4, <1>5, <1>7 DEF TypeOK, OnlyRow

LEMMA CreateDoes ==
    ASSUME TypeOK, NEW b \in Browsers, NEW m \in Members, NEW role \in Roles,
           CreateMember(b, m, role)
    PROVE  /\ user' \in [Members -> Users] /\ OnlyRow(m)
           /\ user'[m].password = user[m].password /\ user'[m].status = "PENDING"
           /\ user'[m].epoch = user[m].epoch
<1> DEFINE row == [user[m] EXCEPT !.status = "PENDING", !.role = role]
<1>1. user[m] \in Users BY DEF TypeOK
<1>2. row \in Users BY <1>1, NewRow
<1>3. user' = [user EXCEPT ![m] = row] BY DEF CreateMember, TypeOK
<1>4. user'[m] = row BY <1>3 DEF TypeOK
<1>5. user'[m].password = user[m].password /\ user'[m].status = "PENDING"
      /\ user'[m].epoch = user[m].epoch
  BY <1>1, <1>4 DEF Users
<1> QED BY <1>2, <1>3, <1>5 DEF TypeOK, OnlyRow

LEMMA ApplyDoes ==
    ASSUME TypeOK, NEW b \in Browsers, ~Receipt(b), Applies(b), Apply(b)
    PROVE  /\ user' \in [Members -> Users]
           /\ applied' \in [Browsers -> 0..2] /\ applied'[b] = 1
           /\ \A c \in Browsers \ {b} : applied'[c] = applied[c]
           /\ \/ user' = user
              \/ \E m \in Members :
                    /\ OnlyRow(m)
                    /\ KeepsAnAdmin(m, form[b].kind)
                    /\ user'[m].password = user[m].password
                    /\ user'[m].epoch = user[m].epoch + 1
                    /\ user'[m].status \in {user[m].status, "DISABLED"}
                    /\ form[b].kind = "ADMIN" =>
                        /\ user'[m].role = "ADMIN" /\ user'[m].status = user[m].status
                        /\ user'[m].member = user[m].member
<1> USE MemberBounds
<1> DEFINE m == form[b].target
           e == user[m].epoch + 1
           v == user[m].revision + 1
           off == [user[m] EXCEPT !.status = "DISABLED", !.member = "DISABLED",
                                  !.epoch = e, !.revision = v]
           as == [user[m] EXCEPT !.role = form[b].kind, !.epoch = e, !.revision = v]
<1>1. form[b] \in Forms /\ m \in Members /\ user[m] \in Users BY DEF TypeOK, Forms
<1>2. applied[b] = 0 BY DEF TypeOK, Receipt
<1>3. /\ applied' \in [Browsers -> 0..2] /\ applied'[b] = 1
      /\ \A c \in Browsers \ {b} : applied'[c] = applied[c]
  BY <1>2 DEF TypeOK, Apply
<1>4. user[m].epoch \in 1..MaxEpoch /\ user[m].revision \in 1..MaxEpoch BY <1>1 DEF Users
<1>5. form[b].kind # "SCOPE" =>
        e \in 1..MaxEpoch /\ v \in 1..MaxEpoch /\ KeepsAnAdmin(m, form[b].kind)
  BY <1>4 DEF Applies
<1>6. CASE form[b].kind = "DISABLE"
  <2>1. off \in Users
    <3>1. e \in 1..MaxEpoch /\ v \in 1..MaxEpoch BY <1>5, <1>6
    <3> HIDE DEF e, v
    <3> QED BY <1>1, <3>1, OffRow
  <2>2. user' = [user EXCEPT ![m].status = "DISABLED", ![m].member = "DISABLED",
                             ![m].epoch = @ + 1, ![m].revision = @ + 1]
    BY <1>6 DEF Apply, Roles
  <2>3. user' = [user EXCEPT ![m] = off] BY <1>1, <2>2 DEF TypeOK, Users
  <2>4. user'[m] = off BY <1>1, <2>3 DEF TypeOK
  <2>5. /\ user'[m].password = user[m].password /\ user'[m].epoch = e
        /\ user'[m].status = "DISABLED"
    BY <1>1, <2>4 DEF Users
  <2>6. user' \in [Members -> Users] /\ OnlyRow(m) BY <1>1, <2>1, <2>3 DEF TypeOK, OnlyRow
  <2> QED BY <1>1, <1>3, <1>5, <1>6, <2>5, <2>6
<1>7. CASE form[b].kind \in Roles
  <2>1. as \in Users
    <3>1. e \in 1..MaxEpoch /\ v \in 1..MaxEpoch BY <1>5, <1>7 DEF Roles
    <3> HIDE DEF e, v
    <3> QED BY <1>1, <1>7, <3>1, RoleRow
  <2>2. user' = [user EXCEPT ![m].role = form[b].kind, ![m].epoch = @ + 1, ![m].revision = @ + 1]
    BY <1>7 DEF Apply, Roles
  <2>3. user' = [user EXCEPT ![m] = as] BY <1>1, <2>2 DEF TypeOK
  <2>4. user'[m] = as BY <1>1, <2>3 DEF TypeOK
  <2>5. /\ user'[m].password = user[m].password /\ user'[m].epoch = e
        /\ user'[m].status = user[m].status /\ user'[m].member = user[m].member
        /\ user'[m].role = form[b].kind
    BY <1>1, <2>4 DEF Users
  <2>6. user' \in [Members -> Users] /\ OnlyRow(m) BY <1>1, <2>1, <2>3 DEF TypeOK, OnlyRow
  <2>7. KeepsAnAdmin(m, form[b].kind) BY <1>5, <1>7 DEF Roles
  <2> QED BY <1>1, <1>3, <2>5, <2>6, <2>7
<1>8. CASE form[b].kind = "SCOPE"
  BY <1>3, <1>8 DEF Apply, TypeOK, Roles
<1> QED BY <1>1, <1>6, <1>7, <1>8 DEF Forms, Kinds

----------------------------------------------------------------------------
(* Members: what a password is good for. *)

\* No row points at a password that was never set. A member who is active has one: without
\* it the shape of the rows is not inductive, since changePassword copies the origin of the
\* password it replaces.
PasswordsKnown ==
    \A m \in Members :
        /\ user[m].password <= passwords
        /\ user[m].status = "ACTIVE" => user[m].password # NoPassword
        /\ user[m].status = "NONE" => user[m].password = NoPassword

\* The first half of ResetCutsOff.
Descends ==
    \A m \in Members :
        user[m].password # NoPassword => origin[user[m].password] = token[m].number

\* Every session knows an epoch of its member, and one that knows the present epoch was
\* opened with the present password.
SessionsAge ==
    \A b \in Browsers :
        /\ session[b].epoch <= user[session[b].member].epoch
        /\ session[b].epoch = user[session[b].member].epoch =>
            session[b].password = user[session[b].member].password

MembersInv == TypeOK /\ PasswordsKnown /\ Descends /\ SessionsAge

LEMMA MembersInvInit == Init => MembersInv
<1> SUFFICES ASSUME Init PROVE MembersInv
  OBVIOUS
<1>1. TypeOK BY MembersTypeInit
<1>2. PasswordsKnown BY DEF Init, PasswordsKnown, NoPassword
<1>3. Descends BY MemberBounds DEF Init, Descends, NoPassword
<1>4. SessionsAge BY MemberBounds DEF Init, SessionsAge, NoSession, NoPassword
<1> QED BY <1>1, <1>2, <1>3, <1>4 DEF MembersInv

\* A step that leaves the users, the tokens, the passwords and the sessions alone.
LEMMA AccountsStand ==
    ASSUME MembersInv, TypeOK', UNCHANGED <<accounts, session>>
    PROVE  MembersInv'
BY DEF MembersInv, accounts, PasswordsKnown, Descends, SessionsAge

\* A write to the user m that moves its epoch on: no session is of the present any more.
LEMMA EpochMovesOn ==
    ASSUME MembersInv, TypeOK', NEW m \in Members, OnlyRow(m),
           user'[m].epoch = user[m].epoch + 1,
           \A b \in Browsers : session'[b] = session[b] \/ session'[b] = NoSession
    PROVE  SessionsAge'
<1> SUFFICES ASSUME NEW b \in Browsers
             PROVE  /\ session'[b].epoch <= user'[session'[b].member].epoch
                    /\ session'[b].epoch = user'[session'[b].member].epoch =>
                        session'[b].password = user'[session'[b].member].password
  BY DEF SessionsAge
<1>1. session[b] \in Sessions /\ user[m] \in Users /\ user'[m] \in Users
  BY DEF MembersInv, TypeOK
<1>2. session[b].member \in Members /\ session[b].epoch \in 0..MaxEpoch BY <1>1 DEF Sessions
<1>3. user[m].epoch \in 1..MaxEpoch /\ user'[Founder].epoch \in 1..MaxEpoch
  BY <1>1, MemberBounds DEF Users, TypeOK
<1>4. CASE session'[b] = NoSession
  BY <1>3, <1>4, MemberBounds DEF NoSession
<1>5. CASE session'[b] = session[b] /\ session[b].member = m
  BY <1>2, <1>3, <1>5, MemberBounds DEF MembersInv, SessionsAge
<1>6. CASE session'[b] = session[b] /\ session[b].member # m
  BY <1>2, <1>6 DEF OnlyRow, MembersInv, SessionsAge
<1> QED BY <1>4, <1>5, <1>6

LEMMA SetPasswordKeeps ==
    ASSUME MembersInv, TypeOK', NEW m \in Members, NEW from \in 0..MaxTokens,
           SetPassword(m, from), from = token[m].number,
           \A n \in Members : token'[n].number = token[n].number,
           \A b \in Browsers : session'[b] = session[b] \/ session'[b] = NoSession
    PROVE  MembersInv'
<1>1. TypeOK BY DEF MembersInv
<1>2. /\ OnlyRow(m) /\ user'[m].password = passwords + 1 /\ user'[m].status = "ACTIVE"
      /\ user'[m].epoch = user[m].epoch + 1 /\ passwords' = passwords + 1
      /\ origin'[passwords + 1] = from /\ \A p \in 1..passwords : origin'[p] = origin[p]
  BY <1>1, SetPasswordDoes
<1>3. passwords \in 1..MaxPasswords /\ MaxPasswords \in Nat BY <1>1, MemberBounds DEF TypeOK
<1>4. \A n \in Members : user[n].password \in 0..MaxPasswords BY <1>1 DEF TypeOK, Users
<1>5. PasswordsKnown'
  BY <1>2, <1>3, <1>4 DEF MembersInv, PasswordsKnown, OnlyRow, NoPassword
<1>6. Descends'
  <2> SUFFICES ASSUME NEW n \in Members, user'[n].password # NoPassword
               PROVE  origin'[user'[n].password] = token'[n].number
    BY DEF Descends
  <2>1. CASE n = m BY <1>2, <2>1
  <2>2. CASE n # m
    <3>1. user'[n] = user[n] BY <1>2, <2>2 DEF OnlyRow
    <3>2. user[n].password <= passwords BY DEF MembersInv, PasswordsKnown
    <3>3. user[n].password \in 1..passwords BY <1>3, <1>4, <3>1, <3>2 DEF NoPassword
    <3> QED BY <1>2, <3>1, <3>3 DEF MembersInv, Descends
  <2> QED BY <2>1, <2>2
<1>7. SessionsAge' BY <1>2, EpochMovesOn
<1> QED BY <1>5, <1>6, <1>7 DEF MembersInv

\* Both ways a password is set leave it descending from the latest token.
LEMMA ActivateKeeps ==
    ASSUME MembersInv, NEW m \in Members, NEW t \in 1..MaxTokens, Activate(m, t)
    PROVE  MembersInv'
<1> USE MemberBounds
<1>1. TypeOK /\ SetPassword(m, t) /\ t \in 0..MaxTokens /\ t = token[m].number
  BY DEF MembersInv, Activate, GoodToken
<1>2. /\ token' \in [Members -> [number: 0..MaxTokens, spent: BOOLEAN]]
      /\ \A n \in Members : token'[n].number = token[n].number
  BY <1>1 DEF Activate, TypeOK
<1>3. TypeOK' BY <1>1, <1>2, SetPasswordDoes DEF Activate, TypeOK, commands
<1>4. \A b \in Browsers : session'[b] = session[b] BY DEF Activate
<1> QED BY <1>1, <1>2, <1>3, <1>4, SetPasswordKeeps

LEMMA ChangeWritesKeeps ==
    ASSUME MembersInv, NEW b \in Browsers, ChangeWrites(b)
    PROVE  MembersInv'
<1> USE MemberBounds
<1> DEFINE m == work[b].member
           same == Usable(b) /\ session[b].member = m /\ user[m].password = work[b].typed
<1>1. TypeOK BY DEF MembersInv
<1>2. work' \in [Browsers -> Works] BY <1>1 DEF ChangeWrites, TypeOK, Works, NoWork, NoPassword
<1>3. m \in Members /\ work[b].typed \in 0..MaxPasswords BY <1>1 DEF TypeOK, Works
<1>4. CASE same
  <2>1. SetPassword(m, origin[work[b].typed]) /\ session' = [session EXCEPT ![b] = NoSession]
    BY <1>4 DEF ChangeWrites
  <2>2. work[b].typed # NoPassword
    BY <1>3, <1>4 DEF MembersInv, PasswordsKnown, Usable, MayAct
  <2>3. origin[work[b].typed] = token[m].number BY <1>3, <1>4, <2>2 DEF MembersInv, Descends
  <2>4. work[b].typed \in 1..MaxPasswords BY <1>3, <2>2 DEF NoPassword
  <2>5. origin[work[b].typed] \in 0..MaxTokens BY <1>1, <2>4 DEF TypeOK
  <2>6. session' \in [Browsers -> Sessions]
    BY <1>1, <2>1 DEF TypeOK, Sessions, NoSession, NoPassword
  <2>7. TypeOK' BY <1>1, <1>2, <1>3, <2>1, <2>5, <2>6, SetPasswordDoes
                DEF TypeOK, ChangeWrites, commands
  <2>8. \A c \in Browsers : session'[c] = session[c] \/ session'[c] = NoSession
    BY <1>1, <2>1 DEF TypeOK
  <2> QED BY <1>3, <2>1, <2>3, <2>5, <2>7, <2>8, SetPasswordKeeps DEF ChangeWrites
<1>5. CASE ~same
  <2>1. TypeOK' BY <1>1, <1>2, <1>5 DEF ChangeWrites, TypeOK, commands
  <2> QED BY <1>5, <2>1, AccountsStand DEF ChangeWrites, accounts
<1> QED BY <1>4, <1>5

LEMMA ResetKeeps ==
    ASSUME MembersInv, NEW b \in Browsers, NEW m \in Members, ResetMember(b, m)
    PROVE  MembersInv'
<1>1. TypeOK BY DEF MembersInv
<1>2. /\ user' \in [Members -> Users] /\ OnlyRow(m)
      /\ user'[m].password = NoPassword /\ user'[m].status = "PENDING"
      /\ user'[m].epoch = user[m].epoch + 1
  BY <1>1, ResetDoes
<1>3. /\ token' \in [Members -> [number: 0..MaxTokens, spent: BOOLEAN]]
      /\ \A n \in Members \ {m} : token'[n] = token[n]
  BY <1>1, IssueTokenDoes DEF ResetMember
<1>4. UNCHANGED <<passwords, origin, session, work, commands>> BY DEF ResetMember
<1>5. TypeOK' BY <1>1, <1>2, <1>3, <1>4 DEF TypeOK, commands
<1>6. PasswordsKnown'
  BY <1>1, <1>2, <1>4 DEF MembersInv, PasswordsKnown, OnlyRow, NoPassword, TypeOK
<1>7. Descends' BY <1>2, <1>3, <1>4 DEF MembersInv, Descends, OnlyRow
<1>8. SessionsAge' BY <1>2, <1>4, <1>5, EpochMovesOn
<1> QED BY <1>5, <1>6, <1>7, <1>8 DEF MembersInv

LEMMA CreateKeeps ==
    ASSUME MembersInv, NEW b \in Browsers, NEW m \in Members, NEW role \in Roles,
           CreateMember(b, m, role)
    PROVE  MembersInv'
<1>1. TypeOK BY DEF MembersInv
<1>2. /\ user' \in [Members -> Users] /\ OnlyRow(m)
      /\ user'[m].password = user[m].password /\ user'[m].status = "PENDING"
      /\ user'[m].epoch = user[m].epoch
  BY <1>1, CreateDoes
<1>3. /\ token' \in [Members -> [number: 0..MaxTokens, spent: BOOLEAN]]
      /\ \A n \in Members \ {m} : token'[n] = token[n]
  BY <1>1, IssueTokenDoes DEF CreateMember
<1>4. UNCHANGED <<passwords, origin, session, work, commands>> /\ user[m].status = "NONE"
  BY DEF CreateMember
<1>5. TypeOK' BY <1>1, <1>2, <1>3, <1>4 DEF TypeOK, commands
<1>6. user[m].password = NoPassword BY <1>4 DEF MembersInv, PasswordsKnown
<1>7. PasswordsKnown' BY <1>2, <1>4 DEF MembersInv, PasswordsKnown, OnlyRow
<1>8. Descends' BY <1>2, <1>3, <1>4, <1>6 DEF MembersInv, Descends, OnlyRow
<1>9. \A n \in Members : user'[n].epoch = user[n].epoch /\ user'[n].password = user[n].password
  BY <1>2 DEF OnlyRow
<1>10. \A c \in Browsers : session[c].member \in Members BY <1>1 DEF TypeOK, Sessions
<1>11. SessionsAge' BY <1>4, <1>9, <1>10 DEF MembersInv, SessionsAge
<1> QED BY <1>5, <1>7, <1>8, <1>11 DEF MembersInv

LEMMA LoginOpensKeeps ==
    ASSUME MembersInv, NEW b \in Browsers, LoginOpens(b)
    PROVE  MembersInv'
<1> USE MemberBounds
<1> DEFINE m == work[b].member
           opened1 == [member |-> m, epoch |-> user[m].epoch, password |-> work[b].typed]
<1>1. TypeOK BY DEF MembersInv
<1>2. work' \in [Browsers -> Works] BY <1>1 DEF LoginOpens, TypeOK, Works, NoWork, NoPassword
<1>3. m \in Members /\ work[b].typed \in 0..MaxPasswords BY <1>1 DEF TypeOK, Works
<1>4. user[m] \in Users /\ user[m].epoch \in 0..MaxEpoch BY <1>1, <1>3 DEF TypeOK, Users
<1>5. CASE StillCurrent(b)
  <2>1. session' = [session EXCEPT ![b] = opened1] BY <1>5 DEF LoginOpens
  <2>2. opened1 \in Sessions BY <1>3, <1>4 DEF Sessions
  <2>3. TypeOK' BY <1>1, <1>2, <2>1, <2>2 DEF LoginOpens, TypeOK, accounts, commands
  <2>4. user' = user /\ accounts' = accounts BY DEF LoginOpens, accounts
  <2>5. SessionsAge'
    <3> SUFFICES ASSUME NEW c \in Browsers
                 PROVE  /\ session'[c].epoch <= user[session'[c].member].epoch
                        /\ session'[c].epoch = user[session'[c].member].epoch =>
                            session'[c].password = user[session'[c].member].password
      BY <2>4 DEF SessionsAge
    <3>1. CASE c = b
      <4>1. session'[c] = opened1 BY <1>1, <2>1, <3>1 DEF TypeOK
      <4>2. user[m].password = work[b].typed BY <1>5 DEF StillCurrent
      <4> QED BY <1>4, <4>1, <4>2
    <3>2. CASE c # b
      <4>1. session'[c] = session[c] BY <1>1, <2>1, <3>2 DEF TypeOK
      <4> QED BY <4>1 DEF MembersInv, SessionsAge
    <3> QED BY <3>1, <3>2
  <2> QED BY <2>3, <2>4, <2>5 DEF MembersInv, PasswordsKnown, Descends, accounts
<1>6. CASE ~StillCurrent(b)
  <2>1. UNCHANGED <<accounts, session>> BY <1>6 DEF LoginOpens
  <2>2. TypeOK' BY <1>1, <1>2, <2>1 DEF LoginOpens, TypeOK, accounts, commands
  <2> QED BY <2>1, <2>2, AccountsStand
<1> QED BY <1>5, <1>6

LEMMA LogoutKeeps ==
    ASSUME MembersInv, NEW b \in Browsers, Logout(b)
    PROVE  MembersInv'
<1> USE MemberBounds
<1>1. TypeOK BY DEF MembersInv
<1>2. session' = [session EXCEPT ![b] = NoSession] /\ UNCHANGED <<accounts, work, commands>>
  BY DEF Logout
<1>3. TypeOK'
  BY <1>1, <1>2 DEF TypeOK, accounts, commands, Sessions, NoSession, NoPassword
<1>4. user[Founder].epoch \in 1..MaxEpoch BY <1>1 DEF TypeOK, Users
<1>5. \A c \in Browsers : session'[c] = session[c] \/ session'[c] = NoSession
  BY <1>1, <1>2 DEF TypeOK
<1>6. SessionsAge'
  BY <1>2, <1>4, <1>5 DEF MembersInv, SessionsAge, NoSession, accounts
<1> QED BY <1>2, <1>3, <1>6 DEF MembersInv, PasswordsKnown, Descends, accounts

\* The reads of a login and of a password change.
LEMMA ReadsKeep ==
    ASSUME MembersInv, NEW b \in Browsers, NEW m \in Members,
           LoginReads(b, m, user[m].password) \/ ChangeReads(b)
    PROVE  MembersInv'
<1>1. TypeOK /\ session[b] \in Sessions /\ user[m] \in Users BY DEF MembersInv, TypeOK
<1>2. session[b].member \in Members BY <1>1 DEF Sessions
<1>3. user[session[b].member] \in Users BY <1>1, <1>2 DEF TypeOK
<1>4. work' \in [Browsers -> Works]
  <2>1. CASE LoginReads(b, m, user[m].password)
    BY <1>1, <2>1 DEF LoginReads, TypeOK, Works, Users
  <2>2. CASE ChangeReads(b)
    BY <1>1, <1>2, <1>3, <2>2 DEF ChangeReads, TypeOK, Works, Users
  <2> QED BY <2>1, <2>2
<1>5. UNCHANGED <<accounts, session, commands>> BY DEF LoginReads, ChangeReads
<1>6. TypeOK' BY <1>1, <1>4, <1>5 DEF TypeOK, accounts, commands
<1> QED BY <1>5, <1>6, AccountsStand

\* The rows of a form that the browser's steps leave.
LEMMA FormHeard ==
    ASSUME NEW f \in Forms, NEW t \in {"NONE", "OPEN", "DONE", "REFUSED"}, NEW u \in BOOLEAN
    PROVE  [f EXCEPT !.told = t, !.uncertain = u] \in Forms
BY DEF Forms

LEMMA FormUnheard ==
    ASSUME NEW f \in Forms
    PROVE  [f EXCEPT !.uncertain = TRUE] \in Forms
BY DEF Forms

LEMMA HearDoes ==
    ASSUME TypeOK, NEW b \in Browsers, NEW answer \in {"DONE", "REFUSED"}, Hear(b, answer)
    PROVE  /\ form' \in [Browsers -> Forms]
           /\ \A c \in Browsers \ {b} : form'[c] = form[c]
           /\ form'[b].told = IF Settles(b, answer) THEN answer ELSE form[b].told
           /\ form'[b].uncertain = (form[b].uncertain /\ ~Settles(b, answer))
<1> DEFINE t == IF Settles(b, answer) THEN answer ELSE form[b].told
           u == form[b].uncertain /\ ~Settles(b, answer)
           row == [form[b] EXCEPT !.told = t, !.uncertain = u]
<1>1. form[b] \in Forms BY DEF TypeOK
<1>2. t \in {"NONE", "OPEN", "DONE", "REFUSED"} /\ u \in BOOLEAN BY <1>1 DEF Forms
<1>3. row \in Forms
  <2> HIDE DEF t, u
  <2> QED BY <1>1, <1>2, FormHeard
<1>4. form' = [form EXCEPT ![b] = row] BY <1>1 DEF Hear, TypeOK, Forms
<1>5. form'[b] = row BY <1>4 DEF TypeOK
<1>6. form'[b].told = t /\ form'[b].uncertain = u BY <1>1, <1>5 DEF Forms
<1> QED BY <1>3, <1>4, <1>6 DEF TypeOK

LEMMA UnheardDoes ==
    ASSUME TypeOK, NEW b \in Browsers, form' = [form EXCEPT ![b].uncertain = TRUE]
    PROVE  /\ form' \in [Browsers -> Forms]
           /\ \A c \in Browsers \ {b} : form'[c] = form[c]
           /\ form'[b].told = form[b].told /\ form'[b].uncertain = TRUE
<1> DEFINE row == [form[b] EXCEPT !.uncertain = TRUE]
<1>1. form[b] \in Forms BY DEF TypeOK
<1>2. row \in Forms BY <1>1, FormUnheard
<1>3. form' = [form EXCEPT ![b] = row] BY DEF TypeOK
<1>4. form'[b] = row BY <1>3 DEF TypeOK
<1>5. form'[b].told = form[b].told /\ form'[b].uncertain = TRUE BY <1>1, <1>4 DEF Forms
<1> QED BY <1>2, <1>3, <1>5 DEF TypeOK

----------------------------------------------------------------------------
(* Members: what a browser is told of its commands. *)

\* What is true of one browser's command while its copies are under way. A refusal settles the
\* form only while nothing is uncertain: then no other copy is on its way and none was applied.
CommandInv(b) ==
    /\ applied[b] <= 1
    /\ form[b].told # "OPEN" => "WAITED_FOR" \notin net[b]
    /\ form[b].told = "OPEN" /\ ~form[b].uncertain => applied[b] = 0 /\ "GIVEN_UP" \notin net[b]
    /\ form[b].told = "DONE" => applied[b] = 1
    /\ form[b].told \in {"NONE", "REFUSED"} => applied[b] = 0 /\ net[b] = {}

ToldInv == \A b \in Browsers : CommandInv(b)

\* A step that touches the command of one browser at most.
LEMMA OneCommand ==
    ASSUME ToldInv, NEW b \in Browsers, CommandInv(b)',
           \A c \in Browsers \ {b} :
                form'[c] = form[c] /\ net'[c] = net[c] /\ applied'[c] = applied[c]
    PROVE  ToldInv'
BY DEF ToldInv, CommandInv

LEMMA CommandsTyped ==
    ASSUME TypeOK, UNCHANGED <<accounts, session, work>>,
           form' \in [Browsers -> Forms],
           net' \in [Browsers -> SUBSET {"WAITED_FOR", "GIVEN_UP"}],
           applied' \in [Browsers -> 0..2]
    PROVE  TypeOK'
BY DEF TypeOK, accounts

LEMMA SubmitKeeps ==
    ASSUME MembersInv, ToldInv, NEW b \in Browsers, NEW m \in Members, NEW kind \in Kinds,
           Submit(b, kind, m)
    PROVE  MembersInv' /\ ToldInv'
<1> USE MemberBounds
<1> DEFINE n == form[b].number + 1
           v == user[m].revision
           o == session[b].member
           row == [number |-> n, kind |-> kind, target |-> m, revision |-> v, owner |-> o,
                   uncertain |-> FALSE, told |-> "OPEN"]
<1>1. TypeOK BY DEF MembersInv
<1>2. form[b] \in Forms /\ user[m] \in Users /\ session[b] \in Sessions BY <1>1 DEF TypeOK
<1>3. n \in 0..MaxForms /\ v \in 1..MaxEpoch /\ o \in Members
  BY <1>2 DEF Submit, Forms, Users, Sessions
<1>4. row \in Forms
  <2> HIDE DEF n, v, o
  <2> QED BY <1>3 DEF Forms
<1>5. form' = [form EXCEPT ![b] = row] BY DEF Submit
<1>6. /\ net' = [net EXCEPT ![b] = {"WAITED_FOR"}] /\ applied' = [applied EXCEPT ![b] = 0]
      /\ UNCHANGED <<accounts, session, work>>
  BY DEF Submit
<1>7. TypeOK' BY <1>1, <1>4, <1>5, <1>6, CommandsTyped DEF TypeOK
<1>8. form'[b] = row /\ net'[b] = {"WAITED_FOR"} /\ applied'[b] = 0
  BY <1>1, <1>5, <1>6 DEF TypeOK
<1>9. CommandInv(b)' BY <1>8 DEF CommandInv
<1>10. ToldInv' BY <1>1, <1>5, <1>6, <1>9, OneCommand DEF TypeOK
<1> QED BY <1>6, <1>7, <1>10, AccountsStand

LEMMA SendAgainKeeps ==
    ASSUME MembersInv, ToldInv, NEW b \in Browsers, SendAgain(b) \/ LateOneIsLost(b)
    PROVE  MembersInv' /\ ToldInv'
<1>1. TypeOK BY DEF MembersInv
<1>2. /\ net' \in [Browsers -> SUBSET {"WAITED_FOR", "GIVEN_UP"}]
      /\ \A c \in Browsers \ {b} : net'[c] = net[c]
      /\ UNCHANGED <<accounts, session, work, form, applied>>
  BY <1>1 DEF SendAgain, LateOneIsLost, TypeOK
<1>3. \/ form[b].told = "OPEN" /\ net'[b] = net[b] \cup {"WAITED_FOR"}
      \/ net'[b] = net[b] \ {"GIVEN_UP"}
  BY <1>1 DEF SendAgain, LateOneIsLost, TypeOK
<1>4. TypeOK' BY <1>1, <1>2, CommandsTyped DEF TypeOK
<1>5. CommandInv(b)' BY <1>2, <1>3 DEF ToldInv, CommandInv
<1>6. ToldInv' BY <1>2, <1>5, OneCommand
<1> QED BY <1>2, <1>4, <1>6, AccountsStand

LEMMA NetworkFailsKeeps ==
    ASSUME MembersInv, ToldInv, NEW b \in Browsers, NetworkFails(b)
    PROVE  MembersInv' /\ ToldInv'
<1>1. TypeOK BY DEF MembersInv
<1>2. /\ form' \in [Browsers -> Forms]
      /\ \A c \in Browsers \ {b} : form'[c] = form[c]
      /\ form'[b].told = form[b].told /\ form'[b].uncertain = TRUE
  BY <1>1, UnheardDoes DEF NetworkFails
<1>3. /\ net' \in [Browsers -> SUBSET {"WAITED_FOR", "GIVEN_UP"}]
      /\ \A c \in Browsers \ {b} : net'[c] = net[c]
      /\ "WAITED_FOR" \in net[b] /\ "WAITED_FOR" \notin net'[b]
      /\ UNCHANGED <<accounts, session, work, applied>>
  BY <1>1 DEF NetworkFails, TypeOK
<1>4. TypeOK' BY <1>1, <1>2, <1>3, CommandsTyped DEF TypeOK
<1>5. form[b].told = "OPEN" BY <1>3 DEF ToldInv, CommandInv
<1>6. CommandInv(b)' BY <1>2, <1>3, <1>5 DEF ToldInv, CommandInv
<1>7. ToldInv' BY <1>2, <1>3, <1>6, OneCommand
<1> QED BY <1>3, <1>4, <1>7, AccountsStand

LEMMA InspectKeeps ==
    ASSUME MembersInv, ToldInv, NEW b \in Browsers, Inspect(b)
    PROVE  MembersInv' /\ ToldInv'
<1>1. TypeOK BY DEF MembersInv
<1>2. Hear(b, "DONE") /\ UNCHANGED <<accounts, session, work, net, applied>> BY DEF Inspect
<1>3. /\ form' \in [Browsers -> Forms]
      /\ \A c \in Browsers \ {b} : form'[c] = form[c]
      /\ form'[b].told = "DONE"
  BY <1>1, <1>2, HearDoes DEF Settles
<1>4. applied[b] = 1 /\ "WAITED_FOR" \notin net[b]
  BY <1>1 DEF Inspect, Receipt, ToldInv, CommandInv, TypeOK
<1>5. TypeOK' BY <1>1, <1>2, <1>3, CommandsTyped DEF TypeOK
<1>6. CommandInv(b)' BY <1>2, <1>3, <1>4 DEF CommandInv
<1>7. ToldInv' BY <1>2, <1>3, <1>6, OneCommand
<1> QED BY <1>2, <1>5, <1>7, AccountsStand

\* One copy of the request is handled: what it does to the command.
LEMMA HandleTold ==
    ASSUME MembersInv, ToldInv, NEW b \in Browsers, NEW copy \in {"WAITED_FOR", "GIVEN_UP"},
           Handle(b, copy)
    PROVE  /\ form' \in [Browsers -> Forms]
           /\ net' \in [Browsers -> SUBSET {"WAITED_FOR", "GIVEN_UP"}]
           /\ applied' \in [Browsers -> 0..2]
           /\ ToldInv'
<1> DEFINE replay == Allowed(b) /\ Receipt(b)
           done == Allowed(b) /\ ~Receipt(b) /\ Applies(b)
           answer == IF replay \/ done THEN "DONE" ELSE "REFUSED"
<1>1. TypeOK BY DEF MembersInv
<1>2. copy \in net[b] /\ net' = [net EXCEPT ![b] = @ \ {copy}] BY DEF Handle
<1>3. /\ net' \in [Browsers -> SUBSET {"WAITED_FOR", "GIVEN_UP"}]
      /\ \A c \in Browsers \ {b} : net'[c] = net[c]
      /\ net'[b] = net[b] \ {copy}
  BY <1>1, <1>2 DEF TypeOK
<1>4. /\ applied' \in [Browsers -> 0..2]
      /\ \A c \in Browsers \ {b} : applied'[c] = applied[c]
      /\ done => applied'[b] = 1
      /\ ~done => applied'[b] = applied[b]
  BY <1>1, ApplyDoes DEF Handle, TypeOK
<1>5. applied[b] \in 0..1 BY <1>1 DEF TypeOK, ToldInv, CommandInv
<1>6. done => applied[b] = 0 BY <1>5 DEF Receipt
<1>7. replay => applied[b] = 1 BY <1>5 DEF Receipt
<1>8. CASE copy = "GIVEN_UP"
  <2>1. form' = form BY <1>8 DEF Handle
  <2>2. CommandInv(b)'
    BY <1>2, <1>3, <1>4, <1>5, <1>6, <1>8, <2>1 DEF ToldInv, CommandInv
  <2>3. ToldInv' BY <1>3, <1>4, <2>1, <2>2, OneCommand
  <2> QED BY <1>1, <1>3, <1>4, <2>1, <2>3 DEF TypeOK
<1>9. CASE copy = "WAITED_FOR"
  <2>1. form[b].told = "OPEN" BY <1>2, <1>9 DEF ToldInv, CommandInv
  <2>2. Hear(b, answer) \/ Unheard(b) BY <1>9 DEF Handle
  <2>3. CASE Unheard(b)
    <3>1. /\ form' \in [Browsers -> Forms]
          /\ \A c \in Browsers \ {b} : form'[c] = form[c]
          /\ form'[b].told = form[b].told /\ form'[b].uncertain = TRUE
      BY <1>1, <2>3, UnheardDoes DEF Unheard
    <3>2. CommandInv(b)'
      BY <1>3, <1>4, <1>5, <2>1, <3>1 DEF CommandInv
    <3> QED BY <1>3, <1>4, <3>1, <3>2, OneCommand
  <2>4. CASE Hear(b, answer)
    <3>1. /\ form' \in [Browsers -> Forms]
          /\ \A c \in Browsers \ {b} : form'[c] = form[c]
          /\ form'[b].told = IF Settles(b, answer) THEN answer ELSE form[b].told
          /\ form'[b].uncertain = (form[b].uncertain /\ ~Settles(b, answer))
      <4>1. answer \in {"DONE", "REFUSED"} OBVIOUS
      <4> HIDE DEF answer
      <4> QED BY <1>1, <2>4, <4>1, HearDoes
    <3>2. "WAITED_FOR" \notin net'[b] BY <1>3, <1>9
    <3>3. form[b].uncertain \in BOOLEAN BY <1>1 DEF TypeOK, Forms
    <3>4. CASE replay \/ done
      <4>1. form'[b].told = "DONE" BY <3>1, <3>4 DEF Settles
      <4>2. applied'[b] = 1 BY <1>4, <1>7, <3>4
      <4>3. CommandInv(b)' BY <3>2, <4>1, <4>2 DEF CommandInv
      <4> QED BY <1>3, <1>4, <3>1, <4>3, OneCommand
    <3>5. CASE ~(replay \/ done) /\ form[b].uncertain
      <4>1. form'[b].told = "OPEN" /\ form'[b].uncertain = TRUE
        BY <2>1, <3>1, <3>5 DEF Settles
      <4>2. CommandInv(b)' BY <1>4, <1>5, <3>5, <4>1 DEF CommandInv
      <4> QED BY <1>3, <1>4, <3>1, <4>2, OneCommand
    <3>6. CASE ~(replay \/ done) /\ ~form[b].uncertain
      <4>1. form'[b].told = "REFUSED" BY <3>1, <3>6 DEF Settles
      <4>2. applied[b] = 0 /\ "GIVEN_UP" \notin net[b] BY <2>1, <3>6 DEF ToldInv, CommandInv
      <4>3. net'[b] = {} BY <1>1, <1>3, <1>9, <4>2 DEF TypeOK
      <4>4. CommandInv(b)' BY <1>4, <3>6, <4>1, <4>2, <4>3 DEF CommandInv
      <4> QED BY <1>3, <1>4, <3>1, <4>4, OneCommand
    <3> QED BY <3>3, <3>4, <3>5, <3>6
  <2> QED BY <1>3, <1>4, <2>2, <2>3, <2>4
<1> QED BY <1>8, <1>9

LEMMA HandleKeeps ==
    ASSUME MembersInv, ToldInv, NEW b \in Browsers, NEW copy \in {"WAITED_FOR", "GIVEN_UP"},
           Handle(b, copy)
    PROVE  MembersInv' /\ ToldInv'
<1> DEFINE done == Allowed(b) /\ ~Receipt(b) /\ Applies(b)
<1>1. TypeOK BY DEF MembersInv
<1>2. UNCHANGED <<token, passwords, origin, session, work>> BY DEF Handle
<1>3. \/ user' = user
      \/ /\ user' \in [Members -> Users]
         /\ \E m \in Members :
                /\ OnlyRow(m)
                /\ user'[m].password = user[m].password
                /\ user'[m].epoch = user[m].epoch + 1
                /\ user'[m].status \in {user[m].status, "DISABLED"}
  BY <1>1, ApplyDoes DEF Handle
<1>4. TypeOK' BY <1>1, <1>2, <1>3, HandleTold DEF TypeOK
<1>5. CASE user' = user
  BY <1>2, <1>4, <1>5, HandleTold, AccountsStand DEF accounts
<1>6. CASE user' # user
  <2>1. PICK m \in Members :
            /\ OnlyRow(m)
            /\ user'[m].password = user[m].password
            /\ user'[m].epoch = user[m].epoch + 1
            /\ user'[m].status \in {user[m].status, "DISABLED"}
    BY <1>3, <1>6
  <2>2. SessionsAge' BY <1>2, <1>4, <2>1, EpochMovesOn
  <2>3. PasswordsKnown' /\ Descends'
    <3>1. /\ \A n \in Members \ {m} : user'[n] = user[n]
          /\ \A n \in Members : user'[n].password = user[n].password
          /\ \A n \in Members : user'[n].status \in {user[n].status, "DISABLED"}
      BY <2>1 DEF OnlyRow
    <3>2. Descends' BY <1>2, <3>1 DEF MembersInv, Descends
    <3>3. ASSUME NEW n \in Members
          PROVE  /\ user'[n].password <= passwords
                 /\ user'[n].status = "ACTIVE" => user'[n].password # NoPassword
                 /\ user'[n].status = "NONE" => user'[n].password = NoPassword
      BY <3>1 DEF MembersInv, PasswordsKnown
    <3> QED BY <1>2, <3>2, <3>3 DEF PasswordsKnown
  <2> QED BY <1>4, <2>2, <2>3, HandleTold DEF MembersInv
<1> QED BY <1>5, <1>6

LEMMA ToldInvInit == Init => ToldInv
BY DEF Init, ToldInv, CommandInv, NoForm

----------------------------------------------------------------------------
(* Members: the last administrator. *)

\* Whoever acts on another account stays an administrator who can log in.
LEMMA ActorRemains ==
    ASSUME TypeOK, NEW b \in Browsers, NEW m \in Members, IsAdmin(b), m # session[b].member,
           OnlyRow(m)
    PROVE  SomeAdminRemains'
<1>1. session[b].member \in Members BY DEF TypeOK, Sessions
<1>2. user'[session[b].member] = user[session[b].member] BY <1>1 DEF OnlyRow
<1> QED BY <1>1, <1>2 DEF SomeAdminRemains, ActiveAdmins, IsAdmin, Usable, MayAct

\* A row that is no active administrator's, or one that stays so.
LEMMA OthersRemain ==
    ASSUME SomeAdminRemains, NEW m \in Members, OnlyRow(m),
           m \in ActiveAdmins => m \in ActiveAdmins'
    PROVE  SomeAdminRemains'
BY DEF SomeAdminRemains, ActiveAdmins, OnlyRow, MayAct

LEMMA ApplyKeepsAnAdmin ==
    ASSUME TypeOK, SomeAdminRemains, NEW b \in Browsers, ~Receipt(b), Applies(b), Apply(b)
    PROVE  SomeAdminRemains'
<1>1. CASE user' = user
  BY <1>1 DEF SomeAdminRemains, ActiveAdmins, MayAct
<1>2. CASE user' # user
  <2>1. PICK m \in Members :
            /\ OnlyRow(m)
            /\ KeepsAnAdmin(m, form[b].kind)
            /\ form[b].kind = "ADMIN" =>
                /\ user'[m].role = "ADMIN" /\ user'[m].status = user[m].status
                /\ user'[m].member = user[m].member
    BY <1>2, ApplyDoes
  <2>2. CASE m \notin ActiveAdmins \/ form[b].kind = "ADMIN"
    BY <2>1, <2>2, OthersRemain DEF ActiveAdmins, MayAct
  <2>3. CASE m \in ActiveAdmins /\ form[b].kind # "ADMIN"
    <3>1. Cardinality(ActiveAdmins) > 1 BY <2>1, <2>3 DEF KeepsAnAdmin
    <3>2. IsFiniteSet(ActiveAdmins)
      BY FS_Subset, IdentityConstants DEF ActiveAdmins
    <3>3. ActiveAdmins # {m}
      <4>1. Cardinality({m}) = 1 BY FS_Singleton
      <4> QED BY <3>1, <4>1
    <3>4. PICK n \in ActiveAdmins : n # m BY <2>3, <3>3
    <3>5. n \in Members /\ user'[n] = user[n] BY <2>1, <3>4 DEF OnlyRow, ActiveAdmins
    <3> QED BY <3>4, <3>5 DEF SomeAdminRemains, ActiveAdmins, MayAct
  <2> QED BY <2>2, <2>3
<1> QED BY <1>1, <1>2

IdentityInv == MembersInv /\ ToldInv /\ SomeAdminRemains

LEMMA IdentityInvInit == Init => IdentityInv
<1> SUFFICES ASSUME Init PROVE SomeAdminRemains
  BY MembersInvInit, ToldInvInit DEF IdentityInv
<1> QED BY MemberBounds DEF Init, SomeAdminRemains, ActiveAdmins, MayAct

LEMMA IdentityInvNext == IdentityInv /\ [Next]_vars => IdentityInv'
<1> SUFFICES ASSUME IdentityInv, [Next]_vars PROVE IdentityInv'
  OBVIOUS
<1>1. MembersInv /\ ToldInv /\ SomeAdminRemains /\ TypeOK BY DEF IdentityInv, MembersInv
<1>2. ASSUME UNCHANGED commands PROVE ToldInv'
  BY <1>1, <1>2 DEF ToldInv, CommandInv, commands
<1>3. ASSUME UNCHANGED user PROVE SomeAdminRemains'
  BY <1>1, <1>3 DEF SomeAdminRemains, ActiveAdmins, MayAct
<1>4. ASSUME NEW b \in Browsers, LoginOpens(b) PROVE IdentityInv'
  BY <1>1, <1>2, <1>3, <1>4, LoginOpensKeeps DEF LoginOpens, accounts, IdentityInv
<1>5. ASSUME NEW b \in Browsers, Logout(b) PROVE IdentityInv'
  BY <1>1, <1>2, <1>3, <1>5, LogoutKeeps DEF Logout, accounts, IdentityInv
<1>6. ASSUME NEW b \in Browsers, NEW m \in Members,
             LoginReads(b, m, user[m].password) \/ ChangeReads(b)
      PROVE  IdentityInv'
  BY <1>1, <1>2, <1>3, <1>6, ReadsKeep DEF LoginReads, ChangeReads, accounts, IdentityInv
<1>7. ASSUME NEW m \in Members, NEW from \in 0..MaxTokens, SetPassword(m, from)
      PROVE  SomeAdminRemains'
  BY <1>1, <1>7, SetPasswordDoes, OthersRemain DEF ActiveAdmins, MayAct
<1>8. ASSUME NEW b \in Browsers, ChangeWrites(b) PROVE IdentityInv'
  <2>1. MembersInv' BY <1>1, <1>8, ChangeWritesKeeps
  <2>2. CASE UNCHANGED user
    BY <1>2, <1>3, <1>8, <2>1, <2>2 DEF ChangeWrites, IdentityInv
  <2>3. CASE /\ SetPassword(work[b].member, origin[work[b].typed])
             /\ user[work[b].member].password = work[b].typed /\ Usable(b)
             /\ session[b].member = work[b].member
    <3>1. work[b].member \in Members /\ work[b].typed \in 0..MaxPasswords
      BY <1>1 DEF TypeOK, Works
    <3>2. work[b].typed # NoPassword
      BY <1>1, <2>3, <3>1 DEF MembersInv, PasswordsKnown, Usable, MayAct
    <3>3. work[b].typed \in 1..MaxPasswords BY <3>1, <3>2 DEF NoPassword
    <3>4. origin[work[b].typed] \in 0..MaxTokens BY <1>1, <3>3 DEF TypeOK
    <3>5. SomeAdminRemains' BY <1>7, <2>3, <3>1, <3>4
    <3> QED BY <1>2, <1>8, <2>1, <3>5 DEF ChangeWrites, IdentityInv
  <2> QED BY <1>8, <2>2, <2>3 DEF ChangeWrites
<1>9. ASSUME NEW b \in Browsers, NEW m \in Members, NEW role \in Roles, CreateMember(b, m, role)
      PROVE  IdentityInv'
  <2>1. MembersInv' BY <1>1, <1>9, CreateKeeps
  <2>2. OnlyRow(m) BY <1>1, <1>9, CreateDoes
  <2>3. m \notin ActiveAdmins BY <1>9 DEF CreateMember, ActiveAdmins, MayAct
  <2>4. SomeAdminRemains' BY <1>1, <2>2, <2>3, OthersRemain
  <2> QED BY <1>2, <1>9, <2>1, <2>4 DEF CreateMember, IdentityInv
<1>10. ASSUME NEW b \in Browsers, NEW m \in Members, ResetMember(b, m) PROVE IdentityInv'
  <2>1. MembersInv' BY <1>1, <1>10, ResetKeeps
  <2>2. OnlyRow(m) BY <1>1, <1>10, ResetDoes
  <2>3. SomeAdminRemains' BY <1>1, <1>10, <2>2, ActorRemains DEF ResetMember
  <2> QED BY <1>2, <1>10, <2>1, <2>3 DEF ResetMember, IdentityInv
<1>11. ASSUME NEW b \in Browsers, NEW m \in Members, NEW kind \in Kinds, Submit(b, kind, m)
       PROVE  IdentityInv'
  BY <1>1, <1>3, <1>11, SubmitKeeps DEF Submit, accounts, IdentityInv
<1>12. ASSUME NEW b \in Browsers, SendAgain(b) \/ LateOneIsLost(b) PROVE IdentityInv'
  BY <1>1, <1>3, <1>12, SendAgainKeeps DEF SendAgain, LateOneIsLost, accounts, IdentityInv
<1>13. ASSUME NEW b \in Browsers, NetworkFails(b) PROVE IdentityInv'
  BY <1>1, <1>3, <1>13, NetworkFailsKeeps DEF NetworkFails, accounts, IdentityInv
<1>14. ASSUME NEW b \in Browsers, Inspect(b) PROVE IdentityInv'
  BY <1>1, <1>3, <1>14, InspectKeeps DEF Inspect, accounts, IdentityInv
<1>15. ASSUME NEW b \in Browsers, NEW copy \in {"WAITED_FOR", "GIVEN_UP"}, Handle(b, copy)
       PROVE  IdentityInv'
  <2>1. MembersInv' /\ ToldInv' BY <1>1, <1>15, HandleKeeps, HandleTold
  <2>2. SomeAdminRemains' BY <1>1, <1>3, <1>15, ApplyKeepsAnAdmin DEF Handle
  <2> QED BY <2>1, <2>2 DEF IdentityInv
<1>16. ASSUME NEW m \in Members, NEW t \in 1..MaxTokens, Activate(m, t) PROVE IdentityInv'
  <2>1. MembersInv' BY <1>1, <1>16, ActivateKeeps
  <2>2. t \in 0..MaxTokens BY MemberBounds
  <2>3. SomeAdminRemains' BY <1>7, <1>16, <2>2 DEF Activate
  <2> QED BY <1>2, <1>16, <2>1, <2>3 DEF Activate, IdentityInv
<1>17. CASE UNCHANGED vars
  <2>1. TypeOK' BY <1>1, <1>17 DEF vars, accounts, commands, TypeOK
  <2> QED BY <1>1, <1>2, <1>3, <1>17, <2>1, AccountsStand DEF vars, accounts, IdentityInv
<1>18. CASE Next
  <2>1. CASE \E b \in Browsers :
                \/ LoginOpens(b) \/ Logout(b) \/ ChangeReads(b) \/ ChangeWrites(b)
                \/ SendAgain(b) \/ Inspect(b) \/ NetworkFails(b) \/ LateOneIsLost(b)
    BY <2>1, MemberBounds, <1>4, <1>5, <1>6, <1>8, <1>12, <1>13, <1>14
  <2>2. CASE \E b \in Browsers, copy \in {"WAITED_FOR", "GIVEN_UP"} : Handle(b, copy)
    BY <2>2, <1>15
  <2>3. CASE \E b \in Browsers, m \in Members :
                \/ LoginReads(b, m, user[m].password) \/ ResetMember(b, m)
                \/ \E kind \in Kinds : Submit(b, kind, m)
                \/ \E role \in Roles : CreateMember(b, m, role)
    BY <2>3, <1>6, <1>9, <1>10, <1>11
  <2>4. CASE \E m \in Members : \E t \in 1..MaxTokens : Activate(m, t)
    BY <2>4, <1>16
  <2> QED BY <1>18, <2>1, <2>2, <2>3, <2>4 DEF Next
<1> QED BY <1>17, <1>18

LEMMA IdentityInvImplies == IdentityInv => ResetCutsOff /\ SomeAdminRemains /\ ToldIsTrue
<1> SUFFICES ASSUME IdentityInv PROVE ResetCutsOff /\ ToldIsTrue
  BY DEF IdentityInv
<1>1. ResetCutsOff
  BY DEF IdentityInv, MembersInv, Descends, SessionsAge, ResetCutsOff, Usable
<1>2. ToldIsTrue BY DEF IdentityInv, ToldInv, CommandInv, ToldIsTrue
<1> QED BY <1>1, <1>2

----------------------------------------------------------------------------
(* The portal: the rows keep their shape. *)

LEMMA PortalBounds ==
    /\ MaxChallenges \in Nat /\ MaxChallenges > 0 /\ MaxGuesses \in Nat /\ MaxGuesses > 0
    /\ MaxAccountEpoch \in Nat /\ MaxAccountEpoch > 0
    /\ (CHOOSE i \in Identities : TRUE) \in Identities
    /\ (CHOOSE v \in Visitors : TRUE) \in Visitors
<1>1. (\E i \in Identities : TRUE) /\ (\E v \in Visitors : TRUE) BY TalentAuthConstants
<1>2. (CHOOSE i \in Identities : TRUE) \in Identities BY <1>1
<1>3. (CHOOSE v \in Visitors : TRUE) \in Visitors BY <1>1
<1> QED BY <1>2, <1>3, TalentAuthConstants

ChallengeStates == {"NONE", "QUEUED"} \cup Answers \cup Over

LEMMA PortalTypeInit == PortalInit => PortalTypeOK
<1> SUFFICES ASSUME PortalInit PROVE PortalTypeOK
  OBVIOUS
<1> DEFINE i0 == CHOOSE i \in Identities : TRUE
           v0 == CHOOSE v \in Visitors : TRUE
<1>1. i0 \in Identities /\ v0 \in Visitors BY PortalBounds
<1>2. /\ challenge = [c \in Challenges |-> [state |-> "NONE", identity |-> i0, visitor |-> v0,
                                           code |-> FALSE, attempts |-> 0]]
      /\ visit = [v \in Visitors |-> [identity |-> i0, epoch |-> 0]]
  BY DEF PortalInit
<1> HIDE DEF i0, v0
<1>3. challenge \in [Challenges -> ChallengeRows]
  BY <1>1, <1>2, PortalBounds DEF ChallengeRows
<1>4. visit \in [Visitors -> Visits] BY <1>1, <1>2, PortalBounds DEF Visits
<1> QED BY <1>3, <1>4, PortalBounds DEF PortalInit, PortalTypeOK, DeliveryRows

LEMMA ChallengeRow ==
    ASSUME NEW r \in ChallengeRows, NEW s \in ChallengeStates, NEW k \in BOOLEAN
    PROVE  [r EXCEPT !.state = s, !.code = k] \in ChallengeRows
BY DEF ChallengeRows, ChallengeStates

LEMMA TriedRow ==
    ASSUME NEW r \in ChallengeRows, NEW s \in ChallengeStates, NEW k \in BOOLEAN,
           NEW n \in 0..MaxGuesses
    PROVE  [r EXCEPT !.attempts = n, !.state = s, !.code = k] \in ChallengeRows
BY DEF ChallengeRows, ChallengeStates

LEMMA ExpiredTyped ==
    ASSUME PortalTypeOK, NEW c \in Challenges
    PROVE  /\ Expired(c) \in ChallengeRows
           /\ Expired(c).state = "EXPIRED" /\ Expired(c).code = FALSE
           /\ PayloadGone(c) \in DeliveryRows /\ PayloadGone(c).payload = FALSE
<1>1. challenge[c] \in ChallengeRows BY DEF PortalTypeOK
<1>2. Expired(c) \in ChallengeRows
  BY <1>1, ChallengeRow DEF Expired, ChallengeStates, Over
<1>3. Expired(c).state = "EXPIRED" /\ Expired(c).code = FALSE
  BY <1>1 DEF Expired, ChallengeRows
<1>4. PayloadGone(c) \in DeliveryRows /\ PayloadGone(c).payload = FALSE
  BY DEF PayloadGone, DeliveryRows, Answers, Over
<1> QED BY <1>2, <1>3, <1>4

----------------------------------------------------------------------------
(* The portal: what becomes of one code. *)

\* A payload that is still there was never given to the provider; the sender that holds
\* the code took it from the row; a challenge that opened a session has no code left.
ChallengeInv(c) ==
    /\ sent[c] <= 1
    /\ sent[c] = 1 => ~delivery[c].payload
    /\ sender[c] = "SENDING" => sent[c] = 0 /\ ~delivery[c].payload
    /\ opened[c] <= 1
    /\ opened[c] = 1 => ~challenge[c].code
    /\ challenge[c].code => Live(c)
    /\ challenge[c].state \in {"EXPIRED", "CONSUMED"} => ~delivery[c].payload
    /\ challenge[c].state = "NONE" =>
        /\ sender[c] = "IDLE" /\ sent[c] = 0 /\ opened[c] = 0
        /\ ~challenge[c].code /\ ~delivery[c].payload

OneCodeEach ==
    \A c, d \in Challenges :
        c # d /\ challenge[c].code /\ challenge[d].code =>
            /\ challenge[d].identity # challenge[c].identity
            /\ challenge[d].visitor # challenge[c].visitor

PortalInv == PortalTypeOK /\ (\A c \in Challenges : ChallengeInv(c)) /\ OneCodeEach

LEMMA PortalInvInit == PortalInit => PortalInv
<1> SUFFICES ASSUME PortalInit PROVE PortalInv
  OBVIOUS
<1>1. \A c \in Challenges :
        /\ sent[c] = 0 /\ opened[c] = 0 /\ sender[c] = "IDLE" /\ ~delivery[c].payload
        /\ challenge[c].state = "NONE" /\ ~challenge[c].code
  BY DEF PortalInit
<1> QED BY <1>1, PortalTypeInit DEF PortalInv, ChallengeInv, OneCodeEach

\* No step that leaves the code of a challenge out, or takes codes away, gives two of them
\* to one identity or one browser.
LEMMA CodesOnlyGo ==
    ASSUME PortalInv,
           \A c \in Challenges : challenge'[c].code =>
                /\ challenge[c].code
                /\ challenge'[c].identity = challenge[c].identity
                /\ challenge'[c].visitor = challenge[c].visitor
    PROVE  OneCodeEach'
BY DEF PortalInv, OneCodeEach

\* The steps that touch the rows of one challenge and no other.
LEMMA OneChallenge ==
    ASSUME PortalInv, PortalTypeOK', NEW c \in Challenges, ChallengeInv(c)',
           \A d \in Challenges \ {c} :
                /\ challenge'[d] = challenge[d] /\ delivery'[d] = delivery[d]
                /\ sender'[d] = sender[d] /\ sent'[d] = sent[d] /\ opened'[d] = opened[d],
           challenge'[c].code =>
                /\ challenge[c].code
                /\ challenge'[c].identity = challenge[c].identity
                /\ challenge'[c].visitor = challenge[c].visitor
    PROVE  PortalInv'
<1>1. \A d \in Challenges \ {c} : ChallengeInv(d)' BY DEF PortalInv, ChallengeInv, Live
<1>2. OneCodeEach' BY CodesOnlyGo
<1> QED BY <1>1, <1>2 DEF PortalInv

LEMMA CreateChallengeKeeps ==
    ASSUME PortalInv, NEW c \in Challenges, NEW i \in Identities, NEW v \in Visitors,
           CreateChallenge(c, i, v)
    PROVE  PortalInv'
<1> DEFINE new == [state |-> "QUEUED", identity |-> i, visitor |-> v, code |-> TRUE, attempts |-> 0]
<1>1. PortalTypeOK BY DEF PortalInv
<1>2. new \in ChallengeRows BY PortalBounds DEF ChallengeRows
<1>3. challenge' = [d \in Challenges |-> IF d = c THEN new
                        ELSE IF d \in Replaced(i, v) THEN Expired(d) ELSE challenge[d]]
  BY DEF CreateChallenge
<1>4. delivery' = [d \in Challenges |-> IF d = c THEN [state |-> "QUEUED", payload |-> TRUE]
                        ELSE IF d \in Replaced(i, v) THEN PayloadGone(d) ELSE delivery[d]]
  BY DEF CreateChallenge
<1>5. /\ sender' = [sender EXCEPT ![c] = "READY"]
      /\ UNCHANGED <<account, sent, opened, visit>> /\ challenge[c].state = "NONE"
  BY DEF CreateChallenge
<1>6. challenge' \in [Challenges -> ChallengeRows]
  <2> HIDE DEF new
  <2> QED BY <1>1, <1>2, <1>3, ExpiredTyped DEF PortalTypeOK
<1>7. delivery' \in [Challenges -> DeliveryRows]
  BY <1>1, <1>4, ExpiredTyped DEF PortalTypeOK, DeliveryRows
<1>8. PortalTypeOK' BY <1>1, <1>5, <1>6, <1>7 DEF PortalTypeOK
<1>9. ChallengeInv(c)'
  <2>1. /\ challenge'[c].state = "QUEUED" /\ challenge'[c].code = TRUE
        /\ sender'[c] = "READY" /\ sent'[c] = 0 /\ opened'[c] = 0
    BY <1>1, <1>3, <1>5 DEF PortalInv, ChallengeInv, PortalTypeOK
  <2> QED BY <2>1 DEF ChallengeInv, Live, Over
<1>10. ASSUME NEW d \in Challenges \ {c} PROVE ChallengeInv(d)'
  <2>1. sender'[d] = sender[d] /\ sent'[d] = sent[d] /\ opened'[d] = opened[d]
    BY <1>1, <1>5 DEF PortalTypeOK
  <2>2. CASE d \in Replaced(i, v)
    <3>1. challenge'[d].state = "EXPIRED" /\ ~challenge'[d].code /\ ~delivery'[d].payload
      BY <1>1, <1>3, <1>4, <2>2, ExpiredTyped
    <3> QED BY <2>1, <3>1 DEF PortalInv, ChallengeInv
  <2>3. CASE d \notin Replaced(i, v)
    <3>1. challenge'[d] = challenge[d] /\ delivery'[d] = delivery[d] BY <1>3, <1>4, <2>3
    <3> QED BY <2>1, <3>1 DEF PortalInv, ChallengeInv, Live
  <2> QED BY <2>2, <2>3
<1>11. OneCodeEach'
  <2>1. ASSUME NEW d \in Challenges \ {c}, challenge'[d].code
        PROVE  /\ challenge'[d] = challenge[d] /\ challenge[d].code
               /\ challenge[d].identity # i /\ challenge[d].visitor # v
    <3>1. d \notin Replaced(i, v) BY <1>1, <1>3, <2>1, ExpiredTyped
    <3>2. challenge'[d] = challenge[d] BY <1>3, <3>1
    <3>3. Live(d) BY <2>1, <3>2 DEF PortalInv, ChallengeInv
    <3> QED BY <2>1, <3>1, <3>2, <3>3 DEF Replaced
  <2>2. challenge'[c].identity = i /\ challenge'[c].visitor = v BY <1>3
  <2> QED BY <2>1, <2>2 DEF OneCodeEach, PortalInv
<1> QED BY <1>8, <1>9, <1>10, <1>11 DEF PortalInv

\* dispatch, and what follows it outside the transaction
LEMMA DispatchKeeps ==
    ASSUME PortalInv, NEW c \in Challenges, Dispatch(c)
    PROVE  PortalInv'
<1>1. PortalTypeOK /\ ChallengeInv(c) BY DEF PortalInv
<1>2. CASE MayDispatch(c) /\ Live(c)
  <2>1. /\ delivery' = [delivery EXCEPT ![c] = [state |-> "UNKNOWN", payload |-> FALSE]]
        /\ challenge' = [challenge EXCEPT ![c].state = "UNKNOWN"]
        /\ sender' = [sender EXCEPT ![c] = "SENDING"]
        /\ UNCHANGED <<account, sent, opened, visit>>
    BY <1>2 DEF Dispatch
  <2> DEFINE row == [challenge[c] EXCEPT !.state = "UNKNOWN"]
  <2>2. challenge[c] \in ChallengeRows BY <1>1 DEF PortalTypeOK
  <2>3. row \in ChallengeRows BY <2>2 DEF ChallengeRows, Answers
  <2>4. challenge' = [challenge EXCEPT ![c] = row] BY <2>1
  <2>5. PortalTypeOK' BY <1>1, <2>1, <2>3, <2>4 DEF PortalTypeOK, DeliveryRows, Answers
  <2>6. /\ row.state = "UNKNOWN" /\ row.code = challenge[c].code
        /\ row.identity = challenge[c].identity /\ row.visitor = challenge[c].visitor
    BY <2>2 DEF ChallengeRows
  <2>7. challenge'[c] = row /\ ~delivery'[c].payload /\ sender'[c] = "SENDING"
    BY <1>1, <2>1, <2>4 DEF PortalTypeOK
  <2>8. sent[c] = 0 BY <1>1, <1>2 DEF ChallengeInv, MayDispatch, PortalTypeOK
  <2>9. ChallengeInv(c)'
    BY <1>1, <2>1, <2>6, <2>7, <2>8 DEF ChallengeInv, Live, Over
  <2> HIDE DEF row
  <2>10. \A d \in Challenges \ {c} :
            /\ challenge'[d] = challenge[d] /\ delivery'[d] = delivery[d]
            /\ sender'[d] = sender[d] /\ sent'[d] = sent[d] /\ opened'[d] = opened[d]
    BY <1>1, <2>1, <2>4 DEF PortalTypeOK
  <2> QED BY <2>5, <2>6, <2>7, <2>9, <2>10, OneChallenge
<1>3. CASE ~MayDispatch(c)
  <2>1. /\ sender' = [sender EXCEPT ![c] = "IDLE"]
        /\ UNCHANGED <<account, challenge, delivery, sent, opened, visit>>
    BY <1>3 DEF Dispatch
  <2>2. PortalTypeOK' BY <1>1, <2>1 DEF PortalTypeOK
  <2>3. ChallengeInv(c)' BY <1>1, <2>1 DEF ChallengeInv, Live, PortalTypeOK
  <2> QED BY <1>1, <2>1, <2>2, <2>3, OneChallenge DEF PortalTypeOK
<1>4. CASE MayDispatch(c) /\ ~Live(c)
  <2>1. /\ delivery' = [delivery EXCEPT ![c] = PayloadGone(c)]
        /\ challenge' = [challenge EXCEPT ![c] = Expired(c)]
        /\ sender' = [sender EXCEPT ![c] = "IDLE"]
        /\ UNCHANGED <<account, sent, opened, visit>>
    BY <1>4 DEF Dispatch
  <2>2. PortalTypeOK' BY <1>1, <2>1, ExpiredTyped DEF PortalTypeOK
  <2>3. challenge'[c].state = "EXPIRED" /\ challenge'[c].code = FALSE /\ ~delivery'[c].payload
    BY <1>1, <2>1, ExpiredTyped DEF PortalTypeOK
  <2>4. sender'[c] = "IDLE" BY <1>1, <2>1 DEF PortalTypeOK
  <2>5. ChallengeInv(c)' BY <1>1, <2>1, <2>3, <2>4 DEF ChallengeInv
  <2> QED BY <1>1, <2>1, <2>2, <2>3, <2>5, OneChallenge DEF PortalTypeOK
<1> QED BY <1>2, <1>3, <1>4

LEMMA ProviderTakesKeeps ==
    ASSUME PortalInv, NEW c \in Challenges, ProviderTakes(c)
    PROVE  PortalInv'
<1>1. PortalTypeOK /\ ChallengeInv(c) BY DEF PortalInv
<1>2. /\ sent' = [sent EXCEPT ![c] = @ + 1] /\ sender' = [sender EXCEPT ![c] = "SENT"]
      /\ UNCHANGED <<account, challenge, delivery, opened, visit>>
      /\ sent[c] = 0 /\ ~delivery[c].payload /\ challenge[c].state # "NONE"
  BY <1>1 DEF ProviderTakes, ChallengeInv
<1>3. sent'[c] = 1 /\ sender'[c] = "SENT" BY <1>1, <1>2 DEF PortalTypeOK
<1>4. PortalTypeOK' BY <1>1, <1>2 DEF PortalTypeOK
<1>5. ChallengeInv(c)' BY <1>1, <1>2, <1>3 DEF ChallengeInv, Live
<1> QED BY <1>1, <1>2, <1>4, <1>5, OneChallenge DEF PortalTypeOK

LEMMA SenderDiesKeeps ==
    ASSUME PortalInv, NEW c \in Challenges, SenderDies(c)
    PROVE  PortalInv'
<1>1. PortalTypeOK /\ ChallengeInv(c) BY DEF PortalInv
<1>2. /\ sender' = [sender EXCEPT ![c] = "READY"] /\ sender[c] \in {"SENDING", "SENT"}
      /\ UNCHANGED <<account, challenge, delivery, sent, opened, visit>>
  BY DEF SenderDies
<1>3. sender'[c] = "READY" /\ challenge[c].state # "NONE"
  BY <1>1, <1>2 DEF PortalTypeOK, ChallengeInv
<1>4. PortalTypeOK' BY <1>1, <1>2 DEF PortalTypeOK
<1>5. ChallengeInv(c)' BY <1>1, <1>2, <1>3 DEF ChallengeInv, Live
<1> QED BY <1>1, <1>2, <1>4, <1>5, OneChallenge DEF PortalTypeOK

LEMMA RecordAnswerKeeps ==
    ASSUME PortalInv, NEW c \in Challenges, NEW answer \in Answers, RecordAnswer(c, answer)
    PROVE  PortalInv'
<1>1. PortalTypeOK /\ ChallengeInv(c) BY DEF PortalInv
<1>2. challenge[c] \in ChallengeRows BY <1>1 DEF PortalTypeOK
<1>3. /\ sender' = [sender EXCEPT ![c] = "IDLE"] /\ UNCHANGED <<account, sent, opened, visit>>
      /\ challenge[c].state # "NONE"
  BY <1>1 DEF RecordAnswer, ChallengeInv
<1>4. sender'[c] = "IDLE" BY <1>1, <1>3 DEF PortalTypeOK
<1>5. CASE challenge[c].state = "UNKNOWN"
  <2> DEFINE k == challenge[c].code /\ answer # "FAILED"
             row == [challenge[c] EXCEPT !.state = answer, !.code = k]
  <2>1. /\ challenge' = [challenge EXCEPT ![c].state = answer, ![c].code = @ /\ answer # "FAILED"]
        /\ delivery' = [delivery EXCEPT ![c] = [state |-> answer, payload |-> FALSE]]
    BY <1>5 DEF RecordAnswer
  <2>2. k \in BOOLEAN /\ answer \in ChallengeStates BY <1>2 DEF ChallengeRows, ChallengeStates
  <2>3. row \in ChallengeRows
    <3> HIDE DEF k
    <3> QED BY <1>2, <2>2, ChallengeRow
  <2>4. challenge' = [challenge EXCEPT ![c] = row] BY <1>2, <2>1 DEF ChallengeRows, PortalTypeOK
  <2>5. /\ row.state = answer /\ row.code = k
        /\ row.identity = challenge[c].identity /\ row.visitor = challenge[c].visitor
    BY <1>2 DEF ChallengeRows
  <2>6. challenge'[c] = row /\ ~delivery'[c].payload
    BY <1>1, <2>1, <2>4 DEF PortalTypeOK
  <2>7. PortalTypeOK'
    <3> HIDE DEF row
    <3>1. delivery' \in [Challenges -> DeliveryRows]
      BY <1>1, <2>1, <2>2 DEF PortalTypeOK, DeliveryRows, ChallengeStates
    <3> QED BY <1>1, <1>3, <2>3, <2>4, <3>1 DEF PortalTypeOK
  <2>8. answer \notin {"NONE", "EXPIRED", "CONSUMED"} /\ (answer # "FAILED" => answer \notin Over)
    BY DEF Answers, Over
  <2>9. ChallengeInv(c)'
    BY <1>1, <1>3, <1>4, <2>5, <2>6, <2>8 DEF ChallengeInv, Live, Over
  <2>10. \A d \in Challenges \ {c} :
            /\ challenge'[d] = challenge[d] /\ delivery'[d] = delivery[d]
            /\ sender'[d] = sender[d] /\ sent'[d] = sent[d] /\ opened'[d] = opened[d]
    <3> HIDE DEF row
    <3> QED BY <1>1, <1>3, <2>1, <2>4 DEF PortalTypeOK
  <2>11. challenge'[c].code =>
            /\ challenge[c].code
            /\ challenge'[c].identity = challenge[c].identity
            /\ challenge'[c].visitor = challenge[c].visitor
    BY <2>5, <2>6
  <2> QED BY <2>7, <2>9, <2>10, <2>11, OneChallenge
<1>6. CASE challenge[c].state # "UNKNOWN"
  <2>1. UNCHANGED <<challenge, delivery>> BY <1>6 DEF RecordAnswer
  <2>2. PortalTypeOK' BY <1>1, <1>3, <2>1 DEF PortalTypeOK
  <2>3. ChallengeInv(c)' BY <1>1, <1>3, <1>4, <2>1 DEF ChallengeInv, Live
  <2> QED BY <1>1, <1>3, <2>1, <2>2, <2>3, OneChallenge DEF PortalTypeOK
<1> QED BY <1>5, <1>6

LEMMA LapseKeeps ==
    ASSUME PortalInv, NEW c \in Challenges, Lapse(c)
    PROVE  PortalInv'
<1>1. PortalTypeOK /\ ChallengeInv(c) BY DEF PortalInv
<1>2. /\ challenge' = [challenge EXCEPT ![c] = Expired(c)]
      /\ delivery' = [delivery EXCEPT ![c] = PayloadGone(c)]
      /\ UNCHANGED <<account, sender, sent, opened, visit>>
  BY DEF Lapse
<1>3. PortalTypeOK' BY <1>1, <1>2, ExpiredTyped DEF PortalTypeOK
<1>4. challenge'[c].state = "EXPIRED" /\ challenge'[c].code = FALSE /\ ~delivery'[c].payload
  BY <1>1, <1>2, ExpiredTyped DEF PortalTypeOK
<1>5. ChallengeInv(c)' BY <1>1, <1>2, <1>4 DEF ChallengeInv
<1> QED BY <1>1, <1>2, <1>3, <1>4, <1>5, OneChallenge DEF PortalTypeOK

LEMMA WrongCodeKeeps ==
    ASSUME PortalInv, NEW c \in Challenges, WrongCode(c)
    PROVE  PortalInv'
<1> DEFINE n == challenge[c].attempts + 1
           s == IF n >= MaxGuesses THEN "FAILED" ELSE challenge[c].state
           k == challenge[c].code /\ ~(n >= MaxGuesses)
           row == [challenge[c] EXCEPT !.attempts = n, !.state = s, !.code = k]
<1>1. PortalTypeOK /\ ChallengeInv(c) BY DEF PortalInv
<1>2. challenge[c] \in ChallengeRows BY <1>1 DEF PortalTypeOK
<1>3. n \in 0..MaxGuesses /\ s \in ChallengeStates /\ k \in BOOLEAN
  <2>1. challenge[c].attempts \in 0..MaxGuesses /\ challenge[c].attempts < MaxGuesses
    BY <1>2 DEF WrongCode, ChallengeRows
  <2>2. n \in 0..MaxGuesses BY <2>1, PortalBounds
  <2>3. s \in ChallengeStates BY <1>2 DEF ChallengeRows, ChallengeStates, Answers
  <2> QED BY <1>2, <2>2, <2>3 DEF ChallengeRows
<1>4. challenge' = [challenge EXCEPT ![c] = row]
  BY <1>2 DEF WrongCode, ChallengeRows, PortalTypeOK
<1>5. row \in ChallengeRows
  <2> HIDE DEF n, s, k
  <2> QED BY <1>2, <1>3, TriedRow
<1>6. /\ row.state = s /\ row.code = k
      /\ row.identity = challenge[c].identity /\ row.visitor = challenge[c].visitor
  BY <1>2 DEF ChallengeRows
<1>7. UNCHANGED <<account, delivery, sender, sent, opened, visit>> /\ Live(c) BY DEF WrongCode
<1>8. challenge'[c] = row BY <1>1, <1>4 DEF PortalTypeOK
<1>9. s # "NONE" /\ s \notin {"EXPIRED", "CONSUMED"} /\ (k => s \notin Over)
  BY <1>7 DEF Live, Over
<1>10. k => challenge[c].code OBVIOUS
<1> HIDE DEF row, s, k, n
<1>13. challenge[c].state # "NONE" /\ challenge'[c].state = s /\ challenge'[c].code = k
  BY <1>6, <1>7, <1>8 DEF Live
<1>14. ChallengeInv(c)'
  BY <1>1, <1>3, <1>7, <1>9, <1>10, <1>13 DEF ChallengeInv, Live
<1>11. PortalTypeOK' BY <1>1, <1>4, <1>5, <1>7 DEF PortalTypeOK
<1>12. \A d \in Challenges \ {c} : challenge'[d] = challenge[d]
  BY <1>1, <1>4 DEF PortalTypeOK
<1> QED BY <1>6, <1>7, <1>8, <1>10, <1>11, <1>12, <1>14, OneChallenge

LEMMA RightCodeKeeps ==
    ASSUME PortalInv, NEW c \in Challenges, RightCode(c)
    PROVE  PortalInv'
<1> DEFINE i == challenge[c].identity
           row == [challenge[c] EXCEPT !.state = "CONSUMED", !.code = FALSE]
<1>1. PortalTypeOK /\ ChallengeInv(c) BY DEF PortalInv
<1>2. challenge[c] \in ChallengeRows /\ i \in Identities /\ challenge[c].visitor \in Visitors
  BY <1>1 DEF PortalTypeOK, ChallengeRows
<1>3. row \in ChallengeRows BY <1>2, ChallengeRow DEF ChallengeStates, Over
<1>4. challenge' = [challenge EXCEPT ![c] = row]
  BY <1>2 DEF RightCode, ChallengeRows, PortalTypeOK
<1>5. row.state = "CONSUMED" /\ row.code = FALSE BY <1>2 DEF ChallengeRows
<1> HIDE DEF row
<1>6. /\ account' = [account EXCEPT ![i].status = "ACTIVE"]
      /\ delivery' = [delivery EXCEPT ![c] = [state |-> "CONSUMED", payload |-> FALSE]]
      /\ visit' = [visit EXCEPT ![challenge[c].visitor] =
                      [identity |-> i, epoch |-> account[i].epoch]]
      /\ opened' = [opened EXCEPT ![c] = @ + 1]
      /\ UNCHANGED <<sender, sent>> /\ challenge[c].code
  BY DEF RightCode, Open
<1>7. opened[c] = 0 BY <1>1, <1>6 DEF ChallengeInv, PortalTypeOK
<1>8. account[i].epoch \in 1..MaxAccountEpoch BY <1>1, <1>2 DEF PortalTypeOK
<1>9. visit' \in [Visitors -> Visits]
  <2>1. [identity |-> i, epoch |-> account[i].epoch] \in Visits
    BY <1>2, <1>8, PortalBounds DEF Visits
  <2> QED BY <1>1, <1>6, <2>1 DEF PortalTypeOK
<1>10. account' \in [Identities -> [status: {"NONE", "ACTIVE", "DISABLED", "ERASED"},
                                    epoch: 1..MaxAccountEpoch]]
  BY <1>1, <1>2, <1>6 DEF PortalTypeOK
<1>11. PortalTypeOK'
  <2>1. challenge' \in [Challenges -> ChallengeRows] BY <1>1, <1>3, <1>4 DEF PortalTypeOK
  <2>2. delivery' \in [Challenges -> DeliveryRows]
    BY <1>1, <1>6 DEF PortalTypeOK, DeliveryRows, Over
  <2>3. opened' \in [Challenges -> 0..2] BY <1>1, <1>6, <1>7 DEF PortalTypeOK
  <2> QED BY <1>1, <1>6, <1>9, <1>10, <2>1, <2>2, <2>3 DEF PortalTypeOK
<1>12. challenge'[c] = row /\ ~delivery'[c].payload /\ opened'[c] = 1
  BY <1>1, <1>4, <1>6, <1>7 DEF PortalTypeOK
<1>13. ChallengeInv(c)' BY <1>1, <1>5, <1>6, <1>12 DEF ChallengeInv
<1>14. \A d \in Challenges \ {c} :
            /\ challenge'[d] = challenge[d] /\ delivery'[d] = delivery[d]
            /\ sender'[d] = sender[d] /\ sent'[d] = sent[d] /\ opened'[d] = opened[d]
  BY <1>1, <1>4, <1>6 DEF PortalTypeOK
<1> QED BY <1>5, <1>11, <1>12, <1>13, <1>14, OneChallenge

\* an administrator ends accounts, a recovery all of them
LEMMA IsolateKeeps ==
    ASSUME PortalInv, NEW who \in SUBSET Identities,
           NEW status \in {"SAME", "DISABLED", "ERASED"}, Isolate(who, status)
    PROVE  PortalInv'
<1>1. PortalTypeOK BY DEF PortalInv
<1>2. account' \in [Identities -> [status: {"NONE", "ACTIVE", "DISABLED", "ERASED"},
                                   epoch: 1..MaxAccountEpoch]]
  <2>1. ASSUME NEW i \in Identities
        PROVE  (IF i \in who /\ account[i].status # "NONE"
                THEN [status |-> IF status = "SAME" THEN account[i].status ELSE status,
                      epoch |-> account[i].epoch + 1]
                ELSE account[i]) \in [status: {"NONE", "ACTIVE", "DISABLED", "ERASED"},
                                      epoch: 1..MaxAccountEpoch]
    <3>1. /\ account[i] \in [status: {"NONE", "ACTIVE", "DISABLED", "ERASED"},
                             epoch: 1..MaxAccountEpoch]
          /\ i \in who => account[i].epoch < MaxAccountEpoch
      BY <1>1 DEF PortalTypeOK, Isolate
    <3>2. account[i].epoch \in 1..MaxAccountEpoch BY <3>1
    <3>3. i \in who => account[i].epoch + 1 \in 1..MaxAccountEpoch BY <3>1, <3>2, PortalBounds
    <3> QED BY <3>1, <3>3
  <2> QED BY <2>1 DEF Isolate
<1>3. visit' \in [Visitors -> Visits]
  <2>1. ASSUME NEW v \in Visitors PROVE NoVisit(v) \in Visits /\ visit[v] \in Visits
    BY <1>1, PortalBounds DEF PortalTypeOK, NoVisit, Visits
  <2> QED BY <2>1 DEF Isolate
<1>4. challenge' \in [Challenges -> ChallengeRows]
  BY <1>1, ExpiredTyped DEF Isolate, PortalTypeOK
<1>5. delivery' \in [Challenges -> DeliveryRows]
  BY <1>1, ExpiredTyped DEF Isolate, PortalTypeOK
<1>6. UNCHANGED <<sender, sent, opened>> BY DEF Isolate
<1>7. PortalTypeOK' BY <1>1, <1>2, <1>3, <1>4, <1>5, <1>6 DEF PortalTypeOK
<1>8. ASSUME NEW c \in Challenges
      PROVE  /\ \/ challenge'[c] = challenge[c]
                \/ /\ challenge'[c].state = "EXPIRED" /\ ~challenge'[c].code
                   /\ ~delivery'[c].payload
             /\ delivery'[c] = delivery[c] \/ ~delivery'[c].payload
  BY <1>1, ExpiredTyped DEF Isolate
<1>9. ASSUME NEW c \in Challenges PROVE ChallengeInv(c)'
  <2>1. ChallengeInv(c) BY DEF PortalInv
  <2>2. CASE challenge'[c] = challenge[c]
    BY <1>6, <1>8, <2>1, <2>2 DEF ChallengeInv, Live
  <2>3. CASE challenge'[c] # challenge[c]
    BY <1>6, <1>8, <2>1, <2>3 DEF ChallengeInv
  <2> QED BY <2>2, <2>3
<1>10. OneCodeEach' BY <1>8, CodesOnlyGo
<1> QED BY <1>7, <1>9, <1>10 DEF PortalInv

LEMMA VisitsKeep ==
    ASSUME PortalInv, NEW v \in Visitors, SignOut(v) \/ SignOutOthers(v)
    PROVE  PortalInv'
<1>1. PortalTypeOK BY DEF PortalInv
<1>2. ASSUME NEW u \in Visitors PROVE NoVisit(u) \in Visits /\ visit[u] \in Visits
  BY <1>1, PortalBounds DEF PortalTypeOK, NoVisit, Visits
<1>3. visit' \in [Visitors -> Visits]
  <2>1. CASE SignOut(v) BY <1>1, <1>2, <2>1 DEF SignOut, PortalTypeOK
  <2>2. CASE SignOutOthers(v) BY <1>1, <1>2, <2>2 DEF SignOutOthers
  <2> QED BY <2>1, <2>2
<1>4. UNCHANGED <<account, challenge, delivery, sender, sent, opened>>
  BY DEF SignOut, SignOutOthers
<1>5. PortalTypeOK' BY <1>1, <1>3, <1>4 DEF PortalTypeOK
<1> QED BY <1>4, <1>5 DEF PortalInv, ChallengeInv, OneCodeEach, Live

LEMMA PortalInvNext == PortalInv /\ [PortalNext]_portalVars => PortalInv'
<1> SUFFICES ASSUME PortalInv, [PortalNext]_portalVars PROVE PortalInv'
  OBVIOUS
<1>1. ASSUME NEW c \in Challenges,
             \/ \E i \in Identities, v \in Visitors : CreateChallenge(c, i, v)
             \/ Dispatch(c) \/ ProviderTakes(c) \/ SenderDies(c) \/ Lapse(c)
             \/ \E answer \in Answers : RecordAnswer(c, answer)
             \/ WrongCode(c) \/ RightCode(c)
      PROVE  PortalInv'
  BY <1>1, CreateChallengeKeeps, DispatchKeeps, ProviderTakesKeeps, SenderDiesKeeps, LapseKeeps,
     RecordAnswerKeeps, WrongCodeKeeps, RightCodeKeeps
<1>2. ASSUME NEW v \in Visitors, SignOut(v) \/ SignOutOthers(v) PROVE PortalInv'
  BY <1>2, VisitsKeep
<1>3. ASSUME NEW i \in Identities, NEW status \in {"DISABLED", "ERASED"},
             DisableAccount(i, status)
      PROVE  PortalInv'
  BY <1>3, IsolateKeeps DEF DisableAccount
<1>4. CASE Recover BY <1>4, IsolateKeeps DEF Recover
<1>5. CASE UNCHANGED portalVars
  BY <1>5 DEF portalVars, PortalInv, PortalTypeOK, ChallengeInv, OneCodeEach, Live
<1> QED BY <1>1, <1>2, <1>3, <1>4, <1>5 DEF PortalNext

LEMMA PortalInvImplies == PortalInv => PortalTypeOK /\ CodeIsSentOnce /\ CodesEnd
BY DEF PortalInv, ChallengeInv, OneCodeEach, CodeIsSentOnce, CodesEnd

----------------------------------------------------------------------------
(* Theorems *)

\* The inductive invariant of the members holds in every behaviour of Identity.
THEOREM MembersStayInvariant == Spec => []IdentityInv
<1>1. Init => IdentityInv BY IdentityInvInit
<1>2. IdentityInv /\ [Next]_vars => IdentityInv' BY IdentityInvNext
<1> QED BY <1>1, <1>2, PTL DEF Spec

\* A reset cuts the member off from every password, activation and session obtained before it,
\* whatever logins and password changes were under way (identity.ts resetMember).
THEOREM ResetsCutOff == Spec => []ResetCutsOff
<1>1. IdentityInv => ResetCutsOff BY IdentityInvImplies
<1> QED BY <1>1, MembersStayInvariant, PTL

\* The installation never loses its last administrator (identity.ts changeMember, LAST_ADMIN).
THEOREM AnAdminRemains == Spec => []SomeAdminRemains
<1>1. IdentityInv => SomeAdminRemains BY IdentityInvImplies
<1> QED BY <1>1, MembersStayInvariant, PTL

\* A command is applied once however often it is sent, and the browser is told what became
\* of it (commands.ts receipts, admin-web api.ts unresolved).
THEOREM CommandsAreToldTruly == Spec => []ToldIsTrue
<1>1. IdentityInv => ToldIsTrue BY IdentityInvImplies
<1> QED BY <1>1, MembersStayInvariant, PTL

\* The inductive invariant of the portal holds in every behaviour of TalentAuth.
THEOREM PortalStaysInvariant == PortalSpec => []PortalInv
<1>1. PortalInit => PortalInv BY PortalInvInit
<1>2. PortalInv /\ [PortalNext]_portalVars => PortalInv' BY PortalInvNext
<1> QED BY <1>1, <1>2, PTL DEF PortalSpec

\* However a dispatch dies and is repeated, the provider is given a code once
\* (talent-auth.ts dispatch).
THEOREM CodesAreSentOnce == PortalSpec => []CodeIsSentOnce
<1>1. PortalInv => CodeIsSentOnce BY PortalInvImplies
<1> QED BY <1>1, PortalStaysInvariant, PTL

\* A code opens one session, is the only one of its identity and its browser, and goes with
\* its challenge (talent-auth.ts createChallenge, verify, isolateTalentAuth).
THEOREM CodesOpenOneSession == PortalSpec => []CodesEnd
<1>1. PortalInv => CodesEnd BY PortalInvImplies
<1> QED BY <1>1, PortalStaysInvariant, PTL

\* What the run of both modules checks of the portal, for every instance of it.
THEOREM BothServeOnce == MCSpec => []CodesServeOnce
<1>1. MCInit => IdentityInv /\ PortalInv BY IdentityInvInit, PortalInvInit DEF MCInit
<1>2. IdentityInv /\ PortalInv /\ [MCNext]_<<vars, portalVars, part>> => IdentityInv' /\ PortalInv'
  BY IdentityInvNext, PortalInvNext DEF MCNext
<1>3. IdentityInv /\ PortalInv => CodesServeOnce
  BY PortalInvImplies DEF CodesServeOnce, IdentityInv, MembersInv
<1> QED BY <1>1, <1>2, <1>3, PTL DEF MCSpec


-------------------------------------------------------------------------------
(* Deletion: the inductive invariant *)

Started == req.state \in {"CLEANING"} \cup Ended

\* Until the cleanup starts no item was touched, and an export that holds the person has its
\* dependency; from the block on each of the two is there only while its item is not done.
ItemsInv ==
    /\ ~Started => \A i \in Items : item[i].state = "NOT_STARTED"
    /\ Started => req.frozen
    /\ ~Blocked => \A e \in Exports : export[e] = "LIVE" => dep[e]
    /\ Blocked => \A e \in Exports :
        /\ export[e] = "LIVE" => <<e, "EXPORT">> \in Planned /\ item[<<e, "EXPORT">>].state # "DONE"
        /\ dep[e] => item[<<e, "DEPENDENCY">>].state # "DONE"

\* What the item of the original says is so, and nothing is erased that is retained.
AssetInv ==
    /\ item[AssetItem].state = "WAITING_EXTERNAL" => ~Retained
    /\ item[AssetItem].state = "DONE" =>
        IF Retained THEN asset = "DETACHED" ELSE asset = "ERASED" /\ ~object
    /\ ~object \/ asset = "ERASED" => ~Retained /\ Started

\* A worker that lost its lease may still erase: it does so only where the plan erases.
WorkerInv(w) ==
    /\ wk[w].pc # "IDLE" => Started
    /\ wk[w].pc \in {"ERASE", "ERASED"} => ~Retained
    /\ wk[w].pc = "ERASED" => ~object

DeletionInv ==
    /\ DeletionTypeOK /\ PlanIsComplete /\ ItemsInv /\ AssetInv
    /\ \A w \in Workers : WorkerInv(w)
    /\ FinishedIsClean /\ NothingUnplannedIsErased

LEMMA DeletionBounds ==
    MaxAttempts \in Nat /\ MaxAttempts > 0 /\ StoreFailures \in BOOLEAN /\ Nobody \notin Workers
BY DeletionConstants

LEMMA AssetIsItem ==
    /\ AssetItem \in Items /\ AssetItem[1] = Asset /\ AssetItem[2] = "ASSET"
    /\ \A e \in Exports :
        /\ <<e, "EXPORT">> \in Items /\ <<e, "DEPENDENCY">> \in Items
        /\ <<e, "EXPORT">> # AssetItem /\ <<e, "DEPENDENCY">> # AssetItem
        /\ <<e, "EXPORT">> # <<e, "DEPENDENCY">>
    /\ \A i \in Items :
        i = AssetItem \/ \E e \in Exports : i = <<e, "EXPORT">> \/ i = <<e, "DEPENDENCY">>
BY DEF Items, AssetItem

\* The rows and states that the steps write.
LEMMA NoReqTyped == NoReq \in ReqRows
BY DeletionBounds DEF NoReq, ReqRows

LEMMA NoItemTyped == NoItem \in ItemRows
BY DeletionBounds DEF NoItem, ItemRows

LEMMA RestingTyped == Resting \in WorkerStates /\ Resting.pc = "IDLE"
BY AssetIsItem DEF Resting, WorkerStates

LEMMA FreeTyped ==
    ASSUME NEW r \in ReqRows
    PROVE  /\ Free(r) \in ReqRows /\ Free(r).state = r.state /\ Free(r).frozen = r.frozen
           /\ FreeF(r) \in ReqRows /\ FreeF(r).state = r.state /\ FreeF(r).frozen = r.frozen
BY DEF Free, FreeF, ReqRows

LEMMA DeletionInvInit == DeletionInit => DeletionInv
<1> SUFFICES ASSUME DeletionInit PROVE DeletionInv
  OBVIOUS
<1>1. /\ req = NoReq /\ NoReq.state = "NONE"
      /\ \A i \in Items : item[i] = NoItem
      /\ NoItem.state = "NOT_STARTED"
  BY DEF DeletionInit, NoReq, NoItem
<1>2. DeletionTypeOK BY NoReqTyped, NoItemTyped, RestingTyped DEF DeletionInit, DeletionTypeOK
<1>3. ~Blocked /\ ~Started BY <1>1 DEF Blocked, Started, Ended
<1>4. PlanIsComplete BY <1>3 DEF PlanIsComplete
<1>5. ItemsInv BY <1>1, <1>3 DEF DeletionInit, ItemsInv
<1>6. AssetInv BY <1>1, AssetIsItem DEF DeletionInit, AssetInv
<1>7. \A w \in Workers : WorkerInv(w)
  <2>1. \A w \in Workers : wk[w].pc = "IDLE" BY RestingTyped DEF DeletionInit
  <2> QED BY <2>1 DEF WorkerInv
<1>8. FinishedIsClean BY <1>1 DEF FinishedIsClean
<1>9. NothingUnplannedIsErased BY DEF DeletionInit, NothingUnplannedIsErased
<1> QED BY <1>2, <1>4, <1>5, <1>6, <1>7, <1>8, <1>9 DEF DeletionInv

-------------------------------------------------------------------------------
(* Steps that leave the plan, the rows and the objects alone *)

\* A worker goes to a state that it may be in.
LEMMA WorkerGoes ==
    ASSUME DeletionTypeOK, \A v \in Workers : WorkerInv(v), NEW w \in Workers,
           NEW s \in WorkerStates,
           Goto(w, s), Started => Started', Retained' = Retained, object' \in {object, FALSE},
           s.pc # "IDLE" => Started', s.pc \in {"ERASE", "ERASED"} => ~Retained,
           s.pc = "ERASED" => ~object'
    PROVE  wk' \in [Workers -> WorkerStates] /\ \A v \in Workers : WorkerInv(v)'
<1>1. wk' = [wk EXCEPT ![w] = s] BY DEF Goto
<1>2. wk' \in [Workers -> WorkerStates] /\ wk'[w] = s /\ \A v \in Workers \ {w} : wk'[v] = wk[v]
  BY <1>1 DEF DeletionTypeOK
<1>3. WorkerInv(w)' BY <1>2 DEF WorkerInv
<1>4. object \in BOOLEAN BY DEF DeletionTypeOK
<1>5. \A v \in Workers \ {w} : WorkerInv(v)' BY <1>2, <1>4 DEF WorkerInv
<1> QED BY <1>2, <1>3, <1>5

\* The request keeps its state, or is given up.
SameOrFailed ==
    /\ req'.state = req.state \/ (req.state = "CLEANING" /\ req'.state = "FAILED")
    /\ req'.frozen = req.frozen

LEMMA QuietKeeps ==
    ASSUME DeletionInv, DeletionTypeOK', SameOrFailed, UNCHANGED <<item, records, object>>,
           \A w \in Workers : WorkerInv(w)'
    PROVE  DeletionInv'
<1>1. Blocked' = Blocked /\ Started' = Started BY DEF SameOrFailed, Blocked, Started, Ended
<1>2. Planned' = Planned /\ Scan' = Scan /\ Retained' = Retained
  BY DEF Planned, Scan, Retained, records
<1>3. PlanIsComplete' BY <1>1, <1>2 DEF DeletionInv, PlanIsComplete
<1>4. ItemsInv' BY <1>1, <1>2 DEF DeletionInv, ItemsInv, SameOrFailed, records
<1>5. AssetInv' BY <1>1, <1>2 DEF DeletionInv, AssetInv, records
<1>6. FinishedIsClean' BY <1>2 DEF DeletionInv, FinishedIsClean, SameOrFailed, records
<1>7. NothingUnplannedIsErased'
  BY <1>1, <1>2 DEF DeletionInv, NothingUnplannedIsErased, SameOrFailed, records, Ended
<1> QED BY <1>3, <1>4, <1>5, <1>6, <1>7 DEF DeletionInv

\* A quiet step of a worker: its lease, its list, its reports about the request.
LEMMA QuietWorker ==
    ASSUME DeletionInv, NEW w \in Workers, NEW s \in WorkerStates, Goto(w, s),
           req' \in ReqRows, SameOrFailed, UNCHANGED <<item, records, object, world>>,
           s.pc # "IDLE" => Started, s.pc # "ERASED", s.pc = "ERASE" => ~Retained
    PROVE  DeletionInv'
<1>1. Started' = Started BY DEF SameOrFailed, Started, Ended
<1>2. Retained' = Retained BY DEF Retained
<1>3. DeletionTypeOK /\ \A v \in Workers : WorkerInv(v) BY DEF DeletionInv
<1>4. wk' \in [Workers -> WorkerStates] /\ \A v \in Workers : WorkerInv(v)'
  BY <1>1, <1>2, <1>3, WorkerGoes
<1>5. DeletionTypeOK' BY <1>3, <1>4 DEF DeletionTypeOK, records, world
<1> QED BY <1>4, <1>5, QuietKeeps

\* A quiet step of nobody's.
LEMMA QuietAround ==
    ASSUME DeletionInv, req' \in ReqRows, SameOrFailed, UNCHANGED <<item, records, object, wk>>,
           basis' \in BOOLEAN, active' \in BOOLEAN, calm' \in BOOLEAN
    PROVE  DeletionInv'
<1>1. DeletionTypeOK' BY DEF DeletionInv, DeletionTypeOK, records
<1>2. Started' = Started /\ Retained' = Retained
  BY DEF SameOrFailed, Started, Ended, Retained
<1>3. \A v \in Workers : WorkerInv(v)' BY <1>2 DEF DeletionInv, WorkerInv
<1> QED BY <1>1, <1>3, QuietKeeps

-------------------------------------------------------------------------------
(* One lemma per action *)

LEMMA CreateExportKeeps ==
    ASSUME DeletionInv, NEW e \in Exports, CreateExport(e)
    PROVE  DeletionInv'
<1>1. /\ ~Blocked /\ export' = [export EXCEPT ![e] = "LIVE"] /\ dep' = [dep EXCEPT ![e] = TRUE]
      /\ UNCHANGED <<req, item, asset, person, object, wk, world>>
  BY DEF CreateExport
<1>2. DeletionTypeOK' BY <1>1 DEF DeletionInv, DeletionTypeOK, world
<1>3. Started' = Started /\ Blocked' = Blocked /\ Retained' = Retained /\ ~Started
  BY <1>1 DEF Started, Blocked, Retained, Ended
<1>4. PlanIsComplete' BY <1>1, <1>3 DEF PlanIsComplete
<1>5. ItemsInv' BY <1>1, <1>3 DEF DeletionInv, ItemsInv, DeletionTypeOK
<1>6. AssetInv' BY <1>1, <1>3 DEF DeletionInv, AssetInv
<1>7. \A w \in Workers : WorkerInv(w)' BY <1>1, <1>3 DEF DeletionInv, WorkerInv
<1>8. FinishedIsClean' BY <1>1 DEF FinishedIsClean, Blocked
<1>9. NothingUnplannedIsErased'
  BY <1>1, <1>3 DEF DeletionInv, NothingUnplannedIsErased
<1> QED BY <1>2, <1>4, <1>5, <1>6, <1>7, <1>8, <1>9 DEF DeletionInv

LEMMA DraftKeeps ==
    ASSUME DeletionInv, Draft
    PROVE  DeletionInv'
<1> DEFINE d(i) == IF i \notin Scan THEN "NONE"
                   ELSE IF i = AssetItem THEN "PENDING" ELSE "APPLY_PROPOSED"
           row(i) == [NoItem EXCEPT !.decision = d(i)]
<1>1. /\ ~Blocked /\ req' = [NoReq EXCEPT !.state = "DRAFT"]
      /\ item' = [i \in Items |-> row(i)]
      /\ UNCHANGED <<records, object, wk, world>>
  BY DEF Draft
<1>2. ~Started BY <1>1 DEF Started, Blocked, Ended
<1>3. req' \in ReqRows /\ req'.state = "DRAFT"
  BY <1>1, NoReqTyped DEF ReqRows
<1>4. ASSUME NEW i \in Items PROVE row(i) \in ItemRows /\ row(i).state = "NOT_STARTED"
  <2>1. d(i) \in {"NONE", "PENDING", "APPLY_PROPOSED", "RETAIN_WITH_BASIS"} OBVIOUS
  <2>2. NoItem.state = "NOT_STARTED" BY DEF NoItem
  <2> HIDE DEF d
  <2> QED BY <2>1, <2>2, NoItemTyped DEF ItemRows
<1> HIDE DEF row
<1>5. item' \in [Items -> ItemRows] /\ \A i \in Items : item'[i].state = "NOT_STARTED"
  BY <1>1, <1>4
<1>6. DeletionTypeOK' BY <1>1, <1>3, <1>5 DEF DeletionInv, DeletionTypeOK, records, world
<1>7. ~Blocked' /\ ~Started' BY <1>3 DEF Blocked, Started, Ended
<1>8. PlanIsComplete' BY <1>7 DEF PlanIsComplete
<1>9. ItemsInv' BY <1>1, <1>5, <1>7 DEF DeletionInv, ItemsInv, records
<1>10. ~(~object \/ asset = "ERASED") BY <1>2 DEF DeletionInv, AssetInv
<1>11. AssetInv' BY <1>1, <1>5, <1>10, AssetIsItem DEF AssetInv, records
<1>12. \A w \in Workers : WorkerInv(w)' BY <1>1, <1>2 DEF DeletionInv, WorkerInv
<1>13. FinishedIsClean' BY <1>3 DEF FinishedIsClean
<1>14. NothingUnplannedIsErased'
  <2>1. person # "ERASED" BY <1>2 DEF DeletionInv, NothingUnplannedIsErased, Started, Ended
  <2> QED BY <1>1, <1>10, <2>1 DEF NothingUnplannedIsErased, records
<1> QED BY <1>6, <1>8, <1>9, <1>11, <1>12, <1>13, <1>14 DEF DeletionInv

\* The request takes effect: the plan is what the scan finds now.
LEMMA BlockKeeps ==
    ASSUME DeletionInv, Block
    PROVE  DeletionInv'
<1>1. /\ req.state = "DRAFT" /\ Planned = Scan /\ req' = [req EXCEPT !.state = "BLOCKED_FOR_USE"]
      /\ UNCHANGED <<item, records, object, wk, world>>
  BY DEF Block, UpToDate
<1>2. ~Blocked /\ ~Started BY <1>1 DEF Blocked, Started, Ended
<1>3. req' \in ReqRows /\ req'.state = "BLOCKED_FOR_USE"
  BY <1>1 DEF DeletionInv, DeletionTypeOK, ReqRows
<1>4. Blocked' /\ ~Started' /\ Retained' = Retained
  BY <1>1, <1>3 DEF Blocked, Started, Ended, Retained
<1>5. DeletionTypeOK' BY <1>1, <1>3 DEF DeletionInv, DeletionTypeOK, records, world
<1>6. Planned' = Planned /\ Scan' = Scan BY <1>1 DEF Planned, Scan, records
<1>7. PlanIsComplete' BY <1>1, <1>6 DEF PlanIsComplete
<1>8. ItemsInv'
  <2> SUFFICES ASSUME NEW e \in Exports
               PROVE  /\ export[e] = "LIVE" => <<e, "EXPORT">> \in Planned
                                               /\ item[<<e, "EXPORT">>].state # "DONE"
                      /\ dep[e] => item[<<e, "DEPENDENCY">>].state # "DONE"
    BY <1>1, <1>2, <1>4, <1>6 DEF DeletionInv, ItemsInv, records
  <2>1. /\ item[<<e, "EXPORT">>].state = "NOT_STARTED"
        /\ item[<<e, "DEPENDENCY">>].state = "NOT_STARTED"
    BY <1>2, AssetIsItem DEF DeletionInv, ItemsInv
  <2>2. export[e] = "LIVE" => dep[e] BY <1>2 DEF DeletionInv, ItemsInv
  <2>3. dep[e] => <<e, "EXPORT">> \in Scan
    BY AssetIsItem DEF Scan
  <2> QED BY <1>1, <2>1, <2>2, <2>3
<1>9. AssetInv' BY <1>1, <1>2, <1>4 DEF DeletionInv, AssetInv, records
<1>10. \A w \in Workers : WorkerInv(w)' BY <1>1, <1>2, <1>4 DEF DeletionInv, WorkerInv
<1>11. FinishedIsClean' BY <1>3 DEF FinishedIsClean
<1>12. NothingUnplannedIsErased'
  BY <1>1, <1>2 DEF DeletionInv, NothingUnplannedIsErased, Started, Ended, records
<1> QED BY <1>5, <1>7, <1>8, <1>9, <1>10, <1>11, <1>12 DEF DeletionInv

LEMMA DecideKeeps ==
    ASSUME DeletionInv, NEW decision \in {"APPLY_PROPOSED", "RETAIN_WITH_BASIS"}, Decide(decision)
    PROVE  DeletionInv'
<1> DEFINE row == [item[AssetItem] EXCEPT !.decision = decision]
<1>1. /\ req.state = "BLOCKED_FOR_USE" /\ item' = [item EXCEPT ![AssetItem] = row]
      /\ UNCHANGED <<req, records, object, wk, world>>
  BY DEF Decide
<1>2. ~Started /\ Blocked BY <1>1 DEF Blocked, Started, Ended
<1>3. row \in ItemRows /\ row.decision = decision /\ row.state = item[AssetItem].state
  BY AssetIsItem DEF DeletionInv, DeletionTypeOK, ItemRows
<1> HIDE DEF row
<1>4. /\ item' \in [Items -> ItemRows] /\ item'[AssetItem] = row
      /\ \A i \in Items \ {AssetItem} : item'[i] = item[i]
  BY <1>1, <1>3, AssetIsItem DEF DeletionInv, DeletionTypeOK
<1>5. DeletionTypeOK' BY <1>1, <1>4 DEF DeletionInv, DeletionTypeOK, records, world
<1>6. Blocked' /\ ~Started' BY <1>1, <1>2 DEF Blocked, Started, Ended
<1>7. Planned \subseteq Planned' /\ Scan' = Scan
  BY <1>1, <1>3, <1>4 DEF Planned, Scan, records
<1>8. PlanIsComplete' BY <1>2, <1>7 DEF DeletionInv, PlanIsComplete
<1>9. \A i \in Items : item'[i].state = "NOT_STARTED"
  BY <1>2, <1>3, <1>4, AssetIsItem DEF DeletionInv, ItemsInv
<1>10. ItemsInv'
  BY <1>1, <1>2, <1>6, <1>7, <1>9, AssetIsItem DEF DeletionInv, ItemsInv, records
<1>11. ~(~object \/ asset = "ERASED") BY <1>2 DEF DeletionInv, AssetInv
<1>12. AssetInv' BY <1>1, <1>9, <1>11, AssetIsItem DEF AssetInv, records
<1>13. \A w \in Workers : WorkerInv(w)' BY <1>1, <1>2 DEF DeletionInv, WorkerInv
<1>14. FinishedIsClean' BY <1>1 DEF FinishedIsClean
<1>15. NothingUnplannedIsErased'
  <2>1. person # "ERASED" BY <1>1 DEF DeletionInv, NothingUnplannedIsErased
  <2> QED BY <1>1, <1>11, <2>1 DEF NothingUnplannedIsErased, records
<1> QED BY <1>5, <1>8, <1>10, <1>12, <1>13, <1>14, <1>15 DEF DeletionInv

LEMMA FreezePlanKeeps ==
    ASSUME DeletionInv, FreezePlan
    PROVE  DeletionInv'
<1>1. /\ req.state = "BLOCKED_FOR_USE" /\ req' = [req EXCEPT !.frozen = TRUE]
      /\ UNCHANGED <<item, records, object, wk, world>>
  BY DEF FreezePlan
<1>2. req' \in ReqRows /\ req'.state = "BLOCKED_FOR_USE"
  BY <1>1 DEF DeletionInv, DeletionTypeOK, ReqRows
<1>3. DeletionTypeOK' BY <1>1, <1>2 DEF DeletionInv, DeletionTypeOK, records, world
<1>4. /\ Blocked' = Blocked /\ ~Started /\ ~Started' /\ Planned' = Planned /\ Scan' = Scan
      /\ Retained' = Retained
  BY <1>1, <1>2 DEF Blocked, Started, Ended, Planned, Scan, Retained, records
<1>5. PlanIsComplete' BY <1>4 DEF DeletionInv, PlanIsComplete
<1>6. ItemsInv' BY <1>1, <1>4 DEF DeletionInv, ItemsInv, records
<1>7. AssetInv' BY <1>1, <1>4 DEF DeletionInv, AssetInv, records
<1>8. \A w \in Workers : WorkerInv(w)' BY <1>1, <1>4 DEF DeletionInv, WorkerInv
<1>9. FinishedIsClean' BY <1>2 DEF FinishedIsClean
<1>10. NothingUnplannedIsErased'
  BY <1>1, <1>4 DEF DeletionInv, NothingUnplannedIsErased, Started, Ended, records
<1> QED BY <1>3, <1>5, <1>6, <1>7, <1>8, <1>9, <1>10 DEF DeletionInv

LEMMA StartKeeps ==
    ASSUME DeletionInv, Start
    PROVE  DeletionInv'
<1> DEFINE row(i) == IF i \in Planned THEN [item[i] EXCEPT !.state = "PENDING"] ELSE item[i]
<1>1. /\ req.state = "BLOCKED_FOR_USE" /\ req.frozen /\ req' = [req EXCEPT !.state = "CLEANING"]
      /\ item' = [i \in Items |-> row(i)]
      /\ UNCHANGED <<records, object, wk, world>>
  BY DEF Start
<1>2. req' \in ReqRows /\ req'.state = "CLEANING" /\ req'.frozen
  BY <1>1 DEF DeletionInv, DeletionTypeOK, ReqRows
<1>3. ~Started /\ Blocked /\ Started' /\ Blocked'
  BY <1>1, <1>2 DEF Blocked, Started, Ended
<1>4. ASSUME NEW i \in Items
      PROVE  /\ row(i) \in ItemRows /\ row(i).decision = item[i].decision
             /\ row(i).state \in {"NOT_STARTED", "PENDING"}
  <2>1. item[i] \in ItemRows /\ item[i].state = "NOT_STARTED"
    BY <1>3 DEF DeletionInv, DeletionTypeOK, ItemsInv
  <2> QED BY <2>1 DEF ItemRows
<1> HIDE DEF row
<1>5. /\ item' \in [Items -> ItemRows]
      /\ \A i \in Items : /\ item'[i].decision = item[i].decision
                          /\ item'[i].state \in {"NOT_STARTED", "PENDING"}
  BY <1>1, <1>4
<1>6. DeletionTypeOK' BY <1>1, <1>2, <1>5 DEF DeletionInv, DeletionTypeOK, records, world
<1>7. Planned' = Planned /\ Scan' = Scan /\ Retained' = Retained
  BY <1>1, <1>5, AssetIsItem DEF Planned, Scan, Retained, records
<1>8. PlanIsComplete' BY <1>3, <1>7 DEF DeletionInv, PlanIsComplete
<1>9. ItemsInv'
  BY <1>1, <1>2, <1>3, <1>5, <1>7, AssetIsItem DEF DeletionInv, ItemsInv, records
<1>10. ~(~object \/ asset = "ERASED") BY <1>3 DEF DeletionInv, AssetInv
<1>11. AssetInv' BY <1>1, <1>5, <1>10, AssetIsItem DEF AssetInv, records
<1>12. \A w \in Workers : WorkerInv(w)' BY <1>1, <1>3 DEF DeletionInv, WorkerInv
<1>13. FinishedIsClean' BY <1>2 DEF FinishedIsClean
<1>14. NothingUnplannedIsErased'
  <2>1. person # "ERASED" BY <1>1 DEF DeletionInv, NothingUnplannedIsErased
  <2> QED BY <1>1, <1>10, <2>1 DEF NothingUnplannedIsErased, records
<1> QED BY <1>6, <1>8, <1>9, <1>11, <1>12, <1>13, <1>14 DEF DeletionInv

-------------------------------------------------------------------------------
(* The workers' quiet steps *)

\* The states that a worker goes to, other than to touch an object.
LEMMA GoingTyped ==
    ASSUME NEW todo \in SUBSET Items, NEW i \in Items
    PROVE  /\ \A pc \in {"LIST", "CLOSE", "TASKS"} :
                [Resting EXCEPT !.pc = pc] \in WorkerStates /\ [Resting EXCEPT !.pc = pc].pc = pc
           /\ [Resting EXCEPT !.pc = "ITEM", !.todo = todo] \in WorkerStates
           /\ [Resting EXCEPT !.pc = "ITEM", !.todo = todo].pc = "ITEM"
           /\ [Resting EXCEPT !.pc = "REPORT", !.it = i] \in WorkerStates
           /\ [Resting EXCEPT !.pc = "REPORT", !.it = i].pc = "REPORT"
BY RestingTyped DEF WorkerStates

LEMMA AheadTyped ==
    ASSUME NEW s \in WorkerStates, NEW pc \in {"ERASE", "ERASED", "FINISH", "FFAIL"}
    PROVE  [s EXCEPT !.pc = pc] \in WorkerStates /\ [s EXCEPT !.pc = pc].pc = pc
BY DEF WorkerStates

LEMMA ClaimKeeps ==
    ASSUME DeletionInv, NEW w \in Workers, Claim(w)
    PROVE  DeletionInv'
<1>1. /\ req.state = "CLEANING" /\ req' = [req EXCEPT !.token = w, !.live = TRUE]
      /\ Goto(w, [Resting EXCEPT !.pc = "LIST"]) /\ UNCHANGED <<item, records, object, world>>
  BY DEF Claim
<1>2. req' \in ReqRows /\ SameOrFailed
  BY <1>1 DEF DeletionInv, DeletionTypeOK, ReqRows, SameOrFailed
<1>3. Started BY <1>1 DEF Started
<1>4. [Resting EXCEPT !.pc = "LIST"] \in WorkerStates /\ [Resting EXCEPT !.pc = "LIST"].pc = "LIST"
  BY GoingTyped, AssetIsItem
<1> QED BY <1>1, <1>2, <1>3, <1>4, QuietWorker

LEMMA ClaimNothingKeeps ==
    ASSUME DeletionInv, NEW w \in Workers, ClaimNothing(w)
    PROVE  DeletionInv'
<1>1. /\ req' = [Free(req) EXCEPT !.cleaned = (Unfinished = {})]
      /\ UNCHANGED <<item, records, object, wk, world>>
  BY DEF ClaimNothing
<1>2. req \in ReqRows BY DEF DeletionInv, DeletionTypeOK
<1>3. Free(req) \in ReqRows /\ Free(req).state = req.state /\ Free(req).frozen = req.frozen
  BY <1>2, FreeTyped
<1>4. (Unfinished = {}) \in BOOLEAN OBVIOUS
<1> DEFINE clean == Unfinished = {}
<1>5. req' = [Free(req) EXCEPT !.cleaned = clean] BY <1>1
<1> HIDE DEF clean
<1>6. clean \in BOOLEAN BY <1>4 DEF clean
<1>7. req' \in ReqRows /\ SameOrFailed BY <1>3, <1>5, <1>6 DEF ReqRows, SameOrFailed
<1>8. basis' \in BOOLEAN /\ active' \in BOOLEAN /\ calm' \in BOOLEAN
  BY <1>1 DEF DeletionInv, DeletionTypeOK, world
<1> QED BY <1>1, <1>7, <1>8, QuietAround

LEMMA ListKeeps ==
    ASSUME DeletionInv, NEW w \in Workers, List(w)
    PROVE  DeletionInv'
<1> DEFINE s == IF Owned(w) THEN [Resting EXCEPT !.pc = "ITEM", !.todo = Processable] ELSE Resting
<1>1. /\ wk[w].pc = "LIST" /\ Goto(w, s) /\ UNCHANGED <<req, item, records, object, world>>
  BY DEF List
<1>2. Processable \in SUBSET Items BY DEF Processable, Planned
<1>3. s \in WorkerStates /\ s.pc \in {"ITEM", "IDLE"}
  BY <1>2, GoingTyped, RestingTyped, AssetIsItem
<1> HIDE DEF s
<1>4. Started BY <1>1 DEF DeletionInv, WorkerInv
<1>5. req' \in ReqRows /\ SameOrFailed BY <1>1 DEF DeletionInv, DeletionTypeOK, SameOrFailed
<1> QED BY <1>1, <1>3, <1>4, <1>5, QuietWorker

LEMMA ItemFailsKeeps ==
    ASSUME DeletionInv, NEW w \in Workers, ItemFails(w)
    PROVE  DeletionInv'
<1>1. PICK i \in Now(w) : Failing(w, i) BY DEF ItemFails
<1>2. wk[w].pc = "ITEM" /\ UNCHANGED <<req, item, records, object, world>> BY DEF ItemFails
<1>3. i \in Items BY DEF Now, DeletionInv, DeletionTypeOK, WorkerStates
<1> DEFINE s == [Resting EXCEPT !.pc = "REPORT", !.it = i]
<1>4. s \in WorkerStates /\ s.pc = "REPORT" BY <1>3, GoingTyped
<1>5. Goto(w, s) BY <1>1 DEF Failing
<1> HIDE DEF s
<1>6. Started BY <1>2 DEF DeletionInv, WorkerInv
<1>7. req' \in ReqRows /\ SameOrFailed BY <1>2 DEF DeletionInv, DeletionTypeOK, SameOrFailed
<1> QED BY <1>2, <1>4, <1>5, <1>6, <1>7, QuietWorker

LEMMA StopCleaningKeeps ==
    ASSUME DeletionInv, NEW w \in Workers, StopCleaning(w)
    PROVE  DeletionInv'
<1> DEFINE s == [Resting EXCEPT !.pc = "CLOSE"]
<1>1. wk[w].pc = "ITEM" /\ Goto(w, s) /\ UNCHANGED <<req, item, records, object, world>>
  BY DEF StopCleaning
<1>2. s \in WorkerStates /\ s.pc = "CLOSE" BY GoingTyped, AssetIsItem
<1> HIDE DEF s
<1>3. Started BY <1>1 DEF DeletionInv, WorkerInv
<1>4. req' \in ReqRows /\ SameOrFailed BY <1>1 DEF DeletionInv, DeletionTypeOK, SameOrFailed
<1> QED BY <1>1, <1>2, <1>3, <1>4, QuietWorker

LEMMA CloseCycleKeeps ==
    ASSUME DeletionInv, NEW w \in Workers, CloseCycle(w)
    PROVE  DeletionInv'
<1> DEFINE clean == Free(req).cleaned \/ Unfinished = {}
<1>1. /\ req' = IF req.state = "CLEANING" /\ req.token = w
                THEN [Free(req) EXCEPT !.cleaned = @ \/ Unfinished = {}] ELSE req
      /\ Goto(w, Resting) /\ UNCHANGED <<item, records, object, world>>
  BY DEF CloseCycle
<1>2. req \in ReqRows BY DEF DeletionInv, DeletionTypeOK
<1>3. Free(req) \in ReqRows /\ Free(req).state = req.state /\ Free(req).frozen = req.frozen
  BY <1>2, FreeTyped
<1>4. clean \in BOOLEAN OBVIOUS
<1>5. req' = [Free(req) EXCEPT !.cleaned = clean] \/ req' = req BY <1>1
<1> HIDE DEF clean
<1>6. req' \in ReqRows /\ SameOrFailed BY <1>2, <1>3, <1>4, <1>5 DEF ReqRows, SameOrFailed
<1> QED BY <1>1, <1>6, RestingTyped, QuietWorker

LEMMA ClaimFinalKeeps ==
    ASSUME DeletionInv, NEW w \in Workers, ClaimFinal(w)
    PROVE  DeletionInv'
<1> DEFINE s == [Resting EXCEPT !.pc = "TASKS"]
<1>1. /\ req.state = "CLEANING" /\ req.fattempts < MaxAttempts
      /\ req' = [req EXCEPT !.fattempts = @ + 1, !.ftoken = w, !.flive = TRUE]
      /\ Goto(w, s) /\ UNCHANGED <<item, records, object, world>>
  BY DEF ClaimFinal, MayFinalize
<1>2. req.fattempts \in 0..MaxAttempts BY DEF DeletionInv, DeletionTypeOK, ReqRows
<1>3. req.fattempts + 1 \in 0..MaxAttempts BY <1>1, <1>2, DeletionBounds
<1>4. req' \in ReqRows /\ SameOrFailed
  BY <1>1, <1>3 DEF DeletionInv, DeletionTypeOK, ReqRows, SameOrFailed
<1>5. s \in WorkerStates /\ s.pc = "TASKS" BY GoingTyped, AssetIsItem
<1> HIDE DEF s
<1>6. Started BY <1>1 DEF Started
<1> QED BY <1>1, <1>4, <1>5, <1>6, QuietWorker

LEMMA GiveUpKeeps ==
    ASSUME DeletionInv, NEW w \in Workers, GiveUp(w)
    PROVE  DeletionInv'
<1>1. /\ req.state = "CLEANING"
      /\ req' = [FreeF(req) EXCEPT !.state = "FAILED", !.fattempts = MaxAttempts]
      /\ UNCHANGED <<item, records, object, wk, world>>
  BY DEF GiveUp, MayFinalize
<1>2. req \in ReqRows BY DEF DeletionInv, DeletionTypeOK
<1>3. FreeF(req) \in ReqRows /\ FreeF(req).frozen = req.frozen BY <1>2, FreeTyped
<1>4. MaxAttempts \in 0..MaxAttempts BY DeletionBounds
<1>5. req' \in ReqRows /\ SameOrFailed
  BY <1>1, <1>3, <1>4 DEF ReqRows, SameOrFailed, Ended
<1>6. basis' \in BOOLEAN /\ active' \in BOOLEAN /\ calm' \in BOOLEAN
  BY <1>1 DEF DeletionInv, DeletionTypeOK, world
<1> QED BY <1>1, <1>5, <1>6, QuietAround

\* Only an original that the plan erases waits for the finalization.
LEMMA TasksKeeps ==
    ASSUME DeletionInv, NEW w \in Workers, Tasks(w)
    PROVE  DeletionInv'
<1> DEFINE pc == IF item[AssetItem].state = "WAITING_EXTERNAL" THEN "ERASE" ELSE "FINISH"
           s == [wk[w] EXCEPT !.pc = pc]
<1>1. /\ wk[w].pc = "TASKS" /\ Goto(w, s) /\ UNCHANGED <<req, item, records, object, world>>
  BY DEF Tasks
<1>2. pc \in {"ERASE", "FINISH"} /\ (pc = "ERASE" => ~Retained)
  BY DEF DeletionInv, AssetInv
<1> HIDE DEF pc
<1>3. s \in WorkerStates /\ s.pc = pc
  <2>1. wk[w] \in WorkerStates BY DEF DeletionInv, DeletionTypeOK
  <2> QED BY <1>2, <2>1, AheadTyped
<1> HIDE DEF s
<1>4. Started BY <1>1 DEF DeletionInv, WorkerInv
<1>5. req' \in ReqRows /\ SameOrFailed BY <1>1 DEF DeletionInv, DeletionTypeOK, SameOrFailed
<1> QED BY <1>1, <1>2, <1>3, <1>4, <1>5, QuietWorker

LEMMA FinalFailsKeeps ==
    ASSUME DeletionInv, NEW w \in Workers, FinalFails(w)
    PROVE  DeletionInv'
<1> DEFINE s == IF wk[w].pc = "FINISH" /\ ~HoldsF(w) THEN Resting
                ELSE [wk[w] EXCEPT !.pc = "FFAIL"]
<1>1. /\ wk[w].pc \in {"TASKS", "ERASED", "FINISH"} /\ Goto(w, s)
      /\ UNCHANGED <<req, item, records, object, world>>
  BY DEF FinalFails
<1>2. s \in WorkerStates /\ s.pc \in {"IDLE", "FFAIL"}
  BY AheadTyped, RestingTyped DEF DeletionInv, DeletionTypeOK
<1> HIDE DEF s
<1>3. Started BY <1>1 DEF DeletionInv, WorkerInv
<1>4. req' \in ReqRows /\ SameOrFailed BY <1>1 DEF DeletionInv, DeletionTypeOK, SameOrFailed
<1> QED BY <1>1, <1>2, <1>3, <1>4, QuietWorker

LEMMA FailFinalKeeps ==
    ASSUME DeletionInv, NEW w \in Workers, FailFinal(w)
    PROVE  DeletionInv'
<1> DEFINE state == IF req.fattempts = MaxAttempts THEN "FAILED" ELSE FreeF(req).state
<1>1. /\ req' = IF req.state = "CLEANING" /\ req.ftoken = w
                THEN [FreeF(req) EXCEPT !.state = state] ELSE req
      /\ Goto(w, Resting) /\ UNCHANGED <<item, records, object, world>>
  BY DEF FailFinal
<1>2. req \in ReqRows BY DEF DeletionInv, DeletionTypeOK
<1>3. FreeF(req) \in ReqRows /\ FreeF(req).state = req.state /\ FreeF(req).frozen = req.frozen
  BY <1>2, FreeTyped
<1>4. state \in {"FAILED", req.state} BY <1>3
<1> HIDE DEF state
<1>5. req' \in ReqRows /\ SameOrFailed
  BY <1>1, <1>2, <1>3, <1>4 DEF ReqRows, SameOrFailed, Ended
<1> QED BY <1>1, <1>5, RestingTyped, QuietWorker

LEMMA CrashKeeps ==
    ASSUME DeletionInv, NEW w \in Workers, Crash(w)
    PROVE  DeletionInv'
<1>1. Goto(w, Resting) /\ UNCHANGED <<req, item, records, object, world>> BY DEF Crash
<1>2. req' \in ReqRows /\ SameOrFailed BY <1>1 DEF DeletionInv, DeletionTypeOK, SameOrFailed
<1> QED BY <1>1, <1>2, RestingTyped, QuietWorker

LEMMA WorldKeeps ==
    ASSUME DeletionInv, LeaseEnds \/ CalmDown \/ BasisLapses \/ ChangeMember
    PROVE  DeletionInv'
<1>1. UNCHANGED <<item, records, object, wk>>
  BY DEF LeaseEnds, CalmDown, BasisLapses, ChangeMember
<1>2. basis' \in BOOLEAN /\ active' \in BOOLEAN /\ calm' \in BOOLEAN
  BY DEF LeaseEnds, CalmDown, BasisLapses, ChangeMember, DeletionInv, DeletionTypeOK, world
<1>3. req' \in {req, [req EXCEPT !.live = FALSE], [req EXCEPT !.flive = FALSE]}
  BY DEF LeaseEnds, CalmDown, BasisLapses, ChangeMember
<1>4. req' \in ReqRows /\ SameOrFailed
  BY <1>3 DEF DeletionInv, DeletionTypeOK, ReqRows, SameOrFailed
<1> QED BY <1>1, <1>2, <1>4, QuietAround

-------------------------------------------------------------------------------
(* The steps that clean, report and erase *)

\* What a cleaned item does: its export or dependency goes, the original is detached or waits.
LEMMA ApplyKeeps ==
    ASSUME DeletionInv, NEW i \in Items, Retriable(i), req.state = "CLEANING", ApplyItem(i),
           UNCHANGED world, wk' \in [Workers -> WorkerStates],
           \A v \in Workers : wk'[v].pc \in {"ERASE", "ERASED"} => wk'[v].pc = wk[v].pc
    PROVE  DeletionInv'
<1> DEFINE n == item[i].attempts + 1
           o == Outcome(i)
           row == [item[i] EXCEPT !.state = o, !.attempts = n]
<1>1. /\ export' = IF i[2] = "EXPORT" THEN [export EXCEPT ![i[1]] = "ERASED"] ELSE export
      /\ dep' = IF i[2] = "DEPENDENCY" THEN [dep EXCEPT ![i[1]] = FALSE] ELSE dep
      /\ asset' = IF i = AssetItem /\ Retained THEN "DETACHED" ELSE asset
      /\ item' = [item EXCEPT ![i] = row]
      /\ req' = [req EXCEPT !.live = TRUE]
      /\ UNCHANGED <<person, object>>
  BY DEF ApplyItem
<1>2. /\ DeletionTypeOK /\ item[i] \in ItemRows /\ item[i].attempts \in Nat
      /\ item[i].attempts < MaxAttempts
      /\ item[i].state \in {"PENDING", "FAILED"}
  BY DEF DeletionInv, DeletionTypeOK, ItemRows, Retriable
<1>3. n \in 0..MaxAttempts BY <1>2, DeletionBounds
<1>4. o \in {"DONE", "WAITING_EXTERNAL"} /\ (o = "DONE" <=> ~(i = AssetItem /\ ~Retained))
  BY DEF Outcome
<1> HIDE DEF n, o
<1>5. row \in ItemRows /\ row.state = o /\ row.decision = item[i].decision
  BY <1>2, <1>3, <1>4 DEF ItemRows
<1> HIDE DEF row
<1>6. /\ item' \in [Items -> ItemRows] /\ item'[i] = row
      /\ \A k \in Items \ {i} : item'[k] = item[k]
      /\ \A k \in Items : item'[k].decision = item[k].decision
  BY <1>1, <1>2, <1>5 DEF DeletionTypeOK
<1>7. req' \in ReqRows /\ req'.state = "CLEANING" /\ req'.frozen = req.frozen
  BY <1>1, <1>2 DEF DeletionTypeOK, ReqRows
<1>8. Blocked /\ Started /\ Blocked' /\ Started' BY <1>7 DEF Blocked, Started
<1>9. Planned' = Planned /\ Retained' = Retained
  BY <1>6, AssetIsItem DEF Planned, Retained
<1>10. /\ export' \in [Exports -> {"NONE", "LIVE", "ERASED"}] /\ dep' \in [Exports -> BOOLEAN]
       /\ \A e \in Exports : /\ export'[e] = "LIVE" => export[e] = "LIVE" /\ <<e, "EXPORT">> # i
                             /\ dep'[e] => dep[e] /\ <<e, "DEPENDENCY">> # i
  <2>1. CASE i = AssetItem
    <3>1. export' = export /\ dep' = dep BY <1>1, <2>1, AssetIsItem
    <3> QED BY <1>2, <2>1, <3>1, AssetIsItem DEF DeletionTypeOK
  <2>2. ASSUME NEW e \in Exports, i = <<e, "EXPORT">>
        PROVE  <1>10
    <3>1. export' = [export EXCEPT ![e] = "ERASED"] /\ dep' = dep BY <1>1, <2>2
    <3> QED BY <1>2, <2>2, <3>1 DEF DeletionTypeOK
  <2>3. ASSUME NEW e \in Exports, i = <<e, "DEPENDENCY">>
        PROVE  <1>10
    <3>1. export' = export /\ dep' = [dep EXCEPT ![e] = FALSE] BY <1>1, <2>3
    <3> QED BY <1>2, <2>3, <3>1 DEF DeletionTypeOK
  <2> QED BY <2>1, <2>2, <2>3, AssetIsItem
<1>11. asset' \in {"READY", "DETACHED", "ERASED"} BY <1>1, <1>2 DEF DeletionTypeOK
<1>12. DeletionTypeOK' BY <1>1, <1>2, <1>6, <1>7, <1>10, <1>11 DEF DeletionTypeOK, world
<1>13. Scan' \subseteq Scan BY <1>10 DEF Scan, Items
<1>14. PlanIsComplete' BY <1>8, <1>9, <1>13 DEF DeletionInv, PlanIsComplete
<1>15. ItemsInv' BY <1>6, <1>7, <1>8, <1>9, <1>10, AssetIsItem DEF DeletionInv, ItemsInv
<1>16. AssetInv'
  <2>1. CASE i = AssetItem
    <3>1. item'[AssetItem].state = IF Retained THEN "DONE" ELSE "WAITING_EXTERNAL"
      BY <1>4, <1>5, <1>6, <2>1
    <3>2. Retained => asset' = "DETACHED" /\ object
      BY <1>1, <2>1 DEF DeletionInv, AssetInv
    <3>3. ~Retained => asset' = asset BY <1>1
    <3> QED BY <1>1, <1>8, <1>9, <3>1, <3>2, <3>3 DEF DeletionInv, AssetInv
  <2>2. CASE i # AssetItem
    <3>1. asset' = asset /\ item'[AssetItem] = item[AssetItem] BY <1>1, <1>6, <2>2, AssetIsItem
    <3> QED BY <1>1, <1>8, <1>9, <3>1 DEF DeletionInv, AssetInv
  <2> QED BY <2>1, <2>2
<1>17. \A v \in Workers : WorkerInv(v)' BY <1>1, <1>8, <1>9 DEF DeletionInv, WorkerInv
<1>18. FinishedIsClean' BY <1>7 DEF FinishedIsClean
<1>19. NothingUnplannedIsErased'
  <2>1. person # "ERASED" BY DEF DeletionInv, NothingUnplannedIsErased
  <2> QED BY <1>1, <1>7, <1>16, <2>1 DEF NothingUnplannedIsErased, AssetInv
<1> QED BY <1>12, <1>14, <1>15, <1>16, <1>17, <1>18, <1>19 DEF DeletionInv

LEMMA CleanItemKeeps ==
    ASSUME DeletionInv, NEW w \in Workers, CleanItem(w)
    PROVE  DeletionInv'
<1>1. PICK i \in Now(w) :
        /\ Retriable(i) /\ ApplyItem(i)
        /\ Goto(w, [wk[w] EXCEPT !.todo = @ \ {i}]) \/ Failing(w, i)
  BY DEF CleanItem
<1>2. wk[w].pc = "ITEM" /\ req.state = "CLEANING" /\ UNCHANGED world BY DEF CleanItem, Owned
<1>3. wk \in [Workers -> WorkerStates] BY DEF DeletionInv, DeletionTypeOK
<1>4. i \in Items BY <1>3 DEF Now, WorkerStates
<1> DEFINE s == [wk[w] EXCEPT !.todo = @ \ {i}]
           f == [Resting EXCEPT !.pc = "REPORT", !.it = i]
<1>5. s \in WorkerStates /\ s.pc = "ITEM" BY <1>2, <1>3 DEF WorkerStates
<1>6. f \in WorkerStates /\ f.pc = "REPORT" BY <1>4, GoingTyped
<1>7. wk' = [wk EXCEPT ![w] = s] \/ wk' = [wk EXCEPT ![w] = f]
  BY <1>1 DEF Goto, Failing
<1> HIDE DEF s, f
<1>8. /\ wk' \in [Workers -> WorkerStates]
      /\ \A v \in Workers : wk'[v].pc \in {"ERASE", "ERASED"} => wk'[v].pc = wk[v].pc
  BY <1>3, <1>5, <1>6, <1>7
<1> QED BY <1>1, <1>2, <1>4, <1>8, ApplyKeeps

\* A report makes nothing fail that is done, and an original that waited is tried again.
LEMMA ReportItemKeeps ==
    ASSUME DeletionInv, NEW w \in Workers, ReportItem(w)
    PROVE  DeletionInv'
<1> DEFINE i == wk[w].it
           n == IF item[i].attempts = MaxAttempts THEN item[i].attempts ELSE item[i].attempts + 1
           row == [item[i] EXCEPT !.state = "FAILED", !.attempts = n]
           s == [Resting EXCEPT !.pc = "CLOSE"]
<1>1. /\ wk[w].pc = "REPORT" /\ Goto(w, s) /\ UNCHANGED <<records, object, world>>
      /\ \/ MayReport(w) /\ item' = [item EXCEPT ![i] = row] /\ req' = [req EXCEPT !.live = TRUE]
         \/ UNCHANGED <<item, req>>
  BY DEF ReportItem
<1>2. DeletionTypeOK /\ \A v \in Workers : WorkerInv(v) BY DEF DeletionInv
<1>3. i \in Items /\ item[i] \in ItemRows BY <1>2 DEF DeletionTypeOK, WorkerStates
<1>4. s \in WorkerStates /\ s.pc = "CLOSE" BY GoingTyped, AssetIsItem
<1> HIDE DEF s
<1>5. Started BY <1>1, <1>2 DEF WorkerInv
<1>6. CASE UNCHANGED <<item, req>>
  <2>1. req' \in ReqRows /\ SameOrFailed BY <1>2, <1>6 DEF DeletionTypeOK, SameOrFailed
  <2> QED BY <1>1, <1>4, <1>5, <1>6, <2>1, QuietWorker
<1>7. CASE MayReport(w) /\ item' = [item EXCEPT ![i] = row] /\ req' = [req EXCEPT !.live = TRUE]
  <2>1. item[i].state # "DONE" BY <1>7 DEF MayReport
  <2>2. n \in 0..MaxAttempts
    <3>1. item[i].attempts \in 0..MaxAttempts BY <1>3 DEF ItemRows
    <3> QED BY <3>1, DeletionBounds
  <2> HIDE DEF n, i
  <2>3. row \in ItemRows /\ row.state = "FAILED" /\ row.decision = item[i].decision
    BY <1>3, <2>2 DEF ItemRows
  <2> HIDE DEF row
  <2>4. /\ item' \in [Items -> ItemRows]
        /\ \A k \in Items : /\ item'[k].decision = item[k].decision
                            /\ item'[k].state \in {item[k].state, "FAILED"}
    BY <1>2, <1>3, <1>7, <2>3 DEF DeletionTypeOK
  <2>5. req' \in ReqRows /\ req'.state = req.state /\ req'.frozen = req.frozen
    BY <1>2, <1>7 DEF DeletionTypeOK, ReqRows
  <2>6. Blocked' = Blocked /\ Started' /\ Blocked
    BY <1>5, <2>5 DEF Blocked, Started, Ended
  <2>7. Planned' = Planned /\ Retained' = Retained /\ Scan' = Scan
    BY <1>1, <2>4, AssetIsItem DEF Planned, Retained, Scan, records
  <2>8. wk' \in [Workers -> WorkerStates] /\ \A v \in Workers : WorkerInv(v)'
    BY <1>1, <1>2, <1>4, <2>6, <2>7, WorkerGoes
  <2>9. DeletionTypeOK' BY <1>1, <1>2, <2>4, <2>5, <2>8 DEF DeletionTypeOK, records, world
  <2>10. PlanIsComplete' BY <2>6, <2>7 DEF DeletionInv, PlanIsComplete
  <2>11. ItemsInv'
    BY <1>1, <1>5, <2>4, <2>5, <2>6, <2>7, AssetIsItem DEF DeletionInv, ItemsInv, records
  <2>12. AssetInv'
    BY <1>1, <2>4, <2>6, <2>7, AssetIsItem DEF DeletionInv, AssetInv, records
  <2>13. FinishedIsClean' BY <1>1, <2>5, <2>7 DEF DeletionInv, FinishedIsClean, records
  <2>14. NothingUnplannedIsErased'
    BY <1>1, <2>5, <2>7 DEF DeletionInv, NothingUnplannedIsErased, records
  <2> QED BY <2>8, <2>9, <2>10, <2>11, <2>12, <2>13, <2>14 DEF DeletionInv
<1> QED BY <1>1, <1>6, <1>7

\* Whoever erases does so in a cleanup that was started, of a plan that does not retain.
LEMMA EraseObjectKeeps ==
    ASSUME DeletionInv, NEW w \in Workers, EraseObject(w)
    PROVE  DeletionInv'
<1> DEFINE d == [wk[w] EXCEPT !.pc = "ERASED"]
           f == [wk[w] EXCEPT !.pc = "FFAIL"]
<1>1. /\ wk[w].pc = "ERASE" /\ UNCHANGED <<req, item, records, world>>
      /\ \/ object' = FALSE /\ Goto(w, d)
         \/ object' \in {object, FALSE} /\ Goto(w, f)
  BY DEF EraseObject
<1>2. DeletionTypeOK /\ wk[w] \in WorkerStates /\ \A v \in Workers : WorkerInv(v)
  BY DEF DeletionInv, DeletionTypeOK
<1>3. ~Retained /\ Started BY <1>1, <1>2 DEF WorkerInv
<1>4. Started' /\ Started' = Started /\ Retained' = Retained /\ Blocked' = Blocked
  BY <1>1, <1>3 DEF Started, Retained, Blocked
<1>5. Planned' = Planned /\ Scan' = Scan BY <1>1 DEF Planned, Scan, records
<1>6. d \in WorkerStates /\ d.pc = "ERASED" /\ f \in WorkerStates /\ f.pc = "FFAIL"
  BY <1>2, AheadTyped
<1> HIDE DEF d, f
<1>7. wk' \in [Workers -> WorkerStates] /\ \A v \in Workers : WorkerInv(v)'
  <2>1. CASE object' = FALSE /\ Goto(w, d)
    BY <1>2, <1>3, <1>4, <1>6, <2>1, WorkerGoes
  <2>2. CASE object' \in {object, FALSE} /\ Goto(w, f)
    BY <1>2, <1>3, <1>4, <1>6, <2>2, WorkerGoes
  <2> QED BY <1>1, <2>1, <2>2
<1>8. object' = object \/ object' = FALSE BY <1>1
<1>9. DeletionTypeOK'
  <2>1. object' \in BOOLEAN BY <1>2, <1>8 DEF DeletionTypeOK
  <2> QED BY <1>1, <1>2, <1>7, <2>1 DEF DeletionTypeOK, records, world
<1>10. PlanIsComplete' BY <1>4, <1>5 DEF DeletionInv, PlanIsComplete
<1>11. ItemsInv' BY <1>1, <1>4, <1>5 DEF DeletionInv, ItemsInv, records
<1>12. AssetInv' BY <1>1, <1>3, <1>4, <1>8 DEF DeletionInv, AssetInv, records
<1>13. FinishedIsClean' BY <1>1, <1>3, <1>4, <1>8 DEF DeletionInv, FinishedIsClean, records
<1>14. NothingUnplannedIsErased'
  BY <1>1, <1>3, <1>4 DEF DeletionInv, NothingUnplannedIsErased, Started, records
<1> QED BY <1>7, <1>9, <1>10, <1>11, <1>12, <1>13, <1>14 DEF DeletionInv

LEMMA CompletePurgeKeeps ==
    ASSUME DeletionInv, NEW w \in Workers, CompletePurge(w)
    PROVE  DeletionInv'
<1> DEFINE row == [item[AssetItem] EXCEPT !.state = "DONE"]
           d == [wk[w] EXCEPT !.pc = "FINISH"]
           f == [wk[w] EXCEPT !.pc = "FFAIL"]
<1>1. /\ wk[w].pc = "ERASED" /\ asset' = "ERASED"
      /\ item' = (IF AwaitsPurge THEN [item EXCEPT ![AssetItem] = row] ELSE item)
      /\ Goto(w, d) \/ Goto(w, f)
      /\ UNCHANGED <<req, export, dep, person, object, world>>
  BY DEF CompletePurge
<1>2. req.state = "CLEANING" BY DEF CompletePurge, OwnedF, HoldsF
<1>3. DeletionTypeOK /\ wk[w] \in WorkerStates /\ item[AssetItem] \in ItemRows
      /\ \A v \in Workers : WorkerInv(v)
  BY AssetIsItem DEF DeletionInv, DeletionTypeOK
<1>4. ~Retained /\ ~object /\ Started /\ Blocked
  BY <1>1, <1>2, <1>3 DEF WorkerInv, Blocked, Started
<1>5. row \in ItemRows /\ row.state = "DONE" /\ row.decision = item[AssetItem].decision
  BY <1>3 DEF ItemRows
<1>6. d \in WorkerStates /\ d.pc = "FINISH" /\ f \in WorkerStates /\ f.pc = "FFAIL"
  BY <1>3, AheadTyped
<1> HIDE DEF row, d, f
<1>7. /\ item' \in [Items -> ItemRows]
      /\ \A k \in Items \ {AssetItem} : item'[k] = item[k]
      /\ item'[AssetItem].decision = item[AssetItem].decision
      /\ item'[AssetItem].state # "WAITING_EXTERNAL"
  <2>1. CASE AwaitsPurge BY <1>1, <1>3, <1>5, <2>1, AssetIsItem DEF DeletionTypeOK
  <2>2. CASE ~AwaitsPurge BY <1>1, <1>3, <2>2, AssetIsItem DEF DeletionTypeOK, AwaitsPurge
  <2> QED BY <2>1, <2>2
<1>8. /\ Started' = Started /\ Blocked' = Blocked /\ Planned' = Planned /\ Retained' = Retained
      /\ Scan' = Scan
  BY <1>1, <1>7, AssetIsItem DEF Started, Blocked, Planned, Retained, Scan
<1>9. wk' \in [Workers -> WorkerStates] /\ \A v \in Workers : WorkerInv(v)'
  <2>1. object' \in {object, FALSE} /\ Started' BY <1>1, <1>4, <1>8
  <2>2. CASE Goto(w, d) BY <1>3, <1>6, <1>8, <2>1, <2>2, WorkerGoes
  <2>3. CASE Goto(w, f) BY <1>3, <1>6, <1>8, <2>1, <2>3, WorkerGoes
  <2> QED BY <1>1, <2>2, <2>3
<1>10. DeletionTypeOK' BY <1>1, <1>3, <1>7, <1>9 DEF DeletionTypeOK, world
<1>11. PlanIsComplete' BY <1>8 DEF DeletionInv, PlanIsComplete
<1>12. ItemsInv'
  BY <1>1, <1>4, <1>7, <1>8, AssetIsItem DEF DeletionInv, ItemsInv
<1>13. AssetInv' BY <1>1, <1>4, <1>7, <1>8 DEF AssetInv
<1>14. FinishedIsClean' BY <1>1, <1>2 DEF FinishedIsClean
<1>15. NothingUnplannedIsErased'
  <2>1. person # "ERASED" BY <1>2 DEF DeletionInv, NothingUnplannedIsErased
  <2> QED BY <1>1, <1>2, <1>4, <1>8, <2>1 DEF NothingUnplannedIsErased
<1> QED BY <1>9, <1>10, <1>11, <1>12, <1>13, <1>14, <1>15 DEF DeletionInv

\* Every item is done: the exports are erased, no dependency is left, and the original is
\* detached or gone.
LEMMA FinishKeeps ==
    ASSUME DeletionInv, NEW w \in Workers, Finish(w)
    PROVE  DeletionInv'
<1> DEFINE state == IF Retained THEN "RETAINED_WITH_BASIS" ELSE "COMPLETED"
           r == FreeF(Free(req))
           f == [wk[w] EXCEPT !.pc = "FFAIL"]
<1>1. /\ wk[w].pc = "FINISH" /\ person' = "ERASED"
      /\ req' = [r EXCEPT !.cleaned = TRUE, !.state = state]
      /\ Goto(w, Resting) \/ Goto(w, f)
      /\ UNCHANGED <<item, export, dep, asset, object, world>>
  BY DEF Finish
<1>2. req.state = "CLEANING" /\ \A i \in Planned : item[i].state = "DONE"
  BY DEF Finish, OwnedF, HoldsF, AllDone, Unfinished
<1>3. DeletionTypeOK /\ wk[w] \in WorkerStates /\ req \in ReqRows /\ \A v \in Workers : WorkerInv(v)
  BY DEF DeletionInv, DeletionTypeOK
<1>4. r \in ReqRows /\ r.frozen = req.frozen BY <1>3, FreeTyped
<1>5. state \in {"RETAINED_WITH_BASIS", "COMPLETED"} OBVIOUS
<1>6. f \in WorkerStates /\ f.pc = "FFAIL" BY <1>3, AheadTyped
<1> HIDE DEF r, f, state
<1>7. req' \in ReqRows /\ req'.state = state /\ req'.frozen = req.frozen
  BY <1>1, <1>4, <1>5 DEF ReqRows, Ended
<1>8. Started /\ Blocked /\ Started' /\ Blocked'
  BY <1>2, <1>5, <1>7 DEF Started, Blocked, Ended
<1>9. Planned' = Planned /\ Retained' = Retained /\ Scan' = Scan
  BY <1>1 DEF Planned, Retained, Scan
<1>10. wk' \in [Workers -> WorkerStates] /\ \A v \in Workers : WorkerInv(v)'
  <2>1. object' \in {object, FALSE} BY <1>1
  <2>2. CASE Goto(w, Resting) BY <1>3, <1>8, <1>9, <2>1, <2>2, RestingTyped, WorkerGoes
  <2>3. CASE Goto(w, f) BY <1>3, <1>6, <1>8, <1>9, <2>1, <2>3, WorkerGoes
  <2> QED BY <1>1, <2>2, <2>3
<1>11. DeletionTypeOK' BY <1>1, <1>3, <1>7, <1>10 DEF DeletionTypeOK, world
<1>12. PlanIsComplete' BY <1>8, <1>9 DEF DeletionInv, PlanIsComplete
<1>13. ItemsInv' BY <1>1, <1>7, <1>8, <1>9 DEF DeletionInv, ItemsInv
<1>14. AssetInv' BY <1>1, <1>8, <1>9 DEF DeletionInv, AssetInv
<1>15. \A e \in Exports : export[e] # "LIVE" /\ ~dep[e]
  <2> SUFFICES ASSUME NEW e \in Exports PROVE export[e] # "LIVE" /\ ~dep[e]
    OBVIOUS
  <2>1. export[e] # "LIVE" BY <1>2, <1>8 DEF DeletionInv, ItemsInv
  <2>2. dep[e] => <<e, "DEPENDENCY">> \in Scan BY AssetIsItem DEF Scan
  <2>3. ~dep[e] BY <1>2, <1>8, <2>2 DEF DeletionInv, ItemsInv, PlanIsComplete
  <2> QED BY <2>1, <2>3
<1>16. item[AssetItem].state = "DONE"
  BY <1>2, <1>8 DEF DeletionInv, PlanIsComplete, Scan
<1>17. IF Retained THEN asset = "DETACHED" /\ object ELSE asset = "ERASED" /\ ~object
  BY <1>16 DEF DeletionInv, AssetInv
<1>18. FinishedIsClean' BY <1>1, <1>9, <1>15, <1>17 DEF FinishedIsClean
<1>19. NothingUnplannedIsErased'
  BY <1>1, <1>5, <1>7, <1>9, <1>17 DEF NothingUnplannedIsErased, Ended
<1> QED BY <1>10, <1>11, <1>12, <1>13, <1>14, <1>18, <1>19 DEF DeletionInv

-------------------------------------------------------------------------------
(* The theorems *)

LEMMA DeletionInvNext == DeletionInv /\ [DeletionNext]_deletionVars => DeletionInv'
<1> SUFFICES ASSUME DeletionInv, [DeletionNext]_deletionVars PROVE DeletionInv'
  OBVIOUS
<1>1. CASE Around
  <2>1. ASSUME NEW e \in Exports, CreateExport(e) PROVE DeletionInv'
    BY <2>1, CreateExportKeeps
  <2>2. CASE Draft BY <2>2, DraftKeeps
  <2>3. CASE Block BY <2>3, BlockKeeps
  <2>4. CASE FreezePlan BY <2>4, FreezePlanKeeps
  <2>5. CASE Start BY <2>5, StartKeeps
  <2>6. CASE BasisLapses \/ ChangeMember BY <2>6, WorldKeeps
  <2>7. ASSUME NEW decision \in {"APPLY_PROPOSED", "RETAIN_WITH_BASIS"}, Decide(decision)
        PROVE  DeletionInv'
    BY <2>7, DecideKeeps
  <2> QED BY <1>1, <2>1, <2>2, <2>3, <2>4, <2>5, <2>6, <2>7 DEF Around
<1>2. CASE LeaseEnds \/ CalmDown BY <1>2, WorldKeeps
<1>3. ASSUME NEW w \in Workers, Cleaning(w) PROVE DeletionInv'
  <2>1. CASE Claim(w) BY <2>1, ClaimKeeps
  <2>2. CASE ClaimNothing(w) BY <2>2, ClaimNothingKeeps
  <2>3. CASE List(w) BY <2>3, ListKeeps
  <2>4. CASE CleanItem(w) BY <2>4, CleanItemKeeps
  <2>5. CASE ItemFails(w) BY <2>5, ItemFailsKeeps
  <2>6. CASE StopCleaning(w) BY <2>6, StopCleaningKeeps
  <2>7. CASE ReportItem(w) BY <2>7, ReportItemKeeps
  <2>8. CASE CloseCycle(w) BY <2>8, CloseCycleKeeps
  <2> QED BY <1>3, <2>1, <2>2, <2>3, <2>4, <2>5, <2>6, <2>7, <2>8 DEF Cleaning
<1>4. ASSUME NEW w \in Workers, Finalizing(w) PROVE DeletionInv'
  <2>1. CASE ClaimFinal(w) BY <2>1, ClaimFinalKeeps
  <2>2. CASE GiveUp(w) BY <2>2, GiveUpKeeps
  <2>3. CASE Tasks(w) BY <2>3, TasksKeeps
  <2>4. CASE EraseObject(w) BY <2>4, EraseObjectKeeps
  <2>5. CASE CompletePurge(w) BY <2>5, CompletePurgeKeeps
  <2>6. CASE Finish(w) BY <2>6, FinishKeeps
  <2>7. CASE FinalFails(w) BY <2>7, FinalFailsKeeps
  <2>8. CASE FailFinal(w) BY <2>8, FailFinalKeeps
  <2> QED BY <1>4, <2>1, <2>2, <2>3, <2>4, <2>5, <2>6, <2>7, <2>8 DEF Finalizing
<1>5. ASSUME NEW w \in Workers, Crash(w) PROVE DeletionInv'
  BY <1>5, CrashKeeps
<1>6. CASE UNCHANGED deletionVars
  <2>1. UNCHANGED <<item, records, object, wk, req, world>> BY <1>6 DEF deletionVars
  <2>2. req' \in ReqRows /\ SameOrFailed BY <2>1 DEF DeletionInv, DeletionTypeOK, SameOrFailed
  <2>3. basis' \in BOOLEAN /\ active' \in BOOLEAN /\ calm' \in BOOLEAN
    BY <2>1 DEF DeletionInv, DeletionTypeOK, world
  <2> QED BY <2>1, <2>2, <2>3, QuietAround
<1> QED BY <1>1, <1>2, <1>3, <1>4, <1>5, <1>6 DEF DeletionNext

\* The rows, the plan, the exports, the original and the person agree at every moment.
THEOREM DeletionInvariant == DeletionSpec => []DeletionInv
<1> QED BY DeletionInvInit, DeletionInvNext, PTL DEF DeletionSpec

\* From the block on everything that depends on the person is an item of the request
\* (Deletions.block scans again; Exports.create refuses a blocked person).
THEOREM PlansAreComplete == DeletionSpec => []PlanIsComplete
<1>1. DeletionInv => PlanIsComplete BY DEF DeletionInv
<1> QED BY <1>1, DeletionInvariant, PTL

\* A request that is complete left nothing of the person, and nothing is erased that the plan
\* retains, or before a member started the cleanup (deletion-finalization.ts).
THEOREM ErasureIsPlanned == DeletionSpec => []ErasedAsPlanned
<1>1. DeletionInv => ErasedAsPlanned BY DEF DeletionInv, ErasedAsPlanned
<1> QED BY <1>1, DeletionInvariant, PTL

\* No step, whoever takes it however late, touches an item that is done or a request that ended.
LEMMA DoneStays ==
    ASSUME DeletionInv, [DeletionNext]_deletionVars
    PROVE  /\ \A i \in Items : item[i].state = "DONE" => item'[i] = item[i]
           /\ req.state \in Ended => req'.state = req.state
<1> DEFINE Kept == /\ \A i \in Items : item[i].state = "DONE" => item'[i] = item[i]
                   /\ req.state \in Ended => req'.state = req.state
<1>1. item \in [Items -> ItemRows] /\ req \in ReqRows BY DEF DeletionInv, DeletionTypeOK
<1>2. ASSUME UNCHANGED <<item, req>> PROVE Kept BY <1>2
<1>3. ~Started => \A i \in Items : item[i].state # "DONE" BY DEF DeletionInv, ItemsInv
<1>4. CASE Around
  <2>1. CASE Draft \/ Start \/ Block \/ FreezePlan
    <3>1. ~Started BY <2>1 DEF Draft, Start, Block, FreezePlan, Blocked, Started, Ended
    <3> QED BY <1>3, <3>1 DEF Started, Ended
  <2>2. ASSUME NEW decision \in {"APPLY_PROPOSED", "RETAIN_WITH_BASIS"}, Decide(decision)
        PROVE  Kept
    <3>1. ~Started BY <2>2 DEF Decide, Started, Ended
    <3> QED BY <1>3, <3>1 DEF Started, Ended
  <2>3. ASSUME NEW e \in Exports, CreateExport(e) PROVE Kept
    BY <1>2, <2>3 DEF CreateExport
  <2>4. CASE BasisLapses \/ ChangeMember BY <1>2, <2>4 DEF BasisLapses, ChangeMember
  <2> QED BY <1>4, <2>1, <2>2, <2>3, <2>4 DEF Around
<1>5. CASE LeaseEnds \/ CalmDown
  <2>1. item' = item /\ req' \in {req, [req EXCEPT !.live = FALSE], [req EXCEPT !.flive = FALSE]}
    BY <1>5 DEF LeaseEnds, CalmDown
  <2> QED BY <1>1, <2>1 DEF ReqRows
<1>6. ASSUME NEW w \in Workers, Cleaning(w) PROVE Kept
  <2>1. CASE Claim(w) BY <2>1 DEF Claim, Ended
  <2>2. CASE ClaimNothing(w) BY <2>2 DEF ClaimNothing, Ended
  <2>3. CASE List(w) \/ ItemFails(w) \/ StopCleaning(w)
    BY <1>2, <2>3 DEF List, ItemFails, StopCleaning
  <2>4. CASE CleanItem(w)
    <3>1. PICK i \in Now(w) : Retriable(i) /\ ApplyItem(i) BY <2>4 DEF CleanItem
    <3>2. \E r : item' = [item EXCEPT ![i] = r] BY <3>1 DEF ApplyItem
    <3>3. item[i].state # "DONE" BY <3>1 DEF Retriable
    <3>4. req.state \notin Ended BY <2>4 DEF CleanItem, Owned, Ended
    <3> QED BY <1>1, <3>2, <3>3, <3>4
  <2>5. CASE ReportItem(w)
    <3>1. CASE MayReport(w)
      <4>1. item[wk[w].it].state # "DONE" BY <3>1 DEF MayReport
      <4>2. \E r : item' = [item EXCEPT ![wk[w].it] = r] BY <2>5, <3>1 DEF ReportItem
      <4>3. req' = [req EXCEPT !.live = TRUE] BY <2>5, <3>1 DEF ReportItem
      <4> QED BY <1>1, <4>1, <4>2, <4>3 DEF ReqRows
    <3>2. CASE ~MayReport(w) BY <1>2, <2>5, <3>2 DEF ReportItem
    <3> QED BY <3>1, <3>2
  <2>6. CASE CloseCycle(w)
    <3>1. item' = item /\ (req.state \in Ended => req' = req)
      BY <2>6 DEF CloseCycle, Ended
    <3> QED BY <3>1
  <2> QED BY <1>6, <2>1, <2>2, <2>3, <2>4, <2>5, <2>6 DEF Cleaning
<1>7. ASSUME NEW w \in Workers, Finalizing(w) PROVE Kept
  <2>1. CASE ClaimFinal(w) \/ GiveUp(w)
    <3>1. item' = item /\ req.state = "CLEANING" BY <2>1 DEF ClaimFinal, GiveUp, MayFinalize
    <3> QED BY <3>1 DEF Ended
  <2>2. CASE Tasks(w) \/ EraseObject(w) \/ FinalFails(w)
    BY <1>2, <2>2 DEF Tasks, EraseObject, FinalFails
  <2>3. CASE CompletePurge(w)
    <3>1. item' = (IF AwaitsPurge THEN [item EXCEPT ![AssetItem].state = "DONE"] ELSE item)
          /\ req' = req
      BY <2>3 DEF CompletePurge
    <3>2. AwaitsPurge => item[AssetItem].state # "DONE" BY DEF AwaitsPurge
    <3>3. CASE AwaitsPurge
      <4>1. \E r : item' = [item EXCEPT ![AssetItem] = r] BY <3>1, <3>3
      <4> QED BY <1>1, <3>1, <3>2, <3>3, <4>1
    <3> QED BY <3>1, <3>3
  <2>4. CASE Finish(w)
    <3>1. item' = item /\ req.state = "CLEANING" BY <2>4 DEF Finish, OwnedF, HoldsF
    <3> QED BY <3>1 DEF Ended
  <2>5. CASE FailFinal(w)
    <3>1. item' = item /\ (req.state \in Ended => req' = req)
      BY <2>5 DEF FailFinal, Ended
    <3> QED BY <3>1
  <2> QED BY <1>7, <2>1, <2>2, <2>3, <2>4, <2>5 DEF Finalizing
<1>8. ASSUME NEW w \in Workers, Crash(w) PROVE Kept BY <1>2, <1>8 DEF Crash
<1>9. CASE UNCHANGED deletionVars BY <1>2, <1>9 DEF deletionVars
<1>10. Kept BY <1>4, <1>5, <1>6, <1>7, <1>8, <1>9 DEF DeletionNext
<1> QED BY <1>10

\* A late worker's report makes no finished item fail, and what ended stays as it ended.
THEOREM WhatIsDoneStands == DeletionSpec => DoneStands
<1> DEFINE Stays == /\ \A i \in Items : item[i].state = "DONE" => item'[i] = item[i]
                    /\ req.state \in Ended => req'.state = req.state
<1>1. DeletionInv /\ [DeletionNext]_deletionVars => [Stays]_deletionVars
  <2> SUFFICES ASSUME DeletionInv, [DeletionNext]_deletionVars PROVE Stays
    OBVIOUS
  <2> QED BY DoneStays
<1> HIDE DEF Stays
<1>2. []DeletionInv /\ [][DeletionNext]_deletionVars => [][Stays]_deletionVars BY <1>1, PTL
<1>3. [][Stays]_deletionVars <=> DoneStands BY DEF Stays, DoneStands
<1> QED BY <1>2, <1>3, DeletionInvariant, PTL DEF DeletionSpec
=============================================================================
