-------------------------------- MODULE Records --------------------------------
(***************************************************************************)
(* Sources, the people described from them, their contacts and evidence,    *)
(* and the two ways a maintainer lets somebody else act on a record without *)
(* moving it: a handoff (handoffs.ts, handoff-policy.ts) and a source       *)
(* review that ends in a publication (source-review.ts). Who may see what   *)
(* is decided again in each transaction (policy.ts) from rows other members *)
(* change in between.                                                       *)
(*                                                                         *)
(* A value stands for the identity fields of a person (displayName, aliases *)
(* and intro, confirmed together) and a text for the content of a source. A *)
(* command is one transaction; its expectedRevision is the row's, since a   *)
(* command with another one changes nothing. Scope rows never change once   *)
(* they are inserted, so their revisions are left out.                      *)
(***************************************************************************)
EXTENDS Integers, Sequences, FiniteSets

CONSTANTS
    Members, Scopes, Sources, People,
    Workspace,          \* the scope of mode WORKSPACE; the others are RESTRICTED
    Values,             \* values of a person, texts of a source
    Grants, Reviews,    \* ids of handoffs and of source reviews
    ExtraPermissions,   \* of each member, beyond those of the role
    MaxTime, MaxRequests, \* bounds on the clock and on the commands
    Temporary, Lease,   \* LIMITS.temporaryMs; LIMITS.handoffMs and the review's seven days
    MaxOpen             \* LIMITS.maxOpenHandoffs, and the review's limit

ASSUME RecordsConstants ==
    /\ Workspace \in Scopes
    /\ \A n \in {MaxTime, MaxRequests, Temporary, Lease, MaxOpen} : n \in Nat
    /\ IsFiniteSet(Members) /\ IsFiniteSet(Grants) /\ IsFiniteSet(Reviews)

VARIABLES
    now,
    member,     \* memberships: role, whether it and its user are active, revision
    scope,      \* of each scope its members; {} before it is created
    source,     \* source rows, by id
    history,    \* of each source the snapshots written with its revisions
    person,     \* person rows, by id
    contacts,   \* of each person the sources of the contact rows
    evidence,   \* field evidence
    handoff, review,
    blocked,    \* people and sources a deletion request has blocked
    merged,     \* people merged into another
    form,       \* what the member about to confirm evidence has on the screen
    requests    \* commands so far

vars == <<now, member, scope, source, history, person, contacts, evidence,
          handoff, review, blocked, merged, form, requests>>

Permissions == {"records.read", "records.write", "sources.read", "sources.write",
                "sources.review", "members.manage", "sensitive.read", "sensitive.write"}

RolePermissions(role) ==
    CASE role = "ADMIN" -> Permissions \ {"sensitive.read", "sensitive.write"}
      [] role = "EDITOR" -> {"records.read", "records.write", "sources.read", "sources.write"}
      [] role = "REVIEWER" -> {"records.read", "sources.read", "sources.review"}
      [] role = "VIEWER" -> {"records.read"}

Times == 0..(MaxTime + Lease + Temporary)
NoForm == [by |-> "nobody"]

\* the rows of the tables (model.ts)
Memberships == [role: {"ADMIN", "EDITOR", "REVIEWER", "VIEWER"}, active: BOOLEAN, rev: Nat]
SourceRows == [scope: Scopes, owner: Members, temp: BOOLEAN, until: Times,
               status: {"RECEIVED", "CONFIRMED", "SUSPENDED"}, text: Values,
               self: BOOLEAN, use: Times, rev: Nat, epoch: Nat]
PersonRows == [scope: Scopes, source: Sources, owner: Members, value: Values,
               status: {"DRAFT", "ACTIVE", "ARCHIVED"}, rev: Nat, epoch: Nat]
\* sawValue and sawText are what the reviewer had on the screen
FieldEvidence == [person: People, source: Sources, srev: Nat, value: Values,
                  sawValue: Values, sawText: Values]

TypeOK ==
    /\ now \in 0..MaxTime /\ requests \in 0..MaxRequests
    /\ member \in [Members -> Memberships]
    /\ scope \in [Scopes -> SUBSET Members]
    /\ DOMAIN source \subseteq Sources /\ DOMAIN history = DOMAIN source
    /\ \A s \in DOMAIN source : source[s] \in SourceRows
    /\ DOMAIN person \subseteq People /\ DOMAIN contacts = DOMAIN person
    /\ \A p \in DOMAIN person : person[p] \in PersonRows /\ contacts[p] \subseteq DOMAIN source
    /\ evidence \subseteq FieldEvidence
    /\ DOMAIN handoff \subseteq Grants /\ DOMAIN review \subseteq Reviews
    /\ merged \subseteq People /\ blocked \subseteq People \cup Sources

\* a new row takes any unused id
Fresh(ids, rows) ==
    LET free == ids \ DOMAIN rows IN IF free = {} THEN {} ELSE {CHOOSE x \in free : TRUE}

Added(rows, id, row) == [x \in DOMAIN rows \cup {id} |-> IF x = id THEN row ELSE rows[x]]

Touch(row) == [row EXCEPT !.rev = @ + 1]
Protect(row) == [row EXCEPT !.rev = @ + 1, !.epoch = @ + 1]

----------------------------------------------------------------------------
(* policy.ts *)

PermissionsOf(m) == RolePermissions(member[m].role) \cup ExtraPermissions[m]
May(m, p) == p \in PermissionsOf(m)

ScopeVisible(m, sc) == m \in scope[sc]

\* canUseEvidenceForPurpose and sourceCurrent
SourceCurrent(s) ==
    /\ source[s].self => now < source[s].use
    /\ source[s].status # "SUSPENDED" /\ now < source[s].until
    /\ source[s].temp \/ source[s].status = "CONFIRMED"

SourceVisible(m, s) ==
    s \notin blocked /\ SourceCurrent(s) /\ ScopeVisible(m, source[s].scope)

SourceFor(m, s, active) ==
    /\ s \in DOMAIN source /\ ScopeVisible(m, source[s].scope) /\ s \notin blocked
    /\ active => SourceCurrent(s)

\* currentIdentity: a value whose own source is not available, or is somebody's
\* own submission, or was confirmed from one, counts while other evidence backs it
CurrentIdentity(p, rows, available) ==
    LET its == person[p].source
        ofValue == {e \in rows : e.person = p /\ e.value = person[p].value}
        backed == \E e \in ofValue : e.source \in available /\ source[e.source].rev = e.srev
        self == \E e \in ofValue : source[e.source].self
    IN  (self \/ source[its].self \/ its \notin available) => backed

PersonVisible(m, p) ==
    /\ p \notin merged /\ p \notin blocked /\ ScopeVisible(m, person[p].scope)
    /\ CurrentIdentity(p, evidence, {s \in DOMAIN source : SourceVisible(m, s)})

PersonFor(m, p, active) ==
    /\ p \in DOMAIN person /\ ScopeVisible(m, person[p].scope)
    /\ p \notin merged /\ p \notin blocked
    /\ IF active THEN PersonVisible(m, p) ELSE SourceFor(m, person[p].source, FALSE)

\* visibility.ts: the same from one batch of reads, of which loadVisibility leaves
\* out the evidence when no source of the workspace needs it
IndexPersonVisible(m, p) ==
    LET needed == \E s \in DOMAIN source : source[s].self
    IN  /\ p \notin merged /\ p \notin blocked /\ ScopeVisible(m, person[p].scope)
        /\ CurrentIdentity(p, IF needed THEN evidence ELSE {},
                           {s \in DOMAIN source : SourceVisible(m, s)})

----------------------------------------------------------------------------
(* handoff-policy.ts *)

Open(h) == h.state \in {"PENDING", "ACCEPTED"}

RecipientEligible(m, purpose) ==
    /\ member[m].active /\ May(m, "records.read")
    /\ May(m, IF purpose = "EDIT" THEN "records.write" ELSE "sources.review")

\* A mutation of Snapshot: a member who left and came back is the same.
MembersForgotten(p, ms) ==
    LET s == person[p].source
    IN  [personRev |-> person[p].rev, personEpoch |-> person[p].epoch,
         personScope |-> person[p].scope, sourceRev |-> source[s].rev,
         sourceEpoch |-> source[s].epoch, sourceScope |-> source[s].scope,
         members |-> [x \in ms |-> 0]]

\* what a grant remembers of the rows it was given on
Snapshot(p, ms) ==
    LET s == person[p].source
    IN  [personRev |-> person[p].rev, personEpoch |-> person[p].epoch,
         personScope |-> person[p].scope, sourceRev |-> source[s].rev,
         sourceEpoch |-> source[s].epoch, sourceScope |-> source[s].scope,
         members |-> [x \in ms |-> member[x].rev]]

SameGround(at, p) ==
    LET is == Snapshot(p, DOMAIN at.members)
    IN  [is EXCEPT !.personRev = at.personRev] = at

\* the person itself may be edited once the handoff is accepted
SamePerson(h) == h.state = "PENDING" => person[h.person].rev = h.at.personRev

HandoffCurrent(h) ==
    LET p == h.person
        s == h.source
    IN  /\ Open(h) /\ now < h.until
        /\ p \notin merged \cup blocked /\ s \notin blocked
        /\ person[p].source = s /\ person[p].status # "ARCHIVED" /\ SourceCurrent(s)
        /\ person[p].owner = h.sender /\ source[s].owner = h.sender
        /\ SameGround(h.at, p) /\ SamePerson(h)
        /\ member[h.sender].active /\ RecipientEligible(h.recipient, h.purpose)
        /\ May(h.sender, "records.write") /\ May(h.sender, "sources.write")
        /\ ScopeVisible(h.sender, person[p].scope) /\ ScopeVisible(h.sender, source[s].scope)

\* handoffForAction and profileAccess
Delegated(m, p, action) ==
    \E h \in DOMAIN handoff :
        /\ handoff[h].person = p /\ handoff[h].recipient = m /\ handoff[h].state = "ACCEPTED"
        /\ action = "edit" => handoff[h].purpose = "EDIT"
        /\ action = "review" => handoff[h].purpose = "REVIEW"
        /\ HandoffCurrent(handoff[h])

Native(m, p) == p \in DOMAIN person /\ PersonVisible(m, p)

ProfileAccess(m, p, action) ==
    p \in DOMAIN person /\ p \notin merged /\ (PersonVisible(m, p) \/ Delegated(m, p, action))

----------------------------------------------------------------------------
(* Sources *)

\* authentication, a permission, and the bound on commands
Command(m, ps) ==
    /\ member[m].active /\ ps \subseteq PermissionsOf(m)
    /\ requests < MaxRequests /\ requests' = requests + 1

Version(row) == [text |-> row.text, scope |-> row.scope, status |-> row.status]

\* A mutation of PutSource: a change leaves no snapshot.
PutSourceAlone(s, row) == source' = [source EXCEPT ![s] = row] /\ UNCHANGED history

\* replace and appendSourceHistory
PutSource(s, row) ==
    /\ source' = [source EXCEPT ![s] = row]
    /\ history' = [history EXCEPT ![s] = Append(@, Version(row))]

InsertSource(s, row) ==
    /\ s \in Sources \ DOMAIN source
    /\ source' = Added(source, s, row)
    /\ history' = Added(history, s, <<Version(row)>>)

CreateScope(m, sc, ms) ==
    /\ Command(m, {"members.manage"})
    /\ scope[sc] = {} /\ m \in ms /\ \A x \in ms : member[x].active
    /\ scope' = [scope EXCEPT ![sc] = ms]
    /\ UNCHANGED <<now, member, source, history, person, contacts, evidence, handoff,
                   review, blocked, merged, form>>

\* A temporary source goes to a restricted scope, one made for its maintainer if none is named.
CreateSource(m, s, sc, temp, until, v) ==
    /\ Command(m, {"sources.write"} \cup (IF temp THEN {} ELSE {"sources.review"}))
    /\ now < until /\ temp => until <= now + Temporary
    /\ \/ ScopeVisible(m, sc) /\ (temp => sc # Workspace) /\ UNCHANGED scope
       \/ temp /\ scope[sc] = {} /\ scope' = [scope EXCEPT ![sc] = {m}]
    /\ InsertSource(s, [scope |-> sc, owner |-> m, temp |-> temp, until |-> until,
                        status |-> IF temp THEN "RECEIVED" ELSE "CONFIRMED", text |-> v,
                        self |-> FALSE, use |-> 0, rev |-> 1, epoch |-> 1])
    /\ UNCHANGED <<now, member, person, contacts, evidence, handoff, review, blocked,
                   merged, form>>

\* A mutation of EditedSource: an edit keeps the revision.
EditedInPlace(s, v) == [source[s] EXCEPT !.text = v]

EditedSource(s, v) == [Touch(source[s]) EXCEPT !.text = v]

\* A title may be edited by any maintainer of sources, the text by one who may write
\* sensitive content, and never that of a submission.
UpdateSource(m, s, v) ==
    /\ Command(m, {"sources.write"}) /\ SourceFor(m, s, TRUE)
    /\ v # source[s].text => May(m, "sensitive.write") /\ ~source[s].self
    /\ PutSource(s, EditedSource(s, v))
    /\ UNCHANGED <<now, member, scope, person, contacts, evidence, handoff, review,
                   blocked, merged, form>>

Reviewed(row, until) ==
    [Protect(row) EXCEPT !.until = until, !.temp = FALSE, !.status = "CONFIRMED"]

ReviewSource(m, s, until) ==
    /\ Command(m, {"sources.review"}) /\ SourceFor(m, s, FALSE) /\ now < until
    /\ PutSource(s, Reviewed(source[s], until))
    /\ UNCHANGED <<now, member, scope, person, contacts, evidence, handoff, review,
                   blocked, merged, form>>

SuspendSource(m, s) ==
    /\ Command(m, {"sources.review"}) /\ SourceFor(m, s, FALSE)
    /\ PutSource(s, [Protect(source[s]) EXCEPT !.status = "SUSPENDED"])
    /\ UNCHANGED <<now, member, scope, person, contacts, evidence, handoff, review,
                   blocked, merged, form>>

ChangeSourceScope(m, s, sc) ==
    /\ Command(m, {"members.manage"}) /\ ScopeVisible(m, sc) /\ SourceFor(m, s, FALSE)
    /\ source[s].temp => sc # Workspace
    /\ PutSource(s, [Protect(source[s]) EXCEPT !.scope = sc])
    /\ UNCHANGED <<now, member, scope, person, contacts, evidence, handoff, review,
                   blocked, merged, form>>

\* readSourceHistory: the versions whose own scope, and the present one, the reader is in
ReadableHistory(m, s) ==
    IF SourceFor(m, s, FALSE)
       /\ {"sources.read", "sources.review", "sensitive.read"} \subseteq PermissionsOf(m)
    THEN {i \in DOMAIN history[s] : ScopeVisible(m, history[s][i].scope)}
    ELSE {}

----------------------------------------------------------------------------
(* People, contacts and evidence *)

CreatePerson(m, p, s, v) ==
    /\ Command(m, {"records.write"}) /\ SourceFor(m, s, TRUE) /\ ~source[s].self
    /\ p \in People \ DOMAIN person
    /\ person' = Added(person, p, [scope |-> source[s].scope, source |-> s, owner |-> m,
                                   value |-> v, status |-> "DRAFT", rev |-> 1, epoch |-> 1])
    /\ contacts' = Added(contacts, p, {})
    /\ UNCHANGED <<now, member, scope, source, history, evidence, handoff, review,
                   blocked, merged, form>>

UpdatePerson(m, p, v) ==
    /\ Command(m, {"records.write"}) /\ ProfileAccess(m, p, "edit")
    /\ person[p].status # "ARCHIVED" /\ ~source[person[p].source].self
    /\ person' = [person EXCEPT ![p] = [Touch(@) EXCEPT !.value = v]]
    /\ UNCHANGED <<now, member, scope, source, history, contacts, evidence, handoff,
                   review, blocked, merged, form>>

WithStatus(row, st) == [Protect(row) EXCEPT !.status = st]

\* Only a native maintainer moves a record through its life; what is archived can
\* only be restored, and only while its source is current.
ChangeStatus(m, p, st) ==
    /\ Command(m, {"records.write"}) /\ ProfileAccess(m, p, "edit") /\ Native(m, p)
    /\ st # person[p].status
    /\ person[p].status = "ARCHIVED" => st = "ACTIVE" /\ SourceFor(m, person[p].source, TRUE)
    /\ person' = [person EXCEPT ![p] = WithStatus(@, st)]
    /\ UNCHANGED <<now, member, scope, source, history, contacts, evidence, handoff,
                   review, blocked, merged, form>>

ChangePersonScope(m, p, sc) ==
    /\ Command(m, {"members.manage"}) /\ ScopeVisible(m, sc) /\ PersonFor(m, p, FALSE)
    /\ person' = [person EXCEPT ![p] = [Protect(@) EXCEPT !.scope = sc]]
    /\ UNCHANGED <<now, member, scope, source, history, contacts, evidence, handoff,
                   review, blocked, merged, form>>

\* The whole set is replaced, by a member who sees the sources of both sets.
ReplaceContacts(m, p, ss) ==
    /\ Command(m, {"sensitive.write"}) /\ PersonFor(m, p, TRUE)
    /\ \A s \in ss \cup contacts[p] : SourceFor(m, s, TRUE)
    /\ contacts' = [contacts EXCEPT ![p] = ss]
    /\ person' = [person EXCEPT ![p] = Touch(@)]
    /\ UNCHANGED <<now, member, scope, source, history, evidence, handoff, review,
                   blocked, merged, form>>

\* the reviewer opens the profile next to the source
Compare(m, p, s) ==
    /\ member[m].active /\ ProfileAccess(m, p, "read") /\ SourceFor(m, s, TRUE)
    /\ form' = [by |-> m, person |-> p, rev |-> person[p].rev, value |-> person[p].value,
                source |-> s, srev |-> source[s].rev, text |-> source[s].text]
    /\ UNCHANGED <<now, member, scope, source, history, person, contacts, evidence,
                   handoff, review, blocked, merged, requests>>

\* Evidence records the value and the revision of the source now in force; they are
\* those the reviewer saw only because both revisions are compared.
ConfirmEvidence(m) ==
    /\ form.by = m
    /\ Command(m, {"sources.review"}) /\ ProfileAccess(m, form.person, "review")
    /\ person[form.person].rev = form.rev
    /\ SourceFor(m, form.source, TRUE) /\ source[form.source].rev = form.srev
    /\ evidence' = evidence \cup
           {[person |-> form.person, source |-> form.source,
             srev |-> source[form.source].rev, value |-> person[form.person].value,
             sawValue |-> form.value, sawText |-> form.text]}
    /\ person' = [person EXCEPT ![form.person] = Touch(@)]
    /\ form' = NoForm
    /\ UNCHANGED <<now, member, scope, source, history, contacts, handoff, review,
                   blocked, merged>>

\* getPerson: the state evidence is shown in
Verified(e) == source[e.source].rev = e.srev /\ person[e.person].value = e.value

\* The adoption of what a talent submitted (talent-maintenance.ts review): a source of
\* its own, current as long as the consent, and evidence of the value taken from it.
AdoptSubmission(m, p, s, v) ==
    /\ Command(m, {"records.write", "sources.review"}) /\ PersonFor(m, p, TRUE)
    /\ person[p].status # "ARCHIVED"
    /\ InsertSource(s, [scope |-> person[p].scope, owner |-> m, temp |-> FALSE,
                        until |-> now + Lease, status |-> "CONFIRMED", text |-> v,
                        self |-> TRUE, use |-> now + Lease, rev |-> 1, epoch |-> 1])
    /\ person' = [person EXCEPT ![p] = [Touch(@) EXCEPT !.value = v]]
    /\ evidence' = evidence \cup
           {[person |-> p, source |-> s, srev |-> 1, value |-> v, sawValue |-> v, sawText |-> v]}
    /\ UNCHANGED <<now, member, scope, contacts, handoff, review, blocked, merged, form>>

\* revokeConsent changes the use of the source at once, and neither its revision nor its history
RevokeConsent(s) ==
    /\ s \in DOMAIN source /\ source[s].self /\ now < source[s].use
    /\ source' = [source EXCEPT ![s].use = now, ![s].epoch = @ + 1]
    /\ UNCHANGED <<now, member, scope, history, person, contacts, evidence, handoff,
                   review, blocked, merged, form, requests>>

----------------------------------------------------------------------------
(* Handoffs *)

\* ownedPair
OwnedPair(m, p) ==
    /\ PersonFor(m, p, TRUE) /\ person[p].status # "ARCHIVED"
    /\ person[p].owner = m /\ source[person[p].source].owner = m

Unfinished(h) == Open(h) /\ now < h.until

Offer(m, p, h, r, purpose, until) ==
    LET s == person[p].source
        unfinished == {g \in DOMAIN handoff : Unfinished(handoff[g])}
        offer == [person |-> p, source |-> s, sender |-> m, recipient |-> r,
                  purpose |-> purpose, until |-> until, at |-> Snapshot(p, {m, r}),
                  state |-> "PENDING", value |-> person[p].value, text |-> source[s].text]
    IN  /\ Command(m, {"records.write", "sources.write"}) /\ OwnedPair(m, p)
        /\ r # m /\ RecipientEligible(r, purpose)
        /\ now < until /\ until <= source[s].until /\ until <= now + Lease
        /\ ~\E g \in unfinished :
              /\ handoff[g].person = p /\ handoff[g].recipient = r
              /\ handoff[g].purpose = purpose /\ HandoffCurrent(handoff[g])
        /\ Cardinality({g \in unfinished : handoff[g].sender = m}) < MaxOpen
        /\ Cardinality({g \in unfinished : handoff[g].recipient = r}) < MaxOpen
        /\ h \in Grants \ DOMAIN handoff
        /\ handoff' = Added(handoff, h, offer)
        /\ UNCHANGED <<now, member, scope, source, history, person, contacts, evidence,
                       review, blocked, merged, form>>

AcceptHandoff(m, h) ==
    /\ h \in DOMAIN handoff /\ handoff[h].recipient = m /\ Command(m, {})
    /\ handoff[h].state = "PENDING" /\ HandoffCurrent(handoff[h])
    /\ handoff' = [handoff EXCEPT ![h].state = "ACCEPTED"]
    /\ UNCHANGED <<now, member, scope, source, history, person, contacts, evidence,
                   review, blocked, merged, form>>

\* Declining and revoking close whatever is open, current or not.
CloseHandoff(m, h, st) ==
    /\ h \in DOMAIN handoff /\ m \in {handoff[h].sender, handoff[h].recipient}
    /\ Command(m, {})
    /\ \/ st = "REVOKED" /\ Open(handoff[h])
       \/ st = "DECLINED" /\ handoff[h].state = "PENDING" /\ handoff[h].recipient = m
    /\ handoff' = [handoff EXCEPT ![h].state = st]
    /\ UNCHANGED <<now, member, scope, source, history, person, contacts, evidence,
                   review, blocked, merged, form>>

----------------------------------------------------------------------------
(* Source reviews: sender, reviewer and publisher *)

Live(r) == r.state \in {"PENDING", "ACCEPTED", "REVIEWED"}

Owned(m, p) ==
    /\ {"records.write", "sources.write"} \subseteq PermissionsOf(m)
    /\ PersonFor(m, p, FALSE) /\ person[p].status # "ARCHIVED"
    /\ person[p].owner = m /\ source[person[p].source].owner = m
    /\ ~source[person[p].source].self /\ source[person[p].source].status # "SUSPENDED"

Eligible(m, permission) ==
    member[m].active /\ {"records.read", "sources.read", permission} \subseteq PermissionsOf(m)

CanReview(m) == Eligible(m, "sources.review") /\ May(m, "sensitive.read")

\* candidates and options
Candidates(m) == {p \in DOMAIN person : person[p].owner = m /\ Owned(m, p)}

Publishers(m, sc) ==
    {x \in Members : Eligible(x, "members.manage") /\ ScopeVisible(m, sc) /\ ScopeVisible(x, sc)}

\* A mutation of Exclusive: only the people described from the source are looked at.
ExclusiveIdentity(p, s) == \A q \in DOMAIN person \ {p} : person[q].source # s

\* nothing of anybody else rests on the source (independent records are likewise refused)
Exclusive(p, s) ==
    /\ \A q \in DOMAIN person \ {p} : person[q].source # s /\ s \notin contacts[q]
    /\ \A e \in evidence : e.source = s => e.person = p

ReviewCurrent(r) ==
    /\ Live(r) /\ now < r.until
    /\ \A m \in DOMAIN r.at.members : member[m].active
    /\ Owned(r.sender, r.person) /\ person[r.person].source = r.source
    /\ Snapshot(r.person, DOMAIN r.at.members) = r.at
    /\ CanReview(r.reviewer) /\ Eligible(r.publisher, "members.manage")
    /\ ScopeVisible(r.sender, r.target) /\ ScopeVisible(r.publisher, r.target)
    /\ Exclusive(r.person, r.source)

\* A new request closes the open ones of the person, which must be invalid by then.
RequestReview(m, p, g, rv, pb, target, until) ==
    LET s == person[p].source
        unfinished == {x \in DOMAIN review : Live(review[x]) /\ now < review[x].until}
        ofPerson == {x \in unfinished : review[x].person = p}
        request == [person |-> p, source |-> s, sender |-> m, reviewer |-> rv,
                    publisher |-> pb, target |-> target, until |-> until, state |-> "PENDING",
                    at |-> Snapshot(p, {m, rv, pb}), value |-> person[p].value,
                    text |-> source[s].text]
        closed == [x \in DOMAIN review |-> IF x \in ofPerson
                                           THEN [review[x] EXCEPT !.state = "REVOKED"]
                                           ELSE review[x]]
    IN  /\ Command(m, {}) /\ p \in Candidates(m)
        /\ CanReview(rv) /\ pb \in Publishers(m, target)
        /\ now < until /\ until <= now + Lease
        /\ \A x \in ofPerson : ~ReviewCurrent(review[x])
        /\ Cardinality({x \in unfinished \ ofPerson :
                           review[x].sender = m \/ review[x].reviewer = rv}) < MaxOpen
        /\ Exclusive(p, s)
        /\ g \in Reviews \ DOMAIN review
        /\ review' = Added(closed, g, request)
        /\ UNCHANGED <<now, member, scope, source, history, person, contacts, evidence,
                       handoff, blocked, merged, form>>

AcceptReview(m, g) ==
    /\ g \in DOMAIN review /\ review[g].reviewer = m /\ Command(m, {"records.read"})
    /\ review[g].state = "PENDING" /\ ReviewCurrent(review[g])
    /\ review' = [review EXCEPT ![g].state = "ACCEPTED"]
    /\ UNCHANGED <<now, member, scope, source, history, person, contacts, evidence,
                   handoff, blocked, merged, form>>

CloseReview(m, g) ==
    /\ g \in DOMAIN review /\ Live(review[g]) /\ Command(m, {"records.read"})
    /\ \/ review[g].sender = m /\ review' = [review EXCEPT ![g].state = "REVOKED"]
       \/ /\ m \in {review[g].reviewer, review[g].publisher}
          /\ review' = [review EXCEPT ![g].state = "DECLINED"]
    /\ UNCHANGED <<now, member, scope, source, history, person, contacts, evidence,
                   handoff, blocked, merged, form>>

\* The review renews the basis of the source, and the request follows the source it renewed.
FinishReview(m, g, until) ==
    LET r == review[g]
        next == Reviewed(source[r.source], until)
    IN  /\ g \in DOMAIN review /\ r.reviewer = m
        /\ Command(m, {"sources.review", "records.read"})
        /\ r.state = "ACCEPTED" /\ ReviewCurrent(r) /\ now < until
        /\ PutSource(r.source, next)
        /\ review' = [review EXCEPT ![g].state = "REVIEWED", ![g].at.sourceRev = next.rev,
                                    ![g].at.sourceEpoch = next.epoch]
        /\ UNCHANGED <<now, member, scope, person, contacts, evidence, handoff, blocked,
                       merged, form>>

Publish(m, g) ==
    LET r == review[g]
    IN  /\ g \in DOMAIN review /\ r.publisher = m
        /\ Command(m, {"members.manage", "records.read"})
        /\ r.state = "REVIEWED" /\ ReviewCurrent(r) /\ SourceCurrent(r.source)
        /\ person' = [person EXCEPT ![r.person] = [Protect(@) EXCEPT !.scope = r.target]]
        /\ PutSource(r.source, [Protect(source[r.source]) EXCEPT !.scope = r.target])
        /\ review' = [review EXCEPT ![g].state = "PUBLISHED"]
        /\ UNCHANGED <<now, member, scope, contacts, evidence, handoff, blocked, merged, form>>

----------------------------------------------------------------------------
(* What the screens show *)

\* visiblePeople: the batch index, and the delegations
VisiblePeople(m) ==
    IF ~May(m, "records.read") THEN {}
    ELSE {p \in DOMAIN person : IndexPersonVisible(m, p) \/ Delegated(m, p, "read")}

\* listSources and getSource: a reviewer also sees what is no longer current
ListedSources(m) ==
    IF ~May(m, "sources.read") THEN {}
    ELSE {s \in DOMAIN source \ blocked :
             ScopeVisible(m, source[s].scope) /\ (SourceCurrent(s) \/ May(m, "sources.review"))}

OpenSource(m, s) == May(m, "sources.read") /\ SourceFor(m, s, ~May(m, "sources.review"))

\* getPerson and contacts
OpenPerson(m, p) == May(m, "records.read") /\ ProfileAccess(m, p, "read")

ReadContacts(m, p) ==
    IF May(m, "sensitive.read") /\ PersonFor(m, p, TRUE)
    THEN {s \in contacts[p] : SourceVisible(m, s)} ELSE {}

CanOffer(m, p) ==
    /\ Native(m, p) /\ person[p].status # "ARCHIVED"
    /\ person[p].owner = m /\ source[person[p].source].owner = m
    /\ {"records.write", "sources.write"} \subseteq PermissionsOf(m)

\* Handoffs.recipients; Handoffs.dto names the person only to who may read the record
Recipients(m, p, purpose) == {r \in Members \ {m} : RecipientEligible(r, purpose)}

HandoffNames(m, h) ==
    \/ Native(m, handoff[h].person)
    \/ handoff[h].recipient = m /\ handoff[h].state = "ACCEPTED" /\ HandoffCurrent(handoff[h])

\* SourceReviews.get: the raw material is for the sender and for the reviewer at work
ShowsMaterial(m, g) ==
    LET r == review[g]
    IN  ReviewCurrent(r) /\ (m = r.sender \/ (m = r.reviewer /\ r.state = "ACCEPTED"))

----------------------------------------------------------------------------
(* What other parts do to these rows *)

\* PersonMerges.execute, as far as these rows go: the handoffs of both are revoked,
\* contacts and evidence move to the canonical person, the duplicate stays behind as
\* an archived alias. A value crosses over only within one source.
Merge(m, c, d, v) ==
    LET both == {c, d}
    IN  /\ c # d /\ both \subseteq DOMAIN person
        /\ Command(m, {"records.read", "records.write", "members.manage"})
        /\ \A p \in both : PersonFor(m, p, TRUE) /\ SourceFor(m, person[p].source, TRUE)
        /\ person[c].scope = person[d].scope
        /\ \A s \in contacts[d] : May(m, "sensitive.write") /\ SourceFor(m, s, TRUE)
        /\ \A e \in evidence : e.person = d => SourceFor(m, e.source, TRUE)
        /\ v \in IF person[c].source = person[d].source
                 THEN {person[c].value, person[d].value} ELSE {person[c].value}
        /\ handoff' = [h \in DOMAIN handoff |->
                          IF handoff[h].person \in both /\ Open(handoff[h])
                          THEN [handoff[h] EXCEPT !.state = "REVOKED"] ELSE handoff[h]]
        /\ contacts' = [contacts EXCEPT ![c] = @ \cup contacts[d], ![d] = {}]
        /\ evidence' = {IF e.person = d THEN [e EXCEPT !.person = c] ELSE e : e \in evidence}
        /\ person' = [person EXCEPT ![c] = [Protect(@) EXCEPT !.value = v],
                                   ![d] = [Protect(@) EXCEPT !.status = "ARCHIVED"]]
        /\ merged' = merged \cup {d}
        /\ UNCHANGED <<now, member, scope, source, history, review, blocked, form>>

\* Identity.updateMember
ChangeMember(m, role, active) ==
    /\ requests < MaxRequests /\ requests' = requests + 1
    /\ <<role, active>> # <<member[m].role, member[m].active>>
    /\ member' = [member EXCEPT ![m] = [Touch(@) EXCEPT !.role = role, !.active = active]]
    /\ UNCHANGED <<now, scope, source, history, person, contacts, evidence, handoff,
                   review, blocked, merged, form>>

\* Deletions.block
BlockPerson(p) ==
    /\ p \in DOMAIN person \ blocked /\ requests < MaxRequests /\ requests' = requests + 1
    /\ blocked' = blocked \cup {p}
    /\ person' = [person EXCEPT ![p] = Protect(@)]
    /\ UNCHANGED <<now, member, scope, source, history, contacts, evidence, handoff,
                   review, merged, form>>

BlockSource(s) ==
    /\ s \in DOMAIN source \ blocked /\ requests < MaxRequests /\ requests' = requests + 1
    /\ blocked' = blocked \cup {s}
    /\ PutSource(s, Protect(source[s]))
    /\ UNCHANGED <<now, member, scope, person, contacts, evidence, handoff, review,
                   merged, form>>

Tick ==
    /\ now < MaxTime /\ now' = now + 1
    /\ UNCHANGED <<member, scope, source, history, person, contacts, evidence, handoff,
                   review, blocked, merged, form, requests>>

SourceSteps(m) ==
    \/ \E sc \in Scopes, ms \in SUBSET Members : CreateScope(m, sc, ms)
    \/ \E s \in Fresh(Sources, source), sc \in Scopes, temp \in BOOLEAN, v \in Values :
           CreateSource(m, s, sc, temp, now + Temporary, v)
    \/ \E s \in DOMAIN source, sc \in Scopes : ChangeSourceScope(m, s, sc)

BasisSteps(m) ==
    \E s \in DOMAIN source : SuspendSource(m, s) \/ ReviewSource(m, s, now + Lease)

PersonSteps(m) ==
    \/ \E p \in Fresh(People, person), s \in DOMAIN source, v \in Values :
           CreatePerson(m, p, s, v)
    \/ \E p \in DOMAIN person, sc \in Scopes : ChangePersonScope(m, p, sc)
    \/ \E c, d \in DOMAIN person, v \in Values : Merge(m, c, d, v)

EditSteps(m) ==
    \/ \E s \in DOMAIN source, v \in Values : UpdateSource(m, s, v)
    \/ \E p \in DOMAIN person :
           \/ \E v \in Values : UpdatePerson(m, p, v)
           \/ \E st \in {"ACTIVE", "ARCHIVED"} : ChangeStatus(m, p, st)

EvidenceSteps(m) ==
    \/ \E p \in DOMAIN person :
           \/ \E ss \in SUBSET DOMAIN source : ReplaceContacts(m, p, ss)
           \/ \E s \in DOMAIN source : Compare(m, p, s)
           \/ \E s \in Fresh(Sources, source), v \in Values : AdoptSubmission(m, p, s, v)
    \/ form # NoForm /\ ConfirmEvidence(m)

HandoffSteps(m) ==
    \/ \E p \in DOMAIN person, h \in Fresh(Grants, handoff), r \in Members,
          purpose \in {"EDIT", "REVIEW"} : Offer(m, p, h, r, purpose, now + 1)
    \/ \E h \in DOMAIN handoff :
           AcceptHandoff(m, h) \/ \E st \in {"REVOKED", "DECLINED"} : CloseHandoff(m, h, st)

ReviewSteps(m) ==
    \/ \E p \in DOMAIN person, g \in Fresh(Reviews, review), rv, pb \in Members,
          sc \in Scopes : RequestReview(m, p, g, rv, pb, sc, now + 1)
    \/ \E g \in DOMAIN review :
           \/ AcceptReview(m, g) \/ CloseReview(m, g) \/ Publish(m, g)
           \/ FinishReview(m, g, now + Lease)

Elsewhere ==
    \/ Tick
    \/ \E m \in Members, role \in {"EDITOR", "REVIEWER"}, active \in BOOLEAN :
           ChangeMember(m, role, active)
    \/ \E p \in DOMAIN person : BlockPerson(p)
    \/ \E s \in DOMAIN source : BlockSource(s) \/ RevokeConsent(s)

Next ==
    \/ \E m \in Members :
           \/ SourceSteps(m) \/ BasisSteps(m) \/ PersonSteps(m) \/ EditSteps(m)
           \/ EvidenceSteps(m) \/ HandoffSteps(m) \/ ReviewSteps(m)
    \/ Elsewhere

----------------------------------------------------------------------------
(* Properties *)

\* Every revision of a source has its snapshot and the last one is what is in force,
\* whichever command changed it; a gap would refuse every later change of the source
\* (source-history.ts appendSourceHistory, HISTORY_BASELINE_MISSING).
HistoryIsWhole ==
    \A s \in DOMAIN source :
        /\ Len(history[s]) = source[s].rev
        /\ history[s][Len(history[s])] = Version(source[s])

\* However often offers and reviews lapse and are made again, no recipient holds two
\* current handoffs of one person for one purpose, and no person has two current reviews
\* (handoffs.ts create, source-review.ts create).
OneGrantAtATime ==
    /\ \A g, h \in DOMAIN handoff :
           /\ HandoffCurrent(handoff[g]) /\ HandoffCurrent(handoff[h])
           /\ handoff[g].person = handoff[h].person
           /\ handoff[g].recipient = handoff[h].recipient
           /\ handoff[g].purpose = handoff[h].purpose
           => g = h
    /\ \A g, h \in DOMAIN review :
           /\ ReviewCurrent(review[g]) /\ ReviewCurrent(review[h])
           /\ review[g].person = review[h].person
           => g = h

\* What a list or a button offers is not refused when it is used: whoever is listed can be
\* opened, contacts are never read through a delegation, an offer is possible where it is
\* shown, and a review task shows its material to nobody who gave or got no grant
\* (visibility.ts, talent.ts getPerson, handoffs.ts dto, source-review.ts get).
OfferedIsAllowed ==
    \A m \in {x \in Members : member[x].active} :
        /\ \A p \in VisiblePeople(m) : OpenPerson(m, p)
        /\ \A s \in ListedSources(m) : OpenSource(m, s)
        /\ \A p \in DOMAIN person :
               /\ ReadContacts(m, p) # {} => Native(m, p)
               /\ CanOffer(m, p) => OwnedPair(m, p) /\ \A r \in Recipients(m, p, "EDIT") : member[r].active
        /\ \A h \in DOMAIN handoff : HandoffNames(m, h) => OpenPerson(m, handoff[h].person)
        /\ \A g \in DOMAIN review :
               ShowsMaterial(m, g) => m = review[g].sender \/ CanReview(m)

\* Evidence shown as verified is about the very value and the very text its reviewer
\* had on the screen, through edits of either and merges of the person
\* (talent.ts confirmEvidence, getPerson).
VerifiedIsReviewed ==
    \A e \in evidence :
        Verified(e) => e.sawValue = person[e.person].value /\ e.sawText = source[e.source].text

\* A delegation that lost its ground never regains it: not when the person is restored,
\* the source reviewed again, the member let in again (handoff-policy.ts handoffCurrent).
HandoffsStayEnded ==
    [][\A h \in DOMAIN handoff :
          ~HandoffCurrent(handoff[h]) => (~HandoffCurrent(handoff[h]))']_vars

\* A recipient accepts what the sender offered and a publisher publishes what was asked
\* to be reviewed: the same value and text, and nobody else's contact, evidence or
\* profile is made visible with it (handoffs.ts act, source-review.ts publish).
GivenAsAsked ==
    [][/\ \A h \in DOMAIN handoff :
              handoff[h].state = "PENDING" /\ handoff'[h].state = "ACCEPTED"
              => /\ handoff[h].value = person[handoff[h].person].value
                 /\ handoff[h].text = source[handoff[h].source].text
       /\ \A g \in DOMAIN review :
              LET r == review[g]
              IN  r.state = "REVIEWED" /\ review'[g].state = "PUBLISHED"
                  => /\ r.value = person[r.person].value /\ r.text = source[r.source].text
                     /\ \A q \in DOMAIN person \ {r.person} :
                            person[q].source # r.source /\ r.source \notin contacts[q]
                     /\ \A e \in evidence : e.source = r.source => e.person = r.person]_vars

\* visibility.ts: "Pure equivalent of scopeVisible/personVisible"
BatchAgrees ==
    \A m \in Members, p \in DOMAIN person : IndexPersonVisible(m, p) <=> PersonVisible(m, p)
=============================================================================
