------------------------------ MODULE Production ------------------------------
(***************************************************************************)
(* Works with their ordered media and credits (portfolio.ts), projects with  *)
(* participants, works and parties (projects.ts, project-parties.ts), and     *)
(* shortlists of people, each in a role and for a work, with pictures picked  *)
(* from it (shortlists.ts). A command names the revision of the root it       *)
(* changes and is refused at any other (cas), so that every one of them       *)
(* happens here at the root's current revision; what its sender had on the    *)
(* screen is the variable screen.                                            *)
(*                                                                         *)
(* Rows of all tables lie in rel: an entry is a picture of a work, who its    *)
(* asset; an item is a candidate of a list. A role is a person's role row,    *)
(* one for each code.                                                       *)
(***************************************************************************)
EXTENDS Integers, Sequences, FiniteSets, SequencesExt

CONSTANTS
    Works, Projects, Lists, People, Codes, Assets, Parties,
    Images,                          \* the assets that may be a cover
    LegacyRoles,                     \* of People \X Codes: what people.roles says
    Ids, None,
    EntryLimit, CreditLimit, ParticipantLimit, WorkLimit, ItemLimit,
    MaxRev                           \* bound on a root's revision

Roles == People \X Codes
Roots == Works \cup Projects \cup Lists

\* what the constants must satisfy
ProductionConstants ==
    /\ Images \subseteq Assets /\ LegacyRoles \subseteq Roles /\ Works \cap Lists = {}
    /\ {EntryLimit, CreditLimit, ParticipantLimit, WorkLimit, ItemLimit} \subseteq Nat
    /\ IsFiniteSet(Ids) /\ MaxRev \in Nat \ {0}

VARIABLES
    root,      \* works, projects and shortlists: status, revision, cover, parties
    rel,       \* workAssets, workCredits, projectParticipants, projectWorks, shortlistItems
    pick,      \* shortlistItemAssets
    usable,    \* roles, assets and parties that may be used now
    profiled,  \* people with a professional profile
    unseen,    \* people, works and projects that nobody may see now
    erasing,   \* what a deletion has blocked
    gaps,      \* roots from which a deletion took a row since they were last numbered
    screen,    \* a root as an editor last saw it
    stuck      \* rows that a cleanup could not remove

prodVars == <<root, rel, pick, usable, profiled, unseen, erasing, gaps, screen, stuck>>

Blank == [kind |-> "entry", root |-> None, who |-> None, code |-> None, role |-> None,
          work |-> None, pos |-> 0, state |-> None, note |-> FALSE]
Absent == [status |-> "NONE", rev |-> 0, cover |-> None, parties |-> {}]
Picks == [item: Ids, entry: Ids, work: Works, asset: Assets]   \* shortlistItemAssets
NoScreen == [root |-> None]

Rows(x, kind) == {i \in DOMAIN rel : rel[i].root = x /\ rel[i].kind = kind}
Order(x) == Rows(x, "entry") \cup Rows(x, "item")
Visible(x) == x \notin unseen \cup erasing
Ready(a) == a \in usable \ erasing
RoleUsable(r) == r \in usable /\ Visible(r[1])

ProductionTypeOK ==
    /\ \A x \in Roots :
           root[x] \in [status: {"NONE", "DRAFT", "ACTIVE", "COMPLETED", "ARCHIVED"}, rev: 0..MaxRev,
                        cover: Ids \cup {None}, parties: SUBSET Parties]
    /\ DOMAIN rel \subseteq Ids
    /\ \A i \in DOMAIN rel :
           rel[i] \in [kind: {"entry", "credit", "participant", "work", "item"}, root: Roots,
                       who: People \cup Assets \cup Works, code: Codes \cup {None},
                       role: Roles \cup {None}, work: Works \cup {None}, pos: 0..Cardinality(Ids),
                       state: {None, "NOMINATED", "ACTUAL", "REFERENCE", "DELIVERABLE", "BOUND",
                               "LEGACY_REVIEW"}, note: BOOLEAN]
    /\ pick \subseteq Picks
    /\ usable \subseteq Roles \cup Assets \cup Parties /\ profiled \subseteq People
    /\ unseen \subseteq People \cup Works \cup Projects
    /\ erasing \subseteq People \cup Works \cup Projects \cup Assets

----------------------------------------------------------------------------
(* Rows *)

Editable(x) == root[x].status \notin {"NONE", "ARCHIVED"} /\ Visible(x)
Commit(x, new) == new.rev < MaxRev /\ root' = [root EXCEPT ![x] = [new EXCEPT !.rev = @ + 1]]
Bump(x) == Commit(x, root[x])

Free == SetToSeq(Ids \ DOMAIN rel)
Insert(new) ==
    /\ DOMAIN new \subseteq DOMAIN Free
    /\ rel' = [i \in DOMAIN rel \cup {Free[k] : k \in DOMAIN new} |->
                   IF i \in DOMAIN rel THEN rel[i] ELSE new[CHOOSE k \in DOMAIN new : Free[k] = i]]

\* the deferred unique index on (parent, position)
PlaceFree(x) == \A i \in Order(x) : rel[i].pos # Cardinality(Order(x))

\* the rows without i, those in order at x numbered from 0 again
Without(x, i) ==
    LET rest == Order(x) \ {i}
        place(j) == Cardinality({k \in rest : rel[k].pos < rel[j].pos})
    IN  [j \in DOMAIN rel \ {i} |-> IF j \in rest THEN [rel[j] EXCEPT !.pos = place(j)] ELSE rel[j]]

\* the foreign key of a pick cascades from the work's entry
Unpicked(i) == {p \in pick : i \notin {p.item, p.entry}}

Renumber(x) == \E place \in [Order(x) -> 0..(Cardinality(Order(x)) - 1)] :
    /\ \A i, j \in Order(x) : place[i] = place[j] => i = j
    /\ rel' = [i \in DOMAIN rel |-> IF i \in Order(x) THEN [rel[i] EXCEPT !.pos = place[i]] ELSE rel[i]]

CreditCurrent(i) == rel[i].role = None \/ RoleUsable(rel[i].role)

Elsewhere == UNCHANGED <<unseen, erasing, screen, stuck>>

----------------------------------------------------------------------------
(* Works: Portfolio *)

Entry(w, a, n) == [Blank EXCEPT !.kind = "entry", !.root = w, !.who = a, !.pos = n]
Credit(w, p, c, r) == [Blank EXCEPT !.kind = "credit", !.root = w, !.who = p, !.code = c, !.role = r]

CreateRoot(x) ==
    /\ root[x].status = "NONE"
    /\ root' = [root EXCEPT ![x] = [Absent EXCEPT !.status = "DRAFT", !.rev = 1]]
    /\ Elsewhere /\ UNCHANGED <<rel, pick, usable, profiled, gaps>>

\* Portfolio.createPersonCase: create, credit, media, order and activation in one transaction
CreatePersonCase(w, r, media, cover) ==
    /\ root[w].status = "NONE" /\ r[1] \in profiled /\ RoleUsable(r)
    /\ Len(media) <= EntryLimit /\ \A k \in 1..Len(media) : Ready(media[k])
    /\ cover # None => cover \in Images /\ \E k \in 1..Len(media) : media[k] = cover
    /\ Insert(<<Credit(w, r[1], r[2], r)>> \o [k \in 1..Len(media) |-> Entry(w, media[k], k - 1)])
    /\ root' = [root EXCEPT ![w] =
           [status |-> "ACTIVE", rev |-> 1, parties |-> {},
            cover |-> IF cover = None THEN None ELSE Free[1 + CHOOSE k \in 1..Len(media) : media[k] = cover]]]
    /\ Elsewhere /\ UNCHANGED <<pick, usable, profiled, gaps>>

\* Portfolio.update and Projects.update
UpdateRoot(x, status) ==
    /\ root[x].status # "NONE" /\ Visible(x)
    /\ root[x].status = "ARCHIVED" => status = "DRAFT"
    /\ x \in Works /\ status = "ACTIVE" =>
           /\ Rows(x, "entry") # {} /\ \A i \in Rows(x, "entry") : Ready(rel[i].who)
           /\ root[x].cover # None => root[x].cover \in Rows(x, "entry") /\ rel[root[x].cover].who \in Images
    /\ Commit(x, [root[x] EXCEPT !.status = status])
    /\ Elsewhere /\ UNCHANGED <<rel, pick, usable, profiled, gaps>>

AddAsset(w, a) ==
    /\ Editable(w) /\ Ready(a) /\ PlaceFree(w)
    /\ Cardinality(Rows(w, "entry")) < EntryLimit /\ \A i \in Rows(w, "entry") : rel[i].who # a
    /\ Insert(<<Entry(w, a, Cardinality(Rows(w, "entry")))>>)
    /\ Commit(w, [root[w] EXCEPT !.cover = IF @ = None /\ a \in Images THEN Free[1] ELSE @])
    /\ Elsewhere /\ UNCHANGED <<pick, usable, profiled, gaps>>

\* A mutation of Left: the cover stays when its entry is removed.
LeftWithCover(w, i) ==
    [root[w] EXCEPT !.status = IF Rows(w, "entry") = {i} /\ @ = "ACTIVE" THEN "DRAFT" ELSE @]

\* Portfolio.removeAsset: the cover goes with its entry, and a work without any is a draft
Left(w, i) ==
    [root[w] EXCEPT !.cover = IF @ = i THEN None ELSE @,
                    !.status = IF Rows(w, "entry") = {i} /\ @ = "ACTIVE" THEN "DRAFT" ELSE @]

RemoveAsset(w, i) ==
    /\ Editable(w) /\ i \in Rows(w, "entry")
    /\ Commit(w, Left(w, i))
    /\ rel' = Without(w, i) /\ pick' = Unpicked(i) /\ gaps' = gaps \ {w}
    /\ Elsewhere /\ UNCHANGED <<usable, profiled>>

ReorderAssets(w, cover) ==
    /\ Editable(w) /\ cover \in Rows(w, "entry") \cup {None}
    /\ cover \notin {None, root[w].cover} => Ready(rel[cover].who) /\ rel[cover].who \in Images
    /\ Renumber(w) /\ Commit(w, [root[w] EXCEPT !.cover = cover]) /\ gaps' = gaps \ {w}
    /\ Elsewhere /\ UNCHANGED <<pick, usable, profiled>>

AddCredit(w, p, c) ==
    /\ Editable(w) /\ Visible(p) /\ Cardinality(Rows(w, "credit")) < CreditLimit
    /\ ~\E i \in Rows(w, "credit") : rel[i].who = p /\ rel[i].code = c
    /\ Insert(<<Credit(w, p, c, None)>>) /\ Bump(w)
    /\ Elsewhere /\ UNCHANGED <<pick, usable, profiled, gaps>>

UpgradeCredit(w, i) ==
    /\ Editable(w) /\ i \in Rows(w, "credit") /\ rel[i].role = None /\ RoleUsable(<<rel[i].who, rel[i].code>>)
    /\ rel' = [rel EXCEPT ![i].role = <<rel[i].who, rel[i].code>>] /\ Bump(w)
    /\ Elsewhere /\ UNCHANGED <<pick, usable, profiled, gaps>>

\* Portfolio.removeCredit, Projects.removeParticipant and Projects.removeWork
RemoveRow(x, i) ==
    /\ Editable(x) /\ i \in Rows(x, "credit") \cup Rows(x, "participant") \cup Rows(x, "work")
    /\ rel' = [j \in DOMAIN rel \ {i} |-> rel[j]] /\ Bump(x)
    /\ Elsewhere /\ UNCHANGED <<pick, usable, profiled, gaps>>

\* applyWorkCase: an approved declaration makes a work, which is ACTIVE at once, or is
\* credited on one; that changes neither the work nor its revision
ApplyWorkCase(w, r, media) ==
    /\ r[1] \in profiled /\ Visible(r[1]) /\ \A k \in 1..Len(media) : Ready(media[k])
    /\ \/ /\ root[w].status = "NONE"
          /\ Insert(<<Credit(w, r[1], r[2], r)>> \o [k \in 1..Len(media) |-> Entry(w, media[k], k - 1)])
          /\ root' = [root EXCEPT ![w] = [Absent EXCEPT !.status = "ACTIVE", !.rev = 1]]
       \/ /\ root[w].status = "ACTIVE" /\ Visible(w) /\ UNCHANGED root
          /\ LET old == {i \in Rows(w, "credit") : rel[i].who = r[1] /\ rel[i].code = r[2]}
             IN  \/ old = {} /\ Insert(<<Credit(w, r[1], r[2], r)>>)
                 \/ (\E i \in old : rel[i].role = r /\ CreditCurrent(i)) /\ UNCHANGED rel
    /\ usable' = usable \cup {r}  \* the declared role is made when there is none
    /\ Elsewhere /\ UNCHANGED <<pick, profiled, gaps>>

----------------------------------------------------------------------------
(* Projects *)

AddParticipant(x, p, c, s) ==
    /\ Editable(x) /\ Visible(p) /\ Cardinality(Rows(x, "participant")) < ParticipantLimit
    /\ ~\E i \in Rows(x, "participant") : rel[i].who = p /\ rel[i].code = c
    /\ Insert(<<[Blank EXCEPT !.kind = "participant", !.root = x, !.who = p, !.code = c, !.state = s]>>)
    /\ Bump(x) /\ Elsewhere /\ UNCHANGED <<pick, usable, profiled, gaps>>

UpdateParticipant(x, i, s) ==
    /\ Editable(x) /\ i \in Rows(x, "participant") /\ Visible(rel[i].who)
    /\ rel' = [rel EXCEPT ![i].state = s] /\ Bump(x)
    /\ Elsewhere /\ UNCHANGED <<pick, usable, profiled, gaps>>

LinkWork(x, w, relation) ==
    /\ Editable(x) /\ root[w].status # "NONE" /\ Visible(w)
    /\ LET old == {i \in Rows(x, "work") : rel[i].who = w}
       IN  \/ old # {} /\ rel' = [i \in DOMAIN rel |-> IF i \in old THEN [rel[i] EXCEPT !.state = relation] ELSE rel[i]]
           \/ /\ old = {} /\ Cardinality(Rows(x, "work")) < WorkLimit
              /\ Insert(<<[Blank EXCEPT !.kind = "work", !.root = x, !.who = w, !.state = relation]>>)
    /\ Bump(x) /\ Elsewhere /\ UNCHANGED <<pick, usable, profiled, gaps>>

\* ProjectParties.bind: what is bound must be in use, what was bound may have ended
BindParties(x, parties) ==
    /\ Editable(x) /\ parties \subseteq usable
    /\ Commit(x, [root[x] EXCEPT !.parties = parties])
    /\ Elsewhere /\ UNCHANGED <<rel, pick, usable, profiled, gaps>>

----------------------------------------------------------------------------
(* Shortlists *)

\* ensurePair, and the check of the role in addItem and batchAdd
Candidate(p, r, w) ==
    /\ Visible(p)
    /\ IF p \in profiled THEN r # None /\ r[1] = p /\ RoleUsable(r)
                         ELSE r = None /\ \E c \in Codes : <<p, c>> \in LegacyRoles
    /\ w # None =>
           /\ root[w].status \notin {"NONE", "ARCHIVED"} /\ Visible(w)
           /\ \E i \in Rows(w, "credit") : rel[i].who = p /\ CreditCurrent(i) /\ (r # None => rel[i].code = r[2])

Same(i, p, r, w) == rel[i].who = p /\ rel[i].role = r /\ rel[i].work = w
Item(l, p, r, w, n) ==
    [Blank EXCEPT !.kind = "item", !.root = l, !.who = p, !.role = r, !.work = w, !.pos = n,
                  !.state = IF r = None THEN None ELSE "BOUND"]

AddItem(l, p, r, w, entries) ==
    /\ Editable(l) /\ Candidate(p, r, w) /\ PlaceFree(l)
    /\ Cardinality(Rows(l, "item")) < ItemLimit /\ ~\E i \in Rows(l, "item") : Same(i, p, r, w)
    /\ entries \subseteq (IF w = None THEN {} ELSE Rows(w, "entry")) /\ \A e \in entries : Ready(rel[e].who)
    /\ Insert(<<Item(l, p, r, w, Cardinality(Rows(l, "item")))>>)
    /\ pick' = pick \cup {[item |-> Free[1], entry |-> e, work |-> w, asset |-> rel[e].who] : e \in entries}
    /\ Bump(l) /\ Elsewhere /\ UNCHANGED <<usable, profiled, gaps>>

\* Shortlists.batchAdd: all of them, those already there left out, or none
BatchAdd(l, candidates) ==
    LET new == {k \in DOMAIN candidates : ~\E i \in Rows(l, "item") :
                    Same(i, candidates[k][1], candidates[k][2], None)}
        n == Cardinality(Rows(l, "item"))
        place(k) == n + Cardinality({j \in new : j < k})
    IN  /\ Editable(l) /\ \A k \in DOMAIN candidates : Candidate(candidates[k][1], candidates[k][2], None)
        /\ n + Cardinality(new) <= ItemLimit /\ new # {}
        /\ \A i \in Rows(l, "item") : rel[i].pos \notin n..(n + Cardinality(new) - 1)
        /\ Insert([k \in new |-> Item(l, candidates[k][1], candidates[k][2], None, place(k))])
        /\ Bump(l) /\ Elsewhere /\ UNCHANGED <<pick, usable, profiled, gaps>>

\* Shortlists.visibleItem: what an item shows under role r and state s
Shown(i, r, s) ==
    LET p == rel[i].who
        w == rel[i].work
        review == p \in profiled /\ r = None /\ s = "LEGACY_REVIEW"
        credited == {rel[j].code : j \in {j \in Rows(w, "credit") :
                        rel[j].who = p /\ CreditCurrent(j) /\ rel[j].role \in {None, r}}}
        seen == /\ Visible(p)
                /\ p \in profiled /\ ~review => r # None /\ r[1] = p /\ RoleUsable(r)
                /\ w # None => /\ Visible(w)
                               /\ p \in profiled => credited # {} /\ (r # None => r[2] \in credited)
                /\ \A k \in pick : k.item = i => Ready(k.asset)
    IN  IF ~seen THEN "hidden" ELSE IF review THEN "review" ELSE "shown"

UpdateItem(l, i, note) ==
    /\ Editable(l) /\ i \in Rows(l, "item") /\ Shown(i, rel[i].role, rel[i].state) = "shown"
    /\ rel' = [rel EXCEPT ![i].note = note] /\ Bump(l)
    /\ Elsewhere /\ UNCHANGED <<pick, usable, profiled, gaps>>

RemoveItem(l, i) ==
    /\ Editable(l) /\ i \in Rows(l, "item")
    /\ pick' = Unpicked(i) /\ rel' = Without(l, i) /\ gaps' = gaps \ {l}
    /\ Bump(l) /\ Elsewhere /\ UNCHANGED <<usable, profiled>>

Rival(l, i, r) == \E j \in Rows(l, "item") \ {i} : Same(j, rel[i].who, r, rel[i].work)

BindRole(l, i, r) ==
    /\ Editable(l) /\ i \in Rows(l, "item") /\ r[1] = rel[i].who /\ RoleUsable(r)
    /\ Shown(i, r, "BOUND") # "hidden" /\ ~Rival(l, i, r)
    /\ rel' = [rel EXCEPT ![i].role = r, ![i].state = "BOUND"] /\ Bump(l)
    /\ Elsewhere /\ UNCHANGED <<pick, usable, profiled, gaps>>

ReorderItems(l) ==
    /\ Editable(l) /\ Renumber(l) /\ Bump(l) /\ gaps' = gaps \ {l}
    /\ Elsewhere /\ UNCHANGED <<pick, usable, profiled>>

\* A mutation of Touched: enrolling changes items without a revision of their list.
Untouched(lists) == root

Touched(lists) == [x \in Roots |-> IF x \in lists THEN [root[x] EXCEPT !.rev = @ + 1] ELSE root[x]]

\* TalentV2.enroll: the person's roles become role rows; every item of hers without a role
\* waits for one, and its list has a new revision
Enroll(p) ==
    LET mine == {i \in DOMAIN rel : rel[i].kind = "item" /\ rel[i].who = p /\ rel[i].role = None}
        lists == {rel[i].root : i \in mine}
    IN  /\ p \notin profiled /\ Visible(p)
        /\ profiled' = profiled \cup {p} /\ usable' = usable \cup {r \in LegacyRoles : r[1] = p}
        /\ rel' = [i \in DOMAIN rel |-> IF i \in mine THEN [rel[i] EXCEPT !.state = "LEGACY_REVIEW"] ELSE rel[i]]
        /\ \A l \in lists : root[l].rev < MaxRev
        /\ root' = Touched(lists)
        /\ Elsewhere /\ UNCHANGED <<pick, gaps>>

----------------------------------------------------------------------------
(* Reading, and what happens around *)

\* A screen shows the root and its rows, but for the credits, which a link decision adds
\* without a revision, and the picks, which the database removes with their entry.
Content(x) == {<<i, rel[i]>> : i \in {i \in DOMAIN rel : rel[i].root = x /\ rel[i].kind # "credit"}}

\* Portfolio.get, Projects.get, Shortlists.get
Open(x) ==
    /\ root[x].status # "NONE" /\ Visible(x)
    /\ screen' = [root |-> x, row |-> root[x], rows |-> Content(x)]
    /\ UNCHANGED <<root, rel, pick, usable, profiled, unseen, erasing, gaps, stuck>>

\* a role ends or is confirmed, media leave use, an organization or a brand is archived
\* (ProjectParties.patch); a scope closes or a source is withdrawn, or opens again
ChangeUse(x) ==
    /\ \/ /\ x \in Assets \cup Parties \cup {r \in Roles : r[1] \in profiled}
          /\ usable' = IF x \in usable THEN usable \ {x} ELSE usable \cup {x}
          /\ UNCHANGED unseen
       \/ /\ x \in People \cup Works \cup Projects
          /\ unseen' = IF x \in unseen THEN unseen \ {x} ELSE unseen \cup {x}
          /\ UNCHANGED usable
    /\ UNCHANGED <<root, rel, pick, profiled, erasing, gaps, screen, stuck>>

\* a deletion blocks x (Deletions.block)
BlockForDeletion(x) ==
    /\ x \notin erasing /\ erasing' = erasing \cup {x}
    /\ UNCHANGED <<root, rel, pick, usable, profiled, unseen, gaps, screen, stuck>>

\* Deletions.scan: the rows of what is deleted, and those that name it
Doomed(i) == {rel[i].root, rel[i].who, rel[i].work} \cap erasing # {}

\* DeletionCleanup.apply, REMOVE_RELATION: picks first (actionPriority); the row is removed
\* and nothing else. The foreign key works_cover_parent_fkey keeps an entry that is a cover.
CleanRow(i) ==
    /\ Doomed(i)
    /\ IF \E p \in pick : p.item = i
       THEN pick' = {p \in pick : p.item # i} /\ UNCHANGED <<rel, gaps, stuck>>
       ELSE IF root[rel[i].root].cover = i
       THEN stuck' = stuck \cup {i} /\ UNCHANGED <<rel, pick, gaps>>
       ELSE /\ rel' = [j \in DOMAIN rel \ {i} |-> rel[j]] /\ pick' = Unpicked(i)
            /\ gaps' = gaps \cup {rel[i].root} /\ UNCHANGED stuck
    /\ UNCHANGED <<root, usable, profiled, unseen, erasing, screen>>

----------------------------------------------------------------------------
(* Properties *)

\* The pictures picked for a candidate are entries of the work it is listed for, with the
\* same asset: reading the list never finds a broken relation (SHORTLIST_RELATION_INVALID,
\* shortlists.ts:129-131).
PicksBelong ==
    \A p \in pick :
        /\ {p.item, p.entry} \subseteq DOMAIN rel
        /\ rel[p.item].work = p.work /\ rel[p.entry].root = p.work /\ rel[p.entry].who = p.asset

\* The cover of a work is an entry of it, and a picture (talent-v2-integrity.ts:58).
CoversBelong ==
    \A w \in Works : root[w].cover # None =>
        root[w].cover \in Rows(w, "entry") /\ rel[root[w].cover].who \in Images

\* Only a cleanup leaves a gap in the places of a work's media or a list's candidates,
\* and numbering them again closes it (portfolio.ts:158-166, shortlists.ts:319-323).
PlacesInOrder ==
    \A x \in Roots :
        /\ \A i, j \in Order(x) : rel[i].pos = rel[j].pos => i = j
        /\ x \notin gaps => \A i \in Order(x) : rel[i].pos < Cardinality(Order(x))

\* Nobody is credited twice in a role, takes part twice in it, or is listed twice for the
\* same role and work, however the roles were bound (shortlists.ts:223, :291, :335).
OnceEach ==
    \A i, j \in DOMAIN rel :
        /\ rel[i].root = rel[j].root /\ rel[i].kind = rel[j].kind /\ rel[i].who = rel[j].who
        /\ rel[i].code = rel[j].code /\ rel[i].work = rel[j].work
        /\ rel[i].kind = "item" => rel[i].role = rel[j].role
        => i = j

\* A candidate bound to a role is bound to a role of her own, and an exact credit names the
\* role of its person and code.
RolesAreOwn ==
    \A i \in DOMAIN rel : rel[i].role # None =>
        rel[i].role[1] = rel[i].who /\ (rel[i].kind = "credit" => rel[i].role[2] = rel[i].code)

\* An editor whose screen has the current revision of a work, project or list sees all that
\* is there; only a cleanup may have taken rows away: a command that names the revision
\* changes nothing that its sender has not seen (helpers.ts cas).
RevisionTellsContent ==
    screen.root # None /\ screen.row.rev = root[screen.root].rev =>
        screen.row = root[screen.root] /\ Content(screen.root) \subseteq screen.rows

\* "The cover is cleared when it is deleted" (docs/release/TALENT_EXPERIENCE_PR03.md:71):
\* a cleanup can remove every entry of what is deleted.
CoversAreCleared == stuck = {}
=============================================================================
