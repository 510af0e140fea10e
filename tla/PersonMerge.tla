----------------------------- MODULE PersonMerge -----------------------------
(***************************************************************************)
(* Merging two records of one person (person-merges.ts), with the rows of   *)
(* every table that names a person: contacts and evidence, handoffs,        *)
(* permissions and maintenance grants, uploads, assets and adopted media,   *)
(* credits, participations and shortlist items, professional facts          *)
(* (talent-v2-merge.ts) and locale texts (locale-merge.ts).                 *)
(*                                                                         *)
(* A merge is previewed in one transaction and executed in a later one; the *)
(* second scans again and compares the digests. A digest is modelled by     *)
(* what goes into it, so that what it leaves out may change unnoticed. One  *)
(* record stands for a row of any table: root is the work, project,         *)
(* shortlist, role, language or singleton it belongs to.                    *)
(***************************************************************************)
EXTENDS Integers, Sequences, FiniteSets

CONSTANTS
    People, Sources, Roots, Ids,
    Nobody, NoSource, \* values that are no person and no source
    Notes,            \* contents of a row
    MaxOther          \* bound on the requests of others

\* what the constants must satisfy
MergeConstants ==
    /\ Nobody \notin People /\ NoSource \notin Sources
    /\ MaxOther \in Nat

VARIABLES
    person,    \* rows of people: source, value and the source the value came from, revision
    rows,      \* the rows that name a person
    alias,     \* personAliases: of each merged id the canonical one
    hidden,    \* sources and roots the operator may not see
    perms,     \* what the operator may do beyond data.merge and records.write
    deleting,  \* people with a deletion request in any state
    preview,   \* what the operator has on the screen
    other      \* requests of others so far

mergeVars == <<person, rows, alias, hidden, perms, deleting, preview, other>>

Collide == {"credit", "participant", "item"}
Facts == {"fact", "profile", "representation", "proposal"}
Grantlike == {"handoff", "permission", "grant"}
Kinds == {"contact", "evidence", "upload", "asset", "media", "text"}
             \cup Collide \cup Facts \cup Grantlike
Periods == {{1}, {2}, {1, 2}}
States == {"ACTIVE", "INACTIVE", "REVOKED", "STAGED", "PENDING", "STALE", "SUPERSEDED", "ERASED"}
NoPreview == [canonical |-> Nobody]

TypeOK ==
    /\ \A p \in People :
           person[p] \in [source: Sources, value: Notes, from: Sources, rev: Nat,
                          status: {"ACTIVE", "ARCHIVED"}]
    /\ DOMAIN rows \subseteq Ids
    /\ \A i \in DOMAIN rows :
           rows[i] \in [kind: Kinds, person: People \cup {Nobody}, agent: People \cup {Nobody},
                        source: Sources \cup {NoSource}, root: Roots, during: Periods,
                        state: States, note: Notes, pinned: BOOLEAN]
    /\ DOMAIN alias \subseteq People /\ hidden \subseteq Sources \cup Roots
    /\ deleting \subseteq People /\ other \in 0..MaxOther

----------------------------------------------------------------------------
(* What the tables guarantee *)

\* unique indexes and the checks of the commands that add rows: one credit per work and
\* role, one active fact of a kind at a time, one profile, one text of a language
Clash(a, b) ==
    /\ a.kind = b.kind /\ a.person = b.person /\ a.root = b.root
    /\ a.kind \in Collide \cup {"fact", "profile", "text"}
    /\ a.state \in {"ACTIVE"} /\ b.state \in {"ACTIVE"}
    /\ a.kind = "fact" => a.during \cap b.during # {}
    /\ a.kind = "item" => a.pinned = b.pinned

OneOfEachIn(table) == \A i, j \in DOMAIN table : i # j => ~Clash(table[i], table[j])

----------------------------------------------------------------------------
(* Scanning *)

Of(p, kinds) == {i \in DOMAIN rows : rows[i].person = p /\ rows[i].kind \in kinds}

\* collisions: a row of the duplicate next to one of the canonical person at the same root
Collisions(c, d) ==
    {x \in Of(c, Collide) \X Of(d, Collide) :
        LET a == rows[x[1]]
            b == rows[x[2]]
        IN  /\ a.kind = b.kind /\ a.root = b.root
            /\ a.kind = "item" => a.pinned = b.pinned}

\* active facts of one kind that overlap, and two singletons
Conflicts(c, d) ==
    {x \in Of(c, Facts) \X Of(d, Facts) :
        Clash([rows[x[1]] EXCEPT !.person = d], rows[x[2]])}

\* what may be moved, and with which row it must not meet
Texts(c, d) == {i \in Of(c, {"text"}) \cup Of(d, {"text"}) : rows[i].state # "ERASED"}

SelfRepresented(c, d) ==
    \E i \in DOMAIN rows :
        LET own(p) == IF p = d THEN c ELSE p
        IN  /\ rows[i].kind = "representation" /\ rows[i].agent # Nobody
            /\ {rows[i].person, rows[i].agent} \cap {c, d} # {}
            /\ own(rows[i].person) = own(rows[i].agent)

\* PersonMerges.scan: what makes the merge impossible
Blocked(c, d) ==
    LET both == {c, d}
        unseen(i) == rows[i].source \in hidden
        facts == {i \in DOMAIN rows : rows[i].kind \in Facts /\
                     (rows[i].person \in both \/ rows[i].agent \in both)}
    IN  \/ both \cap DOMAIN alias # {}
        \/ \E old \in DOMAIN alias : alias[old] = d
        \/ both \cap deleting # {}
        \/ Of(d, {"contact"}) # {} /\ "sensitive.write" \notin perms
        \/ \E i \in Of(d, {"contact", "evidence", "upload", "asset", "media"}) : unseen(i)
        \/ \E i \in facts \cup Texts(c, d) : unseen(i)
        \/ \E p \in both : \E i \in Of(p, {"permission"}) :
               rows[i].state = "ACTIVE" /\ "sources.review" \notin perms
        \/ \E i \in Of(d, Collide) : rows[i].root \in hidden
        \/ \E i \in Of(d, {"upload"}) : rows[i].pinned /\ rows[i].state # "ERASED"
        \/ \E i \in Of(d, {"credit"}) : rows[i].pinned
        \/ \E x \in Collisions(c, d) : rows[x[1]].kind = "item" /\ rows[x[1]].pinned
        \/ SelfRepresented(c, d)

\* personFor, sourceFor and cas
Open(p) == p \notin DOMAIN alias /\ person[p].source \notin hidden

\* A mutation of Digest: of a collision only the rows are in it.
DigestOfIds(c, d) ==
    [people |-> [p \in {c, d} |-> person[p]],
     ids |-> {i \in DOMAIN rows : rows[i].person \in {c, d} \/ rows[i].agent \in {c, d}}]

\* previewDigest: ids of the rows that only move, the values of a collision, and whole rows
\* of the professional graph (of the entire workspace), the texts and the maintenance
Digest(c, d) ==
    LET whole == {i \in DOMAIN rows : rows[i].kind \in Facts \cup {"grant", "item"}}
                     \cup Texts(c, d)
    IN  [people |-> [p \in {c, d} |-> person[p]],
         conflict |-> person[c].value # person[d].value,
         collisions |-> {<<x, rows[x[1]].note, rows[x[2]].note>> : x \in Collisions(c, d)},
         inForce |-> {i \in Of(c, Grantlike) \cup Of(d, Grantlike) : rows[i].state = "ACTIVE"},
         moved |-> Of(d, {"contact", "evidence", "upload", "asset"} \cup Collide),
         whole |-> [i \in whole |-> rows[i]]]

Preview(c, d) ==
    /\ c # d /\ Open(c) /\ Open(d)
    /\ preview' = [canonical |-> c, duplicate |-> d, digest |-> Digest(c, d),
                   notes |-> [i \in DOMAIN rows |-> rows[i].note]]
    /\ UNCHANGED <<person, rows, alias, hidden, perms, deleting, other>>

----------------------------------------------------------------------------
(* Executing *)

\* a value is never copied to a record that has another source
Choices(c, d) ==
    IF person[c].source = person[d].source THEN {"CANONICAL", "DUPLICATE"} ELSE {"CANONICAL"}

\* resolveTalentConflicts: each conflict is decided, and no row is both kept and dropped
Resolutions(c, d) ==
    LET pairs == {x \in Conflicts(c, d) : rows[x[1]].kind = "fact"}
        kept(f) == {IF f[x] = "CANONICAL" THEN x[1] ELSE x[2] : x \in pairs}
        dropped(f) == {IF f[x] = "CANONICAL" THEN x[2] ELSE x[1] : x \in pairs}
    IN  {dropped(f) : f \in {g \in [pairs -> {"CANONICAL", "DUPLICATE"}] :
                                kept(g) \cap dropped(g) = {}}}

\* A mutation of Moved: what was granted on the duplicate goes on in the name of the canonical
\* person, like its contacts and evidence, instead of ending.
GrantsFollow(c, d, r) ==
    CASE r.kind \in Grantlike /\ r.person = d -> [r EXCEPT !.person = c]
      [] r.kind \in {"contact", "evidence"} /\ r.person = d -> [r EXCEPT !.person = c]
      [] OTHER -> r

\* What becomes of a row that neither collides nor conflicts. What was granted on either
\* record ends; uploads and assets follow only where the source stays theirs.
Moved(c, d, r) ==
    CASE r.kind \in Grantlike /\ r.person \in {c, d} -> [r EXCEPT !.state = "REVOKED"]
      [] r.kind = "upload" /\ r.person = d ->
             IF r.source # NoSource /\ r.state # "ERASED" THEN [r EXCEPT !.person = Nobody] ELSE r
      [] r.kind = "asset" /\ r.person = d ->
             IF r.source = NoSource \/ r.state = "ERASED" THEN r
             ELSE [r EXCEPT !.person = IF r.source = person[c].source THEN c ELSE Nobody]
      [] r.kind = "media" /\ r.person = d ->
             IF r.state = "ACTIVE" THEN [r EXCEPT !.person = c] ELSE r
      [] r.kind = "representation" ->
             [r EXCEPT !.person = IF @ = d THEN c ELSE @, !.agent = IF @ = d THEN c ELSE @]
      [] r.kind = "proposal" /\ r.person \in {c, d} ->
             [r EXCEPT !.person = c, !.state = IF @ = "PENDING" THEN "STALE" ELSE @]
      [] r.kind \in {"contact", "evidence", "fact", "profile"} \cup Collide /\ r.person = d ->
             [r EXCEPT !.person = c]
      [] OTHER -> r

\* applyTalentMerge: what is dropped is deactivated before it moves, the singleton of the
\* duplicate stays where it is as history
MovedFact(c, d, dropped, i) ==
    LET retained == \E x \in Conflicts(c, d) : x[2] = i /\ rows[i].kind = "profile"
        row == IF i \in dropped THEN [rows[i] EXCEPT !.state = "INACTIVE"] ELSE rows[i]
    IN  IF retained THEN [row EXCEPT !.state = "SUPERSEDED"] ELSE Moved(c, d, row)

\* applyLocaleMerge: of each language the chosen text, on the canonical person; a new row
\* is written when only the duplicate has one, here the same row
MovedText(c, d, chosen, i) ==
    LET group == {j \in Texts(c, d) : rows[j].root = rows[i].root}
        pick == CHOOSE j \in group \cap chosen : TRUE
        keep == IF group \cap Of(c, {"text"}) # {} THEN CHOOSE j \in group : rows[j].person = c
                ELSE pick
    IN  IF i \notin Texts(c, d) THEN rows[i]
        ELSE IF i = keep THEN [rows[i] EXCEPT !.person = c, !.note = rows[pick].note]
        ELSE [rows[i] EXCEPT !.state = "ERASED"]

\* one text of each language
TextChoices(c, d) ==
    {ch \in SUBSET Texts(c, d) :
        \A i \in Texts(c, d) : \E j \in ch :
            /\ rows[j].root = rows[i].root
            /\ \A k \in ch : rows[k].root = rows[i].root => k = j}

\* the collision's row that stays has the chosen note; of shortlist items the chosen row stays
Survivor(x, dup) == IF dup /\ rows[x[1]].kind = "item" THEN x[2] ELSE x[1]

Gone(c, d, kept) ==
    {IF Survivor(x, x \in kept) = x[1] THEN x[2] ELSE x[1] : x \in Collisions(c, d)}
NoteOf(kept, i) ==
    IF \E x \in kept : Survivor(x, TRUE) = i /\ i = x[1]
    THEN rows[(CHOOSE x \in kept : x[1] = i)[2]].note ELSE rows[i].note

\* what a row has become after the merge
Result(c, d, kept, dropped, chosen, i) ==
    CASE rows[i].kind = "text" -> MovedText(c, d, chosen, i)
      [] rows[i].kind \in Facts -> MovedFact(c, d, dropped, i)
      [] OTHER -> [Moved(c, d, rows[i]) EXCEPT !.note = NoteOf(kept, i)]

\* the two records after the merge
Canonical(value, c, d) ==
    [person[c] EXCEPT !.rev = @ + 1,
                      !.value = IF value = "CANONICAL" THEN @ ELSE person[d].value,
                      !.from = IF value = "CANONICAL" THEN @ ELSE person[d].from]
Retired(d) == [person[d] EXCEPT !.rev = @ + 1, !.status = "ARCHIVED"]

Execute(value, kept, dropped, chosen) ==
    LET c == preview.canonical
        d == preview.duplicate
    IN  /\ c # Nobody /\ Open(c) /\ Open(d)
        /\ Digest(c, d) = preview.digest /\ ~Blocked(c, d)
        /\ value \in Choices(c, d) /\ kept \subseteq Collisions(c, d)
        /\ dropped \in Resolutions(c, d) /\ chosen \in TextChoices(c, d)
        /\ rows' = [i \in DOMAIN rows \ Gone(c, d, kept) |->
                      Result(c, d, kept, dropped, chosen, i)]
        /\ person' = [person EXCEPT ![c] = Canonical(value, c, d), ![d] = Retired(d)]
        /\ alias' = [p \in DOMAIN alias \cup {d} |-> IF p = d THEN c ELSE alias[p]]
        /\ preview' = NoPreview
        /\ UNCHANGED <<hidden, perms, deleting, other>>

----------------------------------------------------------------------------
(* Others, between the two transactions *)

Request == other < MaxOther /\ other' = other + 1

\* a member's command on the row; the contacts of a person are replaced with its revision
Edit(i, n) ==
    /\ Request /\ rows[i].note # n /\ rows[i].person \notin DOMAIN alias
    /\ rows[i].state \in {"ACTIVE", "PENDING"}
    /\ rows' = [rows EXCEPT ![i].note = n]
    /\ person' = IF rows[i].kind = "contact"
                 THEN [person EXCEPT ![rows[i].person].rev = @ + 1] ELSE person
    /\ UNCHANGED <<alias, hidden, perms, deleting, preview>>

Added(i, r) == [j \in DOMAIN rows \cup {i} |-> IF j = i THEN r ELSE rows[j]]

Add(i, r) ==
    /\ Request /\ i \in Ids \ DOMAIN rows /\ r.person \notin DOMAIN alias
    /\ r.agent # r.person /\ r.agent \notin DOMAIN alias
    /\ OneOfEachIn(Added(i, r)) /\ rows' = Added(i, r)
    /\ UNCHANGED <<person, alias, hidden, perms, deleting, preview>>

\* suspension of a source, or a change of scope
Hide(x) ==
    /\ Request /\ hidden' = hidden \cup {x}
    /\ UNCHANGED <<person, rows, alias, perms, deleting, preview>>

RequestDeletion(p) ==
    /\ Request /\ p \notin DOMAIN alias /\ deleting' = deleting \cup {p}
    /\ UNCHANGED <<person, rows, alias, hidden, perms, preview>>

MergeSteps(new) ==
    \/ \E c, d \in People : Preview(c, d)
    \/ /\ preview # NoPreview
       /\ LET c == preview.canonical
              d == preview.duplicate
          IN  \E v \in Choices(c, d), k \in SUBSET Collisions(c, d),
                 dr \in Resolutions(c, d), ch \in TextChoices(c, d) : Execute(v, k, dr, ch)
    \/ \E i \in DOMAIN rows, n \in Notes : Edit(i, n)
    \/ \E i \in Ids, r \in new : Add(i, r)
    \/ \E x \in Sources \cup Roots : Hide(x)
    \/ \E p \in People : RequestDeletion(p)

----------------------------------------------------------------------------
(* Properties *)

\* An alias leads to a record that is not an alias itself: the details page resolves one
\* step (person-merges.ts DUPLICATE_HAS_ALIASES, merge-read resolution in policy.ts).
NoChains == \A old \in DOMAIN alias : alias[old] \notin DOMAIN alias

\* Nothing in force names a merged id: no delegation, permission or grant survives on
\* either record, nothing that could move was left behind, whichever table it is in. What
\* stays is history: erased, superseded, staged, or an upload that never had a source.
NothingLeftBehind ==
    \A i \in DOMAIN rows :
        LET r == rows[i]
        IN  /\ r.agent \notin DOMAIN alias
            /\ r.person \in DOMAIN alias =>
                   \/ r.state \in {"REVOKED", "SUPERSEDED", "ERASED", "STAGED"}
                   \/ r.kind \in {"upload", "asset"} /\ r.source = NoSource

\* However rows of the two records met, the result satisfies the unique keys and no two
\* active facts of one kind overlap (talent-v2-merge.ts, "immediate unique indexes").
OneOfEach == OneOfEachIn(rows)

\* A record carries only values of its own source.
ValuesHaveTheirSource ==
    \A p \in People : p \notin DOMAIN alias => person[p].from = person[p].source

\* Merging never gives anybody a delegation, and what the operator chose to keep, or to
\* drop, in a collision of rows is what the screen showed (person-merges.ts execute).
MergesAsShown ==
    alias' # alias =>
        LET c == preview.canonical
            d == preview.duplicate
            shown == preview.notes
        IN  /\ \A x \in Collisions(c, d) : \A i \in {x[1], x[2]} : shown[i] = rows[i].note
            /\ \A x \in Conflicts(c, d) : \A i \in {x[1], x[2]} : shown[i] = rows[i].note
            /\ \A i \in Texts(c, d) : shown[i] = rows[i].note
            /\ \A i \in DOMAIN rows' :
                   rows'[i].kind \in Grantlike /\ rows'[i].state = "ACTIVE"
                   => rows'[i].person \notin {c, d}
=============================================================================
