---------------------------- MODULE MCPersonMerge ----------------------------
(***************************************************************************)
(* Two records of one person and a third person, two sources, one root, and *)
(* one to three rows: every row of one kind next to every other, and three   *)
(* facts of which one overlaps the other two.                               *)
(***************************************************************************)
EXTENDS PersonMerge

CONSTANTS p1, p2, p3, s1, s2, wo

\* the instance is one of PersonMerge
MergeNames ==
    /\ MergeConstants
    /\ {p1, p2, p3} \subseteq People /\ {s1, s2} \subseteq Sources
    /\ wo \in Roots /\ {1, 2} \subseteq Notes /\ {1, 2, 3} \subseteq Ids

Row(k, p, s) ==
    [kind |-> k, person |-> p, agent |-> Nobody, source |-> s, root |-> wo,
     during |-> {1}, state |-> "ACTIVE", note |-> 1, pinned |-> FALSE]

Both == {p1, p2}

Plain == {Row(k, p, s) : k \in {"contact", "evidence", "upload", "asset", "media", "text"},
                         p \in Both, s \in {s1, s2}}
Rooted == {Row(k, p, s1) : k \in Collide \cup Grantlike \cup {"profile"}, p \in Both}
Periodic == {[Row("fact", p, s1) EXCEPT !.during = t] : p \in Both, t \in Periods}
Pending == {[Row("proposal", p, s1) EXCEPT !.state = "PENDING"] : p \in Both}
Represented == {[Row("representation", p, s1) EXCEPT !.agent = p2] : p \in {p1, p3}}
Pinned == {[Row(k, p, s1) EXCEPT !.pinned = TRUE] : p \in Both, k \in {"upload", "credit", "item"}}
Staged == {[Row(k, p2, NoSource) EXCEPT !.state = "STAGED"] : k \in {"upload", "asset", "media"}}
AllRows == Plain \cup Rooted \cup Periodic \cup Pending \cup Represented \cup Pinned \cup Staged

OneOrTwo == {<<a>> : a \in AllRows}
                \cup {x \in AllRows \X AllRows : x[1].kind = x[2].kind /\ x[1].person # p2}
Overlapping ==
    {[i \in 1..3 |-> [Row("fact", IF i = 3 THEN x[1] ELSE x[2], s1)
                          EXCEPT !.during = IF i = 3 THEN {1, 2} ELSE {i}]]
     : x \in {<<p1, p2>>, <<p2, p1>>}}

Record(s, v) == [source |-> s, value |-> v, from |-> s, rev |-> 1, status |-> "ACTIVE"]

MergeInit ==
    /\ \E s \in {s1, s2} :
           person = [p \in People |-> Record(IF p = p2 THEN s ELSE s1, IF p = p1 THEN 1 ELSE 2)]
    /\ rows \in {t \in OneOrTwo \cup Overlapping : OneOfEachIn(t)}
    /\ alias = << >> /\ hidden = {} /\ deleting = {} /\ preview = NoPreview /\ other = 0
    /\ perms \in {{}, {"sensitive.write", "sources.review"}}
    /\ perms = {} => Cardinality(DOMAIN rows) = 1

MergeNext == MergeSteps({Row(k, p, s1) : k \in {"handoff"}, p \in Both})

\* What holds of the records in every state (PersonMerge): no alias of an alias, nothing in
\* force under a merged id, one of each, and no value of another source (person-merges.ts).
MergeOK == TypeOK /\ NoChains /\ NothingLeftBehind /\ OneOfEach /\ ValuesHaveTheirSource

MergeSpec == MergeInit /\ [][MergeNext]_mergeVars
=============================================================================
