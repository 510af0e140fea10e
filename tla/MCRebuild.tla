----------------------------- MODULE MCRebuild -----------------------------
(***************************************************************************)
(* Small worlds for Rebuild.  Each follows one corner of the payload: the  *)
(* measurements and the deleted origins, the collection and the proof, or  *)
(* a work with its pictures, its project and the links between them.       *)
(***************************************************************************)
EXTENDS Naturals, TLC

CONSTANT Nobody

MCRows == {"p", "w", "j", "prof", "role", "role2", "m1", "m2", "cast", "adult", "coll",
           "a1", "a2", "credit", "part", "pw"}
MCOrigins == {"s1", "s2"}
MCValues == {"v1", "v2"}

MCRowKind(r) ==
    CASE r = "p" -> "person"
      [] r = "w" -> "work"
      [] r = "j" -> "project"
      [] r = "prof" -> "profile"
      [] r \in {"role", "role2"} -> "role"
      [] r \in {"m1", "m2"} -> "measure"
      [] r = "cast" -> "casting"
      [] r = "coll" -> "collection"
      [] r \in {"a1", "a2"} -> "asset"
      [] r = "part" -> "participant"
      [] r = "pw" -> "projectWork"
      [] OTHER -> r

Entry(at, of, state, refs) ==
    [at |-> at, of |-> of, state |-> state, refs |-> refs, value |-> "v1",
     pics |-> <<>>, cover |-> Nobody]
Shows(x, pics, cover) == [x EXCEPT !.pics = pics, !.cover = cover]

\* s1 may be in use, blocked or deleted; s2 is in use, at its second revision.
SourcesWith(status) ==
    [s1 |-> [status |-> status, rev |-> 1, epoch |-> 1],
     s2 |-> [status |-> "CONFIRMED", rev |-> 2, epoch |-> 1]]
Said(r, rev, value) == [row |-> r, source |-> "s2", rev |-> rev, value |-> value]

Person(at) == [p |-> Entry(at, Nobody, "ACTIVE", {}),
               prof |-> Entry("s2", "p", "CONFIRMED", {}),
               role |-> Entry("s2", "p", "ACTIVE", {})]

\* The person or the first measurement came from s1.
MeasureWorlds ==
    {[row |-> Person(IF r = "p" THEN "s1" ELSE "s2")
                @@ [m1 |-> Entry(IF r = "m1" THEN "s1" ELSE "s2", "p", "SUPERSEDED", {}),
                    m2 |-> Entry("s2", "p", "CONFIRMED", {"m1"}),
                    cast |-> Entry("s2", "p", "CONFIRMED", {"m2"})],
      src |-> SourcesWith(status), evid |-> evid] :
        r \in {"p", "m1"}, status \in {"CONFIRMED", "BLOCKED", "ERASED"},
        evid \in {{}, {Said("p", 2, "v1"), Said("m1", 2, "v1")}}
                  \cup {{Said(x, 1, "v1")} : x \in {"p", "m1"}}
                  \cup {{Said(x, 2, v)} : x \in {"p", "m1"}, v \in MCValues}}

\* A collection of two pictures, a profile with a cover and an eligibility
\* with a proof; the eligibility or both came from s1.
PictureWorlds ==
    {[row |-> [Person("s2") EXCEPT !["prof"].cover = "a2"]
                @@ [coll |-> Shows(Entry(at, "p", "CURRENT", {"role"}), [i \in {0, 1} |->
                                IF i = 0 THEN "a1" ELSE "a2"], "a2"),
                    adult |-> Shows(Entry("s1", "p", state, {}), <<>>, "a1"),
                    a1 |-> Entry("s2", owner, "READY", {}),
                    a2 |-> Entry("s2", "p", "READY", {})],
      src |-> SourcesWith(status), evid |-> evid] :
        at \in {"s1", "s2"}, state \in {"VERIFIED", "DECLARED"},
        owner \in {"p", Nobody}, status \in {"CONFIRMED", "ERASED"},
        evid \in {{Said("adult", 2, "v1")}, {Said("adult", 2, "v1"), Said("coll", 2, "v1")}}}

\* A work with up to two pictures, and a project with both roots.
WorkWorlds ==
    {[row |-> Person("s2")
                @@ [w |-> Shows(Entry("s2", Nobody, state, {}), pics,
                                IF pics = <<>> THEN Nobody ELSE "a1"),
                    j |-> Entry("s2", Nobody, "ACTIVE", {}),
                    a1 |-> Entry("s1", owner, "READY", {}),
                    a2 |-> Entry("s2", "p", "READY", {}),
                    credit |-> IF deal[2] THEN Entry("s1", Nobody, "ACTIVE", {"p", "w", "role"})
                                        ELSE Entry(Nobody, Nobody, "ACTIVE", {"p", "w"}),
                    part |-> Entry(Nobody, Nobody, deal[1], {"p", "j"}),
                    pw |-> Entry(Nobody, Nobody, "REFERENCE", {"w", "j"})],
      src |-> SourcesWith(status), evid |-> {}] :
        state \in {"DRAFT", "ACTIVE"}, owner \in {"p", Nobody},
        pics \in {<<>>, [i \in {0, 1} |-> IF i = 0 THEN "a1" ELSE "a2"],
                  [i \in {0, 2} |-> IF i = 0 THEN "a2" ELSE "a1"]},
        deal \in {<<"CONFIRMED", TRUE>>, <<"CONFIRMED", FALSE>>, <<"ACTUAL", TRUE>>},
        status \in {"CONFIRMED", "ERASED"}}

\* An active work has a cover.
MCWorlds == MeasureWorlds \cup PictureWorlds \cup {x \in WorkWorlds :
                x.row["w"].state = "ACTIVE" => x.row["w"].cover # Nobody}

Ask(roots, kinds, basis, media) ==
    [roots |-> roots, kinds |-> kinds, basis |-> basis, identity |-> basis, media |-> media,
     pictures |-> "w" \in roots]

AllKinds == {"profile", "role", "measure", "casting", "adult", "collection"}

MCChoices ==
    {Ask({"p"}, AllKinds, basis, TRUE) : basis \in BOOLEAN}
    \cup {Ask({"p"}, AllKinds \ {"role"}, TRUE, FALSE),
          Ask({"p", "w"}, AllKinds, TRUE, TRUE),
          Ask({"p", "w", "j"}, {"profile", "role"}, FALSE, TRUE),
          Ask({"p", "w", "j"}, {}, FALSE, FALSE),
          [Ask({"p", "w"}, AllKinds, FALSE, TRUE) EXCEPT !.pictures = FALSE]}
=============================================================================
