----------------------------- MODULE MCProduction -----------------------------
(***************************************************************************)
(* The works, the projects and the shortlists of Production one after the     *)
(* other, each part with the rows of the others that it needs.               *)
(***************************************************************************)
EXTENDS Production

VARIABLE desk   \* which of them is worked on

CONSTANTS wo, pj, l, p1, p2, p3, j1, j2, ph1, ph2, brand

MCLegacyRoles == {<<p1, j1>>, <<p2, j2>>}

\* The names are of the rows they stand for, and the people and pictures are two.
ProductionNames ==
    /\ wo \in Works /\ pj \in Projects /\ l \in Lists /\ {1, 2, 3} \subseteq Ids
    /\ {p1, p2} \subseteq People /\ p1 # p2 /\ {j1, j2} \subseteq Codes
    /\ {ph1, ph2} \subseteq Assets /\ ph1 # ph2 /\ ph1 \in Images /\ brand \in Parties

Active(cover) == [Absent EXCEPT !.status = "ACTIVE", !.rev = 1, !.cover = cover]
Draft == [Absent EXCEPT !.status = "DRAFT", !.rev = 1]

\* a work with two pictures and a credit of p1, made by CreatePersonCase
Case == <<Entry(wo, ph1, 0), Entry(wo, ph2, 1), Credit(wo, p1, j1, <<p1, j1>>)>>

ProdInit ==
    /\ desk \in {"works", "projects", "lists"}
    /\ pick = {} /\ unseen = {} /\ erasing = {} /\ gaps = {} /\ stuck = {} /\ screen = NoScreen
    /\ \/ /\ desk = "works" /\ rel = << >>
          /\ profiled = {p1} /\ usable = {ph1, ph2, <<p1, j1>>}
          /\ root = [r \in Roots |-> Absent]
       \/ /\ desk = "projects" /\ rel = << >>
          /\ profiled = {} /\ usable = {brand}
          /\ root = [r \in Roots |-> IF r \in {wo, pj} THEN Draft ELSE Absent]
       \/ /\ desk = "lists" /\ rel = Case
          /\ profiled \in {{p1}, {}} /\ usable = {ph1, ph2, <<p1, j1>>}
          /\ root = [r \in Roots |-> IF r = wo THEN Active(1) ELSE IF r = l THEN Draft ELSE Absent]

WorkSteps ==
    \/ CreateRoot(wo)
    \/ \E m \in {<<ph1>>, <<ph2, ph1>>} : \E cover \in {ph1, None} : CreatePersonCase(wo, <<p1, j1>>, m, cover)
    \/ \E s \in {"DRAFT", "ACTIVE", "ARCHIVED"} : UpdateRoot(wo, s)
    \/ \E m \in Assets : AddAsset(wo, m)
    \/ \E i \in Rows(wo, "entry") : RemoveAsset(wo, i)
    \/ \E cover \in Rows(wo, "entry") \cup {None} : ReorderAssets(wo, cover)
    \/ AddCredit(wo, p1, j1)
    \/ \E i \in Rows(wo, "credit") : UpgradeCredit(wo, i) \/ RemoveRow(wo, i)
    \/ ApplyWorkCase(wo, <<p1, j1>>, <<ph2>>)
    \/ Open(wo)
    \/ \E u \in {ph1, <<p1, j1>>} : ChangeUse(u)
    \/ \E u \in {wo, ph1} : BlockForDeletion(u)
    \/ \E i \in DOMAIN rel : CleanRow(i)

ProjectSteps ==
    \/ \E s \in {"ACTIVE", "COMPLETED", "ARCHIVED", "DRAFT"} : UpdateRoot(pj, s)
    \/ AddParticipant(pj, p2, j1, "NOMINATED")
    \/ \E s \in {"NOMINATED", "ACTUAL"} :
           \/ AddParticipant(pj, p1, j1, s)
           \/ \E i \in Rows(pj, "participant") : UpdateParticipant(pj, i, s)
    \/ \E relation \in {"REFERENCE", "DELIVERABLE"} : LinkWork(pj, wo, relation)
    \/ \E i \in Rows(pj, "participant") \cup Rows(pj, "work") : RemoveRow(pj, i)
    \/ \E parties \in {{}, {brand}} : BindParties(pj, parties)
    \/ Open(pj)
    \/ \E u \in {p1, brand, wo} : ChangeUse(u)
    \/ \E u \in {wo, p2} : BlockForDeletion(u)
    \/ \E i \in DOMAIN rel : CleanRow(i)

ListSteps ==
    \/ \E r \in {None, <<p1, j1>>} :
          \/ AddItem(l, p1, r, None, {})
          \/ \E entries \in SUBSET {1} : AddItem(l, p1, r, wo, entries)
    \/ AddItem(l, p2, None, None, {})
    \/ BatchAdd(l, <<<<p2, None>>, <<p1, <<p1, j1>>>>>>)
    \/ BatchAdd(l, <<<<p1, None>>>>)
    \/ \E i \in Rows(l, "item") :
          \/ UpdateItem(l, i, TRUE)
          \/ RemoveItem(l, i)
          \/ BindRole(l, i, <<p1, j1>>)
    \/ ReorderItems(l)
    \/ Enroll(p1)
    \/ RemoveAsset(wo, 1)
    \/ Open(l)
    \/ ChangeUse(<<p1, j1>>)
    \/ BlockForDeletion(ph1)
    \/ \E i \in DOMAIN rel : CleanRow(i)

ProdNext ==
    /\ UNCHANGED desk
    /\ \/ desk = "works" /\ WorkSteps
       \/ desk = "projects" /\ ProjectSteps
       \/ desk = "lists" /\ ListSteps

ProdSpec == ProdInit /\ [][ProdNext]_<<prodVars, desk>>

\* What holds of the rows of works, projects and shortlists (Production): picks and covers
\* belong to their work, places are in order, nobody is there twice, and a role is one's own.
ProductionOK ==
    ProductionTypeOK /\ PicksBelong /\ CoversBelong /\ PlacesInOrder /\ OnceEach /\ RolesAreOwn
=============================================================================
