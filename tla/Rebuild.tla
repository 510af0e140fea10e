------------------------------ MODULE Rebuild ------------------------------
(***************************************************************************)
(* What an export carries to another installation, and what the isolated   *)
(* rebuild makes of it (packages/core: talent-transfer.ts,                 *)
(* retained-origin-transfer.ts, identity-transfer.ts, exports.ts,          *)
(* talent-transfer-rebuild.ts, rebuild.ts).                                *)
(*                                                                         *)
(* A world is what an installation holds: its sources, its rows and the    *)
(* evidence on them.  A row follows one field, "value"; the kind of a row  *)
(* is fixed by its name (KindOf).  "pics" maps positions to pictures (the  *)
(* items of a collection, the placements of a work), "cover" is the one    *)
(* picture a row points at: a cover, or the proof of an adult eligibility. *)
(* An export is made once from a world that does not change; the file may  *)
(* be edited by hand (its sha256 is the operator's to give), its sources   *)
(* may run out and the target may be used before it is applied.            *)
(* Permissions to export, encrypted identifiers, the bytes of originals,   *)
(* locale texts, organizations and the history of merges are left out.     *)
(***************************************************************************)
EXTENDS Naturals, FiniteSets, Functions

CONSTANTS
    Rows,       \* every row either installation may hold
    Origins,    \* the sources (Source rows)
    Worlds,     \* the worlds an export may be made from
    Choices,    \* what an export may ask for: [roots, kinds, basis, identity, media, pictures]
    Values,     \* the values of the followed field
    Mishaps,    \* bound: how many things happen between the export and the rebuild
    Nobody      \* the absent reference

CONSTANT RowKind(_)     \* the table of a row

\* what the constants must satisfy
RebuildAssumption ==
    /\ Mishaps \in Nat
    /\ \A c \in Choices : c.roots \subseteq Rows /\ c.kinds \subseteq
           {"profile", "role", "measure", "casting", "adult", "collection"}

Facts == {"profile", "role", "measure", "casting", "adult", "collection"}
Roots == {"person", "work", "project"}
Links == {"credit", "participant", "projectWork"}

VARIABLES
    here,       \* the world the export is made from
    choice,     \* what was asked for, or Nobody
    file,       \* the export's payload, or Nobody
    edited,     \* the payload is no longer what the export wrote
    late,       \* the sources whose validity has ended
    there       \* the target: a world, with whether it is isolated

vars == <<here, choice, file, edited, late, there>>

-----------------------------------------------------------------------------
(* Reading a world or a payload: both have "row" and "src", functions on   *)
(* what is present, and "evid".                                            *)

Of(w, kinds) == {r \in DOMAIN w.row : RowKind(r) \in kinds}
RowsOf(w, kind, person) == {r \in Of(w, {kind}) : w.row[r].of = person}

Usable(w, s) == s \in DOMAIN w.src /\ w.src[s].status = "CONFIRMED" /\ s \notin late

\* sourceFor, and its branch that reads the header of an erased source.
Origin(w, r) == w.src[w.row[r].at]
Kept(w, r) == Origin(w, r).status = "ERASED"

\* An evidence row supports the value it was written for while its source is
\* at the revision that was reviewed.
Supports(w, e) ==
    /\ Usable(w, e.source)
    /\ w.src[e.source].rev = e.rev
    /\ e.value = w.row[e.row].value

EvidenceOn(w, r) == {e \in w.evid : e.row = r}

\* graph.fieldReadable: evidence, where there is any, decides.
Readable(w, r) ==
    IF EvidenceOn(w, r) # {} THEN \E e \in EvidenceOn(w, r) : Supports(w, e)
                             ELSE Usable(w, w.row[r].at)

\* graph.project with nothing left out: the field, the role of the row, and for
\* a collection its own source, which evidence cannot replace.
ReadWhole(w, r) ==
    /\ Readable(w, r)
    /\ \A t \in w.row[r].refs : RowKind(t) = "role" => Readable(w, t)
    /\ RowKind(r) = "collection" => Usable(w, w.row[r].at)

\* The pictures the professional rows point at.
Pointed(w, rs) == UNION {Range(w.row[r].pics) \cup {w.row[r].cover} : r \in rs} \ {Nobody}

-----------------------------------------------------------------------------
(* What holds between the rows of a payload (validateTransferLinks).       *)

LinksHold(f) ==
    LET people == Of(f, {"person"}) IN
    \A r \in Of(f, Facts) : LET x == f.row[r]
                                k == RowKind(r) IN
        /\ x.of \in people
        /\ \A t \in x.refs : t \in DOMAIN f.row /\ t # r /\ f.row[t].of = x.of
        /\ k # "profile" => RowsOf(f, "profile", x.of) # {}
        /\ k \in {"casting", "measure", "adult"} => RowsOf(f, "role", x.of) # {}
        /\ k \in {"profile", "casting"} => RowsOf(f, k, x.of) = {r}

AdultsHold(f) ==
    \A r \in Of(f, {"adult"}) : LET x == f.row[r] IN
        /\ x.state = "VERIFIED" =>
               x.cover # Nobody /\ \E e \in EvidenceOn(f, r) : e.value = x.value
        /\ x.state # "ENDED" =>
               \A t \in RowsOf(f, "adult", x.of) \ {r} : f.row[t].state = "ENDED"

CollectionsHold(f) ==
    \A r \in Of(f, {"collection"}) : LET x == f.row[r] IN
        /\ x.cover = Nobody \/ x.cover \in Range(x.pics)
        /\ DOMAIN x.pics = 0..(Cardinality(DOMAIN x.pics) - 1)
        /\ IsInjective(x.pics)
        /\ x.state = "CURRENT" => \A t \in RowsOf(f, "collection", x.of) \ {r} :
               f.row[t].state # "CURRENT" \/ f.row[t].refs # x.refs

\* The originals are exactly the adopted ones and those pointed at.
PicturesHold(f) ==
    LET pointed == Pointed(f, Of(f, Facts)) IN
    /\ pointed \subseteq Of(f, {"asset"})
    /\ \A a \in Of(f, {"asset"}) :
           IF f.row[a].of = Nobody THEN a \in pointed ELSE f.row[a].of \in Of(f, {"person"})
    /\ \A r \in Of(f, {"profile"}) :
           f.row[r].cover # Nobody => f.row[f.row[r].cover].of = f.row[r].of

\* No measurement set replaces itself, however far back.
NoLoop(f) ==
    \A S \in SUBSET Of(f, {"measure"}) \ {{}} : \E r \in S : f.row[r].refs \cap S = {}

TransferHolds(f) ==
    /\ LinksHold(f)
    /\ AdultsHold(f)
    /\ CollectionsHold(f)
    /\ PicturesHold(f)
    /\ NoLoop(f)
    /\ \A e \in f.evid : e.row \in Of(f, Facts \cup {"person"})

\* A mutation of Retained: any evidence will do, whatever value it was for.
AnyBasis(f) ==
    \A r \in Of(f, Facts \cup {"person"}) : f.row[r].at \in DOMAIN f.kept =>
        \E e \in EvidenceOn(f, r) : e.source \in DOMAIN f.src

\* validateRetainedOrigins: a deleted origin carries only its header, and all
\* that still names it rests on other, current sources.
Retained(f) ==
    LET heirs == {r \in Of(f, Facts \cup {"person"}) : f.row[r].at \in DOMAIN f.kept} IN
    /\ DOMAIN f.kept \cap DOMAIN f.src = {}
    /\ \A r \in heirs :
           /\ \E e \in EvidenceOn(f, r) : Supports(f, e)
           /\ ~(RowKind(r) = "adult" /\ f.row[r].state = "VERIFIED")
    /\ DOMAIN f.kept = {f.row[r].at : r \in heirs}
    /\ {e.source : e \in f.evid} \cap DOMAIN f.kept = {}
    /\ {f.row[a].at : a \in Of(f, {"asset"})} \cap DOMAIN f.kept = {}

-----------------------------------------------------------------------------
(* The export (ExportsService.create, collectTalentTransfer).              *)

\* The facts asked for, of the people asked for.
Asked(w, c) == {r \in Of(w, c.kinds) : w.row[r].of \in c.roots}

\* The originals that go along: adopted ones of the people, and those pointed at.
Originals(w, c) ==
    IF c.media
      THEN {a \in Of(w, {"asset"}) : w.row[a].of \in c.roots} \cup Pointed(w, Asked(w, c))
      ELSE {}

\* exactCreditCurrent: a credit to a role counts while the role and its source do.
CreditCurrent(w, r) ==
    LET roles == {t \in w.row[r].refs : RowKind(t) = "role"} IN
    roles # {} =>
        /\ Usable(w, w.row[r].at)
        /\ \A t \in roles : w.row[t].state = "ACTIVE" /\ Usable(w, w.row[t].at)

\* The links between two roots that are both asked for.
Linked(w, c) ==
    {r \in Of(w, Links) : /\ {t \in w.row[r].refs : RowKind(t) \in Roots} \subseteq c.roots
                          /\ RowKind(r) = "credit" => CreditCurrent(w, r)}

\* media.identity: one line per placement, with its own source.
Placements(w, c) ==
    IF c.pictures
      THEN UNION {{[work |-> r, pos |-> i, pic |-> w.row[r].pics[i],
                    cover |-> w.row[r].cover = w.row[r].pics[i],
                    source |-> w.row[w.row[r].pics[i]].at] : i \in DOMAIN w.row[r].pics} :
                  r \in {t \in c.roots : RowKind(t) = "work"}}
      ELSE {}

\* The evidence that goes along (fieldEvidence, identityEvidence).
Grounds(w, c) ==
    {e \in w.evid : \/ c.basis /\ e.row \in Asked(w, c)
                    \/ c.identity /\ e.row \in c.roots}

\* Collects what was asked for; the works go out without their placements,
\* which are the lines of media.
Collected(w, c) ==
    LET rs == c.roots \cup Asked(w, c) \cup Originals(w, c) \cup Linked(w, c)
        named == {w.row[r].at : r \in rs} \cup {e.source : e \in Grounds(w, c)}
                   \cup {m.source : m \in Placements(w, c)}
        header(S) == [s \in S |-> w.src[s]]
    IN [row |-> [r \in rs |-> IF RowKind(r) = "work"
                                THEN [w.row[r] EXCEPT !.pics = <<>>, !.cover = Nobody]
                                ELSE w.row[r]],
        src |-> header({s \in named \ {Nobody} : w.src[s].status # "ERASED"}),
        kept |-> header({s \in named \ {Nobody} : w.src[s].status = "ERASED"}),
        evid |-> Grounds(w, c), media |-> Placements(w, c)]

\* The refusals on the way: a fact that cannot be read whole, an origin that is
\* gone without the evidence that replaces it, a picture without its grant, a
\* source that may not be used.
MayCollect(w, c) ==
    LET people == {r \in c.roots : RowKind(r) = "person"}
        f == Collected(w, c) IN
    /\ c.roots \subseteq DOMAIN w.row
    /\ \A r \in c.roots : Kept(w, r) => r \in people /\ c.identity
    /\ c.identity => \A r \in people : Readable(w, r)
    /\ \A r \in Asked(w, c) :
           /\ Kept(w, r) => c.basis
           /\ ReadWhole(w, r)
           /\ c.basis \/ \A e \in EvidenceOn(w, r) : e.source = w.row[r].at
           /\ c.media \/ (w.row[r].cover = Nobody /\ DOMAIN w.row[r].pics = {})
    /\ \A r \in Linked(w, c) : \A t \in w.row[r].refs : RowKind(t) = "role" => t \in Asked(w, c)
    /\ \A s \in DOMAIN f.src \cup {m.source : m \in f.media} : Usable(w, s)
    /\ \A e \in f.evid : e.rev <= w.src[e.source].rev
    /\ TransferHolds(f)
    /\ DOMAIN f.kept # {} => Retained(f)

-----------------------------------------------------------------------------
(* The rebuild (JsonRebuild.plan and apply).                               *)

\* JsonRebuild.target: one administrator, one scope and nothing else.
Isolated(t) == t.alone /\ DOMAIN t.row = {} /\ DOMAIN t.src = {}

\* validateTalentRebuild
FactsFit(f, t) ==
    /\ TransferHolds(f)
    /\ \A r \in Of(f, Facts \cup {"person"}) : f.row[r].at \in DOMAIN f.src \cup DOMAIN f.kept
    /\ \A r \in Of(f, {"asset"}) : f.row[r].at \in DOMAIN f.src
    /\ \A e \in f.evid : e.source \in DOMAIN f.src
    /\ \A r \in Of(f, {"role"}) :
           /\ f.row[r].value \in t.codes
           /\ f.row[r].state = "ACTIVE" => \A q \in RowsOf(f, "role", f.row[r].of) \ {r} :
                  f.row[q].state # "ACTIVE" \/ f.row[q].value # f.row[r].value
    /\ \A r \in Of(f, {"measure"}) : \A q \in f.row[r].refs :
           f.row[q].state \in {"CONFIRMED", "SUPERSEDED"}
    /\ \A r \in Of(f, {"casting"}) : \A q \in f.row[r].refs : f.row[q].state = "CONFIRMED"

\* Every header is of a source that may be used today, and is there for a row
\* that names it.
SourcesFit(f) ==
    /\ DOMAIN f.src \cap late = {}
    /\ \A s \in DOMAIN f.src : f.src[s].status = "CONFIRMED"
    /\ \A e \in f.evid : e.source \in DOMAIN f.src /\ e.rev <= f.src[e.source].rev
    /\ DOMAIN f.src \subseteq {f.row[r].at : r \in DOMAIN f.row}
                                \cup {e.source : e \in f.evid} \cup {m.source : m \in f.media}

\* The works, their pictures and the links between roots.
WorksFit(f) ==
    LET of(r) == {m \in f.media : m.work = r} IN
    /\ \A r \in Of(f, {"work", "project"}) : f.row[r].at \in DOMAIN f.src
    /\ \A m \in f.media : m.work \in Of(f, {"work"}) /\ m.source \in DOMAIN f.src
    /\ \A m, n \in f.media : m.pic = n.pic => m.source = n.source
    /\ \A r \in Of(f, {"work"}) :
           /\ {m.pos : m \in of(r)} = 0..(Cardinality(of(r)) - 1)
           /\ Cardinality({m.pic : m \in of(r)}) = Cardinality(of(r))
           /\ Cardinality({m \in of(r) : m.cover}) <= 1
           /\ f.row[r].state = "ACTIVE" => of(r) # {} /\ {m.pic : m \in of(r)} \subseteq DOMAIN f.row

LinksFit(f) ==
    \A r \in Of(f, Links) : LET x == f.row[r] IN
        /\ x.refs \subseteq DOMAIN f.row
        /\ x.at = Nobody <=> x.refs \cap Of(f, {"role"}) = {}
        /\ RowKind(r) = "participant" => x.state # "ACTUAL"
        /\ \A t \in x.refs : RowKind(t) = "role" =>
               /\ x.at \in DOMAIN f.src
               /\ f.row[t].of \in x.refs
               /\ f.row[t].value = x.value

\* JsonRebuild.plan: what preview and apply both refuse.
Planned(f, t) ==
    /\ Isolated(t)
    /\ Of(f, Roots) # {}
    /\ Retained(f)
    /\ FactsFit(f, t)
    /\ SourcesFit(f)
    /\ WorksFit(f)
    /\ LinksFit(f)

\* The placements of a work whose originals came along.
Restored(f, r) == {m \in f.media : m.work = r /\ m.pic \in DOMAIN f.row}

\* A mutation of Carried: the identity's evidence is left behind.
FactsCarried(f) == {e \in f.evid : RowKind(e.row) \in Facts}

\* applyTransferEvidence and applyIdentityEvidence, with the review as it was.
Carried(f) == f.evid

\* JsonRebuild.apply: every row with its own id and revision; the sources one
\* epoch further; a work gets back only the pictures whose originals are here.
Rebuilt(f, t) ==
    [t EXCEPT
        !.src = [s \in DOMAIN f.src \cup DOMAIN f.kept |->
                     IF s \in DOMAIN f.kept THEN [f.kept[s] EXCEPT !.epoch = @ + 1]
                                            ELSE [f.src[s] EXCEPT !.epoch = @ + 1]],
        !.row = [r \in DOMAIN f.row |->
                     IF RowKind(r) # "work" THEN f.row[r]
                     ELSE LET back == Restored(f, r)
                              covers == {m.pic : m \in {n \in back : n.cover}}
                          IN [f.row[r] EXCEPT
                                !.pics = [i \in {m.pos : m \in back} |->
                                              (CHOOSE m \in back : m.pos = i).pic],
                                !.cover = IF covers = {} THEN Nobody ELSE CHOOSE a \in covers : TRUE]],
        !.evid = Carried(f)]

-----------------------------------------------------------------------------
(* The steps.                                                              *)

RebuildInit ==
    /\ here \in Worlds
    /\ choice = Nobody
    /\ file = Nobody
    /\ edited = FALSE
    /\ late = {}
    /\ \E codes \in {Values, {}} :
           there = [row |-> <<>>, src |-> <<>>, evid |-> {}, alone |-> TRUE, codes |-> codes]

\* What happened since the export; the bound allows for one more.
Happened == Cardinality(late) + (IF edited THEN 1 ELSE 0) + (IF there.alone THEN 0 ELSE 1)
Happens == file # Nobody /\ DOMAIN there.row = {} /\ Happened < Mishaps

Export(c) ==
    /\ choice = Nobody
    /\ MayCollect(here, c)
    /\ choice' = c
    /\ file' = Collected(here, c)
    /\ UNCHANGED <<here, edited, late, there>>

\* The rows a fact may point at, as the schema has it: its predecessor or the
\* current measurements, or a collection's role.
Aims(f, r) == {{}} \cup {{t} : t \in Of(f, IF RowKind(r) = "collection" THEN {"role"} ELSE {"measure"})}

\* One edit of the payload by hand.
Edits(f) ==
    {[f EXCEPT !.row = Restrict(@, DOMAIN @ \ {r})] : r \in DOMAIN f.row}
    \cup {[f EXCEPT !.src = Restrict(@, DOMAIN @ \ {s})] : s \in DOMAIN f.src}
    \cup {[f EXCEPT !.evid = @ \ {e}] : e \in f.evid}
    \cup {[f EXCEPT !.evid = (@ \ {e}) \cup {[e EXCEPT !.value = v]}] : e \in f.evid, v \in Values}
    \cup {[f EXCEPT !.media = @ \ {m}] : m \in f.media}
    \cup {[f EXCEPT !.row[r].value = v] : r \in DOMAIN f.row, v \in Values}
    \cup {[f EXCEPT !.row[r].at = s] : r \in DOMAIN f.row \ Of(f, Links), s \in Origins}
    \cup UNION {{[f EXCEPT !.row[r].refs = S] : S \in Aims(f, r)} :
                    r \in Of(f, {"measure", "casting", "collection"})}
    \cup {[f EXCEPT !.row[r].refs = @ \ Of(f, {"role"})] : r \in Of(f, Links)}
    \cup {[f EXCEPT !.row[r].pics = Restrict(@, DOMAIN @ \ {0})] : r \in Of(f, {"collection"})}
    \cup {[f EXCEPT !.row[r].cover = Nobody] : r \in Of(f, Facts)}

Edit ==
    /\ Happens
    /\ ~edited
    /\ file' \in Edits(file) \ {file}
    /\ edited' = TRUE
    /\ UNCHANGED <<here, choice, late, there>>

\* A source runs out, wherever it is read.
RunOut(s) ==
    /\ Happens
    /\ late' = late \cup {s}
    /\ UNCHANGED <<here, choice, file, edited, there>>

\* The target gets a second account, a scope or a row of its own.
Occupy ==
    /\ Happens
    /\ there' = [there EXCEPT !.alone = FALSE]
    /\ UNCHANGED <<here, choice, file, edited, late>>

Apply ==
    /\ file # Nobody
    /\ Planned(file, there)
    /\ there' = Rebuilt(file, there)
    /\ UNCHANGED <<here, choice, file, edited, late>>

RebuildNext ==
    \/ \E c \in Choices : Export(c)
    \/ Edit
    \/ \E s \in Origins : RunOut(s)
    \/ Occupy
    \/ Apply

RebuildSpec == RebuildInit /\ [][RebuildNext]_vars

-----------------------------------------------------------------------------
(* Properties.                                                             *)

RebuildTypeOK ==
    /\ here \in Worlds
    /\ choice \in Choices \cup {Nobody}
    /\ edited \in BOOLEAN
    /\ late \subseteq Origins
    /\ there.alone \in BOOLEAN
    /\ DOMAIN there.row \subseteq Rows
    /\ DOMAIN there.src \subseteq Origins

\* What an installation may rely on.  Whatever a row names is there, of the same
\* person where it is a person's; a row whose origin was deleted rests on other
\* sources, for the value it has, and is no proof; there is one profile and one
\* casting profile to a person; the pictures of a collection are numbered without
\* a gap and a cover is one of them; an active work shows a picture.
Whole(w) ==
    /\ \A r \in DOMAIN w.row : LET x == w.row[r] IN
           /\ x.at \in DOMAIN w.src \cup {Nobody}
           /\ x.of \in DOMAIN w.row \cup {Nobody}
           /\ x.refs \subseteq DOMAIN w.row \ {r}
           /\ (Range(x.pics) \cup {x.cover}) \ {Nobody} \subseteq DOMAIN w.row
           /\ RowKind(r) \in Facts =>
                  \A t \in x.refs : w.row[t].of = x.of
           /\ x.at # Nobody /\ Kept(w, r) =>
                  /\ \E e \in EvidenceOn(w, r) : /\ w.src[e.source].status = "CONFIRMED"
                                                 /\ w.src[e.source].rev = e.rev
                                                 /\ e.value = x.value
                  /\ x.state # "VERIFIED"
           /\ RowKind(r) \in {"profile", "casting"} => RowsOf(w, RowKind(r), x.of) = {r}
           /\ RowKind(r) = "collection" =>
                  DOMAIN x.pics = 0..(Cardinality(DOMAIN x.pics) - 1)
           /\ x.cover # Nobody /\ RowKind(r) \in {"collection", "work"} => x.cover \in Range(x.pics)
           /\ RowKind(r) = "work" /\ x.state = "ACTIVE" => DOMAIN x.pics # {}
    /\ \A e \in w.evid : e.row \in DOMAIN w.row /\ e.source \in DOMAIN w.src

\* However the file was edited, the target is either left alone or made whole
\* (JsonRebuild.plan refuses before anything is written).
RebuiltIsWhole == Whole(there)

\* An export that was not edited is accepted by a fresh target with the same
\* dictionary, while its sources last: what create lets out, plan lets in.  Three
\* things are known not to travel: an active work without its originals, a
\* placement after a gap, and a participation that took place.
Travels(f) ==
    /\ \A r \in Of(f, {"work"}) : LET own == {m \in f.media : m.work = r} IN
           /\ {m.pos : m \in own} = 0..(Cardinality(own) - 1)
           /\ f.row[r].state # "ACTIVE" \/ (own # {} /\ {m.pic : m \in own} \subseteq DOMAIN f.row)
    /\ \A r \in Of(f, {"participant"}) : f.row[r].state # "ACTUAL"

ExportsArrive ==
    file # Nobody /\ ~edited /\ DOMAIN file.src \cap late = {}
      /\ Isolated(there) /\ there.codes = Values /\ Travels(file) => Planned(file, there)

\* The type, and what holds of the target and of the file (exports.ts and
\* rebuild.ts).
RebuildOK == RebuildTypeOK /\ RebuiltIsWhole /\ ExportsArrive

\* What came of an export that was not edited can be exported again, with the
\* same choice, and is the same: no fact, evidence, original or header of a
\* deleted source is lost or gained on the way, only the epochs of the sources
\* have moved.  The placements without originals are the one loss.
Timeless(f) == [f EXCEPT !.src = [s \in DOMAIN @ |-> [@[s] EXCEPT !.epoch = 0]],
                         !.kept = [s \in DOMAIN @ |-> [@[s] EXCEPT !.epoch = 0]]]
Shown(f) == {m \in f.media : m.pic \in DOMAIN f.row}

CopyIsTheSame ==
    DOMAIN there.row # {} /\ ~edited /\ DOMAIN file.src \cap late = {} =>
        LET again == [choice EXCEPT !.pictures = FALSE]
            once == Collected(here, again) IN
        /\ MayCollect(there, again)
        /\ Timeless(Collected(there, again)) = Timeless(once)
        /\ \A r \in Of(file, {"work"}) :
               Range(there.row[r].pics) = {m.pic : m \in {n \in Shown(file) : n.work = r}}

=============================================================================
