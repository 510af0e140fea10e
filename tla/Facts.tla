------------------------------- MODULE Facts -------------------------------
(***************************************************************************)
(* The professional records of one person: facts, the recorded basis of     *)
(* their fields (talent-v2.ts, talent-v2-graph.ts), and what the deletion of *)
(* a source, of a picture or of the person does to them (talent-*-erasure). *)
(*                                                                         *)
(* Of every record one field is followed: a name, the validity of a role,    *)
(* the date of a measurement, the adult state, the cover of a collection.    *)
(* A row has its id and its kind for good; every command runs in one          *)
(* transaction, at the revision it was given. Scopes are all visible.        *)
(***************************************************************************)
EXTENDS Naturals, FiniteSets, SequencesExt

CONSTANTS
    Sources,     \* the evidence sources
    Facts,       \* the rows of the person, the person itself among them
    Me,          \* the row of the person
    KindOf,      \* the table of every row
    Assets,      \* the adopted pictures of the person
    AssetSource, \* the source of every picture
    Offers,      \* the field proposals
    None,        \* no row, no asset, no source
    MaxItems,    \* bound: pictures in a collection (200)
    MaxRev       \* bound: revisions of a source and of the person

Kinds == {"person", "profile", "role", "capability", "casting", "measurement", "adult", "collection"}

\* what the constants must satisfy
FactsAssumption ==
    /\ KindOf \in [Facts -> Kinds]
    /\ \A f \in Facts : KindOf[f] = "person" <=> f = Me
    /\ AssetSource \in [Assets -> Sources]
    /\ {MaxItems, MaxRev} \subseteq Nat
    /\ None \notin Sources \cup Facts \cup Assets
    /\ Sources \cap Facts = {} /\ Sources \cap Assets = {} /\ Facts \cap Assets = {}

VARIABLES
    src,      \* sources: status and revision
    fact,     \* the rows
    items,    \* mediaCollectionItems: the pictures of every collection, in order
    evid,     \* evidence: the recorded basis of the followed field
    offer,    \* fieldProposals
    asset,    \* the state of every picture
    plan,     \* the deletion request under way, with the graph it froze
    spoken    \* history: rows whose field has had evidence

factVars == <<src, fact, items, evid, offer, asset, plan, spoken>>

Values(k) ==
    CASE k = "role" -> {"early", "late", "always"}
      [] k = "measurement" -> {"day1", "day2"}
      [] k = "adult" -> {"UNKNOWN", "DECLARED", "VERIFIED"}
      [] k = "collection" -> Assets \cup {None}
      [] OTHER -> {"v1", "v2"}
Statuses == {"ABSENT", "ACTIVE", "ARCHIVED", "ERASED", "DRAFT", "CONFIRMED", "SUPERSEDED"}

\* up: personRoleId; prior: supersedesId, or the currentMeasurementSetId of a casting profile;
\* proof: evidenceAssetId; now: isCurrent
Absent == [source |-> None, value |-> None, status |-> "ABSENT", rev |-> 0,
           up |-> None, prior |-> None, proof |-> None, now |-> FALSE]
NoOffer == [fact |-> None, value |-> None, source |-> None, srev |-> 0, base |-> 0,
            state |-> "NONE", seen |-> None]
NoGraph == [rows |-> << >>, pictures |-> << >>, evid |-> {}, offers |-> << >>, srcs |-> << >>]
NoPlan == [path |-> "NONE", target |-> None, trev |-> 0, stage |-> "NONE", graph |-> NoGraph, keep |-> << >>]

\* the row of a fact (talent-v2-model.ts)
FactRow == [source: Sources \cup {None}, value: {"early", "late", "always", "day1", "day2", "UNKNOWN",
                "DECLARED", "VERIFIED", "v1", "v2", None} \cup Assets, status: Statuses, rev: Nat,
            up: Facts \cup {None}, prior: Facts \cup {None}, proof: Assets \cup {None}, now: BOOLEAN]

TypeOK ==
    /\ src \in [Sources -> [status : {"TEMP", "CONFIRMED", "SUSPENDED", "ERASED"}, rev : 1..MaxRev]]
    /\ \A f \in Facts : fact[f] \in FactRow /\ fact[f].value \in Values(KindOf[f]) \cup {None}
    /\ \A f \in Facts : items[f] \in Seq(Assets) /\ Len(items[f]) <= MaxItems
    /\ \A e \in evid : e.fact \in Facts /\ e.source \in Sources
    /\ DOMAIN offer = Offers
    /\ asset \in [Assets -> {"READY", "ERASED"}]
    /\ plan.stage \in {"NONE", "DRAFT", "BLOCKED", "FROZEN", "CLEANED"}
    /\ spoken \subseteq Facts

-----------------------------------------------------------------------------
(* What can be read (talent-v2-graph.ts) *)

Live(f) == fact[f].status \notin {"ABSENT", "ERASED"}
LiveOf(k) == {f \in Facts : KindOf[f] = k /\ Live(f)}
Blocked(x) == plan.target = x /\ plan.stage \in {"BLOCKED", "FROZEN", "CLEANED"}

\* sourceUsable, sourceCurrent
Usable(s) == src[s].status \in {"TEMP", "CONFIRMED"} /\ ~Blocked(s)
PersonOpen == Live(Me) /\ ~Blocked(Me)
MayEdit == PersonOpen /\ fact[Me].status # "ARCHIVED" /\ fact[Me].rev < MaxRev

Basis(f) == {e \in evid : e.fact = f}
Supports(e, v) == e.value = v /\ Usable(e.source) /\ src[e.source].rev = e.srev
FieldReadable(f) ==
    IF Basis(f) # {} THEN \E e \in Basis(f) : Supports(e, fact[f].value) ELSE Usable(fact[f].source)

AssetReadable(a) == asset[a] = "READY" /\ Usable(AssetSource[a]) /\ ~Blocked(a) /\ PersonOpen

Shown(f) ==
    /\ Live(f) /\ PersonOpen
    /\ \/ Usable(fact[f].source)
       \/ KindOf[f] # "collection" /\ \E e \in Basis(f) : Supports(e, fact[f].value)
Readable(f) == Shown(f) /\ (fact[f].up # None => Shown(fact[f].up))

Valid(f) ==
    /\ Shown(f) /\ fact[f].status \in {"ACTIVE", "CONFIRMED"}
    /\ KindOf[f] \in {"measurement", "adult"} => FieldReadable(f)
    /\ KindOf[f] # "profile" => \E p \in LiveOf("profile") : fact[p].status = "ACTIVE"
    /\ KindOf[f] = "adult" /\ fact[f].value = "VERIFIED" =>
           Usable(fact[f].source) /\ fact[f].proof # None /\ AssetReadable(fact[f].proof)
UsableFact(f) == Valid(f) /\ (fact[f].up # None => Valid(fact[f].up))

-----------------------------------------------------------------------------
(* Writing a row (talent-v2.ts) *)

Overlap(a, b) == a = b \/ "always" \in {a, b}
Others(f, k) == LiveOf(k) \ {f}

\* A mutation of PeriodsApart: only the same period counts as an overlap.
PeriodsDiffer(f, row) ==
    row.status = "ACTIVE" =>
        \A g \in Others(f, "role") : fact[g].status = "ACTIVE" => fact[g].value # row.value

\* the periods of one role code never overlap while both are ACTIVE
PeriodsApart(f, row) ==
    row.status = "ACTIVE" =>
        \A g \in Others(f, "role") : fact[g].status = "ACTIVE" => ~Overlap(fact[g].value, row.value)
\* a measurement follows a confirmed one, of the same day or earlier
FollowsPrior(row) ==
    row.prior # None =>
        /\ Live(row.prior) /\ fact[row.prior].status \in {"CONFIRMED", "SUPERSEDED"} /\ Readable(row.prior)
        /\ ~(fact[row.prior].value = "day2" /\ row.value = "day1")
CollectionFits(f, row) ==
    /\ \A a \in ToSet(items[f]) : AssetReadable(a)
    /\ row.value # None => row.value \in ToSet(items[f])
    /\ row.now => row.status = "ACTIVE" /\ \A g \in Others(f, "collection") : ~fact[g].now

Validate(f, row) ==
    LET k == KindOf[f] IN
    /\ k # "profile" => \E p \in LiveOf("profile") : fact[p].status = "ACTIVE"
    /\ row.up # None => Live(row.up) /\ UsableFact(row.up)
    /\ k \in {"profile", "casting"} => Others(f, k) = {}
    /\ k = "role" => PeriodsApart(f, row)
    /\ k \in {"casting", "measurement", "adult"} => \E r \in LiveOf("role") : UsableFact(r)
    /\ k = "measurement" => FollowsPrior(row)
    /\ k = "adult" =>
           /\ row.status = "ACTIVE" => \A g \in Others(f, k) : fact[g].status # "ACTIVE"
           /\ row.proof # None => AssetReadable(row.proof)
    /\ k = "collection" => CollectionFits(f, row)

\* touch
Touched(row) == [row EXCEPT !.rev = @ + 1]

Recorded(f, v, S) == {[fact |-> f, value |-> v, source |-> s, srev |-> src[s].rev] : s \in S}
\* replaceFact, evidenceFor the changed field by the sources S, bump
Write(f, row, S) ==
    /\ fact' = IF f = Me THEN [fact EXCEPT ![Me] = row]
                         ELSE [fact EXCEPT ![f] = row, ![Me] = Touched(@)]
    /\ evid' = evid \cup Recorded(f, row.value, S)
    /\ spoken' = IF S = {} THEN spoken ELSE spoken \cup {f}

CreateFact(f, s, v, up, prior) ==
    LET row == [Absent EXCEPT !.source = s, !.value = v, !.up = up, !.prior = prior, !.rev = 1,
                              !.status = IF KindOf[f] = "measurement" THEN "DRAFT" ELSE "ACTIVE"]
    IN  /\ MayEdit /\ Usable(s) /\ f # Me /\ fact[f] = Absent /\ v # "VERIFIED"
        /\ KindOf[f] = "collection" => v = None
        /\ Validate(f, row)
        /\ Write(f, row, {s})
        /\ UNCHANGED <<src, items, offer, asset, plan>>

\* a new value, with its evidence, or a new status
PatchFact(f, v, status) ==
    LET row == [Touched(fact[f]) EXCEPT !.value = v, !.status = status]
    IN  /\ MayEdit /\ f # Me /\ Live(f) /\ Readable(f) /\ Usable(fact[f].source)
        /\ v # "VERIFIED" \/ v = fact[f].value
        /\ IF KindOf[f] = "measurement"
           THEN fact[f].status = "DRAFT" /\ status = "DRAFT"
           ELSE status \in {"ACTIVE", "ARCHIVED"}
        /\ (v # fact[f].value) # (status # fact[f].status)
        /\ Validate(f, row)
        /\ Write(f, row, IF v # fact[f].value THEN {fact[f].source} ELSE {})
        /\ UNCHANGED <<src, items, offer, asset, plan>>

\* the profile, and the first role, from the origin of the person: no evidence is written
Enroll(p, r) ==
    /\ MayEdit /\ Usable(fact[Me].source) /\ LiveOf("profile") = {} /\ LiveOf("role") = {}
    /\ fact[p] = Absent /\ fact[r] = Absent
    /\ fact' = [f \in Facts |->
          IF f \in {p, r}
          THEN [Absent EXCEPT !.source = fact[Me].source, !.status = "ACTIVE", !.rev = 1,
                              !.value = IF f = r THEN "always" ELSE "v1"]
          ELSE IF f = Me THEN Touched(fact[Me]) ELSE fact[f]]
    /\ UNCHANGED <<src, items, evid, offer, asset, plan, spoken>>

\* patchPerson: no evidence either
PatchPerson(v, status) ==
    /\ PersonOpen /\ Usable(fact[Me].source) /\ fact[Me].rev < MaxRev
    /\ (v # fact[Me].value) # (status # fact[Me].status)
    /\ fact[Me].status = "ARCHIVED" => status = "ACTIVE"
    /\ Write(Me, [Touched(fact[Me]) EXCEPT !.value = v, !.status = status], {})
    /\ UNCHANGED <<src, items, offer, asset, plan>>

ApplyAiIdentity(v, S) ==
    /\ MayEdit /\ Usable(fact[Me].source) /\ S # {} /\ \A s \in S : Usable(s)
    /\ Write(Me, [Touched(fact[Me]) EXCEPT !.value = v], S)
    /\ UNCHANGED <<src, items, offer, asset, plan>>

\* owner: what evidence and proposals may be about
Owner(f) == IF f = Me THEN PersonOpen /\ Usable(fact[Me].source) ELSE Live(f) /\ Readable(f)

AddEvidence(f, s) ==
    /\ Owner(f) /\ Usable(s) /\ fact[Me].rev < MaxRev
    /\ fact' = [fact EXCEPT ![Me] = Touched(@)]
    /\ evid' = evid \cup Recorded(f, fact[f].value, {s})
    /\ spoken' = spoken \cup {f}
    /\ UNCHANGED <<src, items, offer, asset, plan>>

Propose(i, f, s, v) ==
    /\ offer[i].state = "NONE" /\ Owner(f) /\ Usable(s) /\ v # "VERIFIED"
    /\ offer' = [offer EXCEPT ![i] =
          [fact |-> f, value |-> v, source |-> s, srev |-> src[s].rev, base |-> fact[f].rev,
           state |-> "PENDING", seen |-> fact[f].value]]
    /\ UNCHANGED <<src, fact, items, evid, asset, plan, spoken>>

\* A mutation of Stale: the revision of the owner is not compared.
SourceMoved(o) == ~Owner(o.fact) \/ src[o.source].rev # o.srev \/ ~Usable(o.source)
Stale(o) ==
    \/ ~Owner(o.fact) \/ fact[o.fact].rev # o.base
    \/ src[o.source].rev # o.srev \/ ~Usable(o.source)

Decide(i, accept) ==
    LET o == offer[i]
        row == [Touched(fact[o.fact]) EXCEPT !.value = o.value]
        verdict == IF Stale(o) THEN "STALE" ELSE IF accept THEN "APPLIED" ELSE "REJECTED"
    IN  /\ o.state = "PENDING" /\ src[o.source].status # "ERASED" /\ ~Blocked(o.source)
        /\ offer' = [offer EXCEPT ![i].state = verdict]
        /\ IF verdict = "APPLIED"
           THEN /\ o.fact # Me => Validate(o.fact, row)
                /\ KindOf[o.fact] = "measurement" => fact[o.fact].status = "DRAFT"
                /\ fact[Me].rev < MaxRev
                /\ Write(o.fact, row, {o.source})
           ELSE UNCHANGED <<fact, evid, spoken>>
        /\ UNCHANGED <<src, items, asset, plan>>

\* confirm a measurement: it becomes the current one, and its predecessor is superseded
Confirm(m) ==
    /\ KindOf[m] = "measurement" /\ MayEdit /\ fact[m].status = "DRAFT"
    /\ Usable(fact[m].source) /\ src[fact[m].source].status = "CONFIRMED"
    /\ \E c \in LiveOf("casting") :
          fact' = [f \in Facts |->
              CASE f = m -> [Touched(fact[m]) EXCEPT !.status = "CONFIRMED"]
                [] f = fact[m].prior -> [Touched(fact[f]) EXCEPT !.status = "SUPERSEDED"]
                [] f = c -> [Touched(fact[c]) EXCEPT !.prior = m]
                [] f = Me -> Touched(fact[Me])
                [] OTHER -> fact[f]]
    /\ UNCHANGED <<src, items, evid, offer, asset, plan, spoken>>

AdultVerify(f, a) ==
    /\ KindOf[f] = "adult" /\ MayEdit /\ Live(f)
    /\ Usable(fact[f].source) /\ src[fact[f].source].status = "CONFIRMED" /\ AssetReadable(a)
    /\ Write(f, [Touched(fact[f]) EXCEPT !.value = "VERIFIED", !.proof = a], {fact[f].source})
    /\ UNCHANGED <<src, items, offer, asset, plan>>

-----------------------------------------------------------------------------
(* Collections of pictures (talent-v2.ts collectionMutation, media-collections.ts) *)

\* the pictures of q that are not in A, in their order
Without(q, A) ==
    LET left == {i \in DOMAIN q : q[i] \notin A}
    IN  [n \in 1..Cardinality(left) |->
            q[CHOOSE i \in left : Cardinality({j \in left : j < i}) = n - 1]]
CoverOf(v, q) == IF v \in ToSet(q) THEN v ELSE None

\* the new order of the pictures; a removal that leaves no cover records that, by the own source
Mutate(c, q) ==
    LET cover == CoverOf(fact[c].value, q)
        removed == Len(q) < Len(items[c])
    IN  /\ KindOf[c] = "collection" /\ MayEdit /\ Live(c) /\ UsableFact(c)
        /\ \/ \E a \in Assets : AssetReadable(a) /\ a \notin ToSet(items[c]) /\ q = Append(items[c], a)
           \/ \E a \in ToSet(items[c]) : q = Without(items[c], {a})
           \/ q # items[c] /\ Len(q) = Len(items[c]) /\ ToSet(q) = ToSet(items[c])
        /\ Len(q) <= MaxItems
        /\ items' = [items EXCEPT ![c] = q]
        /\ Write(c, [Touched(fact[c]) EXCEPT !.value = cover],
                 IF removed /\ cover = None THEN {fact[c].source} ELSE {})
        /\ UNCHANGED <<src, offer, asset, plan>>

\* applyCollection: the whole collection at once, under the source of this change.  The facts
\* have one role and one type of collection, so that all others are rivals for `now'.
SaveCollection(c, s, q, cover, now) ==
    /\ KindOf[c] = "collection" /\ PersonOpen /\ fact[Me].rev < MaxRev /\ Usable(s)
    /\ Live(c) => Usable(fact[c].source)
    /\ \A a \in ToSet(q) \cup ToSet(items[c]) : AssetReadable(a)
    /\ cover \in ToSet(q) \cup {None}
    /\ \A g \in Others(c, "collection") : now /\ fact[g].now => src[fact[g].source].status # "ERASED" /\ ~Blocked(fact[g].source)
    /\ fact' = [f \in Facts |->
          CASE f = c -> [Touched(fact[c]) EXCEPT !.source = s, !.value = cover, !.status = "ACTIVE", !.now = now]
            [] f = Me -> Touched(fact[Me])
            [] f \in Others(c, "collection") /\ now /\ fact[f].now -> [Touched(fact[f]) EXCEPT !.now = FALSE]
            [] OTHER -> fact[f]]
    /\ items' = [items EXCEPT ![c] = q]
    /\ evid' = evid \cup Recorded(c, cover, {s})
    /\ spoken' = spoken \cup {c}
    /\ UNCHANGED <<src, offer, asset, plan>>

-----------------------------------------------------------------------------
(* The sources themselves (modelled in Records) and the recovery of a workspace *)

ChangeSource(s, status) ==
    /\ src[s].status # "ERASED" /\ ~Blocked(s) /\ src[s].rev < MaxRev
    /\ src' = [src EXCEPT ![s] = [status |-> status, rev |-> @.rev + 1]]
    /\ UNCHANGED <<fact, items, evid, offer, asset, plan, spoken>>

\* quarantineTalentActors
Quarantine ==
    /\ offer' = [i \in Offers |-> IF offer[i].state = "PENDING" THEN [offer[i] EXCEPT !.state = "STALE"] ELSE offer[i]]
    /\ offer' # offer
    /\ UNCHANGED <<src, fact, items, evid, asset, plan, spoken>>

-----------------------------------------------------------------------------
(* What a deletion reaches: the graph it freezes and compares *)

\* The assets the source owns; one that a submission brought in names its source in
\* personMedia and is left out, as finalization refuses while there is such a row.
SourceAssets(s) == {a \in Assets : AssetSource[a] = s /\ asset[a] = "READY"}
Pictures(t) == IF t \in Assets THEN {t} ELSE IF t \in Sources THEN SourceAssets(t) ELSE {}
Linked(A) == {c \in LiveOf("collection") : ToSet(items[c]) \cap A # {}}
Proven(A) == {f \in LiveOf("adult") : fact[f].proof \in A}

Owned(s) == {f \in Facts : Live(f) /\ fact[f].source = s}
EvidOf(s) == {e \in evid : e.source = s}
OffersIn(F) == {i \in Offers : offer[i].state # "NONE" /\ offer[i].fact \in F}
OffersOf(s) == {i \in Offers : offer[i].source = s}

\* parentReferences, and the profile every record but a language hangs on
ParentsOf(f) ==
    ({fact[f].up, fact[f].prior} \ {None})
        \cup (IF KindOf[f] \in {"profile", "person"} THEN {} ELSE LiveOf("profile"))

\* sourceFactGraph: the facts of a source, those it is evidence for, and all that hang on them
Selected(s) ==
    LET All == {f \in Facts : Live(f) /\ f # Me}
        Base == IF fact[Me].source = s THEN All
                ELSE {f \in All : fact[f].source = s \/ \E e \in EvidOf(s) : e.fact = f}
        Closed(S) == Base \subseteq S /\ \A f \in All : ParentsOf(f) \cap S # {} => f \in S
    IN  {f \in All : \A S \in SUBSET All : Closed(S) => f \in S}

\* a field of the source that nothing else supports, with its present value
Unsupported(s) ==
    {f \in {e.fact : e \in EvidOf(s)} :
        ~ \E e \in Basis(f) : e.source # s /\ Supports(e, fact[f].value)}
\* sourceEvidenceGraph: a source that owns nothing, and is nowhere the only basis
MayWithdraw(s) == Owned(s) = {} /\ Unsupported(s) = {}

\* scan: which graph a deletion plans
PathOf(t) ==
    IF t = Me THEN "PERSON"
    ELSE IF t \in Assets THEN "PICTURE"
    ELSE IF Owned(t) # {} THEN IF Me \in Unsupported(t) /\ fact[Me].source # t THEN "NONE" ELSE "FACTS"
    ELSE IF EvidOf(t) = {} /\ OffersOf(t) = {} THEN "PICTURE"
    ELSE IF ~MayWithdraw(t) THEN "NONE"
    ELSE IF SourceAssets(t) # {} THEN "FACTS" ELSE "EVIDENCE"

Content(row) == [row EXCEPT !.rev = 0]

Graph(path, t) ==
    LET chosen == IF path = "FACTS" THEN Selected(t) ELSE {}
        own == IF fact[Me].source = t THEN {Me} ELSE {}
        about == {e.fact : e \in EvidOf(t)} \cup {offer[i].fact : i \in OffersOf(t)}
        touched == Linked(Pictures(t)) \cup Proven(Pictures(t))
        asked == {i \in Offers : offer[i].state = "PENDING"
                     /\ (offer[i].fact \in Proven(Pictures(t)) \/ offer[i].value \in Pictures(t))}
        full == CASE path = "EVIDENCE" -> about
                  [] path = "FACTS" -> chosen \cup own \cup touched \cup {offer[i].fact : i \in OffersOf(t)}
                                          \cup UNION {ParentsOf(f) : f \in chosen}
                  [] path = "PICTURE" -> touched \cup ({offer[i].fact : i \in asked} \ {Me})
                  [] OTHER -> {f \in Facts : Live(f) /\ f # Me}
        whose == CASE path = "EVIDENCE" -> about
                   [] path = "FACTS" -> chosen \cup own \cup (about \cap {Me})
                   [] path = "PICTURE" -> Proven(Pictures(t))
                   [] OTHER -> {f \in Facts : f # Me}
        basis == {e \in evid : e.fact \in whose \/ (path = "FACTS" /\ e.source = t)}
        named == CASE path = "EVIDENCE" -> OffersOf(t)
                   [] path = "FACTS" -> OffersOf(t) \cup OffersIn(chosen \cup own) \cup asked
                   [] path = "PICTURE" -> asked
                   [] OTHER -> OffersIn(Facts)
        shown == full \cup (whose \cap {Me})
        known == {fact[f].source : f \in shown} \cup {e.source : e \in basis}
                     \cup {offer[i].source : i \in named} \cup {AssetSource[a] : a \in Pictures(t)}
                     \cup (IF path = "PERSON" THEN {} ELSE {fact[Me].source})
    IN  [rows |-> [f \in shown |-> IF f \in full THEN fact[f] ELSE Content(fact[f])],
         pictures |-> [c \in shown |-> items[c]],
         evid |-> basis, offers |-> [i \in named |-> offer[i]],
         srcs |-> [s \in known \ {t, None} |-> src[s]]]

Unchanged == Graph(plan.path, plan.target) = plan.graph /\ PathOf(plan.target) = plan.path

-----------------------------------------------------------------------------
(* A deletion of a source, a picture or the person, as far as these rows go *)

RevOf(t) == IF t \in Sources THEN src[t].rev ELSE IF t = Me THEN fact[Me].rev ELSE 0

\* create: a new request takes the place of a draft
Assess(t) ==
    /\ plan.stage \in {"NONE", "DRAFT"} /\ PersonOpen /\ PathOf(t) # "NONE"
    /\ IF t \in Sources THEN src[t].status # "ERASED" ELSE t \in Assets => asset[t] = "READY"
    /\ plan' = [NoPlan EXCEPT !.path = PathOf(t), !.target = t, !.trev = RevOf(t), !.stage = "DRAFT",
                              !.graph = Graph(PathOf(t), t)]
    /\ UNCHANGED <<src, fact, items, evid, offer, asset, spoken>>

Block ==
    /\ plan.stage = "DRAFT" /\ Unchanged /\ RevOf(plan.target) = plan.trev
    /\ plan' = [plan EXCEPT !.stage = "BLOCKED"]
    /\ src' = IF plan.target \in Sources THEN [src EXCEPT ![plan.target].rev = @ + 1] ELSE src
    /\ fact' = IF plan.target = Me THEN [fact EXCEPT ![Me] = Touched(@)] ELSE fact
    /\ RevOf(plan.target) < MaxRev
    /\ UNCHANGED <<items, evid, offer, asset, spoken>>

\* supportedRetention, validateIdentityRetention: other evidence of the value as it is
Supported(f, b) ==
    /\ b # plan.target /\ src[b].status = "CONFIRMED"
    /\ \E e \in Basis(f) : e.source = b /\ Supports(e, fact[f].value)
    /\ ~(KindOf[f] = "adult" /\ fact[f].value = "VERIFIED")

\* validateSourceFactPlan: what is kept has its own basis, its person, its parents and its proof
KeepFits(keep) ==
    LET K == DOMAIN keep  S == Selected(plan.target) IN
    \A f \in K :
        /\ Supported(f, keep[f])
        /\ f = Me \/ (fact[Me].source = plan.target => Me \in K)
        /\ fact[f].proof \notin SourceAssets(plan.target)
        /\ ParentsOf(f) \cap S \subseteq K

\* decide, freezePlan
Freeze(keep) ==
    /\ plan.stage = "BLOCKED"
    /\ plan.path \in {"FACTS", "PERSON"} => Unchanged
    /\ DOMAIN keep \subseteq IF plan.path # "FACTS" THEN {}
                             ELSE Selected(plan.target) \cup (IF fact[Me].source = plan.target THEN {Me} ELSE {})
    /\ KeepFits(keep)
    /\ plan' = [plan EXCEPT !.stage = "FROZEN", !.keep = keep]
    /\ UNCHANGED <<src, fact, items, evid, offer, asset, spoken>>

\* applyTalentAssetGraph: a row without the pictures A
Unpictured(f, A) ==
    IF f \in Linked(A) THEN [Touched(fact[f]) EXCEPT !.value = CoverOf(@, Without(items[f], A))]
    ELSE IF f \in Proven(A) THEN [Touched(fact[f]) EXCEPT !.value = "UNKNOWN", !.proof = None]
    ELSE fact[f]

\* the rows and the person whose records go (eraseSourceFacts, eraseTalentPersonGraph)
Doomed ==
    CASE plan.path = "FACTS" -> Selected(plan.target) \ DOMAIN plan.keep
      [] plan.path = "PERSON" -> {f \in Facts : Live(f) /\ f # Me}
      [] OTHER -> {}
\* the rows whose evidence and proposals go
Silenced ==
    IF plan.path = "FACTS" /\ fact[Me].source = plan.target /\ Me \notin DOMAIN plan.keep
    THEN Doomed \cup {Me} ELSE Doomed

Execute ==
    LET t == plan.target
        A == IF plan.path \in {"FACTS", "PICTURE"} THEN Pictures(t) ELSE {}
        stale(o) == o.state = "PENDING" /\ (o.fact \in Proven(A) \/ o.value \in A)
        gone(o) == o.fact \in Silenced \/ (plan.path \in {"FACTS", "EVIDENCE"} /\ o.source = t)
                       \/ (plan.path = "PERSON" /\ o.fact = Me)
    IN  /\ plan.stage = "FROZEN" /\ Unchanged /\ KeepFits(plan.keep) /\ fact[Me].rev < MaxRev
        /\ fact' = [f \in Facts |-> IF f \in Doomed THEN Absent
                                    ELSE IF f = Me THEN Touched(fact[Me]) ELSE Unpictured(f, A)]
        /\ items' = [f \in Facts |-> IF f \in Doomed THEN << >> ELSE Without(items[f], A)]
        /\ evid' = {e \in evid : e.fact \notin Silenced
                        /\ (plan.path \in {"FACTS", "EVIDENCE"} => e.source # t)}
        /\ offer' = [i \in Offers |-> IF gone(offer[i]) THEN NoOffer
                                      ELSE IF stale(offer[i]) THEN [offer[i] EXCEPT !.state = "STALE"] ELSE offer[i]]
        /\ spoken' = spoken \ Silenced
        /\ plan' = [plan EXCEPT !.stage = "CLEANED"]
        /\ UNCHANGED <<src, asset>>

\* the finalization of a person the source alone stood for
ErasePerson ==
    /\ plan.stage = "CLEANED" /\ plan.path = "FACTS" /\ Live(Me)
    /\ fact[Me].source = plan.target /\ Me \notin DOMAIN plan.keep
    /\ fact' = [fact EXCEPT ![Me].status = "ERASED"]
    /\ UNCHANGED <<src, items, evid, offer, asset, plan, spoken>>

\* assertSourceFactRetentionComplete: what is kept is still as it was decided
StillKept ==
    LET K == plan.keep IN
    /\ ~(Me \in Unsupported(plan.target) /\ fact[Me].source # plan.target)
    /\ \A f \in DOMAIN K : Usable(K[f]) /\ K[f] \in DOMAIN plan.graph.srcs
                               /\ src[K[f]] = plan.graph.srcs[K[f]]
    /\ \A f \in Owned(plan.target) :
           f \in DOMAIN K /\ Content(fact[f]) = Content(plan.graph.rows[f]) /\ Supported(f, K[f])

\* assertTalentFinalizationClean: nothing that is not kept still refers to the target
Clean ==
    CASE plan.path = "PERSON" -> \A f \in Facts : Live(f) => f = Me
      [] plan.target \in Assets ->
             \A f \in Facts : Live(f) => plan.target \notin {fact[f].proof, fact[f].value} \cup ToSet(items[f])
      [] OTHER -> /\ EvidOf(plan.target) = {} /\ OffersOf(plan.target) = {}
                  /\ IF plan.path = "FACTS" THEN StillKept ELSE Owned(plan.target) = {}

Finish ==
    LET t == plan.target IN
    /\ plan.stage = "CLEANED" /\ Clean
    /\ plan' = NoPlan
    /\ src' = IF t \in Sources THEN [src EXCEPT ![t].status = "ERASED"] ELSE src
    /\ asset' = [a \in Assets |-> IF a \in Pictures(t) THEN "ERASED" ELSE asset[a]]
    /\ fact' = IF t = Me THEN [fact EXCEPT ![Me].status = "ERASED"] ELSE fact
    /\ UNCHANGED <<items, evid, offer, spoken>>

-----------------------------------------------------------------------------
(* Properties *)

\* A field whose value has had recorded evidence is never again judged by the origin of its row
\* alone, however its sources are withdrawn (talent-source-erasure.ts: "removing the last row
\* must not activate fallback").
NoFallback == \A f \in spoken : Live(f) => Basis(f) # {}

\* Every reference leads to a row that is there (talent-v2-integrity.ts): parents, predecessors,
\* the owners of evidence and proposals, a profile, and a person that is not erased.
RefsHold ==
    /\ \A f \in Facts : Live(f) /\ f # Me =>
           /\ fact[Me].status # "ERASED"
           /\ \A p \in {fact[f].up, fact[f].prior} \ {None} : Live(p)
           /\ KindOf[f] \in {"role", "capability"} => LiveOf("profile") # {}
    /\ \A e \in evid : fact[e.fact].status # "ABSENT"
    /\ \A i \in OffersIn(Facts) : fact[offer[i].fact].status # "ABSENT"

\* The measurement a casting profile shows is a confirmed one, and two measurements are never
\* in force together: what a measurement past its draft replaces is superseded, also when a
\* deletion takes one of the two (confirm, sourceFactGraph).
CurrentIsConfirmed ==
    /\ \A c \in LiveOf("casting") : fact[c].prior # None => fact[fact[c].prior].status = "CONFIRMED"
    /\ \A m \in LiveOf("measurement") : fact[m].prior # None /\ fact[m].status # "DRAFT" =>
           fact[fact[m].prior].status = "SUPERSEDED"

\* Two active periods of one role never overlap, by whatever path they were written (validate).
PeriodsHold ==
    \A f, g \in LiveOf("role") :
        f # g /\ fact[f].status = "ACTIVE" /\ fact[g].status = "ACTIVE" =>
            ~Overlap(fact[f].value, fact[g].value)

\* A verified adult has a proof that still exists, and a collection shows a cover out of its own
\* pictures, none of them erased, once each; one collection is the current one
\* (talent-v2-integrity.ts).
PicturesHold ==
    /\ \A f \in LiveOf("adult") : fact[f].value = "VERIFIED" => fact[f].proof # None /\ asset[fact[f].proof] # "ERASED"
    /\ \A c \in LiveOf("collection") :
           /\ fact[c].value \in ToSet(items[c]) \cup {None}
           /\ IsInjective(items[c]) /\ \A a \in ToSet(items[c]) : asset[a] # "ERASED"
           /\ fact[c].now => fact[c].status = "ACTIVE" /\ \A g \in Others(c, "collection") : ~fact[g].now

\* An erased source is evidence for nothing, proposes nothing, and what is kept of it rests on
\* evidence of others (assertSourceFactRetentionComplete).
ErasedIsGone ==
    \A s \in Sources : src[s].status = "ERASED" =>
        EvidOf(s) = {} /\ OffersOf(s) = {} /\ Owned(s) \subseteq spoken

\* A proposal is applied to the very value its author saw, from a source still in use, and the
\* field then has the proposed value (decide).
DecidedAsProposed ==
    \A i \in Offers : offer[i].state = "PENDING" /\ offer'[i].state = "APPLIED" =>
        LET o == offer[i] IN
        fact[o.fact].value = o.seen /\ fact'[o.fact].value = o.value /\ Usable(o.source)

AppliedAsProposed == [][DecidedAsProposed]_factVars
=============================================================================
