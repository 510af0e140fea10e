------------------------------ MODULE FactsProofs ------------------------------
(***************************************************************************)
(* Proofs about the professional records, the part Recording of MCTalent,    *)
(* for every value of its constants.                                         *)
(***************************************************************************)
EXTENDS MCTalent, Sequences, FiniteSetTheorems, SequenceTheorems, TLAPS

-------------------------------------------------------------------------------
(* The invariant, by what it is about *)

FactValues ==
    {"early", "late", "always", "day1", "day2", "UNKNOWN", "DECLARED", "VERIFIED", "v1", "v2", None}
        \cup Assets
OfferRow ==
    [fact: FactRows \cup {None}, value: FactValues, source: Sources \cup {None}, srev: Nat,
     base: Nat, state: {"NONE", "PENDING", "APPLIED", "REJECTED", "STALE"}, seen: FactValues]
ValueFits(f, v) == v \in Recording!Values(KindOf[f]) \cup {None}

\* The rows, their states by kind, and the person made from s1.
RowsTyped ==
    /\ DOMAIN fact = FactRows
    /\ \A f \in FactRows : fact[f] \in Recording!FactRow /\ ValueFits(f, fact[f].value)
RowStates ==
    /\ fact[Me].status \in {"ACTIVE", "ARCHIVED", "ERASED"} /\ fact[Me].source = s1
    /\ \A f \in FactRows : f # Me =>
          /\ fact[f].status = "ABSENT" => fact[f] = Recording!Absent
          /\ fact[f].status # "ABSENT" => fact[f].status \in
                IF KindOf[f] = "measurement" THEN {"DRAFT", "CONFIRMED", "SUPERSEDED"}
                                             ELSE {"ACTIVE", "ARCHIVED"}
    /\ \A f, g \in Recording!LiveOf("casting") : f = g
RowRefs ==
    \A f \in FactRows : Recording!Live(f) /\ f # Me =>
        /\ fact[Me].status # "ERASED"
        /\ \A p \in {fact[f].up, fact[f].prior} \ {None} : Recording!Live(p)
        /\ KindOf[f] \in {"role", "capability"} => Recording!LiveOf("profile") # {}
\* what a measurement follows has been confirmed
PriorsConfirmed ==
    \A m \in Recording!LiveOf("measurement") :
        fact[m].prior # None => fact[fact[m].prior].status \in {"CONFIRMED", "SUPERSEDED"}
RowsInv ==
    /\ RowsTyped /\ RowStates /\ RowRefs /\ PriorsConfirmed
    /\ Recording!CurrentIsConfirmed /\ Recording!PeriodsHold

\* The pictures: what is shown is there, once each.
PicsInv ==
    /\ DOMAIN items = FactRows /\ asset \in [Assets -> {"READY", "ERASED"}]
    /\ \A f \in FactRows :
          items[f] \in Seq(Assets) /\ Len(items[f]) <= MaxItems /\ Recording!IsInjective(items[f])
    /\ Recording!PicturesHold

\* The basis: what has had evidence is there and keeps some, and an erased source has none.
BasisInv ==
    /\ \A e \in evid : e.fact \in spoken /\ e.source \in Sources
    /\ \A f \in spoken : f \in FactRows /\ fact[f].status # "ABSENT"
    /\ \A f \in FactRows : Recording!Live(f) => fact[f].source \in Sources
    /\ \A s \in Sources : src[s].status = "ERASED" =>
          Recording!EvidOf(s) = {} /\ Recording!Owned(s) \subseteq spoken
    /\ Recording!NoFallback

\* The proposals: the revision tells what their authors saw.
OffersInv ==
    /\ DOMAIN offer = Offers
    /\ \A i \in Offers :
          /\ offer[i] \in OfferRow
          /\ offer[i].state # "NONE" =>
                /\ offer[i].fact \in FactRows /\ fact[offer[i].fact].status # "ABSENT"
                /\ ValueFits(offer[i].fact, offer[i].value) /\ offer[i].value # "VERIFIED"
                /\ offer[i].source \in Sources
          /\ offer[i].state = "NONE" => offer[i].source = None
          /\ offer[i].state = "PENDING" =>
                /\ offer[i].base <= fact[offer[i].fact].rev
                /\ offer[i].base = fact[offer[i].fact].rev =>
                      fact[offer[i].fact].value = offer[i].seen
    /\ \A s \in Sources : src[s].status = "ERASED" => Recording!OffersOf(s) = {}

\* The deletion: what it is of, and what its execution leaves.
PlanInv ==
    /\ src \in [Sources -> [status : {"TEMP", "CONFIRMED", "SUSPENDED", "ERASED"}, rev : 1..6]]
    /\ bench \in {"basis", "measures", "pictures", "periods"}
    /\ plan.stage \in {"NONE", "DRAFT", "BLOCKED", "FROZEN", "CLEANED"}
    /\ plan = [path |-> plan.path, target |-> plan.target, trev |-> plan.trev,
               stage |-> plan.stage, graph |-> plan.graph, keep |-> plan.keep]
    /\ plan.stage # "NONE" =>
          /\ plan.path \in {"PERSON", "PICTURE", "FACTS", "EVIDENCE"}
          /\ plan.target \in Sources \cup Assets \cup {Me}
          /\ plan.target = Me <=> plan.path = "PERSON"
          /\ plan.target \in Assets => plan.path = "PICTURE"
          /\ plan.target \in Sources => src[plan.target].status # "ERASED"
          /\ bench # "basis" => plan.target # s1
    /\ plan.stage = "CLEANED" =>
          /\ plan.target \in Sources => \A a \in Recording!SourceAssets(plan.target) :
                /\ \A f \in FactRows : a \notin Recording!ToSet(items[f])
                /\ \A f \in Recording!LiveOf("adult") :
                      fact[f].value = "VERIFIED" => fact[f].proof # a
          /\ plan.path = "FACTS" /\ fact[Me].source = plan.target /\ Me \notin DOMAIN plan.keep =>
                \A f \in FactRows : Recording!Live(f) => f = Me

FactInv == RowsInv /\ PicsInv /\ BasisInv /\ OffersInv /\ PlanInv

LEMMA FactNamed ==
    /\ {pr, r1, r2, cap, cas, m1, m2, ad, k1, k2} \subseteq FactRows /\ Me \in FactRows /\ me = Me
    /\ KindOf[Me] = "person" /\ KindOf[pr] = "profile" /\ KindOf[r1] = "role"
    /\ KindOf[r2] = "role" /\ KindOf[cap] = "capability" /\ KindOf[cas] = "casting"
    /\ KindOf[ad] = "adult" /\ KindOf[m1] = "measurement" /\ KindOf[m2] = "measurement"
    /\ KindOf[k1] = "collection" /\ KindOf[k2] = "collection"
    /\ {s1, s2} \subseteq Sources /\ s1 # s2 /\ {ph1, ph2} \subseteq Assets /\ ph1 # ph2
    /\ o1 \in Offers /\ MaxItems \in Nat /\ MaxItems >= 2
BY TalentConstants DEF TalentConstants, Recording!FactsAssumption, Recording!FactNames

LEMMA FactApart ==
    /\ \A f \in FactRows : KindOf[f] \in Recording!Kinds /\ (KindOf[f] = "person" <=> f = Me)
    /\ None \notin FactRows /\ None \notin Sources /\ None \notin Assets
    /\ Sources \cap FactRows = {} /\ Sources \cap Assets = {} /\ FactRows \cap Assets = {}
    /\ \A a \in Assets : AssetSource[a] \in Sources
BY TalentConstants DEF TalentConstants, Recording!FactsAssumption

LEMMA FactTouched ==
    ASSUME NEW r \in Recording!FactRow
    PROVE  LET t == Recording!Touched(r) IN
           /\ t \in Recording!FactRow /\ t.rev = r.rev + 1 /\ t.source = r.source
           /\ t.value = r.value /\ t.status = r.status /\ t.up = r.up /\ t.prior = r.prior
           /\ t.proof = r.proof /\ t.now = r.now
BY DEF Recording!Touched, Recording!FactRow

\* A step on the person alone.
LEMMA FactRowsOwn ==
    ASSUME RowsInv, DOMAIN fact' = FactRows, \A f \in FactRows : f # Me => fact'[f] = fact[f],
           fact'[Me] \in Recording!FactRow, ValueFits(Me, fact'[Me].value),
           fact'[Me].source = s1, fact'[Me].status \in {"ACTIVE", "ARCHIVED", "ERASED"},
           fact'[Me].status = "ERASED" => \A f \in FactRows : Recording!Live(f) => f = Me
    PROVE  RowsInv'
<1>1. \A f \in FactRows : f # Me => (Recording!Live(f)' <=> Recording!Live(f))
  BY DEF Recording!Live
<1>2. ASSUME NEW k, k # "person" PROVE Recording!LiveOf(k)' = Recording!LiveOf(k)
  BY <1>1, <1>2, FactApart DEF Recording!LiveOf
<1>3. \A k \in {"casting", "measurement", "profile", "role"} :
          \A f \in Recording!LiveOf(k) : f \in FactRows /\ f # Me
  BY FactApart DEF Recording!LiveOf
<1>4. RowsTyped' BY DEF RowsInv, RowsTyped
<1>5. RowStates'
  <2>1. \A f, g \in Recording!LiveOf("casting")' : f = g
    BY <1>2 DEF RowsInv, RowStates
  <2> QED BY <2>1 DEF RowsInv, RowStates
<1>6. RowRefs'
  <2> SUFFICES ASSUME NEW f \in FactRows, Recording!Live(f)', f # Me
               PROVE  /\ fact'[Me].status # "ERASED"
                      /\ \A p \in {fact'[f].up, fact'[f].prior} \ {None} : Recording!Live(p)'
                      /\ KindOf[f] \in {"role", "capability"} => Recording!LiveOf("profile")' # {}
    BY DEF RowRefs
  <2>1. Recording!Live(f) /\ fact'[f] = fact[f] BY <1>1
  <2>2. fact'[Me].status # "ERASED" BY <2>1
  <2>3. Recording!Live(Me)' BY <2>2 DEF Recording!Live
  <2>4. \A p \in {fact[f].up, fact[f].prior} \ {None} : Recording!Live(p) /\ p \in FactRows
    BY <2>1, FactNamed DEF RowsInv, RowRefs, RowsTyped, Recording!FactRow
  <2>5. \A p \in {fact'[f].up, fact'[f].prior} \ {None} : Recording!Live(p)'
    BY <1>1, <2>1, <2>3, <2>4
  <2>6. KindOf[f] \in {"role", "capability"} => Recording!LiveOf("profile")' # {}
    BY <1>2, <2>1 DEF RowsInv, RowRefs
  <2> QED BY <2>2, <2>5, <2>6
<1>r. \A k \in {"casting", "measurement"} : \A c \in Recording!LiveOf(k) :
         fact[c].prior # None => fact[c].prior \in FactRows /\ fact[c].prior # Me
  <2> SUFFICES ASSUME NEW k \in {"casting", "measurement"}, NEW c \in Recording!LiveOf(k),
                      fact[c].prior # None
               PROVE  fact[c].prior \in FactRows /\ fact[c].prior # Me
    OBVIOUS
  <2>1. c \in FactRows /\ fact[c] \in Recording!FactRow BY <1>3 DEF RowsInv, RowsTyped
  <2>2. fact[c].prior \in FactRows BY <2>1 DEF Recording!FactRow
  <2>3. fact[fact[c].prior].status \in {"CONFIRMED", "SUPERSEDED"}
    BY DEF RowsInv, PriorsConfirmed, Recording!CurrentIsConfirmed
  <2> QED BY <2>2, <2>3 DEF RowsInv, RowStates
<1>7. PriorsConfirmed'
  BY <1>2, <1>3, <1>r DEF RowsInv, PriorsConfirmed
<1>8. Recording!CurrentIsConfirmed'
  BY <1>2, <1>3, <1>r DEF RowsInv, Recording!CurrentIsConfirmed
<1>9. Recording!PeriodsHold'
  BY <1>2, <1>3 DEF RowsInv, Recording!PeriodsHold
<1> QED BY <1>4, <1>5, <1>6, <1>7, <1>8, <1>9 DEF RowsInv

\* One row, and the revision of the person.
LEMMA FactRowsEdit ==
    ASSUME RowsInv, NEW f \in FactRows, f # Me, NEW row \in Recording!FactRow,
           ValueFits(f, row.value), Recording!Live(Me),
           fact' = [fact EXCEPT ![f] = row, ![Me] = Recording!Touched(fact[Me])],
           row.status \in IF KindOf[f] = "measurement" THEN {"DRAFT", "CONFIRMED", "SUPERSEDED"}
                                                       ELSE {"ACTIVE", "ARCHIVED"},
           \A p \in {row.up, row.prior} \ {None} : Recording!Live(p),
           KindOf[f] \in {"role", "capability"} => Recording!LiveOf("profile") # {},
           KindOf[f] = "casting" => Recording!Live(f) /\ row.prior = fact[f].prior,
           KindOf[f] = "measurement" =>
              \/ /\ Recording!Live(f) /\ row.status = fact[f].status
                 /\ row.prior = fact[f].prior
              \/ /\ ~Recording!Live(f) /\ row.status = "DRAFT"
                 /\ row.prior # None => fact[row.prior].status \in {"CONFIRMED", "SUPERSEDED"},
           KindOf[f] = "role" => Recording!PeriodsApart(f, row)
    PROVE  RowsInv'
<1>1. /\ DOMAIN fact' = FactRows /\ fact'[f] = row
      /\ fact'[Me] = Recording!Touched(fact[Me])
      /\ \A g \in FactRows : g # f /\ g # Me => fact'[g] = fact[g]
  BY FactNamed DEF RowsInv, RowsTyped
<1>2. /\ fact[Me] \in Recording!FactRow /\ fact'[Me] \in Recording!FactRow
      /\ fact'[Me].source = fact[Me].source /\ fact'[Me].value = fact[Me].value
      /\ fact'[Me].status = fact[Me].status
  BY <1>1, FactTouched, FactNamed DEF RowsInv, RowsTyped
<1>3. Recording!Live(f)' BY <1>1 DEF Recording!Live
<1>4. \A g \in FactRows : g # f => (Recording!Live(g)' <=> Recording!Live(g))
  BY <1>1, <1>2 DEF Recording!Live
<1>5. \A g \in FactRows : Recording!Live(g) => Recording!Live(g)' BY <1>3, <1>4
<1>6. ASSUME NEW k, NEW g
      PROVE  g \in Recording!LiveOf(k)' <=>
                 (g \in Recording!LiveOf(k) \/ (g = f /\ KindOf[f] = k))
  BY <1>3, <1>4 DEF Recording!LiveOf
<1>7. \A k : \A g \in Recording!LiveOf(k) : g \in FactRows /\ KindOf[g] = k /\ Recording!Live(g)
  BY DEF Recording!LiveOf
<1>8. RowsTyped'
  <2> SUFFICES ASSUME NEW g \in FactRows
               PROVE  fact'[g] \in Recording!FactRow /\ ValueFits(g, fact'[g].value)
    BY <1>1 DEF RowsTyped
  <2>1. fact[g] \in Recording!FactRow /\ ValueFits(g, fact[g].value)
    BY DEF RowsInv, RowsTyped
  <2> QED BY <2>1, <1>1, <1>2
<1>9. RowStates'
  <2>1. \A g, h \in Recording!LiveOf("casting")' : g = h
    BY <1>6, <1>3 DEF RowsInv, RowStates, Recording!LiveOf
  <2>2. fact'[Me].status \in {"ACTIVE", "ARCHIVED", "ERASED"} /\ fact'[Me].source = s1
    BY <1>2 DEF RowsInv, RowStates
  <2>3. ASSUME NEW g \in FactRows, g # Me
        PROVE  /\ fact'[g].status = "ABSENT" => fact'[g] = Recording!Absent
               /\ fact'[g].status # "ABSENT" => fact'[g].status \in
                     IF KindOf[g] = "measurement" THEN {"DRAFT", "CONFIRMED", "SUPERSEDED"}
                                                  ELSE {"ACTIVE", "ARCHIVED"}
    BY <1>1, <2>3 DEF RowsInv, RowStates
  <2> QED BY <2>1, <2>2, <2>3 DEF RowStates
<1>10. RowRefs'
  <2> SUFFICES ASSUME NEW g \in FactRows, Recording!Live(g)', g # Me
               PROVE  /\ fact'[Me].status # "ERASED"
                      /\ \A p \in {fact'[g].up, fact'[g].prior} \ {None} : Recording!Live(p)'
                      /\ KindOf[g] \in {"role", "capability"} => Recording!LiveOf("profile")' # {}
    BY DEF RowRefs
  <2>1. fact'[Me].status # "ERASED" BY <1>2 DEF Recording!Live
  <2>2. Recording!LiveOf("profile") # {} => Recording!LiveOf("profile")' # {} BY <1>6
  <2>3. CASE g = f
    <3>1. \A p \in {row.up, row.prior} \ {None} : p \in FactRows BY DEF Recording!FactRow
    <3> QED BY <2>1, <2>2, <2>3, <3>1, <1>1, <1>5
  <2>4. CASE g # f
    <3>1. Recording!Live(g) /\ fact'[g] = fact[g] /\ fact[g] \in Recording!FactRow
      BY <2>4, <1>1, <1>4 DEF RowsInv, RowsTyped
    <3>2. \A p \in {fact[g].up, fact[g].prior} \ {None} : p \in FactRows /\ Recording!Live(p)
      BY <3>1 DEF Recording!FactRow, RowsInv, RowRefs
    <3>3. KindOf[g] \in {"role", "capability"} => Recording!LiveOf("profile") # {}
      BY <3>1 DEF RowsInv, RowRefs
    <3> QED BY <2>1, <2>2, <3>1, <3>2, <3>3, <1>5
  <2> QED BY <2>3, <2>4
\* where a row leads was there before, and has kept its state
<1>r. ASSUME NEW c \in FactRows, c # f, c # Me, Recording!Live(c), fact[c].prior # None
      PROVE  /\ fact[c].prior \in FactRows /\ Recording!Live(fact[c].prior)
             /\ KindOf[fact[c].prior] = "measurement" =>
                    fact'[fact[c].prior].status = fact[fact[c].prior].status
  <2>1. fact[c] \in Recording!FactRow BY DEF RowsInv, RowsTyped
  <2>2. fact[c].prior \in FactRows BY <2>1, <1>r DEF Recording!FactRow
  <2>3. Recording!Live(fact[c].prior) BY <1>r DEF RowsInv, RowRefs
  <2> QED BY <2>2, <2>3, <1>1, <1>2
<1>s. \A p \in FactRows :
          fact[p].status \in {"CONFIRMED", "SUPERSEDED"} => KindOf[p] = "measurement"
  BY DEF RowsInv, RowStates
<1>11. PriorsConfirmed'
  <2> SUFFICES ASSUME NEW m \in Recording!LiveOf("measurement")', fact'[m].prior # None
               PROVE  fact'[fact'[m].prior].status \in {"CONFIRMED", "SUPERSEDED"}
    BY DEF PriorsConfirmed
  <2>1. CASE m = f
    <3>1. KindOf[f] = "measurement" /\ row.prior # None /\ row.prior \in FactRows
      BY <2>1, <1>1, <1>6, <1>7 DEF Recording!FactRow
    <3>2. fact[row.prior].status \in {"CONFIRMED", "SUPERSEDED"}
      BY <3>1 DEF RowsInv, PriorsConfirmed, Recording!LiveOf
    <3>3. row.prior # Me /\ KindOf[row.prior] = "measurement" BY <3>1, <3>2, <1>s, FactNamed
    <3>4. fact'[row.prior].status = fact[row.prior].status
      BY <3>1, <3>2, <3>3, <1>1 DEF Recording!Live
    <3> QED BY <2>1, <3>2, <3>4, <1>1
  <2>2. CASE m # f
    <3>1. m \in Recording!LiveOf("measurement") /\ m \in FactRows /\ m # Me /\ Recording!Live(m)
      BY <2>2, <1>6, <1>7, FactNamed
    <3>2. fact'[m] = fact[m] BY <2>2, <3>1, <1>1
    <3>3. fact[fact[m].prior].status \in {"CONFIRMED", "SUPERSEDED"}
      BY <3>1, <3>2 DEF RowsInv, PriorsConfirmed
    <3> QED BY <2>2, <3>1, <3>2, <3>3, <1>r, <1>s
  <2> QED BY <2>1, <2>2
<1>12. Recording!CurrentIsConfirmed'
  <2>1. ASSUME NEW c \in Recording!LiveOf("casting")', fact'[c].prior # None
        PROVE  fact'[fact'[c].prior].status = "CONFIRMED"
    <3>1. c \in Recording!LiveOf("casting") /\ c \in FactRows /\ Recording!Live(c) /\ c # Me
      BY <1>6, <1>7, FactNamed DEF Recording!LiveOf
    <3>2. fact'[c].prior = fact[c].prior BY <1>1, <1>7, <3>1
    <3>3. fact[fact[c].prior].status = "CONFIRMED" /\ fact[c].prior # None
      BY <2>1, <3>1, <3>2 DEF RowsInv, Recording!CurrentIsConfirmed
    <3>4. fact[c].prior \in FactRows
      BY <3>1, <3>3 DEF RowsInv, RowsTyped, Recording!FactRow
    <3>5. KindOf[fact[c].prior] = "measurement" BY <3>3, <3>4, <1>s
    <3>6. fact'[fact[c].prior].status = fact[fact[c].prior].status
      BY <3>3, <3>4, <3>5, <1>1, FactNamed DEF Recording!Live
    <3> QED BY <3>2, <3>3, <3>6
  <2>2. ASSUME NEW m \in Recording!LiveOf("measurement")', fact'[m].prior # None,
               fact'[m].status # "DRAFT"
        PROVE  fact'[fact'[m].prior].status = "SUPERSEDED"
    <3>1. m \in Recording!LiveOf("measurement") /\ m \in FactRows /\ Recording!Live(m) /\ m # Me
      BY <2>2, <1>1, <1>6, <1>7, FactNamed DEF Recording!LiveOf
    <3>2. fact'[m].prior = fact[m].prior /\ fact'[m].status = fact[m].status
      BY <1>1, <1>7, <3>1
    <3>3. fact[fact[m].prior].status = "SUPERSEDED" /\ fact[m].prior # None
      BY <2>2, <3>1, <3>2 DEF RowsInv, Recording!CurrentIsConfirmed
    <3>4. fact[m].prior \in FactRows
      BY <3>1, <3>3 DEF RowsInv, RowsTyped, Recording!FactRow
    <3>5. KindOf[fact[m].prior] = "measurement" BY <3>3, <3>4, <1>s
    <3>6. fact'[fact[m].prior].status = fact[fact[m].prior].status
      BY <3>3, <3>4, <3>5, <1>1, FactNamed DEF Recording!Live
    <3> QED BY <3>2, <3>3, <3>6
  <2> QED BY <2>1, <2>2 DEF Recording!CurrentIsConfirmed
<1>13. Recording!PeriodsHold'
  <2> SUFFICES ASSUME NEW g \in Recording!LiveOf("role")', NEW h \in Recording!LiveOf("role")',
                      g # h, fact'[g].status = "ACTIVE", fact'[h].status = "ACTIVE"
               PROVE  ~Recording!Overlap(fact'[g].value, fact'[h].value)
    BY DEF Recording!PeriodsHold
  <2>1. \A x \in {g, h} :
            (x # f => fact'[x] = fact[x] /\ x \in Recording!LiveOf("role")) /\ KindOf[x] = "role"
    <3>1. \A x \in {g, h} : x \in FactRows /\ KindOf[x] = "role" /\ x # Me
      BY <1>1, <1>6, <1>7, FactNamed
    <3> QED BY <3>1, <1>1, <1>6
  <2>2. CASE g # f /\ h # f
    BY <2>1, <2>2 DEF RowsInv, Recording!PeriodsHold
  <2>3. ASSUME NEW x \in Recording!LiveOf("role"), x # f, fact[x].status = "ACTIVE",
               row.status = "ACTIVE", KindOf[f] = "role"
        PROVE  ~Recording!Overlap(fact[x].value, row.value)
    <3>1. Recording!PeriodsApart(f, row) BY <2>3
    <3>2. ~Recording!Overlap(fact[x].value, row.value)
      BY <3>1, <2>3 DEF Recording!PeriodsApart, Recording!Others
    <3> QED BY <3>2
  <2>4. \A a, b : Recording!Overlap(a, b) <=> Recording!Overlap(b, a) BY DEF Recording!Overlap
  <2>5. CASE g = f BY <2>1, <2>3, <2>4, <2>5, <1>1
  <2>6. CASE h = f BY <2>1, <2>3, <2>4, <2>6, <1>1
  <2> QED BY <2>2, <2>5, <2>6
<1> QED BY <1>8, <1>9, <1>10, <1>11, <1>12, <1>13 DEF RowsInv

\* Rows of kinds that nothing follows, and the revision of the person.
LEMMA FactRowsSome ==
    ASSUME RowsInv, Recording!Live(Me), DOMAIN fact' = FactRows,
           fact'[Me] = Recording!Touched(fact[Me]),
           \A g \in FactRows : g # Me =>
              \/ fact'[g] = fact[g]
              \/ /\ fact'[g] \in Recording!FactRow /\ ValueFits(g, fact'[g].value)
                 /\ fact'[g].status \in {"ACTIVE", "ARCHIVED"}
                 /\ KindOf[g] \notin {"casting", "measurement"}
                 /\ \A p \in {fact'[g].up, fact'[g].prior} \ {None} : Recording!Live(p)
                 /\ KindOf[g] \in {"role", "capability"} => Recording!LiveOf("profile")' # {},
           Recording!PeriodsHold'
    PROVE  RowsInv'
<1>1. /\ fact[Me] \in Recording!FactRow /\ fact'[Me] \in Recording!FactRow
      /\ fact'[Me].source = fact[Me].source /\ fact'[Me].value = fact[Me].value
      /\ fact'[Me].status = fact[Me].status
  BY FactTouched, FactNamed DEF RowsInv, RowsTyped
<1>2. \A g \in FactRows : Recording!Live(g) => Recording!Live(g)'
  BY <1>1 DEF Recording!Live
<1>3. ASSUME NEW k \in {"casting", "measurement"}, NEW g
      PROVE  /\ g \in Recording!LiveOf(k)' <=> g \in Recording!LiveOf(k)
             /\ g \in Recording!LiveOf(k) =>
                    /\ g \in FactRows /\ g # Me /\ Recording!Live(g) /\ fact'[g] = fact[g]
                    /\ KindOf[g] = k
  <2>1. \A x \in FactRows : KindOf[x] = k => x # Me /\ fact'[x] = fact[x]
    BY FactNamed
  <2> QED BY <2>1 DEF Recording!LiveOf, Recording!Live
<1>4. RowsTyped'
  <2> SUFFICES ASSUME NEW g \in FactRows
               PROVE  fact'[g] \in Recording!FactRow /\ ValueFits(g, fact'[g].value)
    BY DEF RowsTyped
  <2>1. fact[g] \in Recording!FactRow /\ ValueFits(g, fact[g].value)
    BY DEF RowsInv, RowsTyped
  <2> QED BY <2>1, <1>1
<1>5. RowStates'
  <2>1. \A g, h \in Recording!LiveOf("casting")' : g = h
    BY <1>3 DEF RowsInv, RowStates
  <2>2. fact'[Me].status \in {"ACTIVE", "ARCHIVED", "ERASED"} /\ fact'[Me].source = s1
    BY <1>1 DEF RowsInv, RowStates
  <2>3. ASSUME NEW g \in FactRows, g # Me
        PROVE  /\ fact'[g].status = "ABSENT" => fact'[g] = Recording!Absent
               /\ fact'[g].status # "ABSENT" => fact'[g].status \in
                     IF KindOf[g] = "measurement" THEN {"DRAFT", "CONFIRMED", "SUPERSEDED"}
                                                  ELSE {"ACTIVE", "ARCHIVED"}
    BY <2>3 DEF RowsInv, RowStates
  <2> QED BY <2>1, <2>2, <2>3 DEF RowStates
<1>6. RowRefs'
  <2> SUFFICES ASSUME NEW g \in FactRows, Recording!Live(g)', g # Me
               PROVE  /\ fact'[Me].status # "ERASED"
                      /\ \A p \in {fact'[g].up, fact'[g].prior} \ {None} : Recording!Live(p)'
                      /\ KindOf[g] \in {"role", "capability"} => Recording!LiveOf("profile")' # {}
    BY DEF RowRefs
  <2>1. fact'[Me].status # "ERASED" BY <1>1 DEF Recording!Live
  <2>2. Recording!LiveOf("profile") # {} => Recording!LiveOf("profile")' # {}
    BY <1>2 DEF Recording!LiveOf
  <2>3. fact'[g] \in Recording!FactRow BY <1>4 DEF RowsTyped
  <2>4. \A p \in {fact'[g].up, fact'[g].prior} \ {None} : p \in FactRows
    BY <2>3 DEF Recording!FactRow
  <2>5. CASE fact'[g] = fact[g]
    <3>1. Recording!Live(g) BY <2>5 DEF Recording!Live
    <3> QED BY <2>1, <2>2, <2>4, <2>5, <3>1, <1>2 DEF RowsInv, RowRefs
  <2>6. CASE fact'[g] # fact[g] BY <2>1, <2>4, <2>6, <1>2
  <2> QED BY <2>5, <2>6
<1>7. \A p \in FactRows : fact[p].status \in {"CONFIRMED", "SUPERSEDED"} =>
          /\ fact'[p].status = fact[p].status /\ KindOf[p] = "measurement"
  <2> SUFFICES ASSUME NEW p \in FactRows, fact[p].status \in {"CONFIRMED", "SUPERSEDED"}
               PROVE  fact'[p].status = fact[p].status /\ KindOf[p] = "measurement"
    OBVIOUS
  <2>1. p # Me /\ KindOf[p] = "measurement" BY DEF RowsInv, RowStates
  <2> QED BY <2>1
<1>8. \A k \in {"casting", "measurement"} : \A g \in Recording!LiveOf(k) :
          fact[g].prior # None => fact[g].prior \in FactRows
  BY <1>3 DEF RowsInv, RowsTyped, Recording!FactRow
<1>9. PriorsConfirmed' BY <1>3, <1>7, <1>8 DEF RowsInv, PriorsConfirmed
<1>10. Recording!CurrentIsConfirmed'
  <2>1. ASSUME NEW c \in Recording!LiveOf("casting")', fact'[c].prior # None
        PROVE  fact'[fact'[c].prior].status = "CONFIRMED"
    <3>1. c \in Recording!LiveOf("casting") /\ fact'[c] = fact[c] BY <1>3
    <3> QED BY <2>1, <3>1, <1>7, <1>8 DEF RowsInv, Recording!CurrentIsConfirmed
  <2>2. ASSUME NEW m \in Recording!LiveOf("measurement")', fact'[m].prior # None,
               fact'[m].status # "DRAFT"
        PROVE  fact'[fact'[m].prior].status = "SUPERSEDED"
    <3>1. m \in Recording!LiveOf("measurement") /\ fact'[m] = fact[m] BY <1>3
    <3> QED BY <2>2, <3>1, <1>7, <1>8 DEF RowsInv, Recording!CurrentIsConfirmed
  <2> QED BY <2>1, <2>2 DEF Recording!CurrentIsConfirmed
<1> QED BY <1>4, <1>5, <1>6, <1>9, <1>10 DEF RowsInv

LEMMA FactRowsEnroll ==
    ASSUME RowsInv, NEW p \in FactRows, NEW r \in FactRows, KindOf[p] = "profile",
           KindOf[r] = "role", Recording!Enroll(p, r)
    PROVE  RowsInv'
<1>1. /\ Recording!Live(Me) /\ Recording!LiveOf("role") = {} /\ p # Me /\ r # Me /\ p # r
      /\ fact[Me].source \in Sources
  <2>1. p # Me /\ r # Me /\ p # r BY FactNamed
  <2> QED BY <2>1, FactNamed
      DEF Recording!Enroll, Recording!MayEdit, Recording!PersonOpen, RowsInv, RowStates
<1>2. /\ DOMAIN fact' = FactRows /\ fact'[Me] = Recording!Touched(fact[Me])
      /\ \A g \in FactRows : g \notin {p, r, Me} => fact'[g] = fact[g]
  BY <1>1, FactNamed DEF Recording!Enroll
<1>3. /\ fact'[p] = [Recording!Absent EXCEPT !.source = fact[Me].source, !.status = "ACTIVE",
                                             !.rev = 1, !.value = "v1"]
      /\ fact'[r] = [Recording!Absent EXCEPT !.source = fact[Me].source, !.status = "ACTIVE",
                                             !.rev = 1, !.value = "always"]
  BY <1>1 DEF Recording!Enroll
<1>4. \A g \in {p, r} :
          /\ fact'[g] \in Recording!FactRow /\ fact'[g].status = "ACTIVE"
          /\ fact'[g].up = None /\ fact'[g].prior = None
  <2>1. fact'[p] = [source |-> fact[Me].source, value |-> "v1", status |-> "ACTIVE", rev |-> 1,
                    up |-> None, prior |-> None, proof |-> None, now |-> FALSE]
    BY <1>3 DEF Recording!Absent
  <2>2. fact'[r] = [source |-> fact[Me].source, value |-> "always", status |-> "ACTIVE",
                    rev |-> 1, up |-> None, prior |-> None, proof |-> None, now |-> FALSE]
    BY <1>3 DEF Recording!Absent
  <2>3. fact'[p] \in Recording!FactRow BY <2>1, <1>1 DEF Recording!FactRow, Recording!Statuses
  <2>4. fact'[r] \in Recording!FactRow BY <2>2, <1>1 DEF Recording!FactRow, Recording!Statuses
  <2>5. \A g \in {p, r} : fact'[g].status = "ACTIVE" /\ fact'[g].up = None /\ fact'[g].prior = None
    BY <2>1, <2>2
  <2> QED BY <2>3, <2>4, <2>5
<1>5. ValueFits(p, fact'[p].value) /\ ValueFits(r, fact'[r].value)
  BY <1>3 DEF ValueFits, Recording!Values, Recording!Absent
<1>6. p \in Recording!LiveOf("profile")' BY <1>4 DEF Recording!LiveOf, Recording!Live
<1>7. Recording!PeriodsHold'
  <2>1. \A g \in Recording!LiveOf("role")' : g = r
    BY <1>1, <1>2, FactNamed DEF Recording!LiveOf, Recording!Live
  <2> QED BY <2>1 DEF Recording!PeriodsHold
<1>8. \A g \in FactRows : g # Me =>
              \/ fact'[g] = fact[g]
              \/ /\ fact'[g] \in Recording!FactRow /\ ValueFits(g, fact'[g].value)
                 /\ fact'[g].status \in {"ACTIVE", "ARCHIVED"}
                 /\ KindOf[g] \notin {"casting", "measurement"}
                 /\ \A q \in {fact'[g].up, fact'[g].prior} \ {None} : Recording!Live(q)
                 /\ KindOf[g] \in {"role", "capability"} => Recording!LiveOf("profile")' # {}
  BY <1>2, <1>4, <1>5, <1>6
<1> QED BY <1>1, <1>2, <1>7, <1>8, FactRowsSome

\* The confirmation of a measurement, field by field.
LEMMA FactConfirm ==
    ASSUME RowsInv, NEW m \in FactRows, Recording!Confirm(m)
    PROVE  /\ Recording!Live(Me) /\ m # Me /\ KindOf[m] = "measurement"
           /\ fact[m].status = "DRAFT" /\ fact'[m].status = "CONFIRMED"
           /\ DOMAIN fact' = FactRows
           /\ \A g \in FactRows :
                 /\ fact'[g] \in Recording!FactRow /\ fact'[g].source = fact[g].source
                 /\ fact'[g].value = fact[g].value /\ fact'[g].up = fact[g].up
                 /\ fact'[g].proof = fact[g].proof /\ fact'[g].now = fact[g].now
                 /\ g # m /\ g # fact[m].prior => fact'[g].status = fact[g].status
                 /\ KindOf[g] # "casting" => fact'[g].prior = fact[g].prior
                 /\ KindOf[g] \notin {"casting", "measurement", "person"} => fact'[g] = fact[g]
                 /\ fact'[g] = fact[g] \/ fact'[g].rev > fact[g].rev
                 /\ ~Recording!Live(g) => fact'[g] = fact[g]
           /\ \A c \in Recording!LiveOf("casting") : fact'[c].prior = m
           /\ fact[m].prior # None =>
                 /\ fact[m].prior \in FactRows /\ KindOf[fact[m].prior] = "measurement"
                 /\ fact[m].prior # m /\ fact[fact[m].prior].status \in {"CONFIRMED", "SUPERSEDED"}
                 /\ fact'[fact[m].prior].status = "SUPERSEDED"
<1> DEFINE b == fact[m].prior
<1>1. /\ m # Me /\ KindOf[m] = "measurement" /\ fact[m].status = "DRAFT"
      /\ Recording!Live(Me) /\ m \in Recording!LiveOf("measurement")
  BY FactNamed DEF Recording!Confirm, Recording!MayEdit, Recording!PersonOpen,
     Recording!LiveOf, Recording!Live
<1>2. \A g \in FactRows : fact[g] \in Recording!FactRow BY DEF RowsInv, RowsTyped
<1>3. b # None => /\ b \in FactRows /\ fact[b].status \in {"CONFIRMED", "SUPERSEDED"}
                  /\ KindOf[b] = "measurement" /\ b # m /\ b # Me
  <2>1. b \in FactRows \cup {None} BY <1>2 DEF Recording!FactRow
  <2>2. b # None => fact[b].status \in {"CONFIRMED", "SUPERSEDED"}
    BY <1>1 DEF RowsInv, PriorsConfirmed
  <2> QED BY <2>1, <2>2, <1>1, FactNamed DEF RowsInv, RowStates
<1>4. PICK c \in Recording!LiveOf("casting") :
          fact' = [f \in FactRows |->
              CASE f = m -> [Recording!Touched(fact[m]) EXCEPT !.status = "CONFIRMED"]
                [] f = fact[m].prior -> [Recording!Touched(fact[f]) EXCEPT !.status = "SUPERSEDED"]
                [] f = c -> [Recording!Touched(fact[c]) EXCEPT !.prior = m]
                [] f = Me -> Recording!Touched(fact[Me])
                [] OTHER -> fact[f]]
  BY DEF Recording!Confirm
<1>5. /\ c \in FactRows /\ KindOf[c] = "casting" /\ c # m /\ c # b /\ c # Me
      /\ \A d \in Recording!LiveOf("casting") : d = c
  BY <1>1, <1>3, <1>4, FactNamed, FactApart DEF Recording!LiveOf, RowsInv, RowStates
<1> HIDE DEF b
<1>6. /\ DOMAIN fact' = FactRows
      /\ fact'[m] = [Recording!Touched(fact[m]) EXCEPT !.status = "CONFIRMED"]
      /\ b # None => fact'[b] = [Recording!Touched(fact[b]) EXCEPT !.status = "SUPERSEDED"]
      /\ fact'[c] = [Recording!Touched(fact[c]) EXCEPT !.prior = m]
      /\ fact'[Me] = Recording!Touched(fact[Me])
      /\ \A g \in FactRows : g \notin {m, b, c, Me} => fact'[g] = fact[g]
  <2>1. b \notin {m, c, Me} BY <1>3, <1>1, <1>5, FactNamed, FactApart
  <2>2. DOMAIN fact' = FactRows BY <1>4
  <2>3. fact'[m] = [Recording!Touched(fact[m]) EXCEPT !.status = "CONFIRMED"]
    BY <2>1, <1>1, <1>4, <1>5 DEF b
  <2>4. b # None => fact'[b] = [Recording!Touched(fact[b]) EXCEPT !.status = "SUPERSEDED"]
    BY <2>1, <1>3, <1>4 DEF b
  <2>5. fact'[c] = [Recording!Touched(fact[c]) EXCEPT !.prior = m]
    BY <2>1, <1>4, <1>5 DEF b
  <2>6. fact'[Me] = Recording!Touched(fact[Me])
    BY <2>1, <1>1, <1>4, <1>5, FactNamed DEF b
  <2>7. \A g \in FactRows : g \notin {m, b, c, Me} => fact'[g] = fact[g]
    BY <1>4 DEF b
  <2> QED BY <2>2, <2>3, <2>4, <2>5, <2>6, <2>7
<1>7. ASSUME NEW r \in Recording!FactRow, NEW x \in Recording!Statuses
      PROVE  LET t == [Recording!Touched(r) EXCEPT !.status = x] IN
             /\ t \in Recording!FactRow /\ t.rev > r.rev /\ t.source = r.source
             /\ t.value = r.value /\ t.status = x /\ t.up = r.up /\ t.prior = r.prior
             /\ t.proof = r.proof /\ t.now = r.now
  <2>1. PICK q : q = Recording!Touched(r) OBVIOUS
  <2>2. q \in Recording!FactRow /\ r.rev \in Nat BY <2>1, FactTouched DEF Recording!FactRow
  <2>3. [q EXCEPT !.status = x] \in Recording!FactRow BY <2>2 DEF Recording!FactRow
  <2> QED BY <2>1, <2>2, <2>3, FactTouched DEF Recording!FactRow
<1>8. ASSUME NEW r \in Recording!FactRow
      PROVE  LET t == [Recording!Touched(r) EXCEPT !.prior = m] IN
             /\ t \in Recording!FactRow /\ t.rev > r.rev /\ t.source = r.source
             /\ t.value = r.value /\ t.status = r.status /\ t.up = r.up /\ t.prior = m
             /\ t.proof = r.proof /\ t.now = r.now
  <2>1. PICK q : q = Recording!Touched(r) OBVIOUS
  <2>2. q \in Recording!FactRow /\ r.rev \in Nat BY <2>1, FactTouched DEF Recording!FactRow
  <2>3. [q EXCEPT !.prior = m] \in Recording!FactRow BY <2>2 DEF Recording!FactRow
  <2> QED BY <2>1, <2>2, <2>3, FactTouched DEF Recording!FactRow
<1>9. {"CONFIRMED", "SUPERSEDED"} \subseteq Recording!Statuses BY DEF Recording!Statuses
<1>10. ASSUME NEW g \in FactRows
       PROVE  /\ fact'[g] \in Recording!FactRow /\ fact'[g].source = fact[g].source
              /\ fact'[g].value = fact[g].value /\ fact'[g].up = fact[g].up
              /\ fact'[g].proof = fact[g].proof /\ fact'[g].now = fact[g].now
              /\ g # m /\ g # b => fact'[g].status = fact[g].status
              /\ KindOf[g] # "casting" => fact'[g].prior = fact[g].prior
              /\ KindOf[g] \notin {"casting", "measurement", "person"} => fact'[g] = fact[g]
              /\ fact'[g] = fact[g] \/ fact'[g].rev > fact[g].rev
              /\ ~Recording!Live(g) => fact'[g] = fact[g]
  <2>0. \A x \in {m, c, Me} : Recording!Live(x)
    BY <1>1, <1>4 DEF Recording!LiveOf
  <2>1. CASE g = m BY <2>0, <2>1, <1>1, <1>2, <1>6, <1>7, <1>9
  <2>2. CASE g = b /\ b # None
    <3>1. fact'[b] = [Recording!Touched(fact[b]) EXCEPT !.status = "SUPERSEDED"] BY <2>2, <1>6
    <3>2. fact[b] \in Recording!FactRow BY <1>2, <1>3, <2>2
    <3>3. Recording!Live(b) BY <1>3, <2>2 DEF Recording!Live
    <3> QED BY <2>2, <3>1, <3>2, <3>3, <1>3, <1>7, <1>9
  <2>3. CASE g = c BY <2>0, <2>3, <1>5, <1>2, <1>6, <1>8
  <2>4. CASE g = Me
    <3>1. fact[g] \in Recording!FactRow /\ fact[g].rev \in Nat BY <1>2 DEF Recording!FactRow
    <3> QED BY <2>0, <2>4, <3>1, <1>1, <1>6, FactTouched, FactNamed
  <2>5. CASE g \notin {m, b, c, Me} BY <2>5, <1>2, <1>6
  <2> QED BY <2>1, <2>2, <2>3, <2>4, <2>5, FactApart
<1>11. b # None => fact'[b].status = "SUPERSEDED"
  <2> SUFFICES ASSUME b # None PROVE fact'[b].status = "SUPERSEDED" OBVIOUS
  <2>1. fact'[b] = [Recording!Touched(fact[b]) EXCEPT !.status = "SUPERSEDED"] BY <1>6
  <2>2. fact[b] \in Recording!FactRow BY <1>2, <1>3
  <2> QED BY <2>1, <2>2, <1>7, <1>9
<1>12. fact'[m].status = "CONFIRMED" BY <1>2, <1>6, <1>7, <1>9
<1>13. fact'[c].prior = m BY <1>2, <1>5, <1>6, <1>8
<1> QED BY <1>1, <1>3, <1>5, <1>6, <1>10, <1>11, <1>12, <1>13 DEF b

LEMMA FactRowsConfirm ==
    ASSUME RowsInv, NEW m \in FactRows, Recording!Confirm(m) PROVE RowsInv'
<1>1. /\ Recording!Live(Me) /\ m # Me /\ KindOf[m] = "measurement"
      /\ fact[m].status = "DRAFT" /\ fact'[m].status = "CONFIRMED" /\ DOMAIN fact' = FactRows
      /\ \A c \in Recording!LiveOf("casting") : fact'[c].prior = m
  BY FactConfirm
<1>2. \A g \in FactRows :
         /\ fact'[g] \in Recording!FactRow /\ fact'[g].source = fact[g].source
         /\ fact'[g].value = fact[g].value /\ fact'[g].up = fact[g].up
         /\ g # m /\ g # fact[m].prior => fact'[g].status = fact[g].status
         /\ KindOf[g] # "casting" => fact'[g].prior = fact[g].prior
         /\ KindOf[g] \notin {"casting", "measurement", "person"} => fact'[g] = fact[g]
  BY FactConfirm
<1>3. fact[m].prior # None =>
         /\ fact[m].prior \in FactRows /\ KindOf[fact[m].prior] = "measurement"
         /\ fact[m].prior # m /\ fact[fact[m].prior].status \in {"CONFIRMED", "SUPERSEDED"}
         /\ fact'[fact[m].prior].status = "SUPERSEDED"
  BY FactConfirm
<1> DEFINE b == fact[m].prior
<1>4. b \in FactRows \cup {None} BY DEF RowsInv, RowsTyped, Recording!FactRow
<1> HIDE DEF b
<1>5. \A g \in FactRows : Recording!Live(g)' <=> Recording!Live(g)
  <2> SUFFICES ASSUME NEW g \in FactRows PROVE Recording!Live(g)' <=> Recording!Live(g)
    OBVIOUS
  <2>1. CASE g = m BY <2>1, <1>1 DEF Recording!Live
  <2>2. CASE g = b BY <2>2, <1>3, FactApart DEF Recording!Live, b
  <2>3. CASE g # m /\ g # b BY <2>3, <1>2 DEF Recording!Live, b
  <2> QED BY <2>1, <2>2, <2>3
<1>6. \A k : Recording!LiveOf(k)' = Recording!LiveOf(k) BY <1>5 DEF Recording!LiveOf
<1>7. \A k : \A g \in Recording!LiveOf(k) : g \in FactRows /\ KindOf[g] = k /\ Recording!Live(g)
  BY DEF Recording!LiveOf
<1>8. RowsTyped' BY <1>1, <1>2 DEF RowsInv, RowsTyped
<1>9. fact'[Me].status = fact[Me].status /\ fact'[Me].source = fact[Me].source
  BY <1>1, <1>2, <1>3, FactNamed, FactApart
<1>10. RowStates'
  <2>1. ASSUME NEW g \in FactRows, g # Me
        PROVE  /\ fact'[g].status = "ABSENT" => fact'[g] = Recording!Absent
               /\ fact'[g].status # "ABSENT" => fact'[g].status \in
                     IF KindOf[g] = "measurement" THEN {"DRAFT", "CONFIRMED", "SUPERSEDED"}
                                                  ELSE {"ACTIVE", "ARCHIVED"}
    <3>1. CASE g = m BY <3>1, <1>1
    <3>2. CASE g = b BY <3>2, <1>3, FactApart DEF b
    <3>3. CASE g # m /\ g # b /\ fact[g].status = "ABSENT"
      <4>1. fact'[g].status = "ABSENT" /\ fact[g] = Recording!Absent
        BY <3>3, <2>1, <1>2 DEF RowsInv, RowStates, b
      <4>2. ~Recording!Live(g) BY <3>3 DEF Recording!Live
      <4>3. fact'[g] = Recording!Absent BY <4>1, <4>2, FactConfirm
      <4> QED BY <4>1, <4>3
    <3>4. CASE g # m /\ g # b /\ fact[g].status # "ABSENT"
      BY <3>4, <2>1, <1>2 DEF RowsInv, RowStates, b
    <3> QED BY <3>1, <3>2, <3>3, <3>4
  <2> QED BY <2>1, <1>6, <1>9 DEF RowsInv, RowStates
<1>11. RowRefs'
  <2> SUFFICES ASSUME NEW g \in FactRows, Recording!Live(g)', g # Me
               PROVE  /\ fact'[Me].status # "ERASED"
                      /\ \A p \in {fact'[g].up, fact'[g].prior} \ {None} : Recording!Live(p)'
                      /\ KindOf[g] \in {"role", "capability"} => Recording!LiveOf("profile")' # {}
    BY DEF RowRefs
  <2>1. Recording!Live(g) BY <1>5
  <2>2. fact[g].up \in FactRows \cup {None} /\ fact[g].prior \in FactRows \cup {None}
    BY DEF RowsInv, RowsTyped, Recording!FactRow
  <2>3. \A p \in {fact[g].up, fact[g].prior} \ {None} : Recording!Live(p)'
    BY <2>1, <2>2, <1>5 DEF RowsInv, RowRefs
  <2>4. KindOf[g] = "casting" => fact'[g].prior = m
    BY <2>1, <1>1 DEF Recording!LiveOf
  <2>5. Recording!Live(m)' BY <1>1 DEF Recording!Live
  <2>6. fact'[g].up = fact[g].up /\ (KindOf[g] # "casting" => fact'[g].prior = fact[g].prior)
    BY <1>2
  <2>7. \A p \in {fact'[g].up, fact'[g].prior} \ {None} : Recording!Live(p)'
    BY <2>3, <2>4, <2>5, <2>6
  <2> QED BY <2>1, <2>7, <1>6, <1>9 DEF RowsInv, RowRefs
<1>12. PriorsConfirmed'
  <2> SUFFICES ASSUME NEW x \in Recording!LiveOf("measurement"), fact'[x].prior # None
               PROVE  fact'[fact'[x].prior].status \in {"CONFIRMED", "SUPERSEDED"}
    BY <1>6 DEF PriorsConfirmed
  <2>1. x \in FactRows /\ fact'[x].prior = fact[x].prior BY <1>2, <1>7
  <2>2. fact[fact[x].prior].status \in {"CONFIRMED", "SUPERSEDED"}
    BY <2>1 DEF RowsInv, PriorsConfirmed
  <2>3. fact[x].prior \in FactRows BY <2>1 DEF RowsInv, RowsTyped, Recording!FactRow
  <2>4. CASE fact[x].prior = b BY <2>1, <2>3, <2>4, <1>3, FactApart DEF b
  <2>5. CASE fact[x].prior # b
    <3>1. fact[x].prior # m BY <2>2, <1>1
    <3> QED BY <2>1, <2>2, <2>3, <2>5, <3>1, <1>2 DEF b
  <2> QED BY <2>4, <2>5
<1>13. Recording!CurrentIsConfirmed'
  <2>1. \A c \in Recording!LiveOf("casting")' : fact'[fact'[c].prior].status = "CONFIRMED"
    BY <1>1, <1>6
  <2>2. ASSUME NEW x \in Recording!LiveOf("measurement"), fact'[x].prior # None,
               fact'[x].status # "DRAFT"
        PROVE  fact'[fact'[x].prior].status = "SUPERSEDED"
    <3>1. x \in FactRows /\ fact'[x].prior = fact[x].prior BY <1>2, <1>7
    <3>2. CASE fact[x].prior = b BY <3>1, <3>2, <2>2, <1>3 DEF b
    <3>3. CASE fact[x].prior # b
      <4>1. x # m BY <3>3 DEF b
      <4>2. fact[x].status # "DRAFT"
        <5>1. CASE x = b BY <5>1, <3>1, <1>3, FactApart DEF b
        <5>2. CASE x # b BY <5>2, <4>1, <3>1, <2>2, <1>2 DEF b
        <5> QED BY <5>1, <5>2
      <4>3. fact[fact[x].prior].status = "SUPERSEDED"
        BY <4>2, <3>1, <2>2 DEF RowsInv, Recording!CurrentIsConfirmed
      <4>4. fact[x].prior \in FactRows
        BY <3>1, <2>2 DEF RowsInv, RowsTyped, Recording!FactRow
      <4>5. fact[x].prior # m BY <4>3, <1>1
      <4> QED BY <3>1, <3>3, <4>3, <4>4, <4>5, <1>2 DEF b
    <3> QED BY <3>2, <3>3
  <2> QED BY <2>1, <2>2, <1>6 DEF Recording!CurrentIsConfirmed
<1>14. Recording!PeriodsHold'
  <2>1. \A g \in Recording!LiveOf("role") : fact'[g] = fact[g] BY <1>2, <1>7
  <2> QED BY <2>1, <1>6 DEF RowsInv, Recording!PeriodsHold
<1> QED BY <1>8, <1>10, <1>11, <1>12, <1>13, <1>14 DEF RowsInv

-------------------------------------------------------------------------------
(* Facts: what a deletion reaches *)

LEMMA FactSelected ==
    ASSUME NEW s
    PROVE  /\ \A f \in Recording!Selected(s) : f \in FactRows /\ Recording!Live(f) /\ f # Me
           /\ \A f \in FactRows : Recording!Live(f) /\ f # Me =>
                 /\ fact[Me].source = s \/ fact[f].source = s => f \in Recording!Selected(s)
                 /\ \A e \in evid : e.fact = f /\ e.source = s => f \in Recording!Selected(s)
                 /\ Recording!ParentsOf(f) \cap Recording!Selected(s) # {} =>
                        f \in Recording!Selected(s)
<1> DEFINE All == {f \in FactRows : Recording!Live(f) /\ f # Me}
           Base == IF fact[Me].source = s THEN All
                   ELSE {f \in All : \/ fact[f].source = s
                                    \/ \E e \in Recording!EvidOf(s) : e.fact = f}
           Closed(S) == /\ Base \subseteq S
                        /\ \A f \in All : Recording!ParentsOf(f) \cap S # {} => f \in S
<1>1. Recording!Selected(s) = {f \in All : \A S \in SUBSET All : Closed(S) => f \in S}
  BY DEF Recording!Selected
<1>2. Base \subseteq All OBVIOUS
<1>3. \A f \in Base : f \in Recording!Selected(s)
  <2> HIDE DEF Base, All
  <2> QED BY <1>1, <1>2
<1>4. \A f \in All : Recording!ParentsOf(f) \cap Recording!Selected(s) # {} =>
          f \in Recording!Selected(s)
  <2> SUFFICES ASSUME NEW f \in All, NEW p \in Recording!ParentsOf(f), p \in Recording!Selected(s)
               PROVE  f \in Recording!Selected(s)
    OBVIOUS
  <2> HIDE DEF Base, All
  <2>1. ASSUME NEW S \in SUBSET All, Closed(S) PROVE f \in S
    <3>1. p \in S BY <1>1, <2>1
    <3> QED BY <2>1, <3>1
  <2> QED BY <1>1, <2>1
<1>5. \A f \in Recording!Selected(s) : f \in All BY <1>1
<1>6. \A f \in All : fact[Me].source = s \/ fact[f].source = s => f \in Base
  OBVIOUS
<1>7. \A f \in All : \A e \in evid : e.fact = f /\ e.source = s => f \in Base
  BY DEF Recording!EvidOf
<1> QED BY <1>3, <1>4, <1>5, <1>6, <1>7

\* the rows that survive have what they lead to
LEMMA FactSurvivors ==
    ASSUME Recording!Execute
    PROVE  /\ Me \notin Recording!Doomed
           /\ \A f \in Recording!Doomed : f \in FactRows
           /\ \A f \in FactRows : Recording!Live(f) /\ f # Me /\ f \notin Recording!Doomed =>
                 /\ \A p \in {fact[f].up, fact[f].prior} \ {None} : p \notin Recording!Doomed
                 /\ KindOf[f] # "profile" =>
                        \A p \in Recording!LiveOf("profile") : p \notin Recording!Doomed
           /\ plan.path = "FACTS" /\ fact[Me].source = plan.target /\ Me \notin DOMAIN plan.keep =>
                 \A f \in FactRows : Recording!Live(f) /\ f # Me => f \in Recording!Doomed
<1>1. plan.stage = "FROZEN" /\ Recording!KeepFits(plan.keep) BY DEF Recording!Execute
<1> DEFINE S == Recording!Selected(plan.target)
<1>2. \A f \in S : f \in FactRows /\ Recording!Live(f) /\ f # Me BY FactSelected
<1>3. plan.path = "FACTS" => Recording!Doomed = S \ DOMAIN plan.keep BY DEF Recording!Doomed
<1>4. plan.path = "PERSON" => Recording!Doomed = {f \in FactRows : Recording!Live(f) /\ f # Me}
  BY DEF Recording!Doomed
<1>5. plan.path \notin {"FACTS", "PERSON"} => Recording!Doomed = {} BY DEF Recording!Doomed
<1>6. \A f \in DOMAIN plan.keep :
          /\ Recording!ParentsOf(f) \cap S \subseteq DOMAIN plan.keep
          /\ f = Me \/ (fact[Me].source = plan.target => Me \in DOMAIN plan.keep)
  BY <1>1 DEF Recording!KeepFits
<1>7. Me \notin Recording!Doomed /\ \A f \in Recording!Doomed : f \in FactRows
  BY <1>2, <1>3, <1>4, <1>5
<1>8. ASSUME NEW f \in FactRows, Recording!Live(f), f # Me, f \notin Recording!Doomed,
             NEW p \in Recording!ParentsOf(f)
      PROVE  p \notin Recording!Doomed
  <2>1. CASE plan.path = "FACTS"
    <3>1. SUFFICES ASSUME p \in S, p \notin DOMAIN plan.keep PROVE FALSE BY <1>3, <2>1
    <3>2. f \in S BY <1>8, <3>1, FactSelected
    <3>3. f \in DOMAIN plan.keep BY <1>8, <3>2, <1>3, <2>1
    <3> QED BY <1>6, <1>8, <3>1, <3>3
  <2>2. CASE plan.path = "PERSON" BY <1>4, <1>8, <2>2
  <2>3. CASE plan.path \notin {"FACTS", "PERSON"} BY <1>5, <2>3
  <2> QED BY <2>1, <2>2, <2>3
<1>9. ASSUME NEW f \in FactRows, f # Me
      PROVE  /\ {fact[f].up, fact[f].prior} \ {None} \subseteq Recording!ParentsOf(f)
             /\ KindOf[f] # "profile" =>
                    Recording!LiveOf("profile") \subseteq Recording!ParentsOf(f)
  BY <1>9, FactApart DEF Recording!ParentsOf
<1>10. ASSUME plan.path = "FACTS", fact[Me].source = plan.target, Me \notin DOMAIN plan.keep,
              NEW f \in FactRows, Recording!Live(f), f # Me
       PROVE  f \in Recording!Doomed
  <2>1. f \in S BY <1>10, FactSelected
  <2>2. f \notin DOMAIN plan.keep BY <1>6, <1>10
  <2> QED BY <1>3, <1>10, <2>1, <2>2
<1> QED BY <1>7, <1>8, <1>9, <1>10

\* The rows after a deletion, field by field.
LEMMA FactCleaned ==
    ASSUME Recording!Execute
    PROVE  /\ DOMAIN fact' = FactRows /\ DOMAIN items' = FactRows
           /\ \A f \in Recording!Doomed : fact'[f] = Recording!Absent /\ items'[f] = << >>
           /\ fact'[Me] = Recording!Touched(fact[Me])
           /\ \A f \in FactRows : f \notin Recording!Doomed /\ f # Me =>
                 fact'[f] = Recording!Unpictured(f,
                    IF plan.path \in {"FACTS", "PICTURE"} THEN Recording!Pictures(plan.target)
                                                         ELSE {})
           /\ \A f \in FactRows : f \notin Recording!Doomed =>
                 items'[f] = Recording!Without(items[f],
                    IF plan.path \in {"FACTS", "PICTURE"} THEN Recording!Pictures(plan.target)
                                                         ELSE {})
<1> DEFINE A == IF plan.path \in {"FACTS", "PICTURE"} THEN Recording!Pictures(plan.target) ELSE {}
<1>1. /\ fact' = [f \in FactRows |-> IF f \in Recording!Doomed THEN Recording!Absent
                                     ELSE IF f = Me THEN Recording!Touched(fact[Me])
                                     ELSE Recording!Unpictured(f, A)]
      /\ items' = [f \in FactRows |-> IF f \in Recording!Doomed THEN << >>
                                      ELSE Recording!Without(items[f], A)]
  BY DEF Recording!Execute
<1>2. Me \notin Recording!Doomed /\ \A f \in Recording!Doomed : f \in FactRows BY FactSurvivors
<1> HIDE DEF A
<1> QED BY <1>1, <1>2, FactNamed DEF A

LEMMA FactCount == \A S : Recording!Cardinality(S) = Cardinality(S)
BY DEF Recording!Cardinality, Cardinality

\* How many come before is another number for each, and less than their number.
LEMMA Ranks ==
    ASSUME NEW S, IsFiniteSet(S), NEW v, \A k \in S : v[k] \in Int,
           \A j, k \in S : v[j] = v[k] => j = k,
           NEW rank, \A j \in S : rank[j] = Cardinality({k \in S : v[k] < v[j]})
    PROVE  /\ \A j \in S : rank[j] \in 0..(Cardinality(S) - 1)
           /\ \A j, k \in S : rank[j] = rank[k] => j = k
<1> DEFINE Low(j) == {k \in S : v[k] < v[j]}
<1>1. ASSUME NEW T \in SUBSET S
      PROVE  /\ IsFiniteSet(T) /\ Cardinality(T) \in Nat
             /\ \A k \in S \ T : Cardinality(T) + 1 <= Cardinality(S)
             /\ \A U \in SUBSET S : T \subseteq U /\ T # U => Cardinality(T) < Cardinality(U)
  <2>1. IsFiniteSet(T) /\ Cardinality(T) \in Nat BY FS_Subset, FS_CardinalityType
  <2>2. ASSUME NEW U \in SUBSET S, T \subseteq U, T # U PROVE Cardinality(T) < Cardinality(U)
    <3>1. IsFiniteSet(U) /\ Cardinality(U) \in Nat BY FS_Subset, FS_CardinalityType
    <3>2. Cardinality(T) <= Cardinality(U) /\ Cardinality(T) # Cardinality(U)
      BY <2>2, <3>1, FS_Subset
    <3> QED BY <2>1, <3>1, <3>2
  <2>3. Cardinality(S) \in Nat BY FS_CardinalityType
  <2>4. ASSUME NEW k \in S \ T PROVE Cardinality(T) + 1 <= Cardinality(S)
    BY <2>1, <2>2, <2>3
  <2> QED BY <2>1, <2>2, <2>4
<1>2. ASSUME NEW j \in S PROVE rank[j] \in 0..(Cardinality(S) - 1)
  <2>1. Low(j) \in SUBSET S /\ j \in S \ Low(j) /\ rank[j] = Cardinality(Low(j)) OBVIOUS
  <2>2. Cardinality(Low(j)) \in Nat /\ Cardinality(Low(j)) + 1 <= Cardinality(S) BY <1>1, <2>1
  <2>3. Cardinality(S) \in Nat BY FS_CardinalityType
  <2> HIDE DEF Low
  <2> QED BY <2>1, <2>2, <2>3
<1>3. ASSUME NEW j \in S, NEW k \in S, v[j] < v[k] PROVE rank[j] # rank[k]
  <2>1. Low(j) \in SUBSET S /\ Low(k) \in SUBSET S /\ Low(j) \subseteq Low(k)
    BY <1>3
  <2>2. j \in Low(k) /\ j \notin Low(j) BY <1>3
  <2>3. rank[j] = Cardinality(Low(j)) /\ rank[k] = Cardinality(Low(k)) OBVIOUS
  <2> HIDE DEF Low
  <2>4. Cardinality(Low(j)) < Cardinality(Low(k)) BY <1>1, <2>1, <2>2
  <2>5. Cardinality(Low(j)) \in Nat /\ Cardinality(Low(k)) \in Nat BY <1>1, <2>1
  <2> QED BY <2>3, <2>4, <2>5
<1>4. ASSUME NEW j \in S, NEW k \in S, rank[j] = rank[k] PROVE j = k
  <2>1. v[j] < v[k] \/ v[k] < v[j] \/ v[j] = v[k] OBVIOUS
  <2> QED BY <1>3, <1>4, <2>1
<1> QED BY <1>2, <1>4

\* the same, for a set of numbers in their own order
LEMMA RanksOwn ==
    ASSUME NEW S, IsFiniteSet(S), \A k \in S : k \in Int,
           NEW rank, \A j \in S : rank[j] = Cardinality({k \in S : k < j})
    PROVE  /\ \A j \in S : rank[j] \in 0..(Cardinality(S) - 1)
           /\ \A j, k \in S : rank[j] = rank[k] => j = k
<1>1. PICK v : v = [i \in S |-> i] OBVIOUS
<1>2. \A k \in S : v[k] \in Int BY <1>1
<1>3. \A j, k \in S : v[j] = v[k] => j = k BY <1>1
<1>4. ASSUME NEW j \in S PROVE rank[j] = Cardinality({k \in S : v[k] < v[j]})
  <2>1. {k \in S : v[k] < v[j]} = {k \in S : k < j} BY <1>1
  <2> QED BY <2>1
<1>5. \A j \in S : rank[j] = Cardinality({k \in S : v[k] < v[j]}) BY <1>4
<1>6. IsFiniteSet(S) OBVIOUS
<1> QED BY ONLY <1>2, <1>3, <1>5, <1>6, Ranks

\* Without keeps the order and the pictures that may stay, once each as they were.
LEMMA FactWithout ==
    ASSUME NEW q \in Seq(Assets), NEW A
    PROVE  LET w == Recording!Without(q, A) IN
           /\ w \in Seq(Assets) /\ Len(w) <= Len(q)
           /\ Recording!ToSet(w) = Recording!ToSet(q) \ A
           /\ Recording!IsInjective(q) => Recording!IsInjective(w)
<1> DEFINE left == {i \in DOMAIN q : q[i] \notin A}
           c == Cardinality(left)
           rank == [i \in left |-> Cardinality({j \in left : j < i})]
           w == Recording!Without(q, A)
<1>1. /\ DOMAIN q = 1..Len(q) /\ Len(q) \in Nat /\ \A i \in DOMAIN q : q[i] \in Assets
  OBVIOUS
<1>2. IsFiniteSet(DOMAIN q) /\ Cardinality(DOMAIN q) = Len(q)
  <2>1. IsFiniteSet(1..Len(q)) /\ Cardinality(1..Len(q)) = Len(q) BY <1>1, FS_Interval
  <2> QED BY <2>1, <1>1
<1>3. IsFiniteSet(left) /\ c \in Nat /\ c <= Len(q)
  <2>1. left \subseteq DOMAIN q OBVIOUS
  <2> QED BY <2>1, <1>2, FS_Subset, FS_CardinalityType
<1>4. \A i \in left : i \in Int /\ i \in DOMAIN q BY <1>1
<1>5. \A i \in left : rank[i] \in 0..(c - 1) /\ \A j \in left : rank[i] = rank[j] => i = j
  <2>1. \A j \in left : rank[j] = Cardinality({i \in left : i < j}) OBVIOUS
  <2>2. \A i \in left : i \in Int BY <1>4
  <2>3. IsFiniteSet(left) BY <1>3
  <2> HIDE DEF left, rank, c, w
  <2>4. /\ \A j \in left : rank[j] \in 0..(Cardinality(left) - 1)
        /\ \A j, k \in left : rank[j] = rank[k] => j = k
    BY ONLY <2>1, <2>2, <2>3, RanksOwn
  <2> QED BY <2>4 DEF c
<1>6. DOMAIN rank = left /\ rank = [i \in left |-> rank[i]] OBVIOUS
<1>7. /\ w = [n \in 1..c |-> w[n]]
      /\ \A n \in 1..c : w[n] = q[CHOOSE i \in left : rank[i] = n - 1]
  <2>1. \A i \in left : rank[i] = Recording!Cardinality({j \in left : j < i}) BY FactCount
  <2>2. c = Recording!Cardinality(left) BY FactCount
  <2>3. w = [n \in 1..c |-> q[CHOOSE i \in left :
                                 Recording!Cardinality({j \in left : j < i}) = n - 1]]
    BY <2>2 DEF Recording!Without
  <2>4. ASSUME NEW n \in 1..c PROVE w[n] = q[CHOOSE i \in left : rank[i] = n - 1]
    <3>1. w[n] = q[CHOOSE i \in left : Recording!Cardinality({j \in left : j < i}) = n - 1]
      <4> HIDE DEF w, left, c
      <4> QED BY <2>3
    <3>2. (CHOOSE i \in left : Recording!Cardinality({j \in left : j < i}) = n - 1)
          = (CHOOSE i \in left : rank[i] = n - 1)
      <4> HIDE DEF w, left, c, rank
      <4> QED BY <2>1
    <3> QED BY <3>1, <3>2
  <2>5. w = [n \in 1..c |-> w[n]]
    <3> HIDE DEF w, c
    <3> QED BY <2>3
  <2> QED BY <2>4, <2>5
<1> HIDE DEF rank, w
<1>8. \A n \in 1..c : \E i \in left : rank[i] = n - 1
  <2>1. rank \in Injection(left, 0..(c - 1))
    <3>1. rank \in [left -> 0..(c - 1)] BY <1>5, <1>6
    <3> QED BY <3>1, <1>5 DEF Injection, IsInjective
  <2>2. IsFiniteSet(0..(c - 1)) /\ Cardinality(0..(c - 1)) = c
    <3>1. PICK z : z = 0 OBVIOUS
    <3>2. IsFiniteSet(z..(c - 1)) /\ Cardinality(z..(c - 1)) = c
      <4>1. z \in Int /\ c - 1 \in Int BY <1>3, <3>1
      <4> HIDE DEF c
      <4>2. IsFiniteSet(z..(c - 1))
            /\ Cardinality(z..(c - 1)) = IF z > c - 1 THEN 0 ELSE (c - 1) - z + 1
        BY <4>1, FS_Interval
      <4> QED BY <4>2, <3>1, <1>3
    <3> QED BY <3>1, <3>2
  <2>3. rank \in Surjection(left, 0..(c - 1)) BY <2>1, <2>2, FS_Injection DEF c
  <2>4. \A n \in 1..c : n - 1 \in 0..(c - 1) BY <1>3
  <2> HIDE DEF c, left
  <2> QED BY <2>3, <2>4 DEF Surjection
<1> HIDE DEF left, c
<1>9. \A n \in 1..c : /\ (CHOOSE i \in left : rank[i] = n - 1) \in left
                      /\ rank[CHOOSE i \in left : rank[i] = n - 1] = n - 1
  BY <1>8
<1>10. \A n \in 1..c : \E i \in left : rank[i] = n - 1 /\ w[n] = q[i] BY <1>7, <1>9
<1>11. \A i \in left : rank[i] + 1 \in 1..c /\ w[rank[i] + 1] = q[i]
  <2> SUFFICES ASSUME NEW i \in left PROVE rank[i] + 1 \in 1..c /\ w[rank[i] + 1] = q[i] OBVIOUS
  <2>1. rank[i] + 1 \in 1..c BY <1>3, <1>5
  <2>2. PICK j \in left : rank[j] = (rank[i] + 1) - 1 /\ w[rank[i] + 1] = q[j] BY <1>10, <2>1
  <2>3. rank[j] = rank[i] BY <2>2, <1>5, <1>3
  <2> QED BY <2>1, <2>2, <2>3, <1>5
<1>12. DOMAIN w = 1..c BY <1>7
<1>13. \A n \in 1..c : w[n] \in Assets BY <1>1, <1>4, <1>10
<1>14. w \in Seq(Assets) /\ Len(w) = c
  <2>1. w \in [1..c -> Assets]
    <3>1. w = [n \in 1..c |-> w[n]] BY <1>7
    <3> QED BY <3>1, <1>13
  <2> QED BY <2>1, <1>3, SeqDef
<1>15. Recording!ToSet(w) = Recording!ToSet(q) \ A
  <2>1. \A i : i \in left <=> i \in DOMAIN q /\ q[i] \notin A BY DEF left
  <2>2. \A x : x \in Recording!ToSet(w) <=> \E n \in 1..c : w[n] = x BY <1>12 DEF Recording!ToSet
  <2>3. \A x : x \in Recording!ToSet(q) <=> \E i \in DOMAIN q : q[i] = x BY DEF Recording!ToSet
  <2>4. ASSUME NEW x \in Recording!ToSet(w) PROVE x \in Recording!ToSet(q) \ A
    BY <2>1, <2>2, <2>3, <1>10
  <2>5. ASSUME NEW x \in Recording!ToSet(q) \ A PROVE x \in Recording!ToSet(w)
    BY <2>1, <2>2, <2>3, <1>11
  <2> QED BY <2>4, <2>5
<1>16. Recording!IsInjective(q) => Recording!IsInjective(w)
  <2> SUFFICES ASSUME Recording!IsInjective(q), NEW n \in 1..c, NEW k \in 1..c, w[n] = w[k]
               PROVE  n = k
    BY <1>12 DEF Recording!IsInjective
  <2>1. PICK i \in left : rank[i] = n - 1 /\ w[n] = q[i] BY <1>10
  <2>2. PICK j \in left : rank[j] = k - 1 /\ w[k] = q[j] BY <1>10
  <2>3. i = j BY <2>1, <2>2, <1>4 DEF Recording!IsInjective
  <2> QED BY <2>1, <2>2, <2>3
<1> QED BY <1>3, <1>14, <1>15, <1>16 DEF w

\* A row without the pictures A, field by field.
LEMMA FactUnpictured ==
    ASSUME RowsInv, PicsInv, NEW f \in FactRows, f # Me, NEW A
    PROVE  LET r == Recording!Unpictured(f, A)
               w == Recording!Without(items[f], A)
           IN /\ r \in Recording!FactRow /\ ValueFits(f, r.value)
              /\ r.source = fact[f].source /\ r.status = fact[f].status /\ r.up = fact[f].up
              /\ r.prior = fact[f].prior /\ r.now = fact[f].now
              /\ KindOf[f] \notin {"adult", "collection"} \/ ~Recording!Live(f) => r = fact[f]
              /\ r = fact[f] \/ r.rev > fact[f].rev
              /\ KindOf[f] = "collection" /\ Recording!Live(f) =>
                     r.value \in Recording!ToSet(w) \cup {None}
              /\ KindOf[f] = "adult" /\ Recording!Live(f) /\ r.value = "VERIFIED" =>
                     r = fact[f] /\ fact[f].proof \notin A
<1> DEFINE r == Recording!Unpictured(f, A)
           w == Recording!Without(items[f], A)
<1>1. fact[f] \in Recording!FactRow /\ ValueFits(f, fact[f].value) BY DEF RowsInv, RowsTyped
<1>2. items[f] \in Seq(Assets) BY DEF PicsInv
<1>3. w \in Seq(Assets) /\ Recording!ToSet(w) = Recording!ToSet(items[f]) \ A
  BY <1>2, FactWithout
<1>4. Recording!ToSet(w) \subseteq Assets BY <1>3 DEF Recording!ToSet
<1>5. PICK q : q = Recording!Touched(fact[f]) OBVIOUS
<1>6. /\ q \in Recording!FactRow /\ q.rev = fact[f].rev + 1 /\ q.rev > fact[f].rev
      /\ q.source = fact[f].source /\ q.value = fact[f].value /\ q.status = fact[f].status
      /\ q.up = fact[f].up /\ q.prior = fact[f].prior /\ q.now = fact[f].now
  BY <1>1, <1>5, FactTouched DEF Recording!FactRow
<1> HIDE DEF w
<1>7. CASE f \in Recording!Linked(A)
  <2>1. KindOf[f] = "collection" /\ Recording!Live(f)
    BY <1>7 DEF Recording!Linked, Recording!LiveOf
  <2>2. PICK v : v = Recording!CoverOf(fact[f].value, w) OBVIOUS
  <2>3. v \in Recording!ToSet(w) \cup {None} BY <2>2 DEF Recording!CoverOf
  <2>4. r = [q EXCEPT !.value = v]
    <3>1. r = [Recording!Touched(fact[f]) EXCEPT
                 !.value = Recording!CoverOf(@, Recording!Without(items[f], A))]
      BY <1>7 DEF Recording!Unpictured
    <3>2. r = [q EXCEPT !.value = Recording!CoverOf(q.value, w)]
      BY <3>1, <1>5 DEF w
    <3> QED BY <3>2, <2>2, <1>6
  <2>5. v \in Assets \cup {None} BY <2>3, <1>4
  <2> HIDE DEF r
  <2>6. /\ r \in Recording!FactRow /\ r.value = v /\ r.source = q.source /\ r.status = q.status
        /\ r.up = q.up /\ r.prior = q.prior /\ r.now = q.now /\ r.rev = q.rev
    BY <2>4, <2>5, <1>6 DEF Recording!FactRow
  <2>7. ValueFits(f, v) BY <2>1, <2>5 DEF ValueFits, Recording!Values
  <2> QED BY <2>1, <2>3, <2>6, <2>7, <1>6 DEF w, r
<1>8. CASE f \notin Recording!Linked(A) /\ f \in Recording!Proven(A)
  <2>1. KindOf[f] = "adult" /\ Recording!Live(f)
    BY <1>8 DEF Recording!Proven, Recording!LiveOf
  <2>2. r = [q EXCEPT !.value = "UNKNOWN", !.proof = None]
    BY <1>8, <1>5 DEF Recording!Unpictured
  <2> HIDE DEF r
  <2>3. /\ r \in Recording!FactRow /\ r.value = "UNKNOWN" /\ r.source = q.source
        /\ r.status = q.status
        /\ r.up = q.up /\ r.prior = q.prior /\ r.now = q.now /\ r.rev = q.rev
    BY <2>2, <1>6 DEF Recording!FactRow
  <2>4. ValueFits(f, "UNKNOWN") BY <2>1 DEF ValueFits, Recording!Values
  <2> QED BY <2>1, <2>3, <2>4, <1>6 DEF r
<1>9. CASE f \notin Recording!Linked(A) /\ f \notin Recording!Proven(A)
  <2>1. r = fact[f] BY <1>9 DEF Recording!Unpictured
  <2>2. KindOf[f] = "collection" /\ Recording!Live(f) =>
            fact[f].value \in Recording!ToSet(w) \cup {None}
    <3> SUFFICES ASSUME KindOf[f] = "collection", Recording!Live(f)
                 PROVE  fact[f].value \in Recording!ToSet(w) \cup {None}
      OBVIOUS
    <3>1. f \in Recording!LiveOf("collection") BY DEF Recording!LiveOf
    <3>2. Recording!ToSet(items[f]) \cap A = {} BY <3>1, <1>9 DEF Recording!Linked
    <3>3. fact[f].value \in Recording!ToSet(items[f]) \cup {None}
      BY <3>1 DEF PicsInv, Recording!PicturesHold
    <3> QED BY <3>2, <3>3, <1>3
  <2>3. KindOf[f] = "adult" /\ Recording!Live(f) => fact[f].proof \notin A
    BY <1>9 DEF Recording!Proven, Recording!LiveOf
  <2> QED BY <2>1, <2>2, <2>3, <1>1 DEF w
<1> QED BY <1>7, <1>8, <1>9

\* What a deletion leaves of the rows.
LEMMA FactRowsExecute ==
    ASSUME RowsInv, PicsInv, Recording!Execute PROVE RowsInv'
<1> DEFINE D == Recording!Doomed
           A == IF plan.path \in {"FACTS", "PICTURE"} THEN Recording!Pictures(plan.target) ELSE {}
<1>1. /\ Me \notin D /\ \A f \in D : f \in FactRows
      /\ \A f \in FactRows : Recording!Live(f) /\ f # Me /\ f \notin D =>
            /\ \A p \in {fact[f].up, fact[f].prior} \ {None} : p \notin D
            /\ KindOf[f] # "profile" => \A p \in Recording!LiveOf("profile") : p \notin D
  BY FactSurvivors
<1>2. /\ DOMAIN fact' = FactRows /\ fact'[Me] = Recording!Touched(fact[Me])
      /\ \A f \in D : fact'[f] = Recording!Absent
      /\ \A f \in FactRows : f \notin D /\ f # Me => fact'[f] = Recording!Unpictured(f, A)
  BY FactCleaned
<1> HIDE DEF D, A
<1>3. /\ fact'[Me] \in Recording!FactRow /\ fact'[Me].source = fact[Me].source
      /\ fact'[Me].value = fact[Me].value /\ fact'[Me].status = fact[Me].status
  BY <1>2, FactTouched, FactNamed DEF RowsInv, RowsTyped
<1>4. \A f \in FactRows : f \notin D /\ f # Me =>
         /\ fact'[f] \in Recording!FactRow /\ ValueFits(f, fact'[f].value)
         /\ fact'[f].status = fact[f].status /\ fact'[f].up = fact[f].up
         /\ fact'[f].prior = fact[f].prior
         /\ KindOf[f] \notin {"adult", "collection"} \/ ~Recording!Live(f) => fact'[f] = fact[f]
  BY <1>2, FactUnpictured
<1>5. \A f \in FactRows : f \notin D => (Recording!Live(f)' <=> Recording!Live(f))
  BY <1>3, <1>4 DEF Recording!Live
<1>6. \A f \in D : ~Recording!Live(f)' /\ fact'[f] = Recording!Absent /\ f # Me
  <2>1. Recording!Absent.status = "ABSENT" BY DEF Recording!Absent
  <2> QED BY <2>1, <1>1, <1>2 DEF Recording!Live
<1>7. ASSUME NEW k, NEW f
      PROVE  f \in Recording!LiveOf(k)' <=> f \in Recording!LiveOf(k) /\ f \notin D
  BY <1>5, <1>6 DEF Recording!LiveOf
<1>8. RowsTyped'
  <2>1. Recording!Absent \in Recording!FactRow /\ Recording!Absent.value = None
    BY DEF Recording!Absent, Recording!FactRow, Recording!Statuses
  <2>2. \A f : ValueFits(f, None) BY DEF ValueFits
  <2>3. ValueFits(Me, fact[Me].value) BY FactNamed DEF RowsInv, RowsTyped
  <2>4. ASSUME NEW f \in FactRows
        PROVE  fact'[f] \in Recording!FactRow /\ ValueFits(f, fact'[f].value)
    <3>1. CASE f \in D BY <3>1, <2>1, <2>2, <1>2
    <3>2. CASE f = Me BY <3>2, <2>3, <1>3
    <3>3. CASE f \notin D /\ f # Me BY <3>3, <1>4
    <3> QED BY <3>1, <3>2, <3>3
  <2> QED BY <2>4, <1>2 DEF RowsTyped
<1>9. RowStates'
  <2>1. \A f, g \in Recording!LiveOf("casting")' : f = g
    BY <1>7 DEF RowsInv, RowStates
  <2>2. fact'[Me].status \in {"ACTIVE", "ARCHIVED", "ERASED"} /\ fact'[Me].source = s1
    BY <1>3 DEF RowsInv, RowStates
  <2>3. Recording!Absent.status = "ABSENT" BY DEF Recording!Absent
  <2>4. ASSUME NEW g \in FactRows, g # Me
        PROVE  /\ fact'[g].status = "ABSENT" => fact'[g] = Recording!Absent
               /\ fact'[g].status # "ABSENT" => fact'[g].status \in
                     IF KindOf[g] = "measurement" THEN {"DRAFT", "CONFIRMED", "SUPERSEDED"}
                                                  ELSE {"ACTIVE", "ARCHIVED"}
    <3>1. CASE g \in D BY <3>1, <2>3, <1>6
    <3>2. CASE g \notin D
      <4>1. fact'[g].status = "ABSENT" => fact'[g] = fact[g]
        BY <2>4, <3>2, <1>4 DEF Recording!Live
      <4> QED BY <2>4, <3>2, <4>1, <1>4 DEF RowsInv, RowStates
    <3> QED BY <3>1, <3>2
  <2> QED BY <2>1, <2>2, <2>4 DEF RowStates
<1>10. RowRefs'
  <2> SUFFICES ASSUME NEW f \in FactRows, Recording!Live(f)', f # Me
               PROVE  /\ fact'[Me].status # "ERASED"
                      /\ \A p \in {fact'[f].up, fact'[f].prior} \ {None} : Recording!Live(p)'
                      /\ KindOf[f] \in {"role", "capability"} => Recording!LiveOf("profile")' # {}
    BY DEF RowRefs
  <2>1. f \notin D /\ Recording!Live(f) BY <1>5, <1>6
  <2>2. fact'[f].up = fact[f].up /\ fact'[f].prior = fact[f].prior BY <2>1, <1>4
  <2>3. fact[f] \in Recording!FactRow BY DEF RowsInv, RowsTyped
  <2>4. \A p \in {fact[f].up, fact[f].prior} \ {None} :
            p \in FactRows /\ Recording!Live(p) /\ p \notin D
    BY <2>1, <2>3, <1>1 DEF RowsInv, RowRefs, Recording!FactRow
  <2>5. fact[Me].status # "ERASED" BY <2>1 DEF RowsInv, RowRefs
  <2>6. KindOf[f] \in {"role", "capability"} => Recording!LiveOf("profile")' # {}
    <3> SUFFICES ASSUME KindOf[f] \in {"role", "capability"}
                 PROVE  Recording!LiveOf("profile")' # {}
      OBVIOUS
    <3>1. PICK p : p \in Recording!LiveOf("profile") BY <2>1 DEF RowsInv, RowRefs
    <3>2. p \notin D BY <3>1, <2>1, <1>1
    <3> QED BY <3>1, <3>2, <1>7
  <2> QED BY <2>2, <2>4, <2>5, <2>6, <1>3, <1>5
<1>11. \A k \in {"casting", "measurement", "role"} : \A f \in Recording!LiveOf(k)' :
          f \in Recording!LiveOf(k) /\ fact'[f] = fact[f] /\ f \in FactRows /\ f # Me
             /\ Recording!Live(f) /\ f \notin D
  BY <1>4, <1>7, FactNamed DEF Recording!LiveOf
<1>12. ASSUME NEW f \in FactRows, f # Me, f \notin D, Recording!Live(f), fact[f].prior # None,
              fact[fact[f].prior].status \in {"CONFIRMED", "SUPERSEDED"}
       PROVE  fact'[fact[f].prior].status = fact[fact[f].prior].status
  <2>1. fact[f] \in Recording!FactRow BY DEF RowsInv, RowsTyped
  <2>2. fact[f].prior \in FactRows /\ fact[f].prior \notin D
    BY <2>1, <1>1, <1>12 DEF Recording!FactRow
  <2> QED BY <2>2, <1>3, <1>4, <1>12
<1>13. PriorsConfirmed' BY <1>11, <1>12 DEF RowsInv, PriorsConfirmed
<1>14. Recording!CurrentIsConfirmed'
  <2>1. ASSUME NEW c \in Recording!LiveOf("casting")', fact'[c].prior # None
        PROVE  fact'[fact'[c].prior].status = "CONFIRMED"
    <3>1. fact[fact[c].prior].status = "CONFIRMED" /\ fact[c].prior # None
      BY <2>1, <1>11 DEF RowsInv, Recording!CurrentIsConfirmed
    <3> QED BY <2>1, <3>1, <1>11, <1>12
  <2>2. ASSUME NEW m \in Recording!LiveOf("measurement")', fact'[m].prior # None,
               fact'[m].status # "DRAFT"
        PROVE  fact'[fact'[m].prior].status = "SUPERSEDED"
    <3>1. fact[fact[m].prior].status = "SUPERSEDED" /\ fact[m].prior # None
      BY <2>2, <1>11 DEF RowsInv, Recording!CurrentIsConfirmed
    <3> QED BY <2>2, <3>1, <1>11, <1>12
  <2> QED BY <2>1, <2>2 DEF Recording!CurrentIsConfirmed
<1>15. Recording!PeriodsHold' BY <1>11 DEF RowsInv, Recording!PeriodsHold
<1> QED BY <1>8, <1>9, <1>10, <1>13, <1>14, <1>15 DEF RowsInv

-------------------------------------------------------------------------------
(* Facts: what a command leaves alone *)

\* No row goes, its revision tells its value, and a new owner is a source in use.
RowsKeep ==
    \A f \in FactRows :
        /\ fact[f].status # "ABSENT" => fact'[f].status # "ABSENT"
        /\ \/ fact'[f].rev > fact[f].rev
           \/ fact'[f].rev = fact[f].rev /\ fact'[f].value = fact[f].value
        /\ Recording!Live(f)' =>
              \/ Recording!Live(f) /\ fact'[f].source = fact[f].source
              \/ /\ Recording!Live(f) \/ fact[f].status = "ABSENT"
                 /\ fact'[f].source \in Sources /\ Recording!Usable(fact'[f].source)
\* New pictures and new proofs are readable ones.
PicsKeep ==
    /\ asset' = asset
    /\ \A f \in FactRows : \A a \in Recording!ToSet(items'[f]) :
          a \in Recording!ToSet(items[f]) \/ Recording!AssetReadable(a)
    /\ \A f \in Recording!LiveOf("adult")' : fact'[f].value = "VERIFIED" =>
          \/ /\ f \in Recording!LiveOf("adult") /\ fact[f].value = "VERIFIED"
             /\ fact'[f].proof = fact[f].proof
          \/ Recording!AssetReadable(fact'[f].proof)

\* The pictures stay while neither they nor what shows them changes.
LEMMA FactPicsStay ==
    ASSUME PicsInv, items' = items, asset' = asset,
           \A f \in FactRows : KindOf[f] \in {"adult", "collection"} => fact'[f] = fact[f]
    PROVE  PicsInv' /\ PicsKeep
<1>1. \A k \in {"adult", "collection"} : \A f :
          (f \in Recording!LiveOf(k)' <=> f \in Recording!LiveOf(k))
          /\ (f \in Recording!LiveOf(k) => fact'[f] = fact[f])
  BY DEF Recording!LiveOf, Recording!Live
<1>2. PicsKeep BY <1>1 DEF PicsKeep
<1>3. Recording!PicturesHold'
  <2>1. ASSUME NEW f \in Recording!LiveOf("adult")', fact'[f].value = "VERIFIED"
        PROVE  fact'[f].proof # None /\ asset[fact'[f].proof] # "ERASED"
    BY <2>1, <1>1 DEF PicsInv, Recording!PicturesHold
  <2>2. ASSUME NEW c \in Recording!LiveOf("collection")'
        PROVE  /\ fact'[c].value \in Recording!ToSet(items[c]) \cup {None}
               /\ Recording!IsInjective(items[c])
               /\ \A a \in Recording!ToSet(items[c]) : asset[a] # "ERASED"
               /\ fact'[c].now => fact'[c].status = "ACTIVE"
    BY <1>1 DEF PicsInv, Recording!PicturesHold
  <2>3. ASSUME NEW c \in Recording!LiveOf("collection")', fact'[c].now,
               NEW g \in Recording!LiveOf("collection")' \ {c}
        PROVE  ~fact'[g].now
    BY <2>3, <1>1 DEF PicsInv, Recording!PicturesHold, Recording!Others
  <2> QED BY <2>1, <2>2, <2>3 DEF Recording!PicturesHold, Recording!Others
<1> QED BY <1>2, <1>3 DEF PicsInv

\* One row and its pictures.
LEMMA FactPicsEdit ==
    ASSUME RowsInv, PicsInv, NEW f \in FactRows, f # Me, NEW row \in Recording!FactRow,
           fact' = [fact EXCEPT ![f] = row, ![Me] = Recording!Touched(fact[Me])],
           NEW q \in Seq(Assets), DOMAIN items' = FactRows, items'[f] = q,
           \A g \in FactRows : g # f => items'[g] = items[g], asset' = asset,
           Len(q) <= MaxItems, Recording!IsInjective(q),
           \A a \in Recording!ToSet(q) :
              (a \in Recording!ToSet(items[f]) /\ Recording!Live(f)) \/ Recording!AssetReadable(a)
              \/ (q = items[f] /\ KindOf[f] # "collection"),
           KindOf[f] = "collection" =>
              /\ row.value \in Recording!ToSet(q) \cup {None}
              /\ row.now => row.status = "ACTIVE"
              /\ row.now => \A g \in Recording!Others(f, "collection") : ~fact[g].now,
           KindOf[f] = "adult" /\ row.value = "VERIFIED" =>
              \/ Recording!Live(f) /\ fact[f].value = "VERIFIED" /\ row.proof = fact[f].proof
              \/ row.proof # None /\ Recording!AssetReadable(row.proof)
    PROVE  PicsInv' /\ PicsKeep
<1>1. /\ DOMAIN fact' = FactRows /\ fact'[f] = row
      /\ \A g \in FactRows : g # f /\ g # Me => fact'[g] = fact[g]
  BY FactNamed DEF RowsInv, RowsTyped
<1>2. /\ DOMAIN items' = FactRows /\ items'[f] = q
      /\ \A g \in FactRows : g # f => items'[g] = items[g]
  OBVIOUS
<1>3. ASSUME NEW k \in {"adult", "collection"}, NEW g
      PROVE  /\ g \in Recording!LiveOf(k)' => g \in FactRows /\ KindOf[g] = k /\ g # Me
             /\ g \in Recording!LiveOf(k) => g \in FactRows /\ KindOf[g] = k /\ g # Me
                                              /\ Recording!Live(g)
             /\ g # f => (g \in Recording!LiveOf(k)' <=> g \in Recording!LiveOf(k))
             /\ g # f /\ g \in Recording!LiveOf(k) => fact'[g] = fact[g]
  <2>1. \A x \in FactRows : KindOf[x] = k => x # Me BY FactNamed
  <2> QED BY <2>1, <1>1 DEF Recording!LiveOf, Recording!Live
<1>4. \A a : Recording!AssetReadable(a) => asset[a] # "ERASED" BY DEF Recording!AssetReadable
<1>5. PicsKeep
  <2>1. \A g \in FactRows : \A a \in Recording!ToSet(items'[g]) :
            a \in Recording!ToSet(items[g]) \/ Recording!AssetReadable(a)
    BY <1>2
  <2>2. ASSUME NEW g \in Recording!LiveOf("adult")', fact'[g].value = "VERIFIED"
        PROVE  \/ /\ g \in Recording!LiveOf("adult") /\ fact[g].value = "VERIFIED"
                  /\ fact'[g].proof = fact[g].proof
               \/ Recording!AssetReadable(fact'[g].proof)
    <3>1. CASE g = f BY <2>2, <3>1, <1>1, <1>3 DEF Recording!LiveOf
    <3>2. CASE g # f BY <2>2, <3>2, <1>3
    <3> QED BY <3>1, <3>2
  <2> QED BY <2>1, <2>2 DEF PicsKeep
<1>6. Recording!PicturesHold'
  <2>1. ASSUME NEW g \in Recording!LiveOf("adult")', fact'[g].value = "VERIFIED"
        PROVE  fact'[g].proof # None /\ asset[fact'[g].proof] # "ERASED"
    <3>1. ASSUME g \in Recording!LiveOf("adult"), fact[g].value = "VERIFIED"
          PROVE  fact[g].proof # None /\ asset[fact[g].proof] # "ERASED"
      BY <3>1 DEF PicsInv, Recording!PicturesHold
    <3>2. CASE g = f
      <4>1. KindOf[f] = "adult" /\ row.value = "VERIFIED" BY <2>1, <3>2, <1>1, <1>3
      <4>2. Recording!Live(f) => f \in Recording!LiveOf("adult") BY <4>1 DEF Recording!LiveOf
      <4> QED BY <3>1, <3>2, <4>1, <4>2, <1>1, <1>4
    <3>3. CASE g # f BY <2>1, <3>1, <3>3, <1>3
    <3> QED BY <3>2, <3>3
  <2>2. ASSUME NEW c \in Recording!LiveOf("collection")'
        PROVE  /\ fact'[c].value \in Recording!ToSet(items'[c]) \cup {None}
               /\ Recording!IsInjective(items'[c])
               /\ \A a \in Recording!ToSet(items'[c]) : asset[a] # "ERASED"
               /\ fact'[c].now => fact'[c].status = "ACTIVE"
    <3>1. CASE c # f
      <4>1. c \in Recording!LiveOf("collection") /\ fact'[c] = fact[c] /\ items'[c] = items[c]
        BY <3>1, <1>2, <1>3
      <4> QED BY <4>1 DEF PicsInv, Recording!PicturesHold
    <3>2. CASE c = f
      <4>1. KindOf[f] = "collection" BY <3>2, <1>3
      <4>2. Recording!Live(f) => \A a \in Recording!ToSet(items[f]) : asset[a] # "ERASED"
        BY <4>1 DEF Recording!LiveOf, PicsInv, Recording!PicturesHold
      <4>3. \A a \in Recording!ToSet(q) : asset[a] # "ERASED" BY <4>1, <4>2, <1>4
      <4> QED BY <3>2, <4>1, <4>3, <1>1, <1>2
    <3> QED BY <3>1, <3>2
  <2>3. ASSUME NEW c \in Recording!LiveOf("collection")', fact'[c].now,
               NEW g \in Recording!LiveOf("collection")' \ {c}
        PROVE  ~fact'[g].now
    <3>1. ASSUME NEW x \in Recording!LiveOf("collection"), x # f
          PROVE  /\ row.now /\ KindOf[f] = "collection" => ~fact[x].now
                 /\ fact[x].now => \A y \in Recording!LiveOf("collection") : y # x => ~fact[y].now
      BY <3>1 DEF PicsInv, Recording!PicturesHold, Recording!Others
    <3>2. CASE c = f BY <2>3, <3>1, <3>2, <1>1, <1>3
    <3>3. CASE g = f BY <2>3, <3>1, <3>3, <1>1, <1>3
    <3>4. CASE c # f /\ g # f BY <2>3, <3>1, <3>4, <1>3
    <3> QED BY <3>2, <3>3, <3>4
  <2> QED BY <2>1, <2>2, <2>3 DEF Recording!PicturesHold, Recording!Others
<1>7. \A g \in FactRows : items'[g] \in Seq(Assets) /\ Len(items'[g]) <= MaxItems
                          /\ Recording!IsInjective(items'[g])
  BY <1>2 DEF PicsInv
<1> QED BY <1>2, <1>5, <1>6, <1>7 DEF PicsInv

\* One row, its pictures, and the revision of the person.
LEMMA FactRowsKept ==
    ASSUME RowsInv, NEW f \in FactRows, f # Me, NEW row \in Recording!FactRow,
           fact' = [fact EXCEPT ![f] = row, ![Me] = Recording!Touched(fact[Me])],
           row.rev > fact[f].rev, row.status # "ABSENT",
           \/ Recording!Live(f) /\ row.source = fact[f].source
           \/ /\ Recording!Live(f) \/ fact[f].status = "ABSENT"
              /\ row.source \in Sources /\ Recording!Usable(row.source)
    PROVE  RowsKeep
<1>1. /\ DOMAIN fact' = FactRows /\ fact'[f] = row
      /\ fact'[Me] = Recording!Touched(fact[Me])
      /\ \A g \in FactRows : g # f /\ g # Me => fact'[g] = fact[g]
  BY FactNamed DEF RowsInv, RowsTyped
<1>2. /\ fact'[Me].source = fact[Me].source /\ fact'[Me].value = fact[Me].value
      /\ fact'[Me].status = fact[Me].status /\ fact'[Me].rev > fact[Me].rev
  <2>1. fact[Me] \in Recording!FactRow BY FactNamed DEF RowsInv, RowsTyped
  <2> QED BY <2>1, <1>1, FactTouched DEF Recording!FactRow
<1>3. \A g \in FactRows : fact[g].rev \in Nat BY DEF RowsInv, RowsTyped, Recording!FactRow
<1>4. ASSUME NEW g \in FactRows
      PROVE  /\ fact[g].status # "ABSENT" => fact'[g].status # "ABSENT"
             /\ \/ fact'[g].rev > fact[g].rev
                \/ fact'[g].rev = fact[g].rev /\ fact'[g].value = fact[g].value
             /\ Recording!Live(g)' =>
                  \/ Recording!Live(g) /\ fact'[g].source = fact[g].source
                  \/ /\ Recording!Live(g) \/ fact[g].status = "ABSENT"
                     /\ fact'[g].source \in Sources /\ Recording!Usable(fact'[g].source)
  <2>1. CASE g = f BY <2>1, <1>1
  <2>2. CASE g = Me BY <2>2, <1>2 DEF Recording!Live
  <2>3. CASE g # f /\ g # Me BY <2>3, <1>1, <1>3 DEF Recording!Live
  <2> QED BY <2>1, <2>2, <2>3
<1> QED BY <1>4 DEF RowsKeep

\* A step on the person alone.
LEMMA FactOwnKept ==
    ASSUME RowsInv, DOMAIN fact' = FactRows, \A f \in FactRows : f # Me => fact'[f] = fact[f],
           fact'[Me].source = fact[Me].source, fact'[Me].status # "ABSENT",
           Recording!Live(Me)' => Recording!Live(Me),
           \/ fact'[Me].rev > fact[Me].rev
           \/ fact'[Me].rev = fact[Me].rev /\ fact'[Me].value = fact[Me].value
    PROVE  RowsKeep
BY DEF RowsKeep, Recording!Live

\* New evidence is of a row that is there, by a source in use, and is recorded as history.
BasisAdds ==
    /\ evid \subseteq evid' /\ spoken \subseteq spoken'
    /\ \A e \in evid' :
          e \in evid \/ (e.fact \in spoken' /\ e.source \in Sources /\ Recording!Usable(e.source))
    /\ \A f \in spoken' : f \in spoken \/ (f \in FactRows /\ fact'[f].status # "ABSENT"
                                              /\ \E e \in evid' : e.fact = f)
SourcesKeep ==
    \A s \in Sources : (src'[s].status = "ERASED") <=> (src[s].status = "ERASED")

LEMMA FactWrite ==
    ASSUME NEW f \in FactRows, NEW row, NEW S, Recording!Write(f, row, S), f # Me
    PROVE  fact' = [fact EXCEPT ![f] = row, ![Me] = Recording!Touched(fact[Me])]
BY DEF Recording!Write

LEMMA FactRecorded ==
    ASSUME NEW f \in FactRows, NEW row, NEW S \in SUBSET Sources, Recording!Write(f, row, S),
           \A s \in S : Recording!Usable(s), fact'[f].status # "ABSENT"
    PROVE  BasisAdds
<1>1. /\ evid' = evid \cup Recording!Recorded(f, row.value, S)
      /\ spoken' = IF S = {} THEN spoken ELSE spoken \cup {f}
  BY DEF Recording!Write
<1>2. \A e \in Recording!Recorded(f, row.value, S) : e.fact = f /\ e.source \in S
  BY DEF Recording!Recorded
<1>3. ASSUME S # {} PROVE \E e \in evid' : e.fact = f
  <2>1. PICK s : s \in S BY <1>3
  <2>2. [fact |-> f, value |-> row.value, source |-> s, srev |-> src[s].rev]
            \in Recording!Recorded(f, row.value, S)
    BY <2>1 DEF Recording!Recorded
  <2> QED BY <2>2, <1>1, <1>2
<1>4. \A e \in Recording!Recorded(f, row.value, S) : S # {} BY DEF Recording!Recorded
<1> QED BY <1>1, <1>2, <1>3, <1>4 DEF BasisAdds

\* A row with another value.
LEMMA FactValued ==
    ASSUME NEW r \in Recording!FactRow, NEW v \in FactValues
    PROVE  LET t == [Recording!Touched(r) EXCEPT !.value = v] IN
           /\ t \in Recording!FactRow /\ t.rev > r.rev /\ t.source = r.source
           /\ t.value = v /\ t.status = r.status /\ t.up = r.up /\ t.prior = r.prior
           /\ t.proof = r.proof /\ t.now = r.now
<1>1. PICK q : q = Recording!Touched(r) OBVIOUS
<1>2. q \in Recording!FactRow /\ r.rev \in Nat BY <1>1, FactTouched DEF Recording!FactRow
<1>3. [q EXCEPT !.value = v] \in Recording!FactRow
  BY <1>2 DEF Recording!FactRow, FactValues
<1> QED BY <1>1, <1>2, <1>3, FactTouched DEF Recording!FactRow

LEMMA FactFits == \A f \in FactRows : \A v : ValueFits(f, v) => v \in FactValues
<1> SUFFICES ASSUME NEW f \in FactRows, NEW v, ValueFits(f, v) PROVE v \in FactValues OBVIOUS
<1>1. KindOf[f] \in Recording!Kinds BY FactApart
<1>2. CASE KindOf[f] = "collection" BY <1>2 DEF ValueFits, Recording!Values, FactValues
<1>3. CASE KindOf[f] # "collection"
  <2>1. CASE KindOf[f] = "role" BY <2>1 DEF ValueFits, Recording!Values, FactValues
  <2>2. CASE KindOf[f] = "measurement" BY <2>2 DEF ValueFits, Recording!Values, FactValues
  <2>3. CASE KindOf[f] = "adult" BY <2>3 DEF ValueFits, Recording!Values, FactValues
  <2>4. CASE KindOf[f] \in {"person", "profile", "capability", "casting"}
    BY <2>4 DEF ValueFits, Recording!Values, FactValues
  <2> QED BY <2>1, <2>2, <2>3, <2>4, <1>1, <1>3 DEF Recording!Kinds
<1> QED BY <1>2, <1>3

\* The state of a row that is there.
LEMMA FactStates ==
    ASSUME RowsInv, NEW f \in FactRows, Recording!Live(f)
    PROVE  /\ f # Me => fact[f].status \in IF KindOf[f] = "measurement"
                                           THEN {"DRAFT", "CONFIRMED", "SUPERSEDED"}
                                           ELSE {"ACTIVE", "ARCHIVED"}
           /\ f = Me => fact[f].status \in {"ACTIVE", "ARCHIVED"}
           /\ fact[f].status \in Recording!Statuses /\ fact[f].status # "ABSENT"
<1>1. fact[f].status # "ABSENT" /\ fact[f].status # "ERASED" BY DEF Recording!Live
<1>2. f # Me => fact[f].status \in IF KindOf[f] = "measurement"
                                   THEN {"DRAFT", "CONFIRMED", "SUPERSEDED"}
                                   ELSE {"ACTIVE", "ARCHIVED"}
  BY <1>1 DEF RowsInv, RowStates
<1>3. f = Me => fact[f].status \in {"ACTIVE", "ARCHIVED"} BY <1>1 DEF RowsInv, RowStates
<1> QED BY <1>1, <1>2, <1>3 DEF Recording!Statuses

\* A command that writes one row keeps them all in order, its pictures too.
LEMMA FactEdit ==
    ASSUME RowsInv, PicsInv, NEW f \in FactRows, f # Me, NEW row \in Recording!FactRow,
           NEW S \in SUBSET Sources, Recording!Write(f, row, S), \A s \in S : Recording!Usable(s),
           items' = items, asset' = asset, Recording!PersonOpen, Recording!Validate(f, row),
           ValueFits(f, row.value), row.rev > fact[f].rev,
           KindOf[f] = "casting" => Recording!Live(f) /\ row.prior = fact[f].prior,
           row.status \in IF KindOf[f] = "measurement" THEN {"DRAFT", "CONFIRMED", "SUPERSEDED"}
                                                       ELSE {"ACTIVE", "ARCHIVED"},
           \A p \in {row.up, row.prior} \ {None} : Recording!Live(p),
           KindOf[f] = "measurement" =>
              \/ /\ Recording!Live(f) /\ row.status = fact[f].status
                 /\ row.prior = fact[f].prior
              \/ ~Recording!Live(f) /\ row.status = "DRAFT",
           KindOf[f] = "adult" /\ row.value = "VERIFIED" =>
              Recording!Live(f) /\ fact[f].value = "VERIFIED" /\ row.proof = fact[f].proof,
           \/ Recording!Live(f) /\ row.source = fact[f].source
           \/ /\ Recording!Live(f) \/ fact[f].status = "ABSENT"
              /\ row.source \in Sources /\ Recording!Usable(row.source)
    PROVE  RowsInv' /\ PicsInv' /\ RowsKeep /\ PicsKeep /\ BasisAdds
<1>1. fact' = [fact EXCEPT ![f] = row, ![Me] = Recording!Touched(fact[Me])] BY FactWrite
<1>2. Recording!Live(Me) BY DEF Recording!PersonOpen
<1>3. row.status # "ABSENT" OBVIOUS
<1>4. RowsKeep BY <1>1, <1>3, FactRowsKept
<1>5. RowsInv'
  <2>1. KindOf[f] \in {"role", "capability"} => Recording!LiveOf("profile") # {}
    BY DEF Recording!Validate
  <2>2. KindOf[f] = "measurement" =>
            (row.prior # None => fact[row.prior].status \in {"CONFIRMED", "SUPERSEDED"})
    BY DEF Recording!Validate, Recording!FollowsPrior
  <2>3. KindOf[f] = "role" => Recording!PeriodsApart(f, row) BY DEF Recording!Validate
  <2> QED BY <1>1, <1>2, <2>1, <2>2, <2>3, FactRowsEdit
<1>6. PicsInv' /\ PicsKeep
  <2>1. PICK q \in Seq(Assets) : q = items[f] /\ Len(q) <= MaxItems /\ Recording!IsInjective(q)
    BY DEF PicsInv
  <2>2. DOMAIN items' = FactRows /\ items'[f] = q /\ \A g \in FactRows : items'[g] = items[g]
    BY <2>1 DEF PicsInv
  <2>3. KindOf[f] = "collection" => Recording!CollectionFits(f, row) BY DEF Recording!Validate
  <2>4. \A a \in Recording!ToSet(q) :
          (a \in Recording!ToSet(items[f]) /\ Recording!Live(f)) \/ Recording!AssetReadable(a)
          \/ (q = items[f] /\ KindOf[f] # "collection")
    BY <2>1, <2>3 DEF Recording!CollectionFits
  <2>5. KindOf[f] = "collection" =>
              /\ row.value \in Recording!ToSet(q) \cup {None}
              /\ row.now => row.status = "ACTIVE"
              /\ row.now => \A g \in Recording!Others(f, "collection") : ~fact[g].now
    BY <2>1, <2>3 DEF Recording!CollectionFits
  <2> QED BY <1>1, <2>1, <2>2, <2>4, <2>5, FactPicsEdit
<1>7. BasisAdds
  <2>1. fact'[f] = row BY <1>1, FactNamed DEF RowsInv, RowsTyped
  <2> QED BY <2>1, <1>3, FactRecorded
<1> QED BY <1>4, <1>5, <1>6, <1>7

\* What the commands on a row keep: every group but the proposals and the deletion.
FactKept == RowsInv' /\ PicsInv' /\ RowsKeep /\ PicsKeep /\ BasisAdds

LEMMA FactCreate ==
    ASSUME RowsInv, PicsInv, NEW f \in FactRows, NEW s \in Sources, NEW v, ValueFits(f, v),
           NEW up \in FactRows \cup {None}, NEW prior \in FactRows \cup {None},
           KindOf[f] # "casting", Recording!CreateFact(f, s, v, up, prior),
           KindOf[f] # "measurement" => prior = None
    PROVE  FactKept
<1> DEFINE row == [Recording!Absent EXCEPT !.source = s, !.value = v, !.up = up, !.prior = prior,
                     !.rev = 1, !.status = IF KindOf[f] = "measurement" THEN "DRAFT" ELSE "ACTIVE"]
<1>1. /\ Recording!PersonOpen /\ Recording!Usable(s) /\ f # Me /\ fact[f] = Recording!Absent
      /\ v # "VERIFIED" /\ Recording!Validate(f, row) /\ Recording!Write(f, row, {s})
      /\ items' = items /\ asset' = asset
  BY DEF Recording!CreateFact, Recording!MayEdit
<1>0. PICK x : x = IF KindOf[f] = "measurement" THEN "DRAFT" ELSE "ACTIVE" OBVIOUS
<1>2. row = [source |-> s, value |-> v, status |-> x, rev |-> 1,
             up |-> up, prior |-> prior, proof |-> None, now |-> FALSE]
  <2>1. row = [Recording!Absent EXCEPT !.source = s, !.value = v, !.up = up, !.prior = prior,
                                       !.rev = 1, !.status = x]
    BY <1>0
  <2> HIDE DEF row
  <2> QED BY <2>1 DEF Recording!Absent
<1> HIDE DEF row
<1>3. /\ row.source = s /\ row.value = v /\ row.rev = 1 /\ row.up = up /\ row.prior = prior
      /\ row.status = IF KindOf[f] = "measurement" THEN "DRAFT" ELSE "ACTIVE"
  BY <1>0, <1>2
<1>4. v \in FactValues BY FactFits
<1>5. row \in Recording!FactRow
  <2>1. x \in Recording!Statuses BY <1>0 DEF Recording!Statuses
  <2> QED BY <1>2, <1>4, <2>1 DEF Recording!FactRow, FactValues
<1>6. fact[f].status = "ABSENT" /\ fact[f].rev = 0 /\ ~Recording!Live(f)
  BY <1>1 DEF Recording!Absent, Recording!Live
<1>7. \A p \in {row.up, row.prior} \ {None} : Recording!Live(p)
  BY <1>1, <1>3 DEF Recording!Validate, Recording!FollowsPrior
<1>8. {s} \in SUBSET Sources /\ \A y \in {s} : Recording!Usable(y) BY <1>1
<1>9. RowsInv' /\ PicsInv' /\ RowsKeep /\ PicsKeep /\ BasisAdds
  BY <1>1, <1>3, <1>5, <1>6, <1>7, <1>8, FactEdit
<1> QED BY <1>9 DEF FactKept

LEMMA FactPatch ==
    ASSUME RowsInv, PicsInv, BasisInv, NEW f \in FactRows, NEW v, ValueFits(f, v), NEW st,
           Recording!PatchFact(f, v, st)
    PROVE  FactKept
<1> DEFINE row == [Recording!Touched(fact[f]) EXCEPT !.value = v, !.status = st]
           S == IF v # fact[f].value THEN {fact[f].source} ELSE {}
<1>1. /\ Recording!PersonOpen /\ Recording!Live(f) /\ f # Me /\ Recording!Usable(fact[f].source)
      /\ v # "VERIFIED" \/ v = fact[f].value
      /\ IF KindOf[f] = "measurement" THEN fact[f].status = "DRAFT" /\ st = "DRAFT"
                                      ELSE st \in {"ACTIVE", "ARCHIVED"}
      /\ Recording!Validate(f, row) /\ Recording!Write(f, row, S)
      /\ items' = items /\ asset' = asset
  BY DEF Recording!PatchFact, Recording!MayEdit
<1>2. fact[f] \in Recording!FactRow /\ fact[f].source \in Sources
  BY <1>1 DEF RowsInv, RowsTyped, BasisInv
<1>3. v \in FactValues BY FactFits
<1>4. st \in Recording!Statuses BY <1>1 DEF Recording!Statuses
<1>5. /\ row \in Recording!FactRow /\ row.rev > fact[f].rev /\ row.source = fact[f].source
      /\ row.value = v /\ row.status = st /\ row.up = fact[f].up /\ row.prior = fact[f].prior
      /\ row.proof = fact[f].proof
  <2>1. PICK q : q = Recording!Touched(fact[f]) OBVIOUS
  <2>2. q \in Recording!FactRow /\ fact[f].rev \in Nat
    BY <1>2, <2>1, FactTouched DEF Recording!FactRow
  <2>3. row = [q EXCEPT !.value = v, !.status = st] BY <2>1
  <2> HIDE DEF row
  <2>4. row \in Recording!FactRow BY <2>2, <2>3, <1>3, <1>4 DEF Recording!FactRow, FactValues
  <2>5. /\ row.source = q.source /\ row.value = v /\ row.status = st /\ row.up = q.up
        /\ row.prior = q.prior /\ row.proof = q.proof /\ row.rev = q.rev
    BY <2>2, <2>3 DEF Recording!FactRow
  <2>6. fact[f] \in Recording!FactRow BY <1>2
  <2> QED BY <2>1, <2>2, <2>4, <2>5, <2>6, FactTouched
<1> HIDE DEF row
<1>6. S \in SUBSET Sources /\ \A x \in S : Recording!Usable(x) BY <1>1, <1>2
<1>7. row.status \in IF KindOf[f] = "measurement" THEN {"DRAFT", "CONFIRMED", "SUPERSEDED"}
                                                  ELSE {"ACTIVE", "ARCHIVED"}
  BY <1>1, <1>5
<1>8. \A p \in {row.up, row.prior} \ {None} : Recording!Live(p)
  BY <1>1, <1>5 DEF RowsInv, RowRefs
<1>9. KindOf[f] = "measurement" => row.status = fact[f].status BY <1>1, <1>5
<1> HIDE DEF S
<1>10. RowsInv' /\ PicsInv' /\ RowsKeep /\ PicsKeep /\ BasisAdds
  BY <1>1, <1>2, <1>5, <1>6, <1>7, <1>8, <1>9, FactEdit
<1> QED BY <1>10 DEF FactKept

\* a proposal that is applied to a row
LEMMA FactApply ==
    ASSUME RowsInv, PicsInv, NEW f \in FactRows, f # Me, NEW v, ValueFits(f, v),
           v # "VERIFIED", NEW s \in Sources, Recording!Usable(s), Recording!Live(f),
           Recording!Validate(f, [Recording!Touched(fact[f]) EXCEPT !.value = v]),
           Recording!Write(f, [Recording!Touched(fact[f]) EXCEPT !.value = v], {s}),
           Recording!PersonOpen, items' = items, asset' = asset
    PROVE  FactKept
<1> DEFINE row == [Recording!Touched(fact[f]) EXCEPT !.value = v]
<1>1. Recording!Validate(f, row) /\ Recording!Write(f, row, {s}) OBVIOUS
<1>2. fact[f] \in Recording!FactRow BY DEF RowsInv, RowsTyped
<1>3. v \in FactValues BY FactFits
<1>5. /\ row \in Recording!FactRow /\ row.rev > fact[f].rev /\ row.source = fact[f].source
      /\ row.value = v /\ row.status = fact[f].status /\ row.up = fact[f].up
      /\ row.prior = fact[f].prior /\ row.proof = fact[f].proof
  BY <1>2, <1>3, FactValued
<1> HIDE DEF row
<1>6. {s} \in SUBSET Sources /\ \A x \in {s} : Recording!Usable(x) OBVIOUS
<1>7. row.status \in IF KindOf[f] = "measurement" THEN {"DRAFT", "CONFIRMED", "SUPERSEDED"}
                                                  ELSE {"ACTIVE", "ARCHIVED"}
  BY <1>5, FactStates
<1>8. \A p \in {row.up, row.prior} \ {None} : Recording!Live(p)
  BY <1>5 DEF RowsInv, RowRefs
<1>10. RowsInv' /\ PicsInv' /\ RowsKeep /\ PicsKeep /\ BasisAdds
  BY <1>1, <1>5, <1>6, <1>7, <1>8, FactEdit
<1> QED BY <1>10 DEF FactKept

\* A verification writes the proof and the state of an adult.
LEMMA FactVerify ==
    ASSUME RowsInv, PicsInv, BasisInv, NEW f \in FactRows, NEW a \in Assets,
           Recording!AdultVerify(f, a)
    PROVE  FactKept
<1> DEFINE row == [Recording!Touched(fact[f]) EXCEPT !.value = "VERIFIED", !.proof = a]
           S == {fact[f].source}
<1>1. /\ Recording!Live(Me) /\ Recording!Live(f) /\ f # Me /\ Recording!Usable(fact[f].source)
      /\ KindOf[f] = "adult" /\ Recording!AssetReadable(a)
      /\ Recording!Write(f, row, S) /\ items' = items /\ asset' = asset
  BY FactNamed DEF Recording!AdultVerify, Recording!MayEdit, Recording!PersonOpen
<1>2. fact[f] \in Recording!FactRow BY DEF RowsInv, RowsTyped
<1>3. fact[f].source \in Sources BY <1>1 DEF BasisInv
<1>4. /\ row \in Recording!FactRow /\ row.rev > fact[f].rev /\ row.source = fact[f].source
      /\ row.value = "VERIFIED" /\ row.status = fact[f].status /\ row.up = fact[f].up
      /\ row.prior = fact[f].prior /\ row.proof = a
  <2>1. PICK q : q = Recording!Touched(fact[f]) OBVIOUS
  <2>2. q \in Recording!FactRow /\ fact[f].rev \in Nat
    BY <1>2, <2>1, FactTouched DEF Recording!FactRow
  <2>3. row = [q EXCEPT !.value = "VERIFIED", !.proof = a] BY <2>1
  <2> HIDE DEF row
  <2>4. row \in Recording!FactRow BY <2>2, <2>3 DEF Recording!FactRow
  <2>5. /\ row.source = q.source /\ row.value = "VERIFIED" /\ row.status = q.status
        /\ row.up = q.up /\ row.prior = q.prior /\ row.proof = a /\ row.rev = q.rev
    BY <2>2, <2>3 DEF Recording!FactRow
  <2> QED BY <2>1, <2>2, <2>4, <2>5, <1>2, FactTouched
<1> HIDE DEF row
<1>5. S \in SUBSET Sources /\ \A x \in S : Recording!Usable(x) BY <1>1, <1>3
<1>6. row.status \in {"ACTIVE", "ARCHIVED"} /\ row.status # "ABSENT"
  BY <1>1, <1>4, FactStates
<1>7. \A p \in {row.up, row.prior} \ {None} : Recording!Live(p)
  BY <1>1, <1>4 DEF RowsInv, RowRefs
<1>8. ValueFits(f, row.value) BY <1>1, <1>4 DEF ValueFits, Recording!Values
<1> HIDE DEF S
<1>9. fact' = [fact EXCEPT ![f] = row, ![Me] = Recording!Touched(fact[Me])]
  BY <1>1, FactWrite
<1>10. RowsInv' BY <1>1, <1>4, <1>6, <1>7, <1>8, <1>9, FactRowsEdit
<1>11. RowsKeep BY <1>1, <1>4, <1>6, <1>9, FactRowsKept
<1>12. PicsInv' /\ PicsKeep
  <2>1. PICK q \in Seq(Assets) : q = items[f] /\ Len(q) <= MaxItems /\ Recording!IsInjective(q)
    BY DEF PicsInv
  <2>2. DOMAIN items' = FactRows /\ items'[f] = q /\ \A g \in FactRows : items'[g] = items[g]
    BY <1>1, <2>1 DEF PicsInv
  <2>3. row.proof # None BY <1>4, FactApart
  <2>4. KindOf[f] # "collection" BY <1>1
  <2>5. row.proof # None /\ Recording!AssetReadable(row.proof) BY <1>1, <1>4, <2>3
  <2> QED BY <1>1, <1>4, <1>9, <2>1, <2>2, <2>4, <2>5, FactPicsEdit
<1>13. BasisAdds
  <2>1. fact'[f] = row BY <1>1, <1>9, FactNamed DEF RowsInv, RowsTyped
  <2> QED BY <2>1, <1>1, <1>5, <1>6, FactRecorded
<1> QED BY <1>10, <1>11, <1>12, <1>13 DEF FactKept

\* The same pictures in another order are as many, and once each.
LEMMA FactPermuted ==
    ASSUME NEW p \in Seq(Assets), NEW q \in Seq(Assets), Len(q) = Len(p),
           Recording!ToSet(q) = Recording!ToSet(p), Recording!IsInjective(p)
    PROVE  Recording!IsInjective(q)
<1>1. PICK n \in Nat : n = Len(p) OBVIOUS
<1>2. DOMAIN p = 1..n /\ DOMAIN q = 1..n BY <1>1
<1>3. IsFiniteSet(1..n)
  BY <1>1, FS_Interval
<1>4. PICK T : T = Recording!ToSet(p) OBVIOUS
<1>5. /\ \A i \in 1..n : p[i] \in T /\ q[i] \in T
      /\ \A x \in T : \E i \in 1..n : p[i] = x
      /\ \A x \in T : \E i \in 1..n : q[i] = x
  BY <1>2, <1>4 DEF Recording!ToSet
<1>6. PICK g : g = [i \in 1..n |-> p[i]] OBVIOUS
<1>7. PICK h : h = [i \in 1..n |-> q[i]] OBVIOUS
<1>8. g \in Surjection(1..n, T) /\ g \in Injection(1..n, T)
  <2>1. g \in [1..n -> T] BY <1>5, <1>6
  <2>2. \A x \in T : \E i \in 1..n : g[i] = x BY <1>5, <1>6
  <2>3. \A i, j \in 1..n : g[i] = g[j] => i = j BY <1>2, <1>6 DEF Recording!IsInjective
  <2> QED BY <2>1, <2>2, <2>3 DEF Surjection, Injection, IsInjective
<1>9. Cardinality(T) = Cardinality(1..n) BY <1>3, <1>8, FS_Surjection
<1>10. h \in Surjection(1..n, T)
  <2>1. h \in [1..n -> T] BY <1>5, <1>7
  <2>2. \A x \in T : \E i \in 1..n : h[i] = x BY <1>5, <1>7
  <2> QED BY <2>1, <2>2 DEF Surjection
<1>11. h \in Injection(1..n, T) BY <1>3, <1>9, <1>10, FS_Surjection
<1>12. \A i, j \in 1..n : h[i] = h[j] => i = j BY <1>11 DEF Injection, IsInjective
<1> QED BY <1>2, <1>7, <1>12 DEF Recording!IsInjective

\* What a collection shows after a change of its pictures.
LEMMA FactMutated ==
    ASSUME NEW p \in Seq(Assets), NEW q \in Seq(Assets), Recording!IsInjective(p),
           \/ \E a \in Assets : Recording!AssetReadable(a) /\ a \notin Recording!ToSet(p)
                                /\ q = Append(p, a)
           \/ \E a \in Recording!ToSet(p) : q = Recording!Without(p, {a})
           \/ q # p /\ Len(q) = Len(p) /\ Recording!ToSet(q) = Recording!ToSet(p)
    PROVE  /\ Recording!IsInjective(q)
           /\ \A a \in Recording!ToSet(q) :
                 a \in Recording!ToSet(p) \/ Recording!AssetReadable(a)
<1>1. CASE \E a \in Assets : Recording!AssetReadable(a) /\ a \notin Recording!ToSet(p)
                             /\ q = Append(p, a)
  <2>1. PICK a \in Assets : Recording!AssetReadable(a) /\ a \notin Recording!ToSet(p)
                            /\ q = Append(p, a)
    BY <1>1
  <2>2. PICK n \in Nat : n = Len(p) OBVIOUS
  <2>3. /\ DOMAIN p = 1..n /\ DOMAIN q = 1..(n + 1) /\ q[n + 1] = a
        /\ \A i \in 1..n : q[i] = p[i]
    BY <2>1, <2>2
  <2>4. \A i \in 1..n : p[i] # a BY <2>1, <2>3 DEF Recording!ToSet
  <2>5. \A i \in 1..(n + 1) : i \in 1..n \/ i = n + 1 BY <2>2
  <2>6. ASSUME NEW i \in 1..(n + 1), NEW j \in 1..(n + 1), q[i] = q[j] PROVE i = j
    BY <2>3, <2>4, <2>5, <2>6 DEF Recording!IsInjective
  <2>7. Recording!IsInjective(q) BY <2>3, <2>6 DEF Recording!IsInjective
  <2>8. \A x \in Recording!ToSet(q) : x \in Recording!ToSet(p) \/ x = a
    BY <2>3, <2>5 DEF Recording!ToSet
  <2> QED BY <2>1, <2>7, <2>8
<1>2. CASE \E a \in Recording!ToSet(p) : q = Recording!Without(p, {a})
  <2>1. PICK a : q = Recording!Without(p, {a}) BY <1>2
  <2> QED BY <2>1, FactWithout
<1>3. CASE q # p /\ Len(q) = Len(p) /\ Recording!ToSet(q) = Recording!ToSet(p)
  BY <1>3, FactPermuted
<1> QED BY <1>1, <1>2, <1>3

LEMMA FactMutate ==
    ASSUME RowsInv, PicsInv, BasisInv, NEW f \in FactRows, NEW q \in Seq(Assets),
           Recording!Mutate(f, q)
    PROVE  FactKept
<1> DEFINE cover == Recording!CoverOf(fact[f].value, q)
           row == [Recording!Touched(fact[f]) EXCEPT !.value = cover]
           S == IF Len(q) < Len(items[f]) /\ cover = None THEN {fact[f].source} ELSE {}
<1>1. /\ Recording!Live(Me) /\ Recording!Live(f) /\ f # Me /\ KindOf[f] = "collection"
      /\ Recording!UsableFact(f) /\ Len(q) <= MaxItems
      /\ Recording!Write(f, row, S) /\ items' = [items EXCEPT ![f] = q] /\ asset' = asset
      /\ \/ \E a \in Assets : Recording!AssetReadable(a) /\ a \notin Recording!ToSet(items[f])
                                /\ q = Append(items[f], a)
         \/ \E a \in Recording!ToSet(items[f]) : q = Recording!Without(items[f], {a})
         \/ q # items[f] /\ Len(q) = Len(items[f]) /\ Recording!ToSet(q) = Recording!ToSet(items[f])
  BY FactNamed DEF Recording!Mutate, Recording!MayEdit, Recording!PersonOpen
<1>2. fact[f] \in Recording!FactRow BY DEF RowsInv, RowsTyped
<1>3. fact[f].source \in Sources BY <1>1 DEF BasisInv
<1>4. Recording!Usable(fact[f].source)
  BY <1>1 DEF Recording!UsableFact, Recording!Valid, Recording!Shown
<1>5. items[f] \in Seq(Assets) /\ Recording!IsInjective(items[f]) BY DEF PicsInv
<1>6. /\ Recording!IsInjective(q)
      /\ \A a \in Recording!ToSet(q) :
            a \in Recording!ToSet(items[f]) \/ Recording!AssetReadable(a)
  <2>1. items[f] \in Seq(Assets) BY <1>5
  <2>2. Recording!IsInjective(items[f]) BY <1>5
  <2> QED BY <1>1, <2>1, <2>2, FactMutated
<1>7. cover \in Recording!ToSet(q) \cup {None} /\ cover \in Assets \cup {None}
  BY DEF Recording!CoverOf, Recording!ToSet
<1>8. cover \in FactValues /\ ValueFits(f, cover)
  BY <1>1, <1>7 DEF FactValues, ValueFits, Recording!Values
<1> HIDE DEF cover
<1>9. /\ row \in Recording!FactRow /\ row.rev > fact[f].rev /\ row.source = fact[f].source
      /\ row.value = cover /\ row.status = fact[f].status /\ row.up = fact[f].up
      /\ row.prior = fact[f].prior /\ row.now = fact[f].now
  BY <1>2, <1>8, FactValued
<1> HIDE DEF row
<1>10. S \in SUBSET Sources /\ \A x \in S : Recording!Usable(x) BY <1>3, <1>4
<1> HIDE DEF S
<1>11. row.status \in {"ACTIVE", "ARCHIVED"} /\ row.status # "ABSENT"
  BY <1>1, <1>9, FactStates
<1>12. \A p \in {row.up, row.prior} \ {None} : Recording!Live(p)
  BY <1>1, <1>9 DEF RowsInv, RowRefs
<1>13. fact' = [fact EXCEPT ![f] = row, ![Me] = Recording!Touched(fact[Me])]
  BY <1>1, FactWrite
<1>14. RowsInv' BY <1>1, <1>8, <1>9, <1>11, <1>12, <1>13, FactRowsEdit
<1>15. RowsKeep BY <1>1, <1>9, <1>11, <1>13, FactRowsKept
<1>16. PicsInv' /\ PicsKeep
  <2>1. DOMAIN items' = FactRows /\ items'[f] = q
        /\ \A g \in FactRows : g # f => items'[g] = items[g]
    BY <1>1 DEF PicsInv
  <2>2. /\ row.now => row.status = "ACTIVE"
        /\ row.now => \A g \in Recording!Others(f, "collection") : ~fact[g].now
    BY <1>1, <1>9 DEF PicsInv, Recording!PicturesHold, Recording!LiveOf
  <2>3. \A a \in Recording!ToSet(q) :
              (a \in Recording!ToSet(items[f]) /\ Recording!Live(f)) \/ Recording!AssetReadable(a)
              \/ (q = items[f] /\ KindOf[f] # "collection")
    BY <1>1, <1>6
  <2> QED BY <1>1, <1>6, <1>7, <1>9, <1>13, <2>1, <2>2, <2>3, FactPicsEdit
<1>17. BasisAdds
  <2>1. fact'[f] = row BY <1>1, <1>13, FactNamed DEF RowsInv, RowsTyped
  <2> QED BY <2>1, <1>1, <1>10, <1>11, FactRecorded
<1> QED BY <1>14, <1>15, <1>16, <1>17 DEF FactKept

\* A saved collection is the current one, or leaves the current one.
LEMMA FactSave ==
    ASSUME RowsInv, PicsInv, BasisInv, NEW c \in FactRows, NEW s \in Sources,
           NEW q \in Seq(Assets), Len(q) <= MaxItems, Recording!IsInjective(q),
           NEW cover \in Assets \cup {None}, NEW now \in BOOLEAN,
           Recording!SaveCollection(c, s, q, cover, now)
    PROVE  FactKept
<1> DEFINE flips(g) == g \in Recording!Others(c, "collection") /\ now /\ fact[g].now
           saved == [Recording!Touched(fact[c]) EXCEPT !.source = s, !.value = cover,
                                                       !.status = "ACTIVE", !.now = now]
<1>1. /\ Recording!Live(Me) /\ c # Me /\ KindOf[c] = "collection" /\ Recording!Usable(s)
      /\ \A a \in Recording!ToSet(q) : Recording!AssetReadable(a)
      /\ cover \in Recording!ToSet(q) \cup {None} /\ asset' = asset
      /\ items' = [items EXCEPT ![c] = q]
      /\ evid' = evid \cup Recording!Recorded(c, cover, {s}) /\ spoken' = spoken \cup {c}
  BY FactNamed DEF Recording!SaveCollection, Recording!PersonOpen
<1>2. fact' = [f \in FactRows |->
          CASE f = c -> saved
            [] f = Me -> Recording!Touched(fact[Me])
            [] f \in Recording!Others(c, "collection") /\ now /\ fact[f].now ->
                   [Recording!Touched(fact[f]) EXCEPT !.now = FALSE]
            [] OTHER -> fact[f]]
  BY DEF Recording!SaveCollection
<1>3. /\ DOMAIN fact' = FactRows
      /\ fact'[c] = saved
      /\ fact'[Me] = Recording!Touched(fact[Me])
      /\ \A g \in FactRows : flips(g) =>
             fact'[g] = [Recording!Touched(fact[g]) EXCEPT !.now = FALSE]
      /\ \A g \in FactRows : g # c /\ g # Me /\ ~flips(g) => fact'[g] = fact[g]
  <2>1. KindOf[Me] # "collection" /\ Me \in FactRows /\ c # Me BY <1>1, FactNamed
  <2>2. DOMAIN fact' = FactRows BY <1>2
  <2>3. fact'[c] = saved
    <3>1. c \notin Recording!Others(c, "collection") BY DEF Recording!Others
    <3> HIDE DEF flips, saved
    <3> QED BY <1>2, <2>1, <3>1
  <2>4. fact'[Me] = Recording!Touched(fact[Me])
    <3>1. Me \notin Recording!Others(c, "collection")
      BY <2>1 DEF Recording!Others, Recording!LiveOf
    <3> QED BY <1>2, <2>1, <3>1
  <2>5. ASSUME NEW g \in FactRows, flips(g)
        PROVE  fact'[g] = [Recording!Touched(fact[g]) EXCEPT !.now = FALSE]
    <3>1. g # c /\ g # Me /\ g \in Recording!Others(c, "collection") /\ now /\ fact[g].now
      BY <2>1, <2>5 DEF Recording!Others, Recording!LiveOf
    <3> QED BY <1>2, <3>1
  <2>6. ASSUME NEW g \in FactRows, g # c, g # Me, ~flips(g) PROVE fact'[g] = fact[g]
    <3>1. ~(g \in Recording!Others(c, "collection") /\ now /\ fact[g].now) BY <2>6
    <3> QED BY <1>2, <2>6, <3>1
  <2> QED BY <2>2, <2>3, <2>4, <2>5, <2>6
<1>4. \A g \in FactRows : fact[g] \in Recording!FactRow /\ fact[g].rev \in Nat
  BY DEF RowsInv, RowsTyped, Recording!FactRow
<1>5. /\ fact'[c] \in Recording!FactRow /\ fact'[c].rev > fact[c].rev /\ fact'[c].source = s
      /\ fact'[c].value = cover /\ fact'[c].status = "ACTIVE" /\ fact'[c].now = now
      /\ fact'[c].up = fact[c].up /\ fact'[c].prior = fact[c].prior
  <2>1. PICK t : t = Recording!Touched(fact[c]) OBVIOUS
  <2>2. fact[c] \in Recording!FactRow BY <1>4
  <2>3. /\ t \in Recording!FactRow /\ t.rev = fact[c].rev + 1 /\ t.up = fact[c].up
        /\ t.prior = fact[c].prior
    BY <2>1, <2>2, FactTouched
  <2>4. PICK r : r = [t EXCEPT !.source = s, !.value = cover, !.status = "ACTIVE", !.now = now]
    OBVIOUS
  <2>5. fact'[c] = r BY <1>3, <2>1, <2>4
  <2>6. r \in Recording!FactRow
    BY <2>3, <2>4 DEF Recording!FactRow, Recording!Statuses
  <2>7. /\ r.source = s /\ r.value = cover /\ r.status = "ACTIVE" /\ r.now = now
        /\ r.up = t.up /\ r.prior = t.prior /\ r.rev = t.rev
    BY <2>3, <2>4 DEF Recording!FactRow
  <2> QED BY <2>3, <2>5, <2>6, <2>7, <1>4
<1>6. ASSUME NEW g \in FactRows, flips(g)
      PROVE  /\ fact'[g] \in Recording!FactRow /\ fact'[g].rev > fact[g].rev
             /\ fact'[g].source = fact[g].source /\ fact'[g].value = fact[g].value
             /\ fact'[g].status = fact[g].status /\ ~fact'[g].now
             /\ fact'[g].up = fact[g].up /\ fact'[g].prior = fact[g].prior
  <2>1. PICK t : t = Recording!Touched(fact[g]) OBVIOUS
  <2>2. fact[g] \in Recording!FactRow BY <1>4
  <2>3. /\ t \in Recording!FactRow /\ t.rev = fact[g].rev + 1 /\ t.up = fact[g].up
        /\ t.prior = fact[g].prior /\ t.source = fact[g].source /\ t.value = fact[g].value
        /\ t.status = fact[g].status
    BY <2>1, <2>2, FactTouched
  <2>4. PICK r : r = [t EXCEPT !.now = FALSE] OBVIOUS
  <2>5. fact'[g] = r
    <3> HIDE DEF flips
    <3> QED BY <1>3, <1>6, <2>1, <2>4
  <2> HIDE DEF flips, saved
  <2>6. r \in Recording!FactRow BY <2>3, <2>4 DEF Recording!FactRow
  <2>7. /\ r.source = t.source /\ r.value = t.value /\ r.status = t.status /\ r.now = FALSE
        /\ r.up = t.up /\ r.prior = t.prior /\ r.rev = t.rev
    BY <2>3, <2>4 DEF Recording!FactRow
  <2> QED BY <2>3, <2>5, <2>6, <2>7, <1>4
<1>7. \A g \in FactRows : flips(g) => KindOf[g] = "collection" /\ Recording!Live(g) /\ g # c
                                       /\ g # Me
  BY FactNamed DEF Recording!Others, Recording!LiveOf
<1>8. \A g \in FactRows : KindOf[g] = "collection" /\ Recording!Live(g) /\ now /\ g # c
          /\ fact[g].now => flips(g)
  BY DEF Recording!Others, Recording!LiveOf
<1> HIDE DEF flips, saved
<1>9. /\ fact'[Me].source = fact[Me].source /\ fact'[Me].value = fact[Me].value
      /\ fact'[Me].status = fact[Me].status /\ fact'[Me].rev > fact[Me].rev
  <2>1. fact[Me] \in Recording!FactRow /\ fact[Me].rev \in Nat BY <1>4, FactNamed
  <2> QED BY <2>1, <1>3, FactTouched
<1>10. Recording!Live(c) \/ fact[c].status = "ABSENT"
  BY <1>1 DEF RowsInv, RowStates, Recording!Live
<1>11. \A p \in {fact[c].up, fact[c].prior} \ {None} : Recording!Live(p)
  <2>1. CASE Recording!Live(c) BY <2>1, <1>1 DEF RowsInv, RowRefs
  <2>2. CASE fact[c].status = "ABSENT"
    <3>1. fact[c] = Recording!Absent BY <2>2, <1>1 DEF RowsInv, RowStates
    <3> QED BY <3>1 DEF Recording!Absent
  <2> QED BY <1>10, <2>1, <2>2
<1>12. RowsInv'
  <2>1. ASSUME NEW g \in FactRows, g # Me
        PROVE \/ fact'[g] = fact[g]
              \/ /\ fact'[g] \in Recording!FactRow /\ ValueFits(g, fact'[g].value)
                 /\ fact'[g].status \in {"ACTIVE", "ARCHIVED"}
                 /\ KindOf[g] \notin {"casting", "measurement"}
                 /\ \A p \in {fact'[g].up, fact'[g].prior} \ {None} : Recording!Live(p)
                 /\ KindOf[g] \in {"role", "capability"} => Recording!LiveOf("profile")' # {}
    <3>1. CASE g = c
      <4>1. ValueFits(c, cover) BY <1>1 DEF ValueFits, Recording!Values
      <4> QED BY <3>1, <4>1, <1>1, <1>5, <1>11
    <3>2. CASE flips(g)
      <4>1. KindOf[g] = "collection" /\ Recording!Live(g) BY <3>2, <1>7
      <4>2. \A p \in {fact[g].up, fact[g].prior} \ {None} : Recording!Live(p)
        BY <2>1, <4>1 DEF RowsInv, RowRefs
      <4>3. ValueFits(g, fact[g].value) BY DEF RowsInv, RowsTyped
      <4>4. fact[g].status \in {"ACTIVE", "ARCHIVED"} BY <2>1, <4>1, FactStates
      <4> QED BY <3>2, <4>1, <4>2, <4>3, <4>4, <1>6
    <3>3. CASE g # c /\ ~flips(g) BY <3>3, <2>1, <1>3
    <3> QED BY <3>1, <3>2, <3>3
  <2>2. Recording!PeriodsHold'
    <3>1. \A g \in FactRows : KindOf[g] = "role" => fact'[g] = fact[g]
      BY <1>1, <1>3, <1>7, FactNamed
    <3>2. \A g : (g \in Recording!LiveOf("role")' <=> g \in Recording!LiveOf("role"))
                 /\ (g \in Recording!LiveOf("role") => fact'[g] = fact[g])
      BY <3>1 DEF Recording!LiveOf, Recording!Live
    <3> QED BY <3>2 DEF RowsInv, Recording!PeriodsHold
  <2> QED BY <2>1, <2>2, <1>1, <1>3, FactRowsSome
<1>13. RowsKeep
  <2>1. ASSUME NEW g \in FactRows
        PROVE  /\ fact[g].status # "ABSENT" => fact'[g].status # "ABSENT"
               /\ \/ fact'[g].rev > fact[g].rev
                  \/ fact'[g].rev = fact[g].rev /\ fact'[g].value = fact[g].value
               /\ Recording!Live(g)' =>
                    \/ Recording!Live(g) /\ fact'[g].source = fact[g].source
                    \/ /\ Recording!Live(g) \/ fact[g].status = "ABSENT"
                       /\ fact'[g].source \in Sources /\ Recording!Usable(fact'[g].source)
    <3>1. CASE g = c BY <3>1, <1>1, <1>5, <1>10
    <3>2. CASE g = Me BY <3>2, <1>9 DEF Recording!Live
    <3>3. CASE flips(g) BY <3>3, <1>6 DEF Recording!Live
    <3>4. CASE g # c /\ g # Me /\ ~flips(g) BY <3>4, <1>3 DEF Recording!Live
    <3> QED BY <3>1, <3>2, <3>3, <3>4
  <2> QED BY <2>1 DEF RowsKeep
<1>14. /\ DOMAIN items' = FactRows /\ items'[c] = q
       /\ \A g \in FactRows : g # c => items'[g] = items[g]
  BY <1>1 DEF PicsInv
<1>15. \A f \in FactRows : KindOf[f] = "adult" => fact'[f] = fact[f]
  BY <1>1, <1>3, <1>7, FactNamed
<1>16. \A f : (f \in Recording!LiveOf("adult")' <=> f \in Recording!LiveOf("adult"))
              /\ (f \in Recording!LiveOf("adult") => fact'[f] = fact[f])
  BY <1>15 DEF Recording!LiveOf, Recording!Live
<1>17. \A g : g \in Recording!LiveOf("collection")' =>
              g \in FactRows /\ KindOf[g] = "collection" /\ g # Me
              /\ (g # c => g \in Recording!LiveOf("collection") /\ Recording!Live(g))
  <2> SUFFICES ASSUME NEW g \in Recording!LiveOf("collection")'
               PROVE  g \in FactRows /\ KindOf[g] = "collection" /\ g # Me
                      /\ (g # c => g \in Recording!LiveOf("collection") /\ Recording!Live(g))
    OBVIOUS
  <2>1. g \in FactRows /\ KindOf[g] = "collection" /\ Recording!Live(g)' /\ g # Me
    BY FactNamed DEF Recording!LiveOf
  <2>2. g # c => Recording!Live(g)
    <3>1. CASE flips(g) BY <3>1, <2>1, <1>7
    <3>2. CASE ~flips(g) BY <3>2, <2>1, <1>3 DEF Recording!Live
    <3> QED BY <3>1, <3>2
  <2> QED BY <2>1, <2>2 DEF Recording!LiveOf
<1>18. PicsKeep
  <2>1. \A g \in FactRows : \A a \in Recording!ToSet(items'[g]) :
            a \in Recording!ToSet(items[g]) \/ Recording!AssetReadable(a)
    BY <1>1, <1>14
  <2> QED BY <2>1, <1>1, <1>16 DEF PicsKeep
<1>19. Recording!PicturesHold'
  <2>1. ASSUME NEW f \in Recording!LiveOf("adult")', fact'[f].value = "VERIFIED"
        PROVE  fact'[f].proof # None /\ asset[fact'[f].proof] # "ERASED"
    BY <2>1, <1>16 DEF PicsInv, Recording!PicturesHold
  <2>2. ASSUME NEW g \in Recording!LiveOf("collection")'
        PROVE  /\ fact'[g].value \in Recording!ToSet(items'[g]) \cup {None}
               /\ Recording!IsInjective(items'[g])
               /\ \A a \in Recording!ToSet(items'[g]) : asset[a] # "ERASED"
               /\ fact'[g].now => fact'[g].status = "ACTIVE"
    <3>1. CASE g = c
      <4>1. \A a \in Recording!ToSet(q) : asset[a] # "ERASED"
        BY <1>1 DEF Recording!AssetReadable
      <4> QED BY <3>1, <4>1, <1>1, <1>5, <1>14
    <3>2. CASE g # c
      <4>1. /\ g \in FactRows /\ g \in Recording!LiveOf("collection") /\ g # Me
            /\ items'[g] = items[g]
        BY <3>2, <1>14, <1>17
      <4>2. fact'[g].value = fact[g].value /\ fact'[g].status = fact[g].status
            /\ (fact'[g].now => fact[g].now)
        <5>1. CASE flips(g) BY <5>1, <4>1, <1>6
        <5>2. CASE ~flips(g) BY <5>2, <3>2, <4>1, <1>3
        <5> QED BY <5>1, <5>2
      <4> QED BY <4>1, <4>2 DEF PicsInv, Recording!PicturesHold
    <3> QED BY <3>1, <3>2
  <2>3. ASSUME NEW g \in Recording!LiveOf("collection")', fact'[g].now,
               NEW h \in Recording!LiveOf("collection")' \ {g}
        PROVE  ~fact'[h].now
    <3>1. ASSUME NEW x \in Recording!LiveOf("collection")', x # c, fact'[x].now
          PROVE  /\ x \in Recording!LiveOf("collection") /\ fact[x].now /\ ~now
      <4>1. x \in Recording!LiveOf("collection") /\ x \in FactRows /\ x # Me
            /\ Recording!Live(x) /\ KindOf[x] = "collection"
        BY <3>1, <1>17
      <4>2. ~flips(x) BY <3>1, <4>1, <1>6
      <4>3. fact'[x] = fact[x] BY <3>1, <4>1, <4>2, <1>3
      <4> QED BY <3>1, <4>1, <4>2, <4>3, <1>8
    <3>2. SUFFICES ASSUME fact'[h].now PROVE FALSE OBVIOUS
    <3>3. CASE g = c
      <4>1. now BY <2>3, <3>3, <1>5
      <4> QED BY <3>1, <3>2, <3>3, <4>1
    <3>4. CASE h = c
      <4>1. now BY <3>2, <3>4, <1>5
      <4> QED BY <2>3, <3>1, <3>4, <4>1
    <3>5. CASE g # c /\ h # c
      <4>1. /\ g \in Recording!LiveOf("collection") /\ fact[g].now
            /\ h \in Recording!LiveOf("collection") /\ fact[h].now
        BY <2>3, <3>1, <3>2, <3>5
      <4> QED BY <4>1 DEF PicsInv, Recording!PicturesHold, Recording!Others
    <3> QED BY <3>3, <3>4, <3>5
  <2> QED BY <2>1, <2>2, <2>3, <1>1 DEF Recording!PicturesHold, Recording!Others
<1>20. PicsInv'
  <2>1. \A g \in FactRows : items'[g] \in Seq(Assets) /\ Len(items'[g]) <= MaxItems
                             /\ Recording!IsInjective(items'[g])
    BY <1>14 DEF PicsInv
  <2> QED BY <2>1, <1>1, <1>14, <1>19 DEF PicsInv
<1>21. BasisAdds
  <2>1. \A e \in Recording!Recorded(c, cover, {s}) : e.fact = c /\ e.source = s
    BY DEF Recording!Recorded
  <2>2. [fact |-> c, value |-> cover, source |-> s, srev |-> src[s].rev]
            \in Recording!Recorded(c, cover, {s})
    BY DEF Recording!Recorded
  <2>3. fact'[c].status # "ABSENT" BY <1>5
  <2> QED BY <2>1, <2>2, <2>3, <1>1 DEF BasisAdds
<1> QED BY <1>12, <1>13, <1>18, <1>20, <1>21 DEF FactKept

LEMMA FactConfirmed ==
    ASSUME RowsInv, PicsInv, BasisInv, NEW m \in FactRows, Recording!Confirm(m)
    PROVE  FactKept
<1>1. RowsInv' BY FactRowsConfirm
<1>2. /\ items' = items /\ asset' = asset /\ evid' = evid /\ spoken' = spoken
  BY DEF Recording!Confirm
<1>3. \A g \in FactRows :
         /\ fact'[g].source = fact[g].source /\ fact'[g].value = fact[g].value
         /\ g # m /\ g # fact[m].prior => fact'[g].status = fact[g].status
         /\ KindOf[g] \notin {"casting", "measurement", "person"} => fact'[g] = fact[g]
         /\ fact'[g] = fact[g] \/ fact'[g].rev > fact[g].rev
         /\ ~Recording!Live(g) => fact'[g] = fact[g]
  BY FactConfirm
<1>4. PicsInv' /\ PicsKeep BY <1>2, <1>3, FactPicsStay
<1>5. RowsKeep
  <2>1. \A g \in FactRows : fact'[g].status # "ABSENT" <=> fact[g].status # "ABSENT"
    <3>1. fact'[m].status = "CONFIRMED" /\ fact[m].status = "DRAFT" BY FactConfirm
    <3>2. fact[m].prior # None =>
             /\ fact[fact[m].prior].status \in {"CONFIRMED", "SUPERSEDED"}
             /\ fact'[fact[m].prior].status = "SUPERSEDED"
      BY FactConfirm
    <3> QED BY <3>1, <3>2, <1>3, FactApart
  <2>2. \A g \in FactRows : fact[g].rev \in Nat BY DEF RowsInv, RowsTyped, Recording!FactRow
  <2>3. \A g \in FactRows : Recording!Live(g)' => Recording!Live(g)
    BY <1>3 DEF Recording!Live
  <2> QED BY <2>1, <2>2, <2>3, <1>3 DEF RowsKeep
<1>6. BasisAdds BY <1>2 DEF BasisAdds
<1> QED BY <1>1, <1>4, <1>5, <1>6 DEF FactKept

LEMMA FactEnrolled ==
    ASSUME RowsInv, PicsInv, BasisInv, NEW p \in FactRows, NEW r \in FactRows,
           KindOf[p] = "profile", KindOf[r] = "role", Recording!Enroll(p, r)
    PROVE  FactKept
<1>1. RowsInv' BY FactRowsEnroll
<1>2. /\ items' = items /\ asset' = asset /\ evid' = evid /\ spoken' = spoken
      /\ Recording!Live(Me) /\ Recording!Usable(fact[Me].source)
      /\ fact[p] = Recording!Absent /\ fact[r] = Recording!Absent
  BY DEF Recording!Enroll, Recording!MayEdit, Recording!PersonOpen
<1>3. p # Me /\ r # Me /\ p # r BY FactNamed
<1>4. /\ fact'[Me] = Recording!Touched(fact[Me])
      /\ \A g \in FactRows : g \notin {p, r, Me} => fact'[g] = fact[g]
  BY <1>3, FactNamed DEF Recording!Enroll
<1>5. /\ fact'[p] = [Recording!Absent EXCEPT !.source = fact[Me].source, !.status = "ACTIVE",
                                             !.rev = 1, !.value = "v1"]
      /\ fact'[r] = [Recording!Absent EXCEPT !.source = fact[Me].source, !.status = "ACTIVE",
                                             !.rev = 1, !.value = "always"]
  BY <1>3 DEF Recording!Enroll
<1>6. \A g \in {p, r} : fact'[g].source = fact[Me].source /\ fact'[g].status = "ACTIVE"
                        /\ fact'[g].rev = 1 /\ fact[g].status = "ABSENT" /\ fact[g].rev = 0
  <2>1. \A g \in {p, r} : fact'[g].source = fact[Me].source /\ fact'[g].status = "ACTIVE"
                        /\ fact'[g].rev = 1
    <3>1. fact'[p] = [source |-> fact[Me].source, value |-> "v1", status |-> "ACTIVE", rev |-> 1,
                      up |-> None, prior |-> None, proof |-> None, now |-> FALSE]
      BY <1>5 DEF Recording!Absent
    <3>2. fact'[r] = [source |-> fact[Me].source, value |-> "always", status |-> "ACTIVE",
                      rev |-> 1, up |-> None, prior |-> None, proof |-> None, now |-> FALSE]
      BY <1>5 DEF Recording!Absent
    <3> QED BY <3>1, <3>2
  <2>2. \A g \in {p, r} : fact[g].status = "ABSENT" /\ fact[g].rev = 0
    BY <1>2 DEF Recording!Absent
  <2> QED BY <2>1, <2>2
<1>7. PicsInv' /\ PicsKeep
  <2>1. \A f \in FactRows : KindOf[f] \in {"adult", "collection"} => fact'[f] = fact[f]
    BY <1>4, FactNamed
  <2> QED BY <1>2, <2>1, FactPicsStay
<1>8. RowsKeep
  <2>1. \A g \in FactRows : fact[g] \in Recording!FactRow /\ fact[g].rev \in Nat
    BY DEF RowsInv, RowsTyped, Recording!FactRow
  <2>2. /\ fact'[Me].source = fact[Me].source /\ fact'[Me].status = fact[Me].status
        /\ fact'[Me].rev > fact[Me].rev
    <3>1. fact[Me] \in Recording!FactRow /\ fact[Me].rev \in Nat BY <2>1, FactNamed
    <3> QED BY <1>4, <3>1, FactTouched
  <2>3. fact[Me].source \in Sources BY <1>2, FactNamed DEF BasisInv
  <2>4. ASSUME NEW g \in FactRows
        PROVE  /\ fact[g].status # "ABSENT" => fact'[g].status # "ABSENT"
               /\ \/ fact'[g].rev > fact[g].rev
                  \/ fact'[g].rev = fact[g].rev /\ fact'[g].value = fact[g].value
               /\ Recording!Live(g)' =>
                    \/ Recording!Live(g) /\ fact'[g].source = fact[g].source
                    \/ /\ Recording!Live(g) \/ fact[g].status = "ABSENT"
                       /\ fact'[g].source \in Sources /\ Recording!Usable(fact'[g].source)
    <3>1. CASE g \in {p, r} BY <3>1, <1>2, <1>6, <2>3
    <3>2. CASE g = Me BY <3>2, <2>2 DEF Recording!Live
    <3>3. CASE g \notin {p, r, Me} BY <3>3, <1>4 DEF Recording!Live
    <3> QED BY <3>1, <3>2, <3>3
  <2> QED BY <2>4 DEF RowsKeep
<1>9. BasisAdds BY <1>2 DEF BasisAdds
<1> QED BY <1>1, <1>7, <1>8, <1>9 DEF FactKept

\* A command on the person itself.
LEMMA FactOwn ==
    ASSUME RowsInv, PicsInv, NEW row \in Recording!FactRow, NEW S \in SUBSET Sources,
           Recording!Write(Me, row, S), \A s \in S : Recording!Usable(s),
           items' = items, asset' = asset, ValueFits(Me, row.value), Recording!Live(Me),
           row.source = fact[Me].source, row.status \in {"ACTIVE", "ARCHIVED"},
           row.rev > fact[Me].rev
    PROVE  FactKept
<1>1. fact' = [fact EXCEPT ![Me] = row] BY DEF Recording!Write
<1>2. /\ DOMAIN fact' = FactRows /\ fact'[Me] = row
      /\ \A f \in FactRows : f # Me => fact'[f] = fact[f]
  BY <1>1, FactNamed DEF RowsInv, RowsTyped
<1>3. row.source = s1 BY DEF RowsInv, RowStates
<1>4. RowsInv' BY <1>2, <1>3, FactRowsOwn
<1>5. RowsKeep
  <2>1. \A f \in FactRows : fact[f].rev \in Nat BY DEF RowsInv, RowsTyped, Recording!FactRow
  <2>2. ASSUME NEW g \in FactRows
        PROVE  /\ fact[g].status # "ABSENT" => fact'[g].status # "ABSENT"
               /\ \/ fact'[g].rev > fact[g].rev
                  \/ fact'[g].rev = fact[g].rev /\ fact'[g].value = fact[g].value
               /\ Recording!Live(g)' => Recording!Live(g) /\ fact'[g].source = fact[g].source
    <3>1. CASE g = Me BY <3>1, <1>2
    <3>2. CASE g # Me BY <3>2, <1>2, <2>1 DEF Recording!Live
    <3> QED BY <3>1, <3>2
  <2> QED BY <2>2 DEF RowsKeep
<1>6. PicsInv' /\ PicsKeep BY <1>2, FactPicsStay, FactNamed
<1>7. BasisAdds
  <2>1. fact'[Me].status # "ABSENT" BY <1>2
  <2> QED BY <2>1, FactRecorded, FactNamed
<1> QED BY <1>4, <1>5, <1>6, <1>7 DEF FactKept

LEMMA FactPerson ==
    ASSUME RowsInv, PicsInv, NEW v, ValueFits(Me, v), NEW st \in {"ACTIVE", "ARCHIVED"},
           Recording!PatchPerson(v, st)
    PROVE  FactKept
<1> DEFINE row == [Recording!Touched(fact[Me]) EXCEPT !.value = v, !.status = st]
<1>1. /\ Recording!Live(Me) /\ Recording!Write(Me, row, {}) /\ items' = items /\ asset' = asset
  BY DEF Recording!PatchPerson, Recording!PersonOpen
<1>2. fact[Me] \in Recording!FactRow /\ v \in FactValues
  BY FactNamed, FactFits DEF RowsInv, RowsTyped
<1>3. /\ row \in Recording!FactRow /\ row.rev > fact[Me].rev /\ row.source = fact[Me].source
      /\ row.value = v /\ row.status = st
  <2>1. PICK q : q = Recording!Touched(fact[Me]) OBVIOUS
  <2>2. q \in Recording!FactRow /\ fact[Me].rev \in Nat
    BY <1>2, <2>1, FactTouched DEF Recording!FactRow
  <2>3. row = [q EXCEPT !.value = v, !.status = st] BY <2>1
  <2> HIDE DEF row
  <2>4. st \in Recording!Statuses BY DEF Recording!Statuses
  <2>5. row \in Recording!FactRow BY <2>2, <2>3, <2>4, <1>2 DEF Recording!FactRow, FactValues
  <2>6. row.source = q.source /\ row.value = v /\ row.status = st /\ row.rev = q.rev
    BY <2>2, <2>3 DEF Recording!FactRow
  <2> QED BY <2>1, <2>2, <2>5, <2>6, <1>2, FactTouched
<1> HIDE DEF row
<1>4. ValueFits(Me, row.value) /\ row.status \in {"ACTIVE", "ARCHIVED"} BY <1>3
<1>5. {} \in SUBSET Sources /\ \A s \in {} : Recording!Usable(s) OBVIOUS
<1> QED BY <1>1, <1>3, <1>4, <1>5, FactOwn

LEMMA FactIdentity ==
    ASSUME RowsInv, PicsInv, NEW v, ValueFits(Me, v), NEW S \in SUBSET Sources,
           \A s \in S : Recording!Usable(s), Recording!Live(Me), items' = items, asset' = asset,
           Recording!Write(Me, [Recording!Touched(fact[Me]) EXCEPT !.value = v], S)
    PROVE  FactKept
<1> DEFINE row == [Recording!Touched(fact[Me]) EXCEPT !.value = v]
<1>1. Recording!Write(Me, row, S) OBVIOUS
<1>2. fact[Me] \in Recording!FactRow BY FactNamed DEF RowsInv, RowsTyped
<1>3. v \in FactValues BY FactNamed, FactFits
<1>4. /\ row \in Recording!FactRow /\ row.rev > fact[Me].rev /\ row.source = fact[Me].source
      /\ row.value = v /\ row.status = fact[Me].status
  BY <1>2, <1>3, FactValued
<1> HIDE DEF row
<1>5. ValueFits(Me, row.value) /\ row.status \in {"ACTIVE", "ARCHIVED"}
  BY <1>4, FactStates, FactNamed
<1> QED BY <1>1, <1>4, <1>5, FactOwn

LEMMA FactEvidence ==
    ASSUME RowsInv, PicsInv, NEW f \in FactRows, NEW s \in Sources, Recording!AddEvidence(f, s)
    PROVE  FactKept
<1>1. /\ Recording!Owner(f) /\ Recording!Usable(s) /\ items' = items /\ asset' = asset
      /\ fact' = [fact EXCEPT ![Me] = Recording!Touched(fact[Me])]
      /\ evid' = evid \cup Recording!Recorded(f, fact[f].value, {s}) /\ spoken' = spoken \cup {f}
  BY DEF Recording!AddEvidence
<1>2. Recording!Live(f) /\ Recording!Live(Me)
  BY <1>1 DEF Recording!Owner, Recording!PersonOpen, Recording!Readable, Recording!Shown
<1>3. /\ DOMAIN fact' = FactRows /\ fact'[Me] = Recording!Touched(fact[Me])
      /\ \A g \in FactRows : g # Me => fact'[g] = fact[g]
  BY <1>1, FactNamed DEF RowsInv, RowsTyped
<1>4. \A g \in FactRows : fact[g] \in Recording!FactRow /\ fact[g].rev \in Nat
  BY DEF RowsInv, RowsTyped, Recording!FactRow
<1>5. /\ fact'[Me] \in Recording!FactRow /\ fact'[Me].source = fact[Me].source
      /\ fact'[Me].value = fact[Me].value /\ fact'[Me].status = fact[Me].status
      /\ fact'[Me].rev > fact[Me].rev
  <2>1. fact[Me] \in Recording!FactRow /\ fact[Me].rev \in Nat BY <1>4, FactNamed
  <2> QED BY <1>3, <2>1, FactTouched
<1>6. RowsInv'
  <2>1. ValueFits(Me, fact'[Me].value) BY <1>5, FactNamed DEF RowsInv, RowsTyped
  <2>2. fact'[Me].source = s1 /\ fact'[Me].status \in {"ACTIVE", "ARCHIVED", "ERASED"}
        /\ fact'[Me].status # "ERASED"
    BY <1>2, <1>5 DEF RowsInv, RowStates, Recording!Live
  <2> QED BY <1>3, <1>5, <2>1, <2>2, FactRowsOwn
<1>7. RowsKeep
  <2>1. ASSUME NEW g \in FactRows
        PROVE  /\ fact[g].status # "ABSENT" => fact'[g].status # "ABSENT"
               /\ \/ fact'[g].rev > fact[g].rev
                  \/ fact'[g].rev = fact[g].rev /\ fact'[g].value = fact[g].value
               /\ Recording!Live(g)' => Recording!Live(g) /\ fact'[g].source = fact[g].source
    <3>1. CASE g = Me BY <3>1, <1>5 DEF Recording!Live
    <3>2. CASE g # Me BY <3>2, <1>3, <1>4 DEF Recording!Live
    <3> QED BY <3>1, <3>2
  <2> QED BY <2>1 DEF RowsKeep
<1>8. PicsInv' /\ PicsKeep BY <1>1, <1>3, FactPicsStay, FactNamed
<1>9. BasisAdds
  <2>1. \A e \in Recording!Recorded(f, fact[f].value, {s}) : e.fact = f /\ e.source = s
    BY DEF Recording!Recorded
  <2>2. [fact |-> f, value |-> fact[f].value, source |-> s, srev |-> src[s].rev]
            \in Recording!Recorded(f, fact[f].value, {s})
    BY DEF Recording!Recorded
  <2>3. fact'[f].status # "ABSENT" BY <1>2, <1>3, <1>5 DEF Recording!Live
  <2> QED BY <2>1, <2>2, <2>3, <1>1 DEF BasisAdds
<1> QED BY <1>6, <1>7, <1>8, <1>9 DEF FactKept

\* A step that leaves the rows and the pictures alone.
LEMMA FactStill ==
    ASSUME RowsInv, PicsInv, fact' = fact, items' = items, asset' = asset, evid' = evid,
           spoken' = spoken
    PROVE  FactKept
<1>1. RowsInv'
  <2>1. fact[Me] \in Recording!FactRow /\ ValueFits(Me, fact[Me].value)
        /\ fact[Me].source = s1 /\ fact[Me].status \in {"ACTIVE", "ARCHIVED", "ERASED"}
        /\ DOMAIN fact = FactRows
    BY FactNamed DEF RowsInv, RowsTyped, RowStates
  <2>2. fact[Me].status = "ERASED" => \A f \in FactRows : Recording!Live(f) => f = Me
    BY DEF RowsInv, RowRefs
  <2> QED BY <2>1, <2>2, FactRowsOwn
<1>2. PicsInv' /\ PicsKeep BY FactPicsStay
<1>3. RowsKeep
  <2>1. \A f \in FactRows : fact[f].rev \in Nat BY DEF RowsInv, RowsTyped, Recording!FactRow
  <2> QED BY <2>1 DEF RowsKeep, Recording!Live
<1>4. BasisAdds BY DEF BasisAdds
<1> QED BY <1>1, <1>2, <1>3, <1>4 DEF FactKept

-------------------------------------------------------------------------------
(* Facts: the basis, the proposals and the deletion under a command *)

LEMMA FactBasisKept ==
    ASSUME RowsInv, BasisInv, RowsKeep, BasisAdds, SourcesKeep PROVE BasisInv'
<1>1. \A e \in evid' : e.fact \in spoken' /\ e.source \in Sources
  BY DEF BasisInv, BasisAdds
<1>2. \A f \in spoken' : f \in FactRows /\ fact'[f].status # "ABSENT"
  BY DEF BasisInv, BasisAdds, RowsKeep
<1>3. \A f \in FactRows : Recording!Live(f)' => fact'[f].source \in Sources
  BY DEF BasisInv, RowsKeep
<1>4. ASSUME NEW s \in Sources, src'[s].status = "ERASED"
      PROVE  Recording!EvidOf(s)' = {} /\ Recording!Owned(s)' \subseteq spoken'
  <2>1. /\ src[s].status = "ERASED" /\ ~Recording!Usable(s)
        /\ Recording!EvidOf(s) = {} /\ Recording!Owned(s) \subseteq spoken
    BY <1>4 DEF SourcesKeep, BasisInv, Recording!Usable
  <2>2. \A e \in evid' : e.source # s BY <2>1 DEF BasisAdds, Recording!EvidOf
  <2>3. ASSUME NEW f \in FactRows, Recording!Live(f)', fact'[f].source = s PROVE f \in spoken'
    <3>1. Recording!Live(f) /\ fact[f].source = s BY <2>1, <2>3 DEF RowsKeep
    <3>2. f \in Recording!Owned(s) BY <3>1 DEF Recording!Owned
    <3> QED BY <2>1, <3>2 DEF BasisAdds
  <2> QED BY <2>2, <2>3 DEF Recording!EvidOf, Recording!Owned
<1>5. Recording!NoFallback'
  <2> SUFFICES ASSUME NEW f \in spoken', Recording!Live(f)' PROVE Recording!Basis(f)' # {}
    BY DEF Recording!NoFallback
  <2>1. CASE f \in spoken
    <3>1. f \in FactRows /\ fact[f].status # "ABSENT" BY <2>1 DEF BasisInv
    <3>2. Recording!Live(f) BY <3>1 DEF RowsKeep
    <3>3. PICK e \in evid : e.fact = f
      BY <2>1, <3>2 DEF BasisInv, Recording!NoFallback, Recording!Basis
    <3> QED BY <3>3 DEF BasisAdds, Recording!Basis
  <2>2. CASE f \notin spoken BY <2>2 DEF BasisAdds, Recording!Basis
  <2> QED BY <2>1, <2>2
<1> QED BY <1>1, <1>2, <1>3, <1>4, <1>5 DEF BasisInv

\* A proposal is decided once, and the revision still tells what its author saw.
LEMMA FactOffersKept ==
    ASSUME RowsInv, RowsInv', OffersInv, RowsKeep, SourcesKeep, DOMAIN offer' = Offers,
           \A i \in Offers :
              \/ offer'[i] = offer[i]
              \/ offer[i].state = "PENDING" /\ \E x \in {"APPLIED", "REJECTED", "STALE"} :
                                                  offer'[i] = [offer[i] EXCEPT !.state = x]
    PROVE  OffersInv'
<1>1. ASSUME NEW i \in Offers
      PROVE  /\ offer'[i] \in OfferRow
             /\ offer'[i].state # "NONE" =>
                   /\ offer'[i].fact \in FactRows /\ fact'[offer'[i].fact].status # "ABSENT"
                   /\ ValueFits(offer'[i].fact, offer'[i].value) /\ offer'[i].value # "VERIFIED"
                   /\ offer'[i].source \in Sources
             /\ offer'[i].state = "NONE" => offer'[i].source = None
             /\ offer'[i].state = "PENDING" =>
                   /\ offer'[i].base <= fact'[offer'[i].fact].rev
                   /\ offer'[i].base = fact'[offer'[i].fact].rev =>
                         fact'[offer'[i].fact].value = offer'[i].seen
             /\ offer'[i].source = offer[i].source
  <2>1. /\ offer[i] \in OfferRow
        /\ offer[i].state # "NONE" =>
              /\ offer[i].fact \in FactRows /\ fact[offer[i].fact].status # "ABSENT"
              /\ ValueFits(offer[i].fact, offer[i].value) /\ offer[i].value # "VERIFIED"
              /\ offer[i].source \in Sources
        /\ offer[i].state = "NONE" => offer[i].source = None
        /\ offer[i].state = "PENDING" =>
              /\ offer[i].base <= fact[offer[i].fact].rev
              /\ offer[i].base = fact[offer[i].fact].rev =>
                    fact[offer[i].fact].value = offer[i].seen
    BY DEF OffersInv
  <2>2. \A f \in FactRows : fact[f].status # "ABSENT" => fact'[f].status # "ABSENT"
    BY DEF RowsKeep
  <2>3. CASE offer'[i] = offer[i]
    <3>1. ASSUME offer[i].state = "PENDING"
          PROVE  /\ offer[i].base <= fact'[offer[i].fact].rev
                 /\ offer[i].base = fact'[offer[i].fact].rev =>
                       fact'[offer[i].fact].value = offer[i].seen
      <4>1. offer[i].fact \in FactRows /\ offer[i].base \in Nat
        BY <2>1, <3>1 DEF OfferRow
      <4>2. PICK f \in FactRows : f = offer[i].fact BY <4>1
      <4>3. fact[f].rev \in Nat /\ fact'[f].rev \in Nat
        BY <4>1 DEF RowsInv, RowsTyped, Recording!FactRow
      <4>4. \/ fact'[f].rev > fact[f].rev
            \/ fact'[f].rev = fact[f].rev /\ fact'[f].value = fact[f].value
        BY DEF RowsKeep
      <4> QED BY <2>1, <3>1, <4>1, <4>2, <4>3, <4>4
    <3> QED BY <2>1, <2>2, <2>3, <3>1
  <2>4. ASSUME NEW x \in {"APPLIED", "REJECTED", "STALE"}, offer[i].state = "PENDING",
               offer'[i] = [offer[i] EXCEPT !.state = x]
        PROVE  /\ offer'[i] \in OfferRow /\ offer'[i].state = x
               /\ offer'[i].fact = offer[i].fact /\ offer'[i].value = offer[i].value
               /\ offer'[i].source = offer[i].source
    BY <2>1, <2>4 DEF OfferRow
  <2> QED BY <2>1, <2>2, <2>3, <2>4
<1>2. ASSUME NEW s \in Sources, src'[s].status = "ERASED" PROVE Recording!OffersOf(s)' = {}
  <2>1. Recording!OffersOf(s) = {} BY <1>2 DEF SourcesKeep, OffersInv
  <2> QED BY <2>1, <1>1 DEF Recording!OffersOf
<1> QED BY <1>1, <1>2 DEF OffersInv

\* What the execution of a deletion left out stays out until it is finished.
LEMMA FactPlanKept ==
    ASSUME RowsInv, RowsInv', PlanInv, PicsKeep, SourcesKeep, plan' = plan, bench' = bench,
           src' \in [Sources ->
                        [status : {"TEMP", "CONFIRMED", "SUSPENDED", "ERASED"}, rev : 1..6]],
           bench = "basis" => \A f \in FactRows : Recording!Live(f)' => f = Me \/ Recording!Live(f)
    PROVE  PlanInv'
<1>1. fact'[Me].source = fact[Me].source /\ fact[Me].source = s1 BY DEF RowsInv, RowStates
<1>2. plan.stage # "NONE" /\ plan.target \in Sources => src'[plan.target].status # "ERASED"
  BY DEF PlanInv, SourcesKeep
<1>3. \A s : Recording!SourceAssets(s)' = Recording!SourceAssets(s)
  BY DEF Recording!SourceAssets, PicsKeep
<1>4. ASSUME plan.stage = "CLEANED", NEW a \in Recording!SourceAssets(plan.target)
      PROVE  ~Recording!AssetReadable(a)
  BY <1>4 DEF Recording!SourceAssets, Recording!AssetReadable, Recording!Usable, Recording!Blocked
<1>5. ASSUME plan.stage = "CLEANED", plan.target \in Sources,
             NEW a \in Recording!SourceAssets(plan.target)
      PROVE  /\ \A f \in FactRows : a \notin Recording!ToSet(items'[f])
             /\ \A f \in Recording!LiveOf("adult")' : fact'[f].value = "VERIFIED" =>
                   fact'[f].proof # a
  <2>1. ~Recording!AssetReadable(a) BY <1>4, <1>5
  <2>2. /\ \A f \in FactRows : a \notin Recording!ToSet(items[f])
        /\ \A f \in Recording!LiveOf("adult") : fact[f].value = "VERIFIED" => fact[f].proof # a
    BY <1>5 DEF PlanInv
  <2> QED BY <2>1, <2>2 DEF PicsKeep
<1>6. ASSUME plan.stage = "CLEANED", plan.path = "FACTS", fact[Me].source = plan.target,
             Me \notin DOMAIN plan.keep
      PROVE  \A f \in FactRows : Recording!Live(f)' => f = Me
  <2>1. bench = "basis" BY <1>1, <1>6 DEF PlanInv
  <2>2. \A f \in FactRows : Recording!Live(f) => f = Me BY <1>6 DEF PlanInv
  <2> QED BY <2>1, <2>2
<1>7. bench' \in {"basis", "measures", "pictures", "periods"} BY DEF PlanInv
<1> QED BY <1>1, <1>2, <1>3, <1>5, <1>6, <1>7 DEF PlanInv

\* A command that changes the rows, and a decision on a proposal.
LEMMA FactStays ==
    ASSUME FactInv, FactKept, SourcesKeep, plan' = plan, bench' = bench, DOMAIN offer' = Offers,
           src' \in [Sources ->
                        [status : {"TEMP", "CONFIRMED", "SUSPENDED", "ERASED"}, rev : 1..6]],
           bench = "basis" => \A f \in FactRows : Recording!Live(f)' => f = Me \/ Recording!Live(f),
           \A i \in Offers :
              \/ offer'[i] = offer[i]
              \/ offer[i].state = "PENDING" /\ \E x \in {"APPLIED", "REJECTED", "STALE"} :
                                                  offer'[i] = [offer[i] EXCEPT !.state = x]
    PROVE  FactInv'
<1>1. RowsInv /\ PicsInv /\ BasisInv /\ OffersInv /\ PlanInv BY DEF FactInv
<1>2. RowsInv' /\ PicsInv' /\ RowsKeep /\ PicsKeep /\ BasisAdds BY DEF FactKept
<1>3. BasisInv' BY <1>1, <1>2, FactBasisKept
<1>4. OffersInv' BY <1>1, <1>2, FactOffersKept
<1>5. PlanInv' BY <1>1, <1>2, FactPlanKept
<1> QED BY <1>2, <1>3, <1>4, <1>5 DEF FactInv

\* A command that changes no proposal and no source.
LEMMA FactCommand ==
    ASSUME FactInv, FactKept, UNCHANGED <<src, plan, bench, offer>>,
           bench = "basis" => \A f \in FactRows : Recording!Live(f)' => f = Me \/ Recording!Live(f)
    PROVE  FactInv'
<1>1. plan' = plan /\ bench' = bench /\ offer' = offer /\ src' = src OBVIOUS
<1>2. SourcesKeep BY <1>1 DEF SourcesKeep
<1>3. src' \in [Sources -> [status : {"TEMP", "CONFIRMED", "SUSPENDED", "ERASED"}, rev : 1..6]]
  BY <1>1 DEF FactInv, PlanInv
<1>4. DOMAIN offer' = Offers BY <1>1 DEF FactInv, OffersInv
<1>5. \A i \in Offers : offer'[i] = offer[i] BY <1>1
<1> QED BY <1>1, <1>2, <1>3, <1>4, <1>5, FactStays

\* Only the rows that were written can be new.
LEMMA FactNoneNew ==
    ASSUME RowsInv, NEW f \in FactRows, NEW row, NEW S, Recording!Write(f, row, S),
           Recording!Live(f) \/ f = Me
    PROVE  \A g \in FactRows : Recording!Live(g)' => g = Me \/ Recording!Live(g)
<1>1. \A g \in FactRows : g # f /\ g # Me => fact'[g] = fact[g]
  BY FactNamed DEF Recording!Write, RowsInv, RowsTyped
<1> QED BY <1>1 DEF Recording!Live

LEMMA FactSource ==
    ASSUME FactInv, NEW s \in Sources, NEW status \in {"CONFIRMED", "SUSPENDED"},
           Recording!ChangeSource(s, status), bench' = bench
    PROVE  FactInv'
<1>1. /\ src[s].status # "ERASED" /\ src[s].rev < 6
      /\ src' = [src EXCEPT ![s] = [status |-> status, rev |-> src[s].rev + 1]]
      /\ plan' = plan /\ bench' = bench /\ offer' = offer /\ fact' = fact /\ items' = items
      /\ asset' = asset /\ evid' = evid /\ spoken' = spoken
  BY DEF Recording!ChangeSource
<1>2. src \in [Sources -> [status : {"TEMP", "CONFIRMED", "SUSPENDED", "ERASED"}, rev : 1..6]]
  BY DEF FactInv, PlanInv
<1>3. PICK r : r = [status |-> status, rev |-> src[s].rev + 1] OBVIOUS
<1>4. r \in [status : {"TEMP", "CONFIRMED", "SUSPENDED", "ERASED"}, rev : 1..6]
      /\ r.status # "ERASED"
  BY <1>1, <1>2, <1>3
<1>5. src' \in [Sources -> [status : {"TEMP", "CONFIRMED", "SUSPENDED", "ERASED"}, rev : 1..6]]
  BY <1>1, <1>2, <1>3, <1>4
<1>6. SourcesKeep BY <1>1, <1>2, <1>3, <1>4 DEF SourcesKeep
<1>7. FactKept BY <1>1, FactStill DEF FactInv
<1>8. DOMAIN offer' = Offers BY <1>1 DEF FactInv, OffersInv
<1>9. \A i \in Offers : offer'[i] = offer[i] BY <1>1
<1>10. \A f \in FactRows : Recording!Live(f)' => f = Me \/ Recording!Live(f)
  BY <1>1 DEF Recording!Live
<1> QED BY <1>1, <1>5, <1>6, <1>7, <1>8, <1>9, <1>10, FactStays

LEMMA FactQuarantine ==
    ASSUME FactInv, Recording!Quarantine, bench' = bench PROVE FactInv'
<1>1. /\ offer' = [i \in Offers |-> IF offer[i].state = "PENDING"
                                    THEN [offer[i] EXCEPT !.state = "STALE"] ELSE offer[i]]
      /\ plan' = plan /\ bench' = bench /\ src' = src /\ fact' = fact /\ items' = items
      /\ asset' = asset /\ evid' = evid /\ spoken' = spoken
  BY DEF Recording!Quarantine
<1>2. SourcesKeep BY <1>1 DEF SourcesKeep
<1>3. src' \in [Sources -> [status : {"TEMP", "CONFIRMED", "SUSPENDED", "ERASED"}, rev : 1..6]]
  BY <1>1 DEF FactInv, PlanInv
<1>4. FactKept BY <1>1, FactStill DEF FactInv
<1>5. DOMAIN offer' = Offers BY <1>1
<1>6. \A i \in Offers :
         \/ offer'[i] = offer[i]
         \/ offer[i].state = "PENDING" /\ \E x \in {"APPLIED", "REJECTED", "STALE"} :
                                             offer'[i] = [offer[i] EXCEPT !.state = x]
  BY <1>1
<1>7. \A f \in FactRows : Recording!Live(f)' => f = Me \/ Recording!Live(f)
  BY <1>1 DEF Recording!Live
<1> QED BY <1>1, <1>2, <1>3, <1>4, <1>5, <1>6, <1>7, FactStays

LEMMA FactOwner ==
    ASSUME NEW f, Recording!Owner(f)
    PROVE  Recording!Live(f) /\ Recording!PersonOpen /\ Recording!Live(Me)
BY DEF Recording!Owner, Recording!PersonOpen, Recording!Readable, Recording!Shown

\* A proposal records what its author sees.
LEMMA FactPropose ==
    ASSUME FactInv, NEW i \in Offers, NEW f \in FactRows, NEW s \in Sources, NEW v,
           ValueFits(f, v), Recording!Propose(i, f, s, v), bench' = bench
    PROVE  FactInv'
<1> DEFINE row == [fact |-> f, value |-> v, source |-> s, srev |-> src[s].rev,
                   base |-> fact[f].rev, state |-> "PENDING", seen |-> fact[f].value]
<1>1. /\ offer[i].state = "NONE" /\ Recording!Owner(f) /\ Recording!Usable(s) /\ v # "VERIFIED"
      /\ offer' = [offer EXCEPT ![i] = row]
      /\ plan' = plan /\ bench' = bench /\ src' = src /\ fact' = fact /\ items' = items
      /\ asset' = asset /\ evid' = evid /\ spoken' = spoken
  BY DEF Recording!Propose
<1>2. RowsInv /\ PicsInv /\ BasisInv /\ OffersInv /\ PlanInv BY DEF FactInv
<1>3. SourcesKeep BY <1>1 DEF SourcesKeep
<1>4. src' \in [Sources -> [status : {"TEMP", "CONFIRMED", "SUSPENDED", "ERASED"}, rev : 1..6]]
  BY <1>1, <1>2 DEF PlanInv
<1>5. RowsInv' /\ PicsInv' /\ RowsKeep /\ PicsKeep /\ BasisAdds
  BY <1>1, <1>2, FactStill DEF FactKept
<1>6. \A g \in FactRows : Recording!Live(g)' => g = Me \/ Recording!Live(g)
  BY <1>1 DEF Recording!Live
<1>7. BasisInv' BY <1>2, <1>3, <1>5, FactBasisKept
<1>8. PlanInv' BY <1>1, <1>2, <1>3, <1>4, <1>5, <1>6, FactPlanKept
<1>9. OffersInv'
  <2>1. fact[f] \in Recording!FactRow /\ ValueFits(f, fact[f].value) BY <1>2 DEF RowsInv, RowsTyped
  <2>2. fact[f].status # "ABSENT" /\ src[s].status # "ERASED"
    BY <1>1, FactOwner DEF Recording!Live, Recording!Usable
  <2>3. v \in FactValues /\ fact[f].value \in FactValues BY <2>1, FactFits
  <2>4. src[s].rev \in Nat /\ fact[f].rev \in Nat
    BY <1>2, <2>1 DEF PlanInv, Recording!FactRow
  <2>5. row \in OfferRow BY <2>3, <2>4 DEF OfferRow
  <2>6. DOMAIN offer' = Offers /\ offer'[i] = row /\ \A j \in Offers : j # i => offer'[j] = offer[j]
    BY <1>1, <1>2 DEF OffersInv
  <2>7. /\ row.fact = f /\ row.value = v /\ row.source = s /\ row.base = fact[f].rev
        /\ row.state = "PENDING" /\ row.seen = fact[f].value
    OBVIOUS
  <2> HIDE DEF row
  <2>8. ASSUME NEW j \in Offers
        PROVE  /\ offer'[j] \in OfferRow
               /\ offer'[j].state # "NONE" =>
                     /\ offer'[j].fact \in FactRows /\ fact'[offer'[j].fact].status # "ABSENT"
                     /\ ValueFits(offer'[j].fact, offer'[j].value)
                     /\ offer'[j].value # "VERIFIED" /\ offer'[j].source \in Sources
               /\ offer'[j].state = "NONE" => offer'[j].source = None
               /\ offer'[j].state = "PENDING" =>
                     /\ offer'[j].base <= fact'[offer'[j].fact].rev
                     /\ offer'[j].base = fact'[offer'[j].fact].rev =>
                           fact'[offer'[j].fact].value = offer'[j].seen
    <3>1. CASE j = i BY <3>1, <1>1, <2>2, <2>4, <2>5, <2>6, <2>7
    <3>2. CASE j # i BY <3>2, <1>1, <1>2, <2>6 DEF OffersInv
    <3> QED BY <3>1, <3>2
  <2>9. ASSUME NEW x \in Sources, src'[x].status = "ERASED" PROVE Recording!OffersOf(x)' = {}
    <3>1. x # s /\ Recording!OffersOf(x) = {} BY <2>2, <2>9, <1>1, <1>2 DEF OffersInv
    <3> QED BY <3>1, <2>6, <2>7 DEF Recording!OffersOf
  <2> QED BY <2>6, <2>8, <2>9 DEF OffersInv
<1> QED BY <1>5, <1>7, <1>8, <1>9 DEF FactInv

\* A proposal that is not stale meets the value its author saw.
LEMMA FactDecide ==
    ASSUME FactInv, NEW i \in Offers, NEW accept, Recording!Decide(i, accept), bench' = bench
    PROVE  FactInv' /\ Recording!DecidedAsProposed
<1> DEFINE o == offer[i]
           verdict == IF Recording!Stale(o) THEN "STALE"
                      ELSE IF accept THEN "APPLIED" ELSE "REJECTED"
<1>1. /\ o.state = "PENDING" /\ offer' = [offer EXCEPT ![i].state = verdict]
      /\ plan' = plan /\ bench' = bench /\ src' = src /\ items' = items /\ asset' = asset
      /\ verdict # "APPLIED" => fact' = fact /\ evid' = evid /\ spoken' = spoken
      /\ verdict = "APPLIED" =>
            /\ o.fact # Me => Recording!Validate(o.fact, [Recording!Touched(fact[o.fact])
                                                              EXCEPT !.value = o.value])
            /\ Recording!Write(o.fact, [Recording!Touched(fact[o.fact]) EXCEPT !.value = o.value],
                               {o.source})
  BY DEF Recording!Decide
<1>2. RowsInv /\ PicsInv /\ BasisInv /\ OffersInv /\ PlanInv BY DEF FactInv
<1>3. /\ DOMAIN offer = Offers /\ o \in OfferRow
      /\ o.fact \in FactRows /\ ValueFits(o.fact, o.value) /\ o.value # "VERIFIED"
      /\ o.source \in Sources
      /\ o.base = fact[o.fact].rev => fact[o.fact].value = o.seen
  BY <1>1, <1>2 DEF OffersInv
<1>4. verdict \in {"APPLIED", "REJECTED", "STALE"} OBVIOUS
<1> HIDE DEF verdict
<1>5. /\ DOMAIN offer' = Offers /\ offer'[i] = [offer[i] EXCEPT !.state = verdict]
      /\ \A j \in Offers : j # i => offer'[j] = offer[j]
  BY <1>1, <1>3
<1>6. \A j \in Offers :
         \/ offer'[j] = offer[j]
         \/ offer[j].state = "PENDING" /\ \E x \in {"APPLIED", "REJECTED", "STALE"} :
                                             offer'[j] = [offer[j] EXCEPT !.state = x]
  BY <1>1, <1>4, <1>5
<1>7. /\ SourcesKeep
      /\ src' \in [Sources -> [status : {"TEMP", "CONFIRMED", "SUSPENDED", "ERASED"}, rev : 1..6]]
  BY <1>1, <1>2 DEF SourcesKeep, PlanInv
<1>8. offer'[i].state = verdict BY <1>3, <1>5 DEF OfferRow
<1>9. ASSUME verdict = "APPLIED"
      PROVE  /\ Recording!Owner(o.fact) /\ fact[o.fact].value = o.seen
             /\ Recording!Usable(o.source)
  BY <1>9, <1>3 DEF verdict, Recording!Stale
<1>10. FactKept /\ \A g \in FactRows : Recording!Live(g)' => g = Me \/ Recording!Live(g)
  <2>1. CASE verdict # "APPLIED"
    <3>1. fact' = fact /\ evid' = evid /\ spoken' = spoken BY <2>1, <1>1
    <3>2. \A g \in FactRows : Recording!Live(g)' => g = Me \/ Recording!Live(g)
      BY <3>1 DEF Recording!Live
    <3> QED BY <3>1, <3>2, <1>1, <1>2, FactStill
  <2>2. CASE verdict = "APPLIED"
    <3> HIDE DEF o
    <3>1. PICK f \in FactRows : f = o.fact BY <1>3
    <3>2. PICK v : v = o.value OBVIOUS
    <3>3. PICK s \in Sources : s = o.source BY <1>3
    <3>4. /\ f # Me => Recording!Validate(f, [Recording!Touched(fact[f]) EXCEPT !.value = v])
          /\ Recording!Write(f, [Recording!Touched(fact[f]) EXCEPT !.value = v], {s})
      BY <1>1, <2>2, <3>1, <3>2, <3>3
    <3>5. /\ Recording!Usable(s) /\ Recording!Live(f) /\ Recording!PersonOpen /\ Recording!Live(Me)
          /\ ValueFits(f, v) /\ v # "VERIFIED" /\ items' = items /\ asset' = asset
      BY <1>1, <1>3, <1>9, <2>2, <3>1, <3>2, <3>3, FactOwner
    <3>6. FactKept
      <4>1. CASE f # Me BY <4>1, <1>2, <3>4, <3>5, FactApply
      <4>2. CASE f = Me
        <5>1. Recording!Write(Me, [Recording!Touched(fact[Me]) EXCEPT !.value = v], {s})
          BY <3>4, <4>2
        <5>2. ValueFits(Me, v) BY <3>5, <4>2
        <5>3. {s} \in SUBSET Sources /\ \A x \in {s} : Recording!Usable(x) BY <3>5
        <5> QED BY <5>1, <5>2, <5>3, <1>2, <3>5, FactIdentity
      <4> QED BY <4>1, <4>2
    <3>7. \A g \in FactRows : Recording!Live(g)' => g = Me \/ Recording!Live(g)
      BY <1>2, <3>4, <3>5, FactNoneNew
    <3> QED BY <3>6, <3>7
  <2> QED BY <2>1, <2>2
<1>11. FactInv' BY <1>1, <1>5, <1>6, <1>7, <1>10, FactStays
<1>12. Recording!DecidedAsProposed
  <2> SUFFICES ASSUME NEW j \in Offers, offer[j].state = "PENDING", offer'[j].state = "APPLIED"
               PROVE  /\ fact[offer[j].fact].value = offer[j].seen
                      /\ fact'[offer[j].fact].value = offer[j].value
                      /\ Recording!Usable(offer[j].source)
    BY DEF Recording!DecidedAsProposed
  <2>1. j = i /\ verdict = "APPLIED" BY <1>5, <1>8
  <2> HIDE DEF o
  <2>2. fact'[o.fact].value = o.value
    <3>1. PICK f \in FactRows : f = o.fact BY <1>3
    <3>2. PICK v : v = o.value OBVIOUS
    <3>3. Recording!Write(f, [Recording!Touched(fact[f]) EXCEPT !.value = v], {o.source})
      BY <1>1, <2>1, <3>1, <3>2
    <3>4. v \in FactValues BY <1>3, <3>1, <3>2, FactFits
    <3>5. fact[f] \in Recording!FactRow /\ DOMAIN fact = FactRows BY <1>2 DEF RowsInv, RowsTyped
    <3>6. PICK r : r = [Recording!Touched(fact[f]) EXCEPT !.value = v] OBVIOUS
    <3>7. r.value = v BY <3>4, <3>5, <3>6, FactValued
    <3>8. fact'[f] = r
      <4>1. Recording!Write(f, r, {o.source}) BY <3>3, <3>6
      <4> QED BY <4>1, <3>5, FactNamed DEF Recording!Write
    <3> QED BY <3>1, <3>2, <3>7, <3>8
  <2> QED BY <1>9, <2>1, <2>2 DEF o
<1> QED BY <1>11, <1>12

-------------------------------------------------------------------------------
(* Facts: a deletion *)

\* A plan that is made, blocked or frozen: the rows stay as they are.
LEMMA FactPlanned ==
    ASSUME FactInv, FactKept, SourcesKeep, offer' = offer, bench' = bench,
           src' \in [Sources ->
                        [status : {"TEMP", "CONFIRMED", "SUSPENDED", "ERASED"}, rev : 1..6]],
           plan'.stage \in {"NONE", "DRAFT", "BLOCKED", "FROZEN"},
           plan' = [path |-> plan'.path, target |-> plan'.target, trev |-> plan'.trev,
                    stage |-> plan'.stage, graph |-> plan'.graph, keep |-> plan'.keep],
           /\ plan'.path \in {"PERSON", "PICTURE", "FACTS", "EVIDENCE"}
           /\ plan'.target \in Sources \cup Assets \cup {Me}
           /\ plan'.target = Me <=> plan'.path = "PERSON"
           /\ plan'.target \in Assets => plan'.path = "PICTURE"
           /\ plan'.target \in Sources => src'[plan'.target].status # "ERASED"
           /\ bench # "basis" => plan'.target # s1
    PROVE  FactInv'
<1>1. RowsInv /\ PicsInv /\ BasisInv /\ OffersInv /\ PlanInv BY DEF FactInv
<1>2. RowsInv' /\ PicsInv' /\ RowsKeep /\ PicsKeep /\ BasisAdds BY DEF FactKept
<1>3. BasisInv' BY <1>1, <1>2, FactBasisKept
<1>4. OffersInv'
  <2>1. DOMAIN offer' = Offers BY <1>1 DEF OffersInv
  <2>2. \A i \in Offers : offer'[i] = offer[i] OBVIOUS
  <2> QED BY <1>1, <1>2, <2>1, <2>2, FactOffersKept
<1>5. PlanInv'
  <2>1. bench' \in {"basis", "measures", "pictures", "periods"} BY <1>1 DEF PlanInv
  <2> QED BY <2>1 DEF PlanInv
<1> QED BY <1>2, <1>3, <1>4, <1>5 DEF FactInv

LEMMA FactAssess ==
    ASSUME FactInv, NEW t \in Sources \cup Assets \cup {Me}, Recording!Assess(t), bench' = bench,
           bench # "basis" => t # s1
    PROVE  FactInv'
<1>1. /\ src' = src /\ fact' = fact /\ items' = items /\ evid' = evid /\ offer' = offer
      /\ asset' = asset /\ spoken' = spoken /\ Recording!PathOf(t) # "NONE"
      /\ t \in Sources => src[t].status # "ERASED"
  BY DEF Recording!Assess
<1>2. PICK p : p = Recording!PathOf(t) OBVIOUS
<1>3. PICK n : n = Recording!RevOf(t) OBVIOUS
<1>4. PICK g : g = Recording!Graph(Recording!PathOf(t), t) OBVIOUS
<1>5. plan' = [Recording!NoPlan EXCEPT !.path = p, !.target = t, !.trev = n, !.stage = "DRAFT",
                                       !.graph = g]
  BY <1>2, <1>3, <1>4 DEF Recording!Assess
<1>6. plan' = [path |-> p, target |-> t, trev |-> n, stage |-> "DRAFT", graph |-> g, keep |-> << >>]
  BY <1>5 DEF Recording!NoPlan
<1>7. /\ plan'.path = p /\ plan'.target = t /\ plan'.stage = "DRAFT"
      /\ plan' = [path |-> plan'.path, target |-> plan'.target, trev |-> plan'.trev,
                  stage |-> plan'.stage, graph |-> plan'.graph, keep |-> plan'.keep]
  BY <1>6
<1>8. /\ p \in {"PERSON", "PICTURE", "FACTS", "EVIDENCE"}
      /\ t = Me <=> p = "PERSON"
      /\ t \in Assets => p = "PICTURE"
  <2>1. t \in Assets => t # Me BY FactNamed, FactApart
  <2> QED BY <2>1, <1>1, <1>2 DEF Recording!PathOf
<1>9. FactKept BY <1>1, FactStill DEF FactInv
<1>10. /\ SourcesKeep
       /\ src' \in [Sources -> [status : {"TEMP", "CONFIRMED", "SUSPENDED", "ERASED"}, rev : 1..6]]
  BY <1>1 DEF SourcesKeep, FactInv, PlanInv
<1>11. /\ plan'.path \in {"PERSON", "PICTURE", "FACTS", "EVIDENCE"}
       /\ plan'.target \in Sources \cup Assets \cup {Me}
       /\ plan'.target = Me <=> plan'.path = "PERSON"
       /\ plan'.target \in Assets => plan'.path = "PICTURE"
       /\ plan'.target \in Sources => src'[plan'.target].status # "ERASED"
       /\ bench # "basis" => plan'.target # s1
  BY <1>1, <1>7, <1>8
<1>12. plan'.stage \in {"NONE", "DRAFT", "BLOCKED", "FROZEN"} BY <1>7
<1> QED BY <1>1, <1>7, <1>9, <1>10, <1>11, <1>12, FactPlanned

LEMMA FactBlock ==
    ASSUME FactInv, Recording!Block, bench' = bench PROVE FactInv'
<1>1. /\ items' = items /\ evid' = evid /\ offer' = offer /\ asset' = asset /\ spoken' = spoken
      /\ plan.stage = "DRAFT" /\ plan' = [plan EXCEPT !.stage = "BLOCKED"]
      /\ src' = IF plan.target \in Sources
                THEN [src EXCEPT ![plan.target].rev = src[plan.target].rev + 1] ELSE src
      /\ fact' = IF plan.target = Me THEN [fact EXCEPT ![Me] = Recording!Touched(fact[Me])]
                                     ELSE fact
      /\ Recording!RevOf(plan.target) < 6
  BY DEF Recording!Block
<1>2. RowsInv /\ PicsInv /\ PlanInv BY DEF FactInv
<1>3. src \in [Sources -> [status : {"TEMP", "CONFIRMED", "SUSPENDED", "ERASED"}, rev : 1..6]]
  BY <1>2 DEF PlanInv
<1>4. plan.target \in Sources => src[plan.target].rev < 6 BY <1>1 DEF Recording!RevOf
<1>5. /\ src' \in [Sources -> [status : {"TEMP", "CONFIRMED", "SUSPENDED", "ERASED"}, rev : 1..6]]
      /\ \A s \in Sources : src'[s].status = src[s].status
  <2>1. CASE plan.target \in Sources
    <3>1. PICK r : r = [src[plan.target] EXCEPT !.rev = src[plan.target].rev + 1] OBVIOUS
    <3>2. r \in [status : {"TEMP", "CONFIRMED", "SUSPENDED", "ERASED"}, rev : 1..6]
          /\ r.status = src[plan.target].status
      BY <2>1, <3>1, <1>3, <1>4
    <3>3. src' = [src EXCEPT ![plan.target] = r] BY <1>1, <2>1, <3>1
    <3> QED BY <2>1, <3>2, <3>3, <1>3
  <2>2. CASE plan.target \notin Sources BY <2>2, <1>1, <1>3
  <2> QED BY <2>1, <2>2
<1>6. SourcesKeep BY <1>5 DEF SourcesKeep
<1>7. FactKept
  <2>1. CASE plan.target # Me BY <2>1, <1>1, <1>2, FactStill
  <2>2. CASE plan.target = Me
    <3>1. /\ DOMAIN fact' = FactRows /\ fact'[Me] = Recording!Touched(fact[Me])
          /\ \A f \in FactRows : f # Me => fact'[f] = fact[f]
      BY <1>1, <1>2, <2>2, FactNamed DEF RowsInv, RowsTyped
    <3>2. fact[Me] \in Recording!FactRow /\ fact[Me].rev \in Nat
      BY <1>2, FactNamed DEF RowsInv, RowsTyped, Recording!FactRow
    <3>3. /\ fact'[Me] \in Recording!FactRow /\ fact'[Me].source = fact[Me].source
          /\ fact'[Me].value = fact[Me].value /\ fact'[Me].status = fact[Me].status
          /\ fact'[Me].rev > fact[Me].rev
      BY <3>1, <3>2, FactTouched
    <3>4. ValueFits(Me, fact'[Me].value) BY <3>3, <1>2, FactNamed DEF RowsInv, RowsTyped
    <3>5. /\ fact'[Me].source = s1 /\ fact'[Me].status \in {"ACTIVE", "ARCHIVED", "ERASED"}
          /\ fact'[Me].status = "ERASED" => \A f \in FactRows : Recording!Live(f) => f = Me
      BY <3>3, <1>2 DEF RowsInv, RowStates, RowRefs
    <3>6. RowsInv' BY <1>2, <3>1, <3>3, <3>4, <3>5, FactRowsOwn
    <3>7. PicsInv' /\ PicsKeep BY <1>1, <1>2, <3>1, FactPicsStay, FactNamed
    <3>8. RowsKeep
      <4>1. \A f \in FactRows : fact[f].rev \in Nat
        BY <1>2 DEF RowsInv, RowsTyped, Recording!FactRow
      <4>2. ASSUME NEW g \in FactRows
            PROVE  /\ fact[g].status # "ABSENT" => fact'[g].status # "ABSENT"
                   /\ \/ fact'[g].rev > fact[g].rev
                      \/ fact'[g].rev = fact[g].rev /\ fact'[g].value = fact[g].value
                   /\ Recording!Live(g)' => Recording!Live(g) /\ fact'[g].source = fact[g].source
        <5>1. CASE g = Me BY <5>1, <3>3 DEF Recording!Live
        <5>2. CASE g # Me BY <5>2, <3>1, <4>1 DEF Recording!Live
        <5> QED BY <5>1, <5>2
      <4> QED BY <4>2 DEF RowsKeep
    <3>9. BasisAdds BY <1>1 DEF BasisAdds
    <3> QED BY <3>6, <3>7, <3>8, <3>9 DEF FactKept
  <2> QED BY <2>1, <2>2
<1>8. /\ plan'.path = plan.path /\ plan'.target = plan.target /\ plan'.stage = "BLOCKED"
      /\ plan' = [path |-> plan'.path, target |-> plan'.target, trev |-> plan'.trev,
                  stage |-> plan'.stage, graph |-> plan'.graph, keep |-> plan'.keep]
  <2>1. plan = [path |-> plan.path, target |-> plan.target, trev |-> plan.trev,
                stage |-> plan.stage, graph |-> plan.graph, keep |-> plan.keep]
    BY <1>2 DEF PlanInv
  <2>2. plan' = [path |-> plan.path, target |-> plan.target, trev |-> plan.trev,
                 stage |-> "BLOCKED", graph |-> plan.graph, keep |-> plan.keep]
    BY <1>1, <2>1
  <2> QED BY <2>2
<1>9. /\ plan'.path \in {"PERSON", "PICTURE", "FACTS", "EVIDENCE"}
      /\ plan'.target \in Sources \cup Assets \cup {Me}
      /\ plan'.target = Me <=> plan'.path = "PERSON"
      /\ plan'.target \in Assets => plan'.path = "PICTURE"
      /\ plan'.target \in Sources => src'[plan'.target].status # "ERASED"
      /\ bench # "basis" => plan'.target # s1
  BY <1>1, <1>2, <1>5, <1>8 DEF PlanInv
<1>10. plan'.stage \in {"NONE", "DRAFT", "BLOCKED", "FROZEN"} BY <1>8
<1> QED BY <1>1, <1>5, <1>6, <1>7, <1>8, <1>9, <1>10, FactPlanned

LEMMA FactFreeze ==
    ASSUME FactInv, NEW keep, Recording!Freeze(keep), bench' = bench PROVE FactInv'
<1>1. /\ src' = src /\ fact' = fact /\ items' = items /\ evid' = evid /\ offer' = offer
      /\ asset' = asset /\ spoken' = spoken
      /\ plan.stage = "BLOCKED" /\ plan' = [plan EXCEPT !.stage = "FROZEN", !.keep = keep]
  BY DEF Recording!Freeze
<1>2. RowsInv /\ PicsInv /\ PlanInv BY DEF FactInv
<1>3. FactKept BY <1>1, <1>2, FactStill
<1>4. /\ SourcesKeep
      /\ src' \in [Sources -> [status : {"TEMP", "CONFIRMED", "SUSPENDED", "ERASED"}, rev : 1..6]]
  BY <1>1, <1>2 DEF SourcesKeep, PlanInv
<1>5. /\ plan'.path = plan.path /\ plan'.target = plan.target /\ plan'.stage = "FROZEN"
      /\ plan' = [path |-> plan'.path, target |-> plan'.target, trev |-> plan'.trev,
                  stage |-> plan'.stage, graph |-> plan'.graph, keep |-> plan'.keep]
  <2>1. plan = [path |-> plan.path, target |-> plan.target, trev |-> plan.trev,
                stage |-> plan.stage, graph |-> plan.graph, keep |-> plan.keep]
    BY <1>2 DEF PlanInv
  <2>2. plan' = [path |-> plan.path, target |-> plan.target, trev |-> plan.trev,
                 stage |-> "FROZEN", graph |-> plan.graph, keep |-> keep]
    BY <1>1, <2>1
  <2> QED BY <2>2
<1>6. /\ plan'.path \in {"PERSON", "PICTURE", "FACTS", "EVIDENCE"}
      /\ plan'.target \in Sources \cup Assets \cup {Me}
      /\ plan'.target = Me <=> plan'.path = "PERSON"
      /\ plan'.target \in Assets => plan'.path = "PICTURE"
      /\ plan'.target \in Sources => src'[plan'.target].status # "ERASED"
      /\ bench # "basis" => plan'.target # s1
  BY <1>1, <1>2, <1>5 DEF PlanInv
<1>7. plan'.stage \in {"NONE", "DRAFT", "BLOCKED", "FROZEN"} BY <1>5
<1> QED BY <1>1, <1>3, <1>4, <1>5, <1>6, <1>7, FactPlanned

\* The finalization of a person whose last row is gone.
LEMMA FactPersonErased ==
    ASSUME FactInv, Recording!ErasePerson, bench' = bench PROVE FactInv'
<1>1. /\ src' = src /\ items' = items /\ evid' = evid /\ offer' = offer /\ asset' = asset
      /\ spoken' = spoken /\ plan' = plan
      /\ fact' = [fact EXCEPT ![Me].status = "ERASED"]
      /\ plan.stage = "CLEANED" /\ plan.path = "FACTS" /\ fact[Me].source = plan.target
      /\ Me \notin DOMAIN plan.keep
  BY DEF Recording!ErasePerson
<1>2. RowsInv /\ PicsInv /\ PlanInv BY DEF FactInv
<1>3. \A f \in FactRows : Recording!Live(f) => f = Me BY <1>1, <1>2 DEF PlanInv
<1>4. /\ DOMAIN fact' = FactRows /\ fact'[Me] = [fact[Me] EXCEPT !.status = "ERASED"]
      /\ \A f \in FactRows : f # Me => fact'[f] = fact[f]
  BY <1>1, <1>2, FactNamed DEF RowsInv, RowsTyped
<1>5. fact[Me] \in Recording!FactRow /\ ValueFits(Me, fact[Me].value)
  BY <1>2, FactNamed DEF RowsInv, RowsTyped
<1>6. /\ fact'[Me] \in Recording!FactRow /\ fact'[Me].source = fact[Me].source
      /\ fact'[Me].value = fact[Me].value /\ fact'[Me].status = "ERASED"
      /\ fact'[Me].rev = fact[Me].rev
  BY <1>4, <1>5 DEF Recording!FactRow, Recording!Statuses
<1>7. RowsInv'
  <2>1. ValueFits(Me, fact'[Me].value) /\ fact'[Me].source = s1
    BY <1>2, <1>5, <1>6 DEF RowsInv, RowStates
  <2> QED BY <2>1, <1>2, <1>3, <1>4, <1>6, FactRowsOwn
<1>8. PicsInv' /\ PicsKeep BY <1>1, <1>2, <1>4, FactPicsStay, FactNamed
<1>9. RowsKeep
  <2>1. fact'[Me].status # "ABSENT" /\ ~Recording!Live(Me)' BY <1>6 DEF Recording!Live
  <2> QED BY <2>1, <1>2, <1>4, <1>6, FactOwnKept
<1>10. BasisAdds BY <1>1 DEF BasisAdds
<1>11. FactKept BY <1>7, <1>8, <1>9, <1>10 DEF FactKept
<1>12. \A f \in FactRows : Recording!Live(f)' => f = Me \/ Recording!Live(f)
  BY <1>4 DEF Recording!Live
<1> QED BY <1>1, <1>11, <1>12, FactCommand

\* The execution, table by table.
LEMMA FactExecuted ==
    ASSUME Recording!Execute
    PROVE  /\ src' = src /\ asset' = asset /\ plan' = [plan EXCEPT !.stage = "CLEANED"]
           /\ plan.stage = "FROZEN" /\ Recording!PathOf(plan.target) = plan.path
           /\ Recording!KeepFits(plan.keep)
           /\ \A e : e \in evid' <=>
                 e \in evid /\ e.fact \notin Recording!Silenced
                    /\ (plan.path \in {"FACTS", "EVIDENCE"} => e.source # plan.target)
           /\ spoken' = spoken \ Recording!Silenced
           /\ DOMAIN offer' = Offers
           /\ \A i \in Offers :
                 \/ offer'[i] = Recording!NoOffer
                 \/ /\ offer[i].fact \notin Recording!Silenced
                    /\ \/ offer'[i] = offer[i]
                       \/ /\ offer[i].state = "PENDING"
                          /\ offer'[i] = [offer[i] EXCEPT !.state = "STALE"]
BY DEF Recording!Execute, Recording!Unchanged

LEMMA FactSilenced ==
    /\ Recording!Doomed \subseteq Recording!Silenced
    /\ \A f \in Recording!Silenced : f \in Recording!Doomed \/ f = Me
    /\ Me \in Recording!Silenced => Me \in Recording!Doomed \/
          (plan.path = "FACTS" /\ fact[Me].source = plan.target /\ Me \notin DOMAIN plan.keep)
BY DEF Recording!Silenced

\* The rows that are left keep their owner and their state, and what a picture leaves behind is a
\* new revision.
LEMMA FactLeft ==
    ASSUME RowsInv, PicsInv, Recording!Execute
    PROVE  /\ \A f \in FactRows : f \in Recording!Doomed =>
                 ~Recording!Live(f)' /\ fact'[f] = Recording!Absent
           /\ \A f \in FactRows : f \notin Recording!Doomed =>
                 /\ fact'[f].status = fact[f].status /\ fact'[f].source = fact[f].source
                 /\ (Recording!Live(f)' <=> Recording!Live(f))
                 /\ \/ fact'[f].rev > fact[f].rev
                    \/ fact'[f].rev = fact[f].rev /\ fact'[f].value = fact[f].value
<1>1. /\ fact'[Me] = Recording!Touched(fact[Me]) /\ Me \notin Recording!Doomed
      /\ \A f \in Recording!Doomed : fact'[f] = Recording!Absent
  BY FactCleaned, FactSurvivors
<1>2. \A f \in FactRows : fact[f] \in Recording!FactRow /\ fact[f].rev \in Nat
  BY DEF RowsInv, RowsTyped, Recording!FactRow
<1>3. Recording!Absent.status = "ABSENT" BY DEF Recording!Absent
<1>4. /\ fact'[Me].status = fact[Me].status /\ fact'[Me].source = fact[Me].source
      /\ fact'[Me].rev > fact[Me].rev
  <2>1. fact[Me] \in Recording!FactRow /\ fact[Me].rev \in Nat BY <1>2, FactNamed
  <2> QED BY <1>1, <2>1, FactTouched
<1>5. ASSUME NEW f \in FactRows, f \notin Recording!Doomed, f # Me
      PROVE  /\ fact'[f].status = fact[f].status /\ fact'[f].source = fact[f].source
             /\ fact'[f] = fact[f] \/ fact'[f].rev > fact[f].rev
  BY <1>5, FactCleaned, FactUnpictured
<1>6. ASSUME NEW f \in FactRows, f \notin Recording!Doomed
      PROVE  /\ fact'[f].status = fact[f].status /\ fact'[f].source = fact[f].source
             /\ \/ fact'[f].rev > fact[f].rev
                \/ fact'[f].rev = fact[f].rev /\ fact'[f].value = fact[f].value
  BY <1>2, <1>4, <1>5, <1>6
<1>7. \A f \in FactRows : f \notin Recording!Doomed => (Recording!Live(f)' <=> Recording!Live(f))
  BY <1>6 DEF Recording!Live
<1>8. \A f \in FactRows : f \in Recording!Doomed =>
          ~Recording!Live(f)' /\ fact'[f] = Recording!Absent
  BY <1>1, <1>3 DEF Recording!Live
<1> QED BY <1>6, <1>7, <1>8

LEMMA FactPicsExecute ==
    ASSUME RowsInv, PicsInv, Recording!Execute PROVE PicsInv'
<1> DEFINE A == IF plan.path \in {"FACTS", "PICTURE"} THEN Recording!Pictures(plan.target) ELSE {}
<1>1. /\ DOMAIN items' = FactRows
      /\ \A f \in Recording!Doomed : items'[f] = << >>
      /\ \A f \in FactRows : f \notin Recording!Doomed => items'[f] = Recording!Without(items[f], A)
      /\ \A f \in FactRows : f \notin Recording!Doomed /\ f # Me =>
            fact'[f] = Recording!Unpictured(f, A)
  BY FactCleaned
<1> HIDE DEF A
<1>2. asset' = asset BY FactExecuted
<1>3. ASSUME NEW f \in FactRows
      PROVE  /\ items'[f] \in Seq(Assets) /\ Len(items'[f]) <= MaxItems
             /\ Recording!IsInjective(items'[f])
             /\ \A a \in Recording!ToSet(items'[f]) : a \in Recording!ToSet(items[f])
  <2>1. PICK q \in Seq(Assets) : q = items[f] /\ Len(q) <= MaxItems /\ Recording!IsInjective(q)
    BY DEF PicsInv
  <2>2. CASE f \in Recording!Doomed
    <3>1. PICK e : e = << >> OBVIOUS
    <3>2. e \in Seq(Assets) /\ Len(e) = 0 BY <3>1
    <3>3. \A x : x \notin DOMAIN e BY <3>2
    <3>4. Recording!IsInjective(e) /\ Recording!ToSet(e) = {}
      <4> HIDE DEF A
      <4> QED BY <3>3 DEF Recording!IsInjective, Recording!ToSet
    <3>5. items'[f] = e BY <2>2, <3>1, <1>1
    <3>6. MaxItems \in Nat BY FactNamed
    <3> QED BY <3>2, <3>4, <3>5, <3>6
  <2>3. CASE f \notin Recording!Doomed
    <3>1. PICK w : w = Recording!Without(q, A) OBVIOUS
    <3>2. /\ w \in Seq(Assets) /\ Len(w) <= Len(q) /\ Recording!IsInjective(w)
          /\ Recording!ToSet(w) = Recording!ToSet(q) \ A
      BY <2>1, <3>1, FactWithout
    <3>3. items'[f] = w BY <1>1, <2>1, <2>3, <3>1
    <3>4. Len(w) \in Nat /\ Len(q) \in Nat /\ MaxItems \in Nat BY <3>2, FactNamed
    <3> QED BY <2>1, <3>2, <3>3, <3>4
  <2> QED BY <2>2, <2>3
<1>4. \A k : \A f \in Recording!LiveOf(k)' :
         /\ f \in FactRows /\ KindOf[f] = k /\ f \notin Recording!Doomed
         /\ f \in Recording!LiveOf(k) /\ Recording!Live(f)
  BY FactLeft DEF Recording!LiveOf
<1>5. \A k \in {"adult", "collection"} : \A f \in FactRows : KindOf[f] = k => f # Me
  BY FactNamed
<1>6. Recording!PicturesHold'
  <2>1. ASSUME NEW f \in Recording!LiveOf("adult")', fact'[f].value = "VERIFIED"
        PROVE  fact'[f].proof # None /\ asset[fact'[f].proof] # "ERASED"
    <3>1. fact'[f] = fact[f] /\ f \in Recording!LiveOf("adult")
      BY <2>1, <1>1, <1>4, <1>5, FactUnpictured
    <3> QED BY <2>1, <3>1 DEF PicsInv, Recording!PicturesHold
  <2>2. ASSUME NEW c \in Recording!LiveOf("collection")'
        PROVE  /\ c \in Recording!LiveOf("collection")
               /\ fact'[c].value \in Recording!ToSet(items'[c]) \cup {None}
               /\ fact'[c].now = fact[c].now /\ fact'[c].status = fact[c].status
    BY <1>1, <1>4, <1>5, FactUnpictured
  <2>3. ASSUME NEW c \in Recording!LiveOf("collection")'
        PROVE  /\ fact'[c].value \in Recording!ToSet(items'[c]) \cup {None}
               /\ Recording!IsInjective(items'[c])
               /\ \A a \in Recording!ToSet(items'[c]) : asset[a] # "ERASED"
               /\ fact'[c].now => fact'[c].status = "ACTIVE"
    <3>1. c \in FactRows BY <1>4
    <3>2. /\ \A a \in Recording!ToSet(items[c]) : asset[a] # "ERASED"
          /\ fact[c].now => fact[c].status = "ACTIVE"
      BY <2>2 DEF PicsInv, Recording!PicturesHold
    <3> QED BY <2>2, <3>1, <3>2, <1>3
  <2>4. ASSUME NEW c \in Recording!LiveOf("collection")', fact'[c].now,
               NEW g \in Recording!LiveOf("collection")' \ {c}
        PROVE  ~fact'[g].now
    <3>1. /\ c \in Recording!LiveOf("collection") /\ g \in Recording!LiveOf("collection")
          /\ fact'[c].now = fact[c].now /\ fact'[g].now = fact[g].now
      BY <2>2
    <3> QED BY <2>4, <3>1 DEF PicsInv, Recording!PicturesHold, Recording!Others
  <2> QED BY <2>1, <2>3, <2>4, <1>2 DEF Recording!PicturesHold, Recording!Others
<1> QED BY <1>1, <1>2, <1>3, <1>6 DEF PicsInv

LEMMA FactOffersExecute ==
    ASSUME RowsInv, RowsInv', PicsInv, OffersInv, Recording!Execute PROVE OffersInv'
<1>1. /\ DOMAIN offer' = Offers /\ src' = src
      /\ \A i \in Offers :
            \/ offer'[i] = Recording!NoOffer
            \/ /\ offer[i].fact \notin Recording!Silenced
               /\ \/ offer'[i] = offer[i]
                  \/ /\ offer[i].state = "PENDING"
                     /\ offer'[i] = [offer[i] EXCEPT !.state = "STALE"]
  BY FactExecuted
<1>2. \A f \in FactRows : f \notin Recording!Doomed =>
         /\ fact'[f].status = fact[f].status
         /\ \/ fact'[f].rev > fact[f].rev
            \/ fact'[f].rev = fact[f].rev /\ fact'[f].value = fact[f].value
  BY FactLeft
<1>3. ASSUME NEW i \in Offers
      PROVE  /\ offer'[i] \in OfferRow
             /\ offer'[i].state # "NONE" =>
                   /\ offer'[i].fact \in FactRows /\ fact'[offer'[i].fact].status # "ABSENT"
                   /\ ValueFits(offer'[i].fact, offer'[i].value) /\ offer'[i].value # "VERIFIED"
                   /\ offer'[i].source \in Sources
             /\ offer'[i].state = "NONE" => offer'[i].source = None
             /\ offer'[i].state = "PENDING" =>
                   /\ offer'[i].base <= fact'[offer'[i].fact].rev
                   /\ offer'[i].base = fact'[offer'[i].fact].rev =>
                         fact'[offer'[i].fact].value = offer'[i].seen
             /\ offer'[i].source \in {offer[i].source, None}
  <2>1. CASE offer'[i] = Recording!NoOffer
    <3>1. /\ Recording!NoOffer \in OfferRow /\ Recording!NoOffer.state = "NONE"
          /\ Recording!NoOffer.source = None
      BY DEF Recording!NoOffer, OfferRow, FactValues
    <3> QED BY <2>1, <3>1
  <2>2. CASE offer[i].fact \notin Recording!Doomed
             /\ (offer'[i] = offer[i] \/ (offer[i].state = "PENDING"
                                           /\ offer'[i] = [offer[i] EXCEPT !.state = "STALE"]))
    <3>1. /\ offer[i] \in OfferRow
          /\ offer[i].state # "NONE" =>
                /\ offer[i].fact \in FactRows /\ fact[offer[i].fact].status # "ABSENT"
                /\ ValueFits(offer[i].fact, offer[i].value) /\ offer[i].value # "VERIFIED"
                /\ offer[i].source \in Sources
          /\ offer[i].state = "NONE" => offer[i].source = None
          /\ offer[i].state = "PENDING" =>
                /\ offer[i].base <= fact[offer[i].fact].rev
                /\ offer[i].base = fact[offer[i].fact].rev =>
                      fact[offer[i].fact].value = offer[i].seen
      BY DEF OffersInv
    <3>2. offer[i].state # "NONE" => fact'[offer[i].fact].status # "ABSENT"
      BY <2>2, <3>1, <1>2
    <3>3. ASSUME offer[i].state = "PENDING"
          PROVE  /\ offer[i].base <= fact'[offer[i].fact].rev
                 /\ offer[i].base = fact'[offer[i].fact].rev =>
                       fact'[offer[i].fact].value = offer[i].seen
      <4>1. offer[i].fact \in FactRows /\ offer[i].base \in Nat
        BY <3>1, <3>3 DEF OfferRow
      <4>2. PICK f \in FactRows : f = offer[i].fact BY <4>1
      <4>3. fact[f].rev \in Nat /\ fact'[f].rev \in Nat
        BY <4>1 DEF RowsInv, RowsTyped, Recording!FactRow
      <4>4. \/ fact'[f].rev > fact[f].rev
            \/ fact'[f].rev = fact[f].rev /\ fact'[f].value = fact[f].value
        BY <2>2, <4>2, <1>2
      <4> QED BY <3>1, <3>3, <4>1, <4>2, <4>3, <4>4
    <3>4. CASE offer'[i] = offer[i] BY <3>1, <3>2, <3>3, <3>4
    <3>5. CASE offer[i].state = "PENDING" /\ offer'[i] = [offer[i] EXCEPT !.state = "STALE"]
      <4>1. /\ offer'[i] \in OfferRow /\ offer'[i].state = "STALE"
            /\ offer'[i].fact = offer[i].fact /\ offer'[i].value = offer[i].value
            /\ offer'[i].source = offer[i].source
        BY <3>1, <3>5 DEF OfferRow
      <4> QED BY <3>1, <3>2, <3>5, <4>1
    <3> QED BY <2>2, <3>4, <3>5
  <2> QED BY <2>1, <2>2, <1>1, FactSilenced
<1>4. ASSUME NEW s \in Sources, src'[s].status = "ERASED" PROVE Recording!OffersOf(s)' = {}
  <2>1. Recording!OffersOf(s) = {} BY <1>1, <1>4 DEF OffersInv
  <2>2. s # None BY FactApart
  <2> QED BY <2>1, <2>2, <1>3 DEF Recording!OffersOf
<1> QED BY <1>1, <1>3, <1>4 DEF OffersInv

\* The scan that plans a deletion: a path is taken only where the basis allows it.
LEMMA FactPaths ==
    ASSUME NEW t
    PROVE  /\ Recording!PathOf(t) = "EVIDENCE" =>
                 Recording!Unsupported(t) = {} /\ Recording!SourceAssets(t) = {}
           /\ Recording!PathOf(t) = "FACTS" =>
                 fact[Me].source = t \/ Me \notin Recording!Unsupported(t)
BY DEF Recording!PathOf, Recording!MayWithdraw

\* A field that keeps evidence beside the one that is withdrawn.
LEMMA FactBackedUp ==
    ASSUME NEW t, NEW e \in evid, e.source = t, e.fact \notin Recording!Unsupported(t)
    PROVE  \E x \in evid : x.fact = e.fact /\ x.source # t
BY DEF Recording!Unsupported, Recording!EvidOf, Recording!Basis

LEMMA FactBasisExecute ==
    ASSUME RowsInv, PicsInv, BasisInv, PlanInv, Recording!Execute PROVE BasisInv'
<1>1. /\ src' = src /\ plan.stage = "FROZEN" /\ Recording!PathOf(plan.target) = plan.path
      /\ Recording!KeepFits(plan.keep)
      /\ \A e : e \in evid' <=>
            e \in evid /\ e.fact \notin Recording!Silenced
               /\ (plan.path \in {"FACTS", "EVIDENCE"} => e.source # plan.target)
      /\ spoken' = spoken \ Recording!Silenced
  BY FactExecuted
<1>2. /\ \A f \in FactRows : f \in Recording!Doomed => ~Recording!Live(f)'
      /\ \A f \in FactRows : f \notin Recording!Doomed =>
            /\ fact'[f].status = fact[f].status /\ fact'[f].source = fact[f].source
            /\ (Recording!Live(f)' <=> Recording!Live(f))
  BY FactLeft
<1>3. /\ \A e \in evid : e.fact \in spoken /\ e.source \in Sources
      /\ \A f \in spoken : f \in FactRows /\ fact[f].status # "ABSENT"
      /\ \A f \in FactRows : Recording!Live(f) => fact[f].source \in Sources
      /\ \A s \in Sources : src[s].status = "ERASED" =>
            Recording!EvidOf(s) = {} /\ Recording!Owned(s) \subseteq spoken
  BY DEF BasisInv
<1>4. /\ \A e \in evid' : e.fact \in spoken' /\ e.source \in Sources
      /\ \A f \in spoken' : f \in FactRows /\ fact'[f].status # "ABSENT"
      /\ \A f \in FactRows : Recording!Live(f)' => fact'[f].source \in Sources
  BY <1>1, <1>2, <1>3, FactSilenced
<1>5. ASSUME NEW s \in Sources, src'[s].status = "ERASED"
      PROVE  Recording!EvidOf(s)' = {} /\ Recording!Owned(s)' \subseteq spoken'
  <2>1. Recording!EvidOf(s) = {} /\ Recording!Owned(s) \subseteq spoken BY <1>1, <1>3, <1>5
  <2>2. Recording!EvidOf(s)' = {} BY <2>1, <1>1 DEF Recording!EvidOf
  <2>3. s # plan.target BY <1>1, <1>5 DEF PlanInv
  <2>4. ASSUME NEW f \in Recording!Owned(s)' PROVE f \in spoken'
    <3>1. f \in FactRows /\ Recording!Live(f)' /\ fact'[f].source = s
      BY <2>4 DEF Recording!Owned
    <3>2. f \notin Recording!Doomed /\ Recording!Live(f) /\ fact[f].source = s
      BY <3>1, <1>2
    <3>3. f \in spoken BY <2>1, <3>1, <3>2 DEF Recording!Owned
    <3>4. f \notin Recording!Silenced BY <2>3, <3>2, FactSilenced
    <3> QED BY <3>3, <3>4, <1>1
  <2> QED BY <2>2, <2>4
<1>6. ASSUME NEW f \in spoken', Recording!Live(f)' PROVE Recording!Basis(f)' # {}
  <2>1. /\ f \in FactRows /\ f \in spoken /\ f \notin Recording!Silenced
        /\ f \notin Recording!Doomed /\ Recording!Live(f)
    BY <1>1, <1>2, <1>4, <1>6, FactSilenced
  <2>2. PICK e \in evid : e.fact = f
    BY <2>1 DEF BasisInv, Recording!NoFallback, Recording!Basis
  <2>3. ASSUME NEW x \in evid, x.fact = f,
               plan.path \in {"FACTS", "EVIDENCE"} => x.source # plan.target
        PROVE  Recording!Basis(f)' # {}
    <3>1. x \in evid' BY <2>1, <2>3, <1>1
    <3> QED BY <2>3, <3>1 DEF Recording!Basis
  <2>4. CASE plan.path \notin {"FACTS", "EVIDENCE"} \/ e.source # plan.target
    BY <2>2, <2>3, <2>4
  <2>5. CASE e.source = plan.target /\ f \notin Recording!Unsupported(plan.target)
    BY <2>2, <2>3, <2>5, FactBackedUp
  <2>6. CASE plan.path = "EVIDENCE" BY <2>4, <2>5, <2>6, <1>1, FactPaths
  <2>7. ASSUME f \in DOMAIN plan.keep PROVE Recording!Basis(f)' # {}
    <3>1. Recording!Supported(f, plan.keep[f]) BY <2>7, <1>1 DEF Recording!KeepFits
    <3>2. \E x \in evid : x.fact = f /\ x.source # plan.target
      BY <3>1 DEF Recording!Supported, Recording!Basis
    <3> QED BY <2>3, <3>2
  <2>8. CASE plan.path = "FACTS" /\ e.source = plan.target
    <3>1. CASE f # Me
      <4>1. f \in Recording!Selected(plan.target) BY <2>1, <2>2, <2>8, <3>1, FactSelected
      <4>2. f \in DOMAIN plan.keep BY <2>1, <2>8, <4>1 DEF Recording!Doomed
      <4> QED BY <2>7, <4>2
    <3>2. CASE f = Me
      <4>1. CASE fact[Me].source = plan.target
        <5>1. f \in DOMAIN plan.keep BY <2>1, <2>8, <3>2, <4>1 DEF Recording!Silenced
        <5> QED BY <2>7, <5>1
      <4>2. CASE fact[Me].source # plan.target
        BY <2>5, <2>8, <3>2, <4>2, <1>1, FactPaths
      <4> QED BY <4>1, <4>2
    <3> QED BY <3>1, <3>2
  <2> QED BY <2>4, <2>6, <2>8
<1>7. Recording!NoFallback' BY <1>6 DEF Recording!NoFallback
<1> QED BY <1>4, <1>5, <1>7 DEF BasisInv

\* What the execution promises to the finalization.
LEMMA FactPlanExecute ==
    ASSUME RowsInv, PicsInv, PlanInv, Recording!Execute, bench' = bench PROVE PlanInv'
<1> DEFINE A == IF plan.path \in {"FACTS", "PICTURE"} THEN Recording!Pictures(plan.target) ELSE {}
<1>1. /\ DOMAIN items' = FactRows
      /\ \A f \in Recording!Doomed : items'[f] = << >>
      /\ \A f \in FactRows : f \notin Recording!Doomed => items'[f] = Recording!Without(items[f], A)
      /\ \A f \in FactRows : f \notin Recording!Doomed /\ f # Me =>
            fact'[f] = Recording!Unpictured(f, A)
  BY FactCleaned
<1> HIDE DEF A
<1>2. /\ src' = src /\ asset' = asset /\ plan' = [plan EXCEPT !.stage = "CLEANED"]
      /\ plan.stage = "FROZEN" /\ Recording!PathOf(plan.target) = plan.path
  BY FactExecuted
<1>3. /\ plan'.path = plan.path /\ plan'.target = plan.target /\ plan'.stage = "CLEANED"
      /\ plan'.keep = plan.keep
      /\ plan' = [path |-> plan'.path, target |-> plan'.target, trev |-> plan'.trev,
                  stage |-> plan'.stage, graph |-> plan'.graph, keep |-> plan'.keep]
  <2>1. plan = [path |-> plan.path, target |-> plan.target, trev |-> plan.trev,
                stage |-> plan.stage, graph |-> plan.graph, keep |-> plan.keep]
    BY DEF PlanInv
  <2>2. plan' = [path |-> plan.path, target |-> plan.target, trev |-> plan.trev,
                 stage |-> "CLEANED", graph |-> plan.graph, keep |-> plan.keep]
    BY <1>2, <2>1
  <2> QED BY <2>2
<1>4. /\ plan.path \in {"PERSON", "PICTURE", "FACTS", "EVIDENCE"}
      /\ plan.target \in Sources \cup Assets \cup {Me}
      /\ plan.target = Me <=> plan.path = "PERSON"
      /\ plan.target \in Assets => plan.path = "PICTURE"
      /\ plan.target \in Sources => src[plan.target].status # "ERASED"
      /\ bench # "basis" => plan.target # s1
  BY <1>2 DEF PlanInv
<1>5. \A f \in FactRows : Recording!Live(f)' =>
          Recording!Live(f) /\ f \notin Recording!Doomed /\ fact'[f].source = fact[f].source
  BY FactLeft
<1>6. ASSUME NEW a, a \in A, NEW f \in FactRows
      PROVE  /\ a \notin Recording!ToSet(items'[f])
             /\ f \in Recording!LiveOf("adult")' /\ fact'[f].value = "VERIFIED" =>
                    fact'[f].proof # a
  <2>1. PICK q \in Seq(Assets) : q = items[f] BY DEF PicsInv
  <2>2. a \notin Recording!ToSet(items'[f])
    <3>1. CASE f \in Recording!Doomed
      <4>1. PICK e : e = << >> OBVIOUS
      <4>2. Len(e) = 0 /\ e \in Seq(Assets) BY <4>1
      <4>3. \A x : x \notin DOMAIN e BY <4>2
      <4>4. items'[f] = e BY <3>1, <4>1, <1>1
      <4> QED BY <4>3, <4>4 DEF Recording!ToSet
    <3>2. CASE f \notin Recording!Doomed
      <4>1. PICK w : w = Recording!Without(q, A) OBVIOUS
      <4>2. Recording!ToSet(w) = Recording!ToSet(q) \ A BY <4>1, FactWithout
      <4> QED BY <1>1, <1>6, <2>1, <3>2, <4>1, <4>2
    <3> QED BY <3>1, <3>2
  <2>3. ASSUME f \in Recording!LiveOf("adult")', fact'[f].value = "VERIFIED"
        PROVE  fact'[f].proof # a
    <3>1. f # Me /\ KindOf[f] = "adult" /\ Recording!Live(f) /\ f \notin Recording!Doomed
      BY <2>3, <1>5, FactNamed DEF Recording!LiveOf
    <3>2. fact'[f] = fact[f] /\ fact[f].proof \notin A
      BY <2>3, <3>1, <1>1, FactUnpictured
    <3> QED BY <3>2, <1>6
  <2> QED BY <2>2, <2>3
<1>7. ASSUME plan.target \in Sources, NEW a \in Recording!SourceAssets(plan.target)'
      PROVE  a \in A
  <2>1. a \in Recording!SourceAssets(plan.target)
    BY <1>2, <1>3, <1>7 DEF Recording!SourceAssets
  <2>2. plan.target # Me /\ plan.target \notin Assets BY <1>7, FactNamed, FactApart
  <2>3. plan.path # "EVIDENCE" BY <1>2, <2>1, FactPaths
  <2>4. plan.path \in {"FACTS", "PICTURE"} BY <1>4, <2>2, <2>3
  <2> QED BY <1>7, <2>1, <2>2, <2>4 DEF A, Recording!Pictures
<1>8. ASSUME plan'.target \in Sources, NEW a \in Recording!SourceAssets(plan.target)'
      PROVE  /\ \A f \in FactRows : a \notin Recording!ToSet(items'[f])
             /\ \A f \in Recording!LiveOf("adult")' :
                   fact'[f].value = "VERIFIED" => fact'[f].proof # a
  <2>1. a \in A BY <1>3, <1>7, <1>8
  <2> QED BY <2>1, <1>6 DEF Recording!LiveOf
<1>9. ASSUME plan'.path = "FACTS", fact'[Me].source = plan'.target, Me \notin DOMAIN plan'.keep,
             NEW f \in FactRows, Recording!Live(f)'
      PROVE  f = Me
  <2>1. fact'[Me].source = fact[Me].source BY FactLeft, FactSurvivors, FactNamed
  <2> QED BY <2>1, <1>3, <1>5, <1>9, FactSurvivors
<1>10. /\ src' \in [Sources -> [status : {"TEMP", "CONFIRMED", "SUSPENDED", "ERASED"}, rev : 1..6]]
       /\ bench' \in {"basis", "measures", "pictures", "periods"}
  BY <1>2 DEF PlanInv
<1>11. /\ plan'.path \in {"PERSON", "PICTURE", "FACTS", "EVIDENCE"}
       /\ plan'.target \in Sources \cup Assets \cup {Me}
       /\ plan'.target = Me <=> plan'.path = "PERSON"
       /\ plan'.target \in Assets => plan'.path = "PICTURE"
       /\ plan'.target \in Sources => src'[plan'.target].status # "ERASED"
       /\ bench' # "basis" => plan'.target # s1
  BY <1>2, <1>3, <1>4
<1> QED BY <1>3, <1>8, <1>9, <1>10, <1>11 DEF PlanInv

LEMMA FactExecute ==
    ASSUME FactInv, Recording!Execute, bench' = bench PROVE FactInv'
<1>1. RowsInv /\ PicsInv /\ BasisInv /\ OffersInv /\ PlanInv BY DEF FactInv
<1>2. RowsInv' BY <1>1, FactRowsExecute
<1>3. PicsInv' BY <1>1, FactPicsExecute
<1>4. BasisInv' BY <1>1, FactBasisExecute
<1>5. OffersInv' BY <1>1, <1>2, FactOffersExecute
<1>6. PlanInv' BY <1>1, FactPlanExecute
<1> QED BY <1>2, <1>3, <1>4, <1>5, <1>6 DEF FactInv

\* The finalization looks once more, and then the target is gone.
LEMMA FactFinish ==
    ASSUME FactInv, Recording!Finish, bench' = bench PROVE FactInv'
<1> DEFINE t == plan.target
<1>1. /\ plan.stage = "CLEANED" /\ Recording!Clean /\ plan' = Recording!NoPlan
      /\ src' = IF t \in Sources THEN [src EXCEPT ![t].status = "ERASED"] ELSE src
      /\ asset' = [a \in Assets |-> IF a \in Recording!Pictures(t) THEN "ERASED" ELSE asset[a]]
      /\ fact' = IF t = Me THEN [fact EXCEPT ![Me].status = "ERASED"] ELSE fact
      /\ items' = items /\ evid' = evid /\ offer' = offer /\ spoken' = spoken
  BY DEF Recording!Finish
<1> HIDE DEF t
<1>2. RowsInv /\ PicsInv /\ BasisInv /\ OffersInv /\ PlanInv BY DEF FactInv
<1>3. /\ t \in Sources \cup Assets \cup {Me}
      /\ t = Me <=> plan.path = "PERSON"
      /\ t \in Sources => \A a \in Recording!SourceAssets(t) :
            /\ \A f \in FactRows : a \notin Recording!ToSet(items[f])
            /\ \A f \in Recording!LiveOf("adult") : fact[f].value = "VERIFIED" => fact[f].proof # a
  BY <1>1, <1>2 DEF PlanInv, t
<1>4. /\ t \in Sources => t \notin Assets /\ t # Me
      /\ t \in Assets => t # Me
      /\ fact[Me] \in Recording!FactRow /\ DOMAIN fact = FactRows /\ ValueFits(Me, fact[Me].value)
  BY <1>2, FactNamed, FactApart DEF RowsInv, RowsTyped
<1>5. t = Me => \A f \in FactRows : Recording!Live(f) => f = Me
  BY <1>1, <1>3, <1>4 DEF Recording!Clean, t
<1>6. t \in Assets => \A f \in FactRows : Recording!Live(f) =>
          t # fact[f].proof /\ t \notin Recording!ToSet(items[f])
  BY <1>1, <1>3, <1>4 DEF Recording!Clean, t
<1>7. t \in Sources =>
          /\ Recording!EvidOf(t) = {} /\ Recording!OffersOf(t) = {}
          /\ plan.path = "FACTS" => Recording!StillKept
          /\ plan.path # "FACTS" => Recording!Owned(t) = {}
  BY <1>1, <1>3, <1>4 DEF Recording!Clean, t
<1>8. /\ DOMAIN fact' = FactRows /\ \A f \in FactRows : f # Me => fact'[f] = fact[f]
      /\ fact'[Me] \in Recording!FactRow /\ fact'[Me].source = fact[Me].source
      /\ fact'[Me].value = fact[Me].value /\ fact'[Me].rev = fact[Me].rev
      /\ fact'[Me].status = IF t = Me THEN "ERASED" ELSE fact[Me].status
  <2>1. CASE t # Me BY <2>1, <1>1, <1>4
  <2>2. CASE t = Me
    <3>1. PICK r : r = [fact[Me] EXCEPT !.status = "ERASED"] OBVIOUS
    <3>2. fact' = [fact EXCEPT ![Me] = r] BY <1>1, <2>2, <3>1
    <3>3. /\ r \in Recording!FactRow /\ r.source = fact[Me].source /\ r.value = fact[Me].value
          /\ r.rev = fact[Me].rev /\ r.status = "ERASED"
      BY <1>4, <3>1 DEF Recording!FactRow, Recording!Statuses
    <3>4. /\ fact'[Me] = r /\ DOMAIN fact' = FactRows
          /\ \A f \in FactRows : f # Me => fact'[f] = fact[f]
      BY <3>2, <1>4, FactNamed
    <3> QED BY <2>2, <3>3, <3>4
  <2> QED BY <2>1, <2>2
<1>9. RowsInv'
  <2>1. ValueFits(Me, fact'[Me].value) /\ fact'[Me].source = s1
        /\ fact'[Me].status \in {"ACTIVE", "ARCHIVED", "ERASED"}
    BY <1>2, <1>4, <1>8 DEF RowsInv, RowStates
  <2>2. fact'[Me].status = "ERASED" => \A f \in FactRows : Recording!Live(f) => f = Me
    BY <1>2, <1>5, <1>8 DEF RowsInv, RowRefs
  <2> QED BY <2>1, <2>2, <1>2, <1>8, FactRowsOwn
<1>10. \A f \in FactRows : Recording!Live(f)' =>
           Recording!Live(f) /\ t # Me /\ fact'[f].source = fact[f].source
  BY <1>5, <1>8 DEF Recording!Live
<1>11. ASSUME NEW a \in Assets, asset[a] # "ERASED", a \notin Recording!Pictures(t)
       PROVE  asset'[a] # "ERASED"
  BY <1>11, <1>1
<1>12. \A a \in Assets : asset[a] # "ERASED" =>
           asset[a] = "READY" /\ (t \in Sources => (a \in Recording!Pictures(t) <=>
                                                    a \in Recording!SourceAssets(t)))
  BY <1>2, <1>4 DEF PicsInv, Recording!Pictures
<1>13. t \in Assets => Recording!Pictures(t) = {t} BY DEF Recording!Pictures
<1>14. PicsInv'
  <2>1. /\ DOMAIN items' = FactRows /\ asset' \in [Assets -> {"READY", "ERASED"}]
        /\ \A f \in FactRows : items'[f] \in Seq(Assets) /\ Len(items'[f]) <= MaxItems
                               /\ Recording!IsInjective(items'[f])
    BY <1>1, <1>2 DEF PicsInv
  <2>2. \A k \in {"adult", "collection"} : \A f \in Recording!LiveOf(k)' :
           /\ f \in FactRows /\ KindOf[f] = k /\ f # Me /\ t # Me /\ fact'[f] = fact[f]
           /\ Recording!Live(f) /\ f \in Recording!LiveOf(k)
    BY <1>8, <1>10, FactNamed DEF Recording!LiveOf
  <2>3. ASSUME NEW f \in Recording!LiveOf("adult")', fact'[f].value = "VERIFIED"
        PROVE  fact'[f].proof # None /\ asset'[fact'[f].proof] # "ERASED"
    <3>1. /\ f \in FactRows /\ fact'[f] = fact[f] /\ f \in Recording!LiveOf("adult")
          /\ Recording!Live(f) /\ t # Me
      BY <2>2, <2>3
    <3>2. fact[f].proof # None /\ asset[fact[f].proof] # "ERASED"
      BY <1>2, <2>3, <3>1 DEF PicsInv, Recording!PicturesHold
    <3>3. fact[f] \in Recording!FactRow BY <1>2, <3>1 DEF RowsInv, RowsTyped
    <3>4. fact[f].proof \in Assets BY <3>2, <3>3 DEF Recording!FactRow
    <3>5. fact[f].proof \notin Recording!Pictures(t)
      <4>1. CASE t \in Assets BY <4>1, <3>1, <1>6, <1>13
      <4>2. CASE t \in Sources BY <4>2, <2>3, <3>1, <3>2, <3>4, <1>3, <1>12
      <4> QED BY <4>1, <4>2, <3>1, <1>3
    <3> QED BY <3>1, <3>2, <3>4, <3>5, <1>11
  <2>4. ASSUME NEW c \in Recording!LiveOf("collection")'
        PROVE  /\ fact'[c].value \in Recording!ToSet(items'[c]) \cup {None}
               /\ Recording!IsInjective(items'[c])
               /\ \A a \in Recording!ToSet(items'[c]) : asset'[a] # "ERASED"
               /\ fact'[c].now => fact'[c].status = "ACTIVE"
    <3>1. /\ c \in FactRows /\ fact'[c] = fact[c] /\ c \in Recording!LiveOf("collection")
          /\ Recording!Live(c) /\ t # Me
      BY <2>2
    <3>2. /\ fact[c].value \in Recording!ToSet(items[c]) \cup {None}
          /\ Recording!IsInjective(items[c])
          /\ \A a \in Recording!ToSet(items[c]) : asset[a] # "ERASED"
          /\ fact[c].now => fact[c].status = "ACTIVE"
      BY <1>2, <3>1 DEF PicsInv, Recording!PicturesHold
    <3>3. ASSUME NEW a \in Recording!ToSet(items[c]) PROVE asset'[a] # "ERASED"
      <4>1. a \in Assets
        <5>1. PICK q \in Seq(Assets) : q = items[c] BY <1>2, <3>1 DEF PicsInv
        <5>2. \A i \in DOMAIN q : q[i] \in Assets BY <5>1
        <5> QED BY <3>3, <5>1, <5>2 DEF Recording!ToSet
      <4>2. a \notin Recording!Pictures(t)
        <5>1. CASE t \in Assets BY <5>1, <3>1, <3>3, <1>6, <1>13
        <5>2. CASE t \in Sources BY <5>2, <3>1, <3>2, <3>3, <4>1, <1>3, <1>12
        <5> QED BY <5>1, <5>2, <3>1, <1>3
      <4> QED BY <3>2, <3>3, <4>1, <4>2, <1>11
    <3> QED BY <3>1, <3>2, <3>3, <1>1
  <2>5. ASSUME NEW c \in Recording!LiveOf("collection")', fact'[c].now,
               NEW g \in Recording!LiveOf("collection")' \ {c}
        PROVE  ~fact'[g].now
    <3>1. /\ c \in Recording!LiveOf("collection") /\ g \in Recording!LiveOf("collection")
          /\ fact'[c] = fact[c] /\ fact'[g] = fact[g]
      BY <2>2
    <3> QED BY <1>2, <2>5, <3>1 DEF PicsInv, Recording!PicturesHold, Recording!Others
  <2>6. Recording!PicturesHold'
    BY <2>3, <2>4, <2>5 DEF Recording!PicturesHold, Recording!Others
  <2> QED BY <2>1, <2>6 DEF PicsInv
<1>15. \A s \in Sources : src'[s].status = "ERASED" <=> (s = t \/ src[s].status = "ERASED")
  BY <1>1, <1>2 DEF PlanInv
<1>16. BasisInv'
  <2>1. /\ \A e \in evid' : e.fact \in spoken' /\ e.source \in Sources
        /\ \A f \in spoken' : f \in FactRows /\ fact'[f].status # "ABSENT"
        /\ \A f \in FactRows : Recording!Live(f)' => fact'[f].source \in Sources
    BY <1>1, <1>2, <1>8, <1>10 DEF BasisInv
  <2>2. ASSUME NEW s \in Sources, src'[s].status = "ERASED"
        PROVE  Recording!EvidOf(s)' = {} /\ Recording!Owned(s)' \subseteq spoken'
    <3>1. Recording!EvidOf(s) = {} /\ Recording!Owned(s) \subseteq spoken
      <4>1. CASE src[s].status = "ERASED" BY <4>1, <1>2 DEF BasisInv
      <4>2. CASE s = t
        <5>1. CASE plan.path # "FACTS" BY <4>2, <5>1, <1>7
        <5>2. CASE plan.path = "FACTS"
          <6>1. ASSUME NEW f \in Recording!Owned(t) PROVE f \in spoken
            <7>1. Recording!Supported(f, plan.keep[f])
              BY <4>2, <5>2, <1>7 DEF Recording!StillKept, t
            <7>2. \E e \in evid : e.fact = f BY <7>1 DEF Recording!Supported, Recording!Basis
            <7> QED BY <7>2, <1>2 DEF BasisInv
          <6> QED BY <4>2, <6>1, <1>7
        <5> QED BY <5>1, <5>2
      <4> QED BY <4>1, <4>2, <2>2, <1>15
    <3>2. Recording!EvidOf(s)' = {} BY <3>1, <1>1 DEF Recording!EvidOf
    <3>3. Recording!Owned(s)' \subseteq spoken' BY <3>1, <1>1, <1>10 DEF Recording!Owned
    <3> QED BY <3>2, <3>3
  <2>3. Recording!NoFallback'
    <3> SUFFICES ASSUME NEW f \in spoken', Recording!Live(f)' PROVE Recording!Basis(f)' # {}
      BY DEF Recording!NoFallback
    <3>1. f \in spoken /\ Recording!Live(f) BY <2>1, <1>1, <1>10
    <3>2. Recording!Basis(f) # {} BY <1>2, <3>1 DEF BasisInv, Recording!NoFallback
    <3> QED BY <1>1, <3>2 DEF Recording!Basis
  <2> QED BY <2>1, <2>2, <2>3 DEF BasisInv
<1>17. OffersInv'
  <2>1. \A f \in FactRows : /\ fact'[f].rev = fact[f].rev /\ fact'[f].value = fact[f].value
                            /\ fact[f].status # "ABSENT" => fact'[f].status # "ABSENT"
    BY <1>8
  <2>2. ASSUME NEW i \in Offers
        PROVE  /\ offer'[i] \in OfferRow
               /\ offer'[i].state # "NONE" =>
                     /\ offer'[i].fact \in FactRows /\ fact'[offer'[i].fact].status # "ABSENT"
                     /\ ValueFits(offer'[i].fact, offer'[i].value) /\ offer'[i].value # "VERIFIED"
                     /\ offer'[i].source \in Sources
               /\ offer'[i].state = "NONE" => offer'[i].source = None
               /\ offer'[i].state = "PENDING" =>
                     /\ offer'[i].base <= fact'[offer'[i].fact].rev
                     /\ offer'[i].base = fact'[offer'[i].fact].rev =>
                           fact'[offer'[i].fact].value = offer'[i].seen
    <3>1. offer'[i] = offer[i] BY <1>1
    <3> QED BY <3>1, <2>1, <1>2 DEF OffersInv
  <2>3. ASSUME NEW s \in Sources, src'[s].status = "ERASED" PROVE Recording!OffersOf(s)' = {}
    <3>1. Recording!OffersOf(s) = {} BY <2>3, <1>2, <1>7, <1>15 DEF OffersInv
    <3> QED BY <3>1, <1>1 DEF Recording!OffersOf
  <2> QED BY <1>1, <1>2, <2>2, <2>3 DEF OffersInv
<1>18. PlanInv'
  <2>1. src \in [Sources -> [status : {"TEMP", "CONFIRMED", "SUSPENDED", "ERASED"}, rev : 1..6]]
        /\ bench' \in {"basis", "measures", "pictures", "periods"}
    BY <1>2 DEF PlanInv
  <2>2. src' \in [Sources -> [status : {"TEMP", "CONFIRMED", "SUSPENDED", "ERASED"}, rev : 1..6]]
    <3>1. CASE t \in Sources
      <4>1. PICK r : r = [src[t] EXCEPT !.status = "ERASED"] OBVIOUS
      <4>2. r \in [status : {"TEMP", "CONFIRMED", "SUSPENDED", "ERASED"}, rev : 1..6]
        BY <2>1, <3>1, <4>1
      <4>3. src' = [src EXCEPT ![t] = r] BY <1>1, <3>1, <4>1
      <4> QED BY <2>1, <3>1, <4>2, <4>3
    <3>2. CASE t \notin Sources BY <3>2, <2>1, <1>1
    <3> QED BY <3>1, <3>2
  <2>3. plan'.stage = "NONE"
        /\ plan' = [path |-> plan'.path, target |-> plan'.target, trev |-> plan'.trev,
                    stage |-> plan'.stage, graph |-> plan'.graph, keep |-> plan'.keep]
    BY <1>1 DEF Recording!NoPlan
  <2> QED BY <2>1, <2>2, <2>3 DEF PlanInv
<1> QED BY <1>9, <1>14, <1>16, <1>17, <1>18 DEF FactInv

-------------------------------------------------------------------------------
(* Facts: the steps *)

\* The values that the commands of the benches write.
LEMMA FactLiterals ==
    /\ \A v \in {"v1", "v2"} : ValueFits(Me, v) /\ ValueFits(cap, v)
    /\ \A f \in {r1, r2} : \A v \in {"early", "late", "always"} : ValueFits(f, v)
    /\ \A m \in {m1, m2} : \A v \in {"day1", "day2"} : ValueFits(m, v)
    /\ ValueFits(ad, "DECLARED")
    /\ \A k \in {k1, k2} : \A v \in Assets \cup {None} : ValueFits(k, v)
BY FactNamed DEF ValueFits, Recording!Values

\* A step that applies no proposal.
LEMMA FactUndecided ==
    ASSUME \A i \in Offers : offer[i].state = "PENDING" => offer'[i].state # "APPLIED"
    PROVE  Recording!DecidedAsProposed
BY DEF Recording!DecidedAsProposed

\* A command that keeps the rows in order and leaves sources, plan and proposals alone.
LEMMA FactStep ==
    ASSUME FactInv, FactKept, UNCHANGED <<src, plan, bench, offer>>,
           bench = "basis" => \A f \in FactRows : Recording!Live(f)' => f = Me \/ Recording!Live(f)
    PROVE  FactInv' /\ Recording!DecidedAsProposed
<1>1. FactInv' BY FactCommand
<1>2. \A i \in Offers : offer'[i].state = offer[i].state OBVIOUS
<1> QED BY <1>1, <1>2, FactUndecided

LEMMA FactProposed ==
    ASSUME FactInv, NEW i \in Offers, NEW f \in FactRows, NEW s \in Sources, NEW v,
           ValueFits(f, v), Recording!Propose(i, f, s, v), bench' = bench
    PROVE  FactInv' /\ Recording!DecidedAsProposed
<1>1. FactInv' BY FactPropose
<1>2. offer[i].state = "NONE" /\ \A j \in Offers : j # i => offer'[j] = offer[j]
  BY DEF Recording!Propose, FactInv, OffersInv
<1> QED BY <1>1, <1>2, FactUndecided

LEMMA FactDelete ==
    ASSUME FactInv, NEW T \in SUBSET (Sources \cup Assets \cup {Me}),
           bench # "basis" => s1 \notin T, Recording!Delete(T), bench' = bench
    PROVE  FactInv' /\ Recording!DecidedAsProposed
<1>1. ASSUME NEW t \in T, Recording!Assess(t) PROVE FactInv' /\ offer' = offer
  <2>1. FactInv' BY <1>1, FactAssess
  <2> QED BY <2>1, <1>1 DEF Recording!Assess
<1>2. CASE Recording!Block
  <2>1. FactInv' BY <1>2, FactBlock
  <2> QED BY <2>1, <1>2, FactUndecided DEF Recording!Block
<1>3. CASE Recording!Execute
  <2>1. FactInv' BY <1>3, FactExecute
  <2>2. Recording!NoOffer.state = "NONE" BY DEF Recording!NoOffer
  <2>3. ASSUME NEW i \in Offers, offer[i].state = "PENDING" PROVE offer'[i].state # "APPLIED"
    <3>1. offer[i] \in OfferRow BY DEF FactInv, OffersInv
    <3>2. CASE offer'[i] = Recording!NoOffer BY <2>2, <3>2
    <3>3. CASE offer'[i] = offer[i] BY <2>3, <3>3
    <3>4. CASE offer'[i] = [offer[i] EXCEPT !.state = "STALE"] BY <3>1, <3>4 DEF OfferRow
    <3> QED BY <3>2, <3>3, <3>4, <1>3, FactExecuted
  <2> QED BY <2>1, <2>3, FactUndecided
<1>4. CASE Recording!ErasePerson
  <2>1. FactInv' BY <1>4, FactPersonErased
  <2> QED BY <2>1, <1>4, FactUndecided DEF Recording!ErasePerson
<1>5. CASE Recording!Finish
  <2>1. FactInv' BY <1>5, FactFinish
  <2> QED BY <2>1, <1>5, FactUndecided DEF Recording!Finish
<1>6. ASSUME NEW keep, Recording!Freeze(keep) PROVE FactInv' /\ offer' = offer
  <2>1. FactInv' BY <1>6, FactFreeze
  <2> QED BY <2>1, <1>6 DEF Recording!Freeze
<1> QED BY <1>1, <1>2, <1>3, <1>4, <1>5, <1>6, FactUndecided DEF Recording!Delete

\* The person and a role, with their evidence.
LEMMA FactBasisSteps ==
    ASSUME FactInv, bench = "basis", Recording!BasisSteps, bench' = bench
    PROVE  FactInv' /\ Recording!DecidedAsProposed
<1>1. RowsInv /\ PicsInv /\ BasisInv /\ OffersInv /\ PlanInv BY DEF FactInv
<1>2. ASSUME NEW f \in FactRows, NEW row, NEW S, Recording!Write(f, row, S),
             Recording!Live(f) \/ f = Me, FactKept, UNCHANGED <<src, plan, offer>>
      PROVE  FactInv' /\ Recording!DecidedAsProposed
  <2>1. \A g \in FactRows : Recording!Live(g)' => g = Me \/ Recording!Live(g)
    BY <1>1, <1>2, FactNoneNew
  <2> QED BY <1>2, <2>1, FactStep
<1>3. CASE Recording!PatchPerson("v2", "ACTIVE")
  <2>1. FactKept BY <1>1, <1>3, FactPerson, FactLiterals
  <2>2. /\ Recording!Write(Me, [Recording!Touched(fact[Me]) EXCEPT !.value = "v2",
                                                                    !.status = "ACTIVE"], {})
        /\ UNCHANGED <<src, plan, offer>>
    BY <1>3 DEF Recording!PatchPerson
  <2>3. PICK row : row = [Recording!Touched(fact[Me]) EXCEPT !.value = "v2", !.status = "ACTIVE"]
    OBVIOUS
  <2>4. Recording!Write(Me, row, {}) BY <2>2, <2>3
  <2> QED BY <2>1, <2>2, <2>4, <1>2, FactNamed
<1>4. CASE Recording!ApplyAiIdentity("v2", {s2})
  <2>1. /\ Recording!Write(Me, [Recording!Touched(fact[Me]) EXCEPT !.value = "v2"], {s2})
        /\ UNCHANGED <<src, items, offer, asset, plan>> /\ Recording!Usable(s2)
        /\ Recording!Live(Me)
    BY <1>4 DEF Recording!ApplyAiIdentity, Recording!MayEdit, Recording!PersonOpen
  <2>2. {s2} \in SUBSET Sources /\ \A s \in {s2} : Recording!Usable(s) BY <2>1, FactNamed
  <2>3. ValueFits(Me, "v2") BY FactLiterals
  <2>4. FactKept BY <1>1, <2>1, <2>2, <2>3, FactIdentity
  <2>5. PICK row : row = [Recording!Touched(fact[Me]) EXCEPT !.value = "v2"] OBVIOUS
  <2>6. Recording!Write(Me, row, {s2}) BY <2>1, <2>5
  <2> QED BY <2>1, <2>4, <2>6, <1>2, FactNamed
<1>5. ASSUME NEW f \in FactRows, NEW s \in Sources, Recording!AddEvidence(f, s)
      PROVE  FactInv' /\ Recording!DecidedAsProposed
  <2>1. FactKept BY <1>1, <1>5, FactEvidence
  <2>2. UNCHANGED <<src, offer, plan>> /\ fact' = [fact EXCEPT ![Me] = Recording!Touched(fact[Me])]
    BY <1>5 DEF Recording!AddEvidence
  <2>3. \A g \in FactRows : Recording!Live(g)' => g = Me \/ Recording!Live(g)
    BY <1>1, <2>2, FactNamed DEF RowsInv, RowsTyped, Recording!Live
  <2> QED BY <2>1, <2>2, <2>3, FactStep
<1>6. CASE Recording!Propose(o1, r1, s2, "early")
  BY <1>6, FactProposed, FactLiterals, FactNamed
<1>7. CASE Recording!Propose(o1, me, s2, "v2")
  <2>1. Recording!Propose(o1, Me, s2, "v2") BY <1>7, FactNamed
  <2> QED BY <2>1, FactProposed, FactLiterals, FactNamed
<1>8. ASSUME NEW accept \in BOOLEAN, Recording!Decide(o1, accept)
      PROVE  FactInv' /\ Recording!DecidedAsProposed
  BY <1>8, FactDecide, FactNamed
<1>9. CASE Recording!PatchFact(r1, "late", "ACTIVE")
  <2>1. ValueFits(r1, "late") /\ r1 \in FactRows BY FactLiterals, FactNamed
  <2>2. FactKept BY <1>1, <1>9, <2>1, FactPatch
  <2>3. PICK row, S : Recording!Write(r1, row, S) BY <1>9 DEF Recording!PatchFact
  <2>4. UNCHANGED <<src, offer, plan>> /\ Recording!Live(r1) BY <1>9 DEF Recording!PatchFact
  <2> QED BY <2>1, <2>2, <2>3, <2>4, <1>2
<1>10. ASSUME NEW status \in {"CONFIRMED", "SUSPENDED"}, Recording!ChangeSource(s2, status)
       PROVE  FactInv' /\ Recording!DecidedAsProposed
  <2>1. FactInv' BY <1>10, FactSource, FactNamed
  <2> QED BY <2>1, <1>10, FactUndecided DEF Recording!ChangeSource
<1>11. CASE Recording!Quarantine
  <2>1. FactInv' BY <1>11, FactQuarantine
  <2>2. ASSUME NEW i \in Offers, offer[i].state = "PENDING" PROVE offer'[i].state # "APPLIED"
    <3>1. offer'[i] = [offer[i] EXCEPT !.state = "STALE"] BY <1>11, <2>2 DEF Recording!Quarantine
    <3>2. offer[i] \in OfferRow BY <1>1 DEF OffersInv
    <3> QED BY <3>1, <3>2 DEF OfferRow
  <2> QED BY <2>1, <2>2, FactUndecided
<1>12. CASE Recording!Delete({s1, me})
  <2>1. {s1, me} \in SUBSET (Sources \cup Assets \cup {Me}) BY FactNamed
  <2> QED BY <1>12, <2>1, FactDelete
<1> QED
  BY <1>3, <1>4, <1>5, <1>6, <1>7, <1>8, <1>9, <1>10, <1>11, <1>12, FactNamed
  DEF Recording!BasisSteps

\* Where no deletion is of the source of the rows, any command of FactKept will do.
LEMMA FactElsewhere ==
    ASSUME FactInv, FactKept, bench # "basis", UNCHANGED <<src, plan, bench, offer>>
    PROVE  FactInv' /\ Recording!DecidedAsProposed
BY FactStep

\* The measurements.
LEMMA FactMeasureSteps ==
    ASSUME FactInv, bench = "measures", Recording!MeasureSteps, bench' = bench
    PROVE  FactInv' /\ Recording!DecidedAsProposed
<1>1. RowsInv /\ PicsInv /\ BasisInv BY DEF FactInv
<1>2. {m1, m2} \subseteq FactRows /\ {s1, s2} \subseteq Sources /\ s1 # s2
      /\ \A m \in {m1, m2} : KindOf[m] = "measurement"
  BY FactNamed
<1>3. ASSUME NEW m \in {m1, m2}, NEW s \in Sources, NEW v \in {"day1", "day2"},
             NEW prior \in FactRows \cup {None}, Recording!CreateFact(m, s, v, None, prior)
      PROVE  FactInv' /\ Recording!DecidedAsProposed
  <2>1. m \in FactRows /\ KindOf[m] = "measurement" /\ ValueFits(m, v)
    BY <1>2, FactLiterals
  <2>2. FactKept BY <1>1, <1>3, <2>1, FactCreate
  <2>3. UNCHANGED <<src, offer, plan>> BY <1>3 DEF Recording!CreateFact
  <2> QED BY <2>2, <2>3, FactElsewhere
<1>4. ASSUME NEW m \in {m1, m2}, Recording!Confirm(m)
      PROVE  FactInv' /\ Recording!DecidedAsProposed
  <2>1. FactKept BY <1>1, <1>2, <1>4, FactConfirmed
  <2>2. UNCHANGED <<src, offer, plan>> BY <1>4 DEF Recording!Confirm
  <2> QED BY <2>1, <2>2, FactElsewhere
<1>5. ASSUME NEW m \in {m1, m2}, Recording!PatchFact(m, "day2", "DRAFT")
      PROVE  FactInv' /\ Recording!DecidedAsProposed
  <2>1. m \in FactRows /\ ValueFits(m, "day2") BY <1>2, FactLiterals
  <2>2. FactKept BY <1>1, <1>5, <2>1, FactPatch
  <2>3. UNCHANGED <<src, offer, plan>> BY <1>5 DEF Recording!PatchFact
  <2> QED BY <2>2, <2>3, FactElsewhere
<1>6. CASE Recording!AddEvidence(m1, s1)
  <2>1. FactKept BY <1>1, <1>2, <1>6, FactEvidence
  <2>2. UNCHANGED <<src, offer, plan>> BY <1>6 DEF Recording!AddEvidence
  <2> QED BY <2>1, <2>2, FactElsewhere
<1>7. CASE Recording!Delete({s2})
  <2>1. {s2} \in SUBSET (Sources \cup Assets \cup {Me}) /\ s1 \notin {s2} BY <1>2
  <2> QED BY <1>7, <2>1, FactDelete
<1>8. None \in FactRows \cup {None} /\ m1 \in FactRows \cup {None} BY <1>2
<1> QED BY <1>2, <1>3, <1>4, <1>5, <1>6, <1>7, <1>8 DEF Recording!MeasureSteps

\* The pictures, and the proof of an adult.
LEMMA FactPictureSteps ==
    ASSUME FactInv, bench = "pictures", Recording!PictureSteps, bench' = bench
    PROVE  FactInv' /\ Recording!DecidedAsProposed
<1>1. RowsInv /\ PicsInv /\ BasisInv BY DEF FactInv
<1>2. /\ {ad, k1, k2, r1} \subseteq FactRows /\ {s1, s2} \subseteq Sources /\ s1 # s2
      /\ {ph1, ph2} \subseteq Assets /\ ph1 # ph2 /\ s1 \notin Assets /\ o1 \in Offers
      /\ MaxItems \in Nat /\ MaxItems >= 2
      /\ KindOf[ad] = "adult" /\ KindOf[k1] = "collection" /\ KindOf[k2] = "collection"
  BY FactNamed, FactApart
<1>3. ASSUME NEW s \in Sources, Recording!CreateFact(ad, s, "DECLARED", None, None)
      PROVE  FactInv' /\ Recording!DecidedAsProposed
  <2>1. ValueFits(ad, "DECLARED") BY FactLiterals
  <2>2. FactKept BY <1>1, <1>2, <1>3, <2>1, FactCreate
  <2>3. UNCHANGED <<src, offer, plan>> BY <1>3 DEF Recording!CreateFact
  <2> QED BY <2>2, <2>3, FactElsewhere
<1>4. ASSUME NEW x \in Assets, Recording!AdultVerify(ad, x)
      PROVE  FactInv' /\ Recording!DecidedAsProposed
  <2>1. FactKept BY <1>1, <1>2, <1>4, FactVerify
  <2>2. UNCHANGED <<src, offer, plan>> BY <1>4 DEF Recording!AdultVerify
  <2> QED BY <2>1, <2>2, FactElsewhere
<1>5. CASE Recording!CreateFact(k1, s1, None, r1, None)
  <2>1. ValueFits(k1, None) BY FactLiterals
  <2>2. FactKept BY <1>1, <1>2, <1>5, <2>1, FactCreate
  <2>3. UNCHANGED <<src, offer, plan>> BY <1>5 DEF Recording!CreateFact
  <2> QED BY <2>2, <2>3, FactElsewhere
<1>6. ASSUME NEW q \in Seq(Assets), Recording!Mutate(k1, q)
      PROVE  FactInv' /\ Recording!DecidedAsProposed
  <2>1. FactKept BY <1>1, <1>2, <1>6, FactMutate
  <2>2. UNCHANGED <<src, offer, plan>> BY <1>6 DEF Recording!Mutate
  <2> QED BY <2>1, <2>2, FactElsewhere
<1>7. ASSUME NEW x \in Assets, Recording!PatchFact(k1, x, "ACTIVE")
      PROVE  FactInv' /\ Recording!DecidedAsProposed
  <2>1. ValueFits(k1, x) BY FactLiterals
  <2>2. FactKept BY <1>1, <1>2, <1>7, <2>1, FactPatch
  <2>3. UNCHANGED <<src, offer, plan>> BY <1>7 DEF Recording!PatchFact
  <2> QED BY <2>2, <2>3, FactElsewhere
<1>8. ASSUME NEW x \in Assets, Recording!Propose(o1, k1, s1, x)
      PROVE  FactInv' /\ Recording!DecidedAsProposed
  <2>1. ValueFits(k1, x) BY FactLiterals
  <2> QED BY <1>2, <1>8, <2>1, FactProposed
<1>9. CASE Recording!Decide(o1, TRUE) BY <1>2, <1>9, FactDecide
<1>10. ASSUME NEW k \in {k1, k2}, Recording!SaveCollection(k, s2, <<ph2>>, ph2, TRUE)
       PROVE  FactInv' /\ Recording!DecidedAsProposed
  <2>1. PICK q : q = <<ph2>> OBVIOUS
  <2>2. q \in Seq(Assets) /\ Len(q) = 1 /\ q[1] = ph2 BY <1>2, <2>1
  <2>3. Recording!IsInjective(q) BY <2>2 DEF Recording!IsInjective
  <2>4. Recording!SaveCollection(k, s2, q, ph2, TRUE) BY <1>10, <2>1
  <2>5. Len(q) <= MaxItems BY <1>2, <2>2
  <2>6. k \in FactRows /\ s2 \in Sources /\ ph2 \in Assets \cup {None} /\ TRUE \in BOOLEAN BY <1>2
  <2>7. FactKept BY <1>1, <2>2, <2>3, <2>4, <2>5, <2>6, FactSave
  <2>8. UNCHANGED <<src, offer, plan>> BY <1>10 DEF Recording!SaveCollection
  <2> QED BY <2>7, <2>8, FactElsewhere
<1>11. CASE Recording!Delete({ph1, s2})
  <2>1. {ph1, s2} \in SUBSET (Sources \cup Assets \cup {Me}) /\ s1 \notin {ph1, s2} BY <1>2
  <2> QED BY <1>11, <2>1, FactDelete
<1>12. ASSUME NEW q \in {<<ph1>>, <<ph2>>, <<ph1, ph2>>, <<ph2, ph1>>, << >>}
       PROVE  q \in Seq(Assets)
  <2>1. CASE q = <<ph1>> BY <1>2, <2>1
  <2>2. CASE q = <<ph2>> BY <1>2, <2>2
  <2>3. CASE q = <<ph1, ph2>> BY <1>2, <2>3
  <2>4. CASE q = <<ph2, ph1>> BY <1>2, <2>4
  <2>5. CASE q = << >> BY <2>5
  <2> QED BY <2>1, <2>2, <2>3, <2>4, <2>5
<1> QED
  BY <1>3, <1>4, <1>5, <1>6, <1>7, <1>8, <1>9, <1>10, <1>11, <1>12 DEF Recording!PictureSteps

\* The periods.
LEMMA FactPeriodSteps ==
    ASSUME FactInv, bench = "periods", Recording!PeriodSteps, bench' = bench
    PROVE  FactInv' /\ Recording!DecidedAsProposed
<1>1. RowsInv /\ PicsInv /\ BasisInv BY DEF FactInv
<1>2. /\ {pr, r1, r2, cap} \subseteq FactRows /\ {s1, s2} \subseteq Sources /\ o1 \in Offers
      /\ KindOf[pr] = "profile" /\ KindOf[r1] = "role" /\ KindOf[r2] = "role"
      /\ KindOf[cap] = "capability"
  BY FactNamed
<1>3. CASE Recording!Enroll(pr, r1)
  <2>1. FactKept BY <1>1, <1>2, <1>3, FactEnrolled
  <2>2. UNCHANGED <<src, offer, plan>> BY <1>3 DEF Recording!Enroll
  <2> QED BY <2>1, <2>2, FactElsewhere
<1>4. ASSUME NEW status \in {"ACTIVE", "ARCHIVED"}, Recording!PatchPerson("v1", status)
      PROVE  FactInv' /\ Recording!DecidedAsProposed
  <2>1. ValueFits(Me, "v1") BY FactLiterals
  <2>2. FactKept BY <1>1, <1>4, <2>1, FactPerson
  <2>3. UNCHANGED <<src, offer, plan>> BY <1>4 DEF Recording!PatchPerson
  <2> QED BY <2>2, <2>3, FactElsewhere
<1>5. ASSUME NEW s \in Sources, NEW v \in {"early", "late"},
             Recording!CreateFact(r2, s, v, None, None)
      PROVE  FactInv' /\ Recording!DecidedAsProposed
  <2>1. ValueFits(r2, v) BY FactLiterals
  <2>2. FactKept BY <1>1, <1>2, <1>5, <2>1, FactCreate
  <2>3. UNCHANGED <<src, offer, plan>> BY <1>5 DEF Recording!CreateFact
  <2> QED BY <2>2, <2>3, FactElsewhere
<1>6. CASE Recording!CreateFact(cap, s1, "v1", r1, None)
  <2>1. ValueFits(cap, "v1") BY FactLiterals
  <2>2. FactKept BY <1>1, <1>2, <1>6, <2>1, FactCreate
  <2>3. UNCHANGED <<src, offer, plan>> BY <1>6 DEF Recording!CreateFact
  <2> QED BY <2>2, <2>3, FactElsewhere
<1>7. ASSUME NEW f \in FactRows, NEW v, ValueFits(f, v), NEW st, Recording!PatchFact(f, v, st)
      PROVE  FactInv' /\ Recording!DecidedAsProposed
  <2>1. FactKept BY <1>1, <1>7, FactPatch
  <2>2. UNCHANGED <<src, offer, plan>> BY <1>7 DEF Recording!PatchFact
  <2> QED BY <2>1, <2>2, FactElsewhere
<1>8. ASSUME NEW f \in {r1, r2}, NEW v \in {"early", "late", "always"}
      PROVE  /\ Recording!PatchFact(f, v, fact[f].status) =>
                    FactInv' /\ Recording!DecidedAsProposed
             /\ \A status \in {"ACTIVE", "ARCHIVED"} :
                    Recording!PatchFact(f, fact[f].value, status) =>
                        FactInv' /\ Recording!DecidedAsProposed
             /\ Recording!Propose(o1, f, s2, v) => FactInv' /\ Recording!DecidedAsProposed
  <2>1. f \in FactRows /\ ValueFits(f, v) /\ ValueFits(f, fact[f].value)
    BY <1>1, <1>2, FactLiterals DEF RowsInv, RowsTyped
  <2>2. Recording!PatchFact(f, v, fact[f].status) => FactInv' /\ Recording!DecidedAsProposed
    BY <2>1, <1>7
  <2>3. ASSUME NEW status \in {"ACTIVE", "ARCHIVED"},
               Recording!PatchFact(f, fact[f].value, status)
        PROVE  FactInv' /\ Recording!DecidedAsProposed
    BY <2>1, <2>3, <1>7
  <2>4. Recording!Propose(o1, f, s2, v) => FactInv' /\ Recording!DecidedAsProposed
    BY <1>2, <2>1, FactProposed
  <2> QED BY <2>2, <2>3, <2>4
<1>9. CASE Recording!Decide(o1, TRUE) BY <1>2, <1>9, FactDecide
<1> QED BY <1>3, <1>4, <1>5, <1>6, <1>8, <1>9 DEF Recording!PeriodSteps

\* Every step keeps the records in order and applies what was proposed.
LEMMA FactStepKeeps ==
    ASSUME FactInv, Recording!FactsNext \/ UNCHANGED factsVars
    PROVE  FactInv' /\ Recording!DecidedAsProposed
<1>1. CASE Recording!FactsNext
  BY <1>1, FactBasisSteps, FactMeasureSteps, FactPictureSteps, FactPeriodSteps
  DEF Recording!FactsNext
<1>2. CASE UNCHANGED factsVars
  <2>1. /\ src' = src /\ fact' = fact /\ items' = items /\ evid' = evid /\ offer' = offer
        /\ asset' = asset /\ plan' = plan /\ spoken' = spoken /\ bench' = bench
    BY <1>2 DEF factsVars
  <2>2. FactKept BY <2>1, FactStill DEF FactInv
  <2>3. \A f \in FactRows : Recording!Live(f)' => f = Me \/ Recording!Live(f)
    BY <2>1 DEF Recording!Live
  <2> QED BY <2>1, <2>2, <2>3, FactStep
<1> QED BY <1>1, <1>2

-------------------------------------------------------------------------------
(* Facts: the first states *)

LEMMA FactWith ==
    ASSUME NEW F \in SUBSET {pr, r1, cas}, F = {} \/ pr \in F, NEW n \in 0..5,
           fact = Recording!With(F, n)
    PROVE  /\ RowsInv
           /\ \A f \in FactRows : Recording!Live(f) =>
                 fact[f].source = s1 /\ KindOf[f] \notin {"adult", "collection"}
<1> DEFINE At(v) == [source |-> s1, value |-> v, status |-> "ACTIVE", rev |-> 1,
                     up |-> None, prior |-> None, proof |-> None, now |-> FALSE]
           Own == [source |-> s1, value |-> "v1", status |-> "ACTIVE", rev |-> 6 - n,
                   up |-> None, prior |-> None, proof |-> None, now |-> FALSE]
           Void == [source |-> None, value |-> None, status |-> "ABSENT", rev |-> 0,
                    up |-> None, prior |-> None, proof |-> None, now |-> FALSE]
<1>1. Recording!Absent = Void BY DEF Recording!Absent
<1>2. ASSUME NEW v PROVE Recording!At(s1, v) = At(v)
  <2>1. PICK y : y = Recording!At(s1, v) OBVIOUS
  <2>2. y = [Recording!Absent EXCEPT !.source = s1, !.value = v, !.status = "ACTIVE", !.rev = 1]
    BY ONLY <2>1 DEF Recording!At
  <2>3. y = [source |-> s1, value |-> v, status |-> "ACTIVE", rev |-> 1,
             up |-> None, prior |-> None, proof |-> None, now |-> FALSE]
    BY ONLY <2>2 DEF Recording!Absent
  <2> QED BY ONLY <2>1, <2>3
<1>3. [Recording!At(s1, "v1") EXCEPT !.rev = 6 - n] = Own
  <2>1. PICK i : i = 6 - n OBVIOUS
  <2>2. PICK y : y = At("v1") OBVIOUS
  <2>3. PICK z : z = [y EXCEPT !.rev = i] OBVIOUS
  <2>4. z = [source |-> s1, value |-> "v1", status |-> "ACTIVE", rev |-> i,
             up |-> None, prior |-> None, proof |-> None, now |-> FALSE]
    BY ONLY <2>2, <2>3
  <2>5. Own = z BY ONLY <2>1, <2>4
  <2> HIDE DEF At, Own
  <2> QED BY <1>2, <2>1, <2>2, <2>3, <2>5
<1> HIDE DEF At, Own, Void
<1>4. /\ DOMAIN fact = FactRows
      /\ \A f \in FactRows : fact[f] =
            IF f = Me THEN Own
            ELSE IF f \in F THEN At(IF KindOf[f] = "role" THEN "always" ELSE "v1") ELSE Void
  BY <1>1, <1>2, <1>3, FactNamed DEF Recording!With
<1>5. /\ Own \in Recording!FactRow /\ Void \in Recording!FactRow
      /\ \A v \in {"always", "v1"} : At(v) \in Recording!FactRow
  BY FactNamed DEF Own, Void, At, Recording!FactRow, Recording!Statuses
<1>6. /\ Own.source = s1 /\ Own.value = "v1" /\ Own.status = "ACTIVE" /\ Own.prior = None
      /\ Own.up = None /\ Void.status = "ABSENT" /\ Void.value = None
      /\ \A v : /\ At(v).source = s1 /\ At(v).value = v /\ At(v).status = "ACTIVE"
                /\ At(v).prior = None /\ At(v).up = None
  BY DEF Own, Void, At
<1>7. /\ {pr, r1, cas} \subseteq FactRows /\ Me \in FactRows /\ Me \notin {pr, r1, cas}
      /\ KindOf[Me] = "person" /\ KindOf[pr] = "profile" /\ KindOf[r1] = "role"
      /\ KindOf[cas] = "casting"
  BY FactNamed
<1>8. \A f \in FactRows : Recording!Live(f) <=> f = Me \/ f \in F
  BY <1>4, <1>6, <1>7 DEF Recording!Live
<1>9. \A f \in FactRows : Recording!Live(f) =>
          /\ fact[f].source = s1 /\ fact[f].up = None /\ fact[f].prior = None
          /\ fact[f].status = "ACTIVE" /\ f \in {Me, pr, r1, cas}
  BY <1>4, <1>6, <1>7, <1>8
<1>10. RowsTyped
  <2>1. ASSUME NEW f \in FactRows
        PROVE  fact[f] \in Recording!FactRow /\ ValueFits(f, fact[f].value)
    <3>1. CASE f = Me BY <3>1, <1>4, <1>5, <1>6, FactLiterals
    <3>2. CASE f \in F
      <4>1. fact[f] = At(IF KindOf[f] = "role" THEN "always" ELSE "v1")
        BY <3>2, <1>4, <1>7
      <4> QED BY <3>2, <4>1, <1>5, <1>6, <1>7 DEF ValueFits, Recording!Values
    <3>3. CASE f # Me /\ f \notin F BY <3>3, <1>4, <1>5, <1>6 DEF ValueFits
    <3> QED BY <3>1, <3>2, <3>3
  <2> QED BY <2>1, <1>4 DEF RowsTyped
<1>11. RowStates
  <2>1. fact[Me].status = "ACTIVE" /\ fact[Me].source = s1 BY <1>4, <1>6, <1>7
  <2>2. ASSUME NEW f \in FactRows, f # Me
        PROVE  /\ fact[f].status = "ABSENT" => fact[f] = Recording!Absent
               /\ fact[f].status # "ABSENT" => fact[f].status \in
                     IF KindOf[f] = "measurement" THEN {"DRAFT", "CONFIRMED", "SUPERSEDED"}
                                                  ELSE {"ACTIVE", "ARCHIVED"}
    <3>1. CASE f \in F BY <3>1, <1>4, <1>6, <1>7
    <3>2. CASE f \notin F BY <2>2, <3>2, <1>1, <1>4, <1>6
    <3> QED BY <3>1, <3>2
  <2>3. \A f, g \in Recording!LiveOf("casting") : f = g BY <1>7, <1>9 DEF Recording!LiveOf
  <2> QED BY <2>1, <2>2, <2>3 DEF RowStates
<1>12. RowRefs
  <2>1. fact[Me].status # "ERASED" BY <1>4, <1>6, <1>7
  <2>2. F # {} => pr \in Recording!LiveOf("profile") BY <1>7, <1>8 DEF Recording!LiveOf
  <2> QED BY <2>1, <2>2, <1>8, <1>9 DEF RowRefs
<1>13. PriorsConfirmed BY <1>9 DEF PriorsConfirmed, Recording!LiveOf
<1>14. Recording!CurrentIsConfirmed BY <1>9 DEF Recording!CurrentIsConfirmed, Recording!LiveOf
<1>15. Recording!PeriodsHold
  <2>1. \A f \in Recording!LiveOf("role") : f = r1 BY <1>7, <1>9 DEF Recording!LiveOf
  <2> QED BY <2>1 DEF Recording!PeriodsHold
<1>16. \A f \in FactRows : Recording!Live(f) => KindOf[f] \notin {"adult", "collection"}
  BY <1>7, <1>9
<1> QED BY <1>9, <1>10, <1>11, <1>12, <1>13, <1>14, <1>15, <1>16 DEF RowsInv

LEMMA FactStarts == Recording!FactsInit => FactInv
<1> SUFFICES ASSUME Recording!FactsInit PROVE FactInv OBVIOUS
<1>1. /\ items = [f \in FactRows |-> << >>] /\ evid = {} /\ spoken = {}
      /\ plan = Recording!NoPlan /\ offer = [i \in Offers |-> Recording!NoOffer]
      /\ asset = [x \in Assets |-> "READY"] /\ src = Recording!Turns(1)
      /\ bench \in {"basis", "measures", "pictures", "periods"}
  BY DEF Recording!FactsInit
<1>2. /\ RowsInv
      /\ \A f \in FactRows : Recording!Live(f) =>
            fact[f].source = s1 /\ KindOf[f] \notin {"adult", "collection"}
  <2>1. CASE fact = Recording!With({pr, r1}, 2)
    <3>1. PICK F : F = {pr, r1} OBVIOUS
    <3>2. PICK n : n = 2 OBVIOUS
    <3>3. fact = Recording!With(F, n) /\ F \in SUBSET {pr, r1, cas} /\ pr \in F /\ n \in 0..5
      BY <2>1, <3>1, <3>2
    <3> QED BY <3>3, FactWith
  <2>2. CASE fact = Recording!With({pr, r1, cas}, 5)
    <3>1. PICK F : F = {pr, r1, cas} OBVIOUS
    <3>2. PICK n : n = 5 OBVIOUS
    <3>3. fact = Recording!With(F, n) /\ F \in SUBSET {pr, r1, cas} /\ pr \in F /\ n \in 0..5
      BY <2>2, <3>1, <3>2
    <3> QED BY <3>3, FactWith
  <2>3. CASE fact = Recording!With({pr, r1}, 3)
    <3>1. PICK F : F = {pr, r1} OBVIOUS
    <3>2. PICK n : n = 3 OBVIOUS
    <3>3. fact = Recording!With(F, n) /\ F \in SUBSET {pr, r1, cas} /\ pr \in F /\ n \in 0..5
      BY <2>3, <3>1, <3>2
    <3> QED BY <3>3, FactWith
  <2>4. CASE fact = Recording!With({}, 4)
    <3>1. PICK F : F = {} OBVIOUS
    <3>2. PICK n : n = 4 OBVIOUS
    <3>3. fact = Recording!With(F, n) /\ F \in SUBSET {pr, r1, cas} /\ F = {} /\ n \in 0..5
      BY <2>4, <3>1, <3>2
    <3> QED BY <3>3, FactWith
  <2> QED BY <2>1, <2>2, <2>3, <2>4 DEF Recording!FactsInit
<1>3. PicsInv
  <2>1. PICK e : e = << >> OBVIOUS
  <2>2. e \in Seq(Assets) /\ Len(e) = 0 BY <2>1
  <2>3. \A x : x \notin DOMAIN e BY <2>2
  <2>4. Recording!IsInjective(e) BY <2>3 DEF Recording!IsInjective
  <2>5. DOMAIN items = FactRows /\ \A f \in FactRows : items[f] = e BY <1>1, <2>1
  <2>6. Recording!PicturesHold
    BY <1>2 DEF Recording!PicturesHold, Recording!LiveOf
  <2>7. MaxItems \in Nat BY FactNamed
  <2> QED BY <1>1, <2>2, <2>4, <2>5, <2>6, <2>7 DEF PicsInv
<1>4. src = [s \in Sources |-> [status |-> "CONFIRMED", rev |-> 5]]
  BY <1>1 DEF Recording!Turns
<1>5. \A s \in Sources : src[s].status # "ERASED" BY <1>4
<1>6. BasisInv BY <1>1, <1>2, <1>5, FactNamed DEF BasisInv, Recording!NoFallback
<1>7. OffersInv
  <2>1. /\ Recording!NoOffer \in OfferRow /\ Recording!NoOffer.state = "NONE"
        /\ Recording!NoOffer.source = None
    BY DEF Recording!NoOffer, OfferRow, FactValues
  <2>2. DOMAIN offer = Offers /\ \A i \in Offers : offer[i] = Recording!NoOffer BY <1>1
  <2> QED BY <2>1, <2>2, <1>5 DEF OffersInv
<1>8. PlanInv
  <2>1. plan.stage = "NONE"
        /\ plan = [path |-> plan.path, target |-> plan.target, trev |-> plan.trev,
                   stage |-> plan.stage, graph |-> plan.graph, keep |-> plan.keep]
    BY <1>1 DEF Recording!NoPlan
  <2>2. src \in [Sources -> [status : {"TEMP", "CONFIRMED", "SUSPENDED", "ERASED"}, rev : 1..6]]
    BY <1>4
  <2> QED BY <1>1, <2>1, <2>2 DEF PlanInv
<1> QED BY <1>2, <1>3, <1>6, <1>7, <1>8 DEF FactInv

\* The invariant says what is promised of the records.
LEMMA FactsAreSound == FactInv => Recording!FactsOK
<1> SUFFICES ASSUME FactInv PROVE Recording!FactsOK OBVIOUS
<1>1. RowsInv /\ PicsInv /\ BasisInv /\ OffersInv /\ PlanInv BY DEF FactInv
<1>2. Recording!TypeOK
  <2>1. \A f \in FactRows : fact[f] \in Recording!FactRow
                            /\ fact[f].value \in Recording!Values(KindOf[f]) \cup {None}
    BY <1>1 DEF RowsInv, RowsTyped, ValueFits
  <2>2. \A f \in FactRows : items[f] \in Seq(Assets) /\ Len(items[f]) <= MaxItems
    BY <1>1 DEF PicsInv
  <2>3. \A e \in evid : e.fact \in FactRows /\ e.source \in Sources BY <1>1 DEF BasisInv
  <2>4. spoken \subseteq FactRows /\ DOMAIN offer = Offers BY <1>1 DEF BasisInv, OffersInv
  <2>5. asset \in [Assets -> {"READY", "ERASED"}] BY <1>1 DEF PicsInv
  <2>6. /\ src \in [Sources -> [status : {"TEMP", "CONFIRMED", "SUSPENDED", "ERASED"}, rev : 1..6]]
        /\ plan.stage \in {"NONE", "DRAFT", "BLOCKED", "FROZEN", "CLEANED"}
    BY <1>1 DEF PlanInv
  <2> QED BY <2>1, <2>2, <2>3, <2>4, <2>5, <2>6 DEF Recording!TypeOK
<1>3. Recording!RefsHold
  <2>1. \A f \in FactRows : Recording!Live(f) /\ f # Me =>
           /\ fact[Me].status # "ERASED"
           /\ \A p \in {fact[f].up, fact[f].prior} \ {None} : Recording!Live(p)
           /\ KindOf[f] \in {"role", "capability"} => Recording!LiveOf("profile") # {}
    BY <1>1 DEF RowsInv, RowRefs
  <2>2. \A e \in evid : fact[e.fact].status # "ABSENT" BY <1>1 DEF BasisInv
  <2>3. \A i \in Recording!OffersIn(FactRows) : fact[offer[i].fact].status # "ABSENT"
    BY <1>1 DEF OffersInv, Recording!OffersIn
  <2> QED BY <2>1, <2>2, <2>3 DEF Recording!RefsHold
<1>4. Recording!NoFallback /\ Recording!ErasedIsGone
  BY <1>1 DEF BasisInv, OffersInv, Recording!ErasedIsGone
<1>5. Recording!CurrentIsConfirmed /\ Recording!PeriodsHold /\ Recording!PicturesHold
  BY <1>1 DEF RowsInv, PicsInv
<1> QED BY <1>2, <1>3, <1>4, <1>5 DEF Recording!FactsOK

-------------------------------------------------------------------------------
(* The records in a behaviour *)

\* the invariant, of the behaviours of that part
RecordingInv == part = "recording" => FactInv

LEMMA RecordingStarts == Init => RecordingInv
BY FactStarts DEF Init, RecordingInv

\* The steps of the other parts leave the records alone.
LEMMA RecordingSteps ==
    ASSUME [Next]_vars
    PROVE  /\ part' = part
           /\ part = "recording" => Recording!FactsNext \/ UNCHANGED factsVars
<1>1. CASE UNCHANGED vars BY <1>1 DEF vars
<1>2. CASE MergingStep BY <1>2 DEF MergingStep
<1>3. CASE MakingStep BY <1>3 DEF MakingStep
<1>4. CASE RecordingStep BY <1>4 DEF RecordingStep
<1>5. CASE JoiningStep BY <1>5 DEF JoiningStep
<1>6. CASE MovingStep BY <1>6 DEF MovingStep
<1>7. CASE RestoringStep BY <1>7 DEF RestoringStep
<1> QED BY <1>1, <1>2, <1>3, <1>4, <1>5, <1>6, <1>7 DEF Next

LEMMA RecordingStays ==
    ASSUME RecordingInv, [Next]_vars
    PROVE  RecordingInv' /\ (part = "recording" => Recording!DecidedAsProposed)
<1>1. part' = part BY RecordingSteps
<1>2. CASE part = "recording"
  <2>1. FactInv BY <1>2 DEF RecordingInv
  <2>2. Recording!FactsNext \/ UNCHANGED factsVars BY <1>2, RecordingSteps
  <2>3. FactInv' /\ Recording!DecidedAsProposed BY <2>1, <2>2, FactStepKeeps
  <2> QED BY <2>3 DEF RecordingInv
<1>3. CASE part # "recording" BY <1>1, <1>3 DEF RecordingInv
<1> QED BY <1>2, <1>3

-------------------------------------------------------------------------------
(* Theorems *)

\* Records: the invariant holds in every behaviour of that part.
THEOREM FactInvariant == Spec => []RecordingInv
<1>1. Init => RecordingInv BY RecordingStarts
<1>2. RecordingInv /\ [Next]_vars => RecordingInv' BY RecordingStays
<1> QED BY <1>1, <1>2, PTL DEF Spec

\* However records are written, proposed, verified and deleted, source by source, picture by
\* picture or with their person: no field falls back to its origin, every reference leads to a
\* row that is there, what is shown is confirmed and its pictures exist, periods do not overlap,
\* and an erased source is gone (talent-v2-integrity.ts, talent-source-erasure.ts).
THEOREM RecordsHold == Spec => []FactsOK
<1>1. RecordingInv => FactsOK BY FactsAreSound DEF RecordingInv, FactsOK
<1> QED BY <1>1, FactInvariant, PTL

\* A proposal is applied to the very value its author saw, from a source still in use, and the
\* field then has the proposed value (talent-v2.ts decide).
THEOREM ProposalsApplyAsSeen == Spec => AppliedAsProposed
<1>1. RecordingInv /\ [Next]_vars => [part = "recording" => Recording!DecidedAsProposed]_vars
  BY RecordingStays
<1> QED BY <1>1, FactInvariant, PTL DEF Spec, AppliedAsProposed
===============================================================================
