------------------------------ MODULE MCFacts ------------------------------
(***************************************************************************)
(* The rows of Facts in four small groups: the person and a role with their  *)
(* evidence, the measurements, the pictures and the proof, the periods.      *)
(***************************************************************************)
EXTENDS Facts

VARIABLE bench   \* the group that is worked on

CONSTANTS s1, s2, ph1, ph2, me, pr, r1, r2, cap, cas, m1, m2, ad, k1, k2, o1

\* the rows and their kinds
FactNames ==
    /\ {me, pr, r1, r2, cap, cas, m1, m2, ad, k1, k2} \subseteq Facts /\ me = Me
    /\ KindOf[pr] = "profile" /\ KindOf[r1] = "role" /\ KindOf[r2] = "role"
    /\ KindOf[cap] = "capability" /\ KindOf[cas] = "casting" /\ KindOf[ad] = "adult"
    /\ KindOf[m1] = "measurement" /\ KindOf[m2] = "measurement"
    /\ KindOf[k1] = "collection" /\ KindOf[k2] = "collection"
    /\ {s1, s2} \subseteq Sources /\ s1 # s2 /\ {ph1, ph2} \subseteq Assets /\ ph1 # ph2
    /\ o1 \in Offers /\ MaxItems >= 2 /\ MaxRev > 5

benchVars == <<factVars, bench>>

At(s, v) == [Absent EXCEPT !.source = s, !.value = v, !.status = "ACTIVE", !.rev = 1]
\* a person that n more commands may change, and rows F, made from s1 without evidence
With(F, n) ==
    [f \in Facts |->
        IF f = me THEN [At(s1, "v1") EXCEPT !.rev = MaxRev - n]
        ELSE IF f \in F THEN At(s1, IF KindOf[f] = "role" THEN "always" ELSE "v1")
        ELSE Absent]
\* confirmed sources that may change n times
Turns(n) == [s \in Sources |-> [status |-> "CONFIRMED", rev |-> MaxRev - n]]

FactsInit ==
    /\ items = [f \in Facts |-> << >>] /\ evid = {} /\ spoken = {} /\ plan = NoPlan
    /\ offer = [i \in Offers |-> NoOffer] /\ asset = [x \in Assets |-> "READY"]
    /\ \/ bench = "basis" /\ src = Turns(1) /\ fact = With({pr, r1}, 2)
       \/ bench = "measures" /\ src = Turns(1) /\ fact = With({pr, r1, cas}, 5)
       \/ bench = "pictures" /\ src = Turns(1) /\ fact = With({pr, r1}, 3)
       \/ bench = "periods" /\ src = Turns(1) /\ fact = With({}, 4)

\* what other evidence supports may be kept
Keepable == IF plan.stage # "BLOCKED" \/ plan.path # "FACTS" THEN {}
            ELSE {f \in Facts : Live(f) /\ \E s \in Sources : Supported(f, s)}
Delete(T) ==
    \/ \E t \in T : Assess(t)
    \/ Block \/ Execute \/ ErasePerson \/ Finish
    \/ \E K \in SUBSET Keepable : \E keep \in [K -> Sources] : Freeze(keep)

BasisSteps ==
    \/ PatchPerson("v2", "ACTIVE") \/ ApplyAiIdentity("v2", {s2})
    \/ \E s \in Sources : AddEvidence(me, s)
    \/ AddEvidence(r1, s2)
    \/ Propose(o1, r1, s2, "early") \/ Propose(o1, me, s2, "v2")
    \/ \E accept \in BOOLEAN : Decide(o1, accept)
    \/ PatchFact(r1, "late", "ACTIVE")
    \/ \E status \in {"CONFIRMED", "SUSPENDED"} : ChangeSource(s2, status)
    \/ Quarantine
    \/ Delete({s1, me})

MeasureSteps ==
    \/ \E v \in {"day1", "day2"}, s \in Sources :
           CreateFact(m1, s2, v, None, None) \/ CreateFact(m2, s, v, None, m1)
    \/ \E m \in {m1, m2} : Confirm(m) \/ PatchFact(m, "day2", "DRAFT")
    \/ AddEvidence(m1, s1)
    \/ Delete({s2})

PictureSteps ==
    \/ \E s \in Sources : CreateFact(ad, s, "DECLARED", None, None)
    \/ \E x \in Assets : AdultVerify(ad, x)
    \/ CreateFact(k1, s1, None, r1, None)
    \/ \E q \in {<<ph1>>, <<ph2>>, <<ph1, ph2>>, <<ph2, ph1>>, << >>} : Mutate(k1, q)
    \/ \E x \in Assets : PatchFact(k1, x, "ACTIVE") \/ Propose(o1, k1, s1, x)
    \/ Decide(o1, TRUE)
    \/ \E k \in {k1, k2} : SaveCollection(k, s2, <<ph2>>, ph2, TRUE)
    \/ Delete({ph1, s2})

PeriodSteps ==
    \/ Enroll(pr, r1) \/ PatchPerson("v1", "ARCHIVED") \/ PatchPerson("v1", "ACTIVE")
    \/ \E s \in Sources : \E v \in {"early", "late"} : CreateFact(r2, s, v, None, None)
    \/ CreateFact(cap, s1, "v1", r1, None)
    \/ \E f \in {r1, r2}, v \in {"early", "late", "always"} :
           \/ PatchFact(f, v, fact[f].status)
           \/ \E status \in {"ACTIVE", "ARCHIVED"} : PatchFact(f, fact[f].value, status)
           \/ Propose(o1, f, s2, v)
    \/ Decide(o1, TRUE)

FactsNext ==
    /\ bench' = bench
    /\ \/ bench = "basis" /\ BasisSteps
       \/ bench = "measures" /\ MeasureSteps
       \/ bench = "pictures" /\ PictureSteps
       \/ bench = "periods" /\ PeriodSteps

\* What holds of the records in every state (Facts): no field falls back to its origin, every
\* reference holds, the measurements, the periods and the pictures are in order, and an erased
\* source is gone (talent-v2-integrity.ts).
FactsOK ==
    /\ TypeOK /\ NoFallback /\ RefsHold /\ CurrentIsConfirmed
    /\ PeriodsHold /\ PicturesHold /\ ErasedIsGone

FactsSpec == FactsInit /\ [][FactsNext]_benchVars
=============================================================================
