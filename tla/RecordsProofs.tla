----------------------------- MODULE RecordsProofs -----------------------------
(***************************************************************************)
(* Proofs about the commands on sources, people, evidence, handoffs and     *)
(* source reviews (Records), for the starting rows of MCRecords and every   *)
(* value of its constants.                                                  *)
(*                                                                         *)
(* The argument: a revision tells the value of a person or the text of a    *)
(* source, an epoch the fields that protect the row, and neither ever goes  *)
(* back (Advance). So whoever remembers a revision, on a form, in a grant   *)
(* or in evidence, and finds it again, finds what it was made on (Seen,     *)
(* Grounded), and a ground once lost stays lost (CurrentBefore).            *)
(***************************************************************************)
EXTENDS MCRecords, TLAPS

\* the rows of histories and grants
Versions == [text: Values, scope: Scopes, status: {"RECEIVED", "CONFIRMED", "SUSPENDED"}]

Grounds == [personRev: Nat, personEpoch: Nat, personScope: Scopes,
            sourceRev: Nat, sourceEpoch: Nat, sourceScope: Scopes,
            members: UNION {[ms -> Nat] : ms \in SUBSET Members}]

HandoffRows == [person: People, source: Sources, sender: Members, recipient: Members,
                purpose: {"EDIT", "REVIEW"}, until: Nat, at: Grounds,
                state: {"PENDING", "ACCEPTED", "REVOKED", "DECLINED"}, value: Values, text: Values]

ReviewStates == {"PENDING", "ACCEPTED", "REVIEWED", "PUBLISHED", "REVOKED", "DECLINED"}
ReviewRows == [person: People, source: Sources, sender: Members, reviewer: Members,
               publisher: Members, target: Scopes, until: Nat, state: ReviewStates,
               at: Grounds, value: Values, text: Values]

-------------------------------------------------------------------------------
(* The invariant, by what it is about *)

\* Sources, whose histories are whole and whose scopes somebody is in
SourcesSound ==
    /\ DOMAIN source \subseteq Sources /\ DOMAIN history = DOMAIN source
    /\ \A s \in DOMAIN source :
         /\ source[s] \in SourceRows /\ scope[source[s].scope] # {}
         /\ history[s] \in Seq(Versions)
         /\ Len(history[s]) = source[s].rev
         /\ history[s][Len(history[s])] = Version(source[s])

\* People, described from a source that is there
PeopleSound ==
    /\ DOMAIN person \subseteq People /\ DOMAIN contacts = DOMAIN person
    /\ \A p \in DOMAIN person :
         /\ person[p] \in PersonRows /\ contacts[p] \subseteq DOMAIN source
         /\ person[p].source \in DOMAIN source /\ scope[person[p].scope] # {}

OthersSound ==
    /\ now \in 0..MaxTime /\ requests \in 0..MaxRequests
    /\ member \in [Members -> Memberships]
    /\ scope \in [Scopes -> SUBSET Members]
    /\ merged \subseteq People /\ blocked \subseteq People \cup Sources

RowsSound == SourcesSound /\ PeopleSound /\ OthersSound

\* What somebody saw of a person and a source: as long as their revisions are the same, so
\* are the value and the text.
Seen(p, rev, value, s, srev, text) ==
    /\ p \in DOMAIN person /\ s \in DOMAIN source
    /\ rev <= person[p].rev /\ (rev = person[p].rev => value = person[p].value)
    /\ srev <= source[s].rev /\ (srev = source[s].rev => text = source[s].text)

\* A grant stands on rows as they were at some time.
Grounded(g) ==
    /\ Seen(g.person, g.at.personRev, g.value, g.source, g.at.sourceRev, g.text)
    /\ person[g.person].source = g.source
    /\ g.at.personEpoch <= person[g.person].epoch /\ g.at.sourceEpoch <= source[g.source].epoch
    /\ \A x \in DOMAIN g.at.members : g.at.members[x] <= member[x].rev

HandoffsSound ==
    /\ DOMAIN handoff \subseteq Grants
    /\ \A h \in DOMAIN handoff :
         /\ handoff[h] \in HandoffRows /\ Grounded(handoff[h])
         /\ {handoff[h].sender, handoff[h].recipient} = DOMAIN handoff[h].at.members

\* No two reviews of a person are open.
ReviewsSound ==
    /\ DOMAIN review \subseteq Reviews
    /\ \A g \in DOMAIN review : review[g] \in ReviewRows /\ Grounded(review[g])
    /\ \A g, h \in DOMAIN review :
         /\ Live(review[g]) /\ now < review[g].until
         /\ Live(review[h]) /\ now < review[h].until
         /\ review[g].person = review[h].person
         => g = h

\* Evidence is for the value its reviewer saw, and for the text while the revision stays.
FactSound(e) ==
    /\ e.person \in DOMAIN person /\ e.source \in DOMAIN source
    /\ e.value = e.sawValue
    /\ e.srev <= source[e.source].rev
    /\ e.srev = source[e.source].rev => e.sawText = source[e.source].text

EvidenceSound == evidence \subseteq FieldEvidence /\ \A e \in evidence : FactSound(e)

FormSound ==
    form # NoForm =>
        /\ form \in [by: Members, person: People, rev: Nat, value: Values,
                     source: Sources, srev: Nat, text: Values]
        /\ Seen(form.person, form.rev, form.value, form.source, form.srev, form.text)

\* No two current handoffs are the same.
OneHandoffEach ==
    \A g, h \in DOMAIN handoff :
       /\ HandoffCurrent(handoff[g]) /\ HandoffCurrent(handoff[h])
       /\ handoff[g].person = handoff[h].person
       /\ handoff[g].recipient = handoff[h].recipient
       /\ handoff[g].purpose = handoff[h].purpose
       => g = h

RecordsInv ==
    RowsSound /\ HandoffsSound /\ ReviewsSound /\ EvidenceSound /\ FormSound /\ OneHandoffEach

-------------------------------------------------------------------------------
(* What every step does to the rows *)

\* The revision tells a text or a value, the epoch what protects it.
LaterSource(a, b) ==
    /\ a.rev <= b.rev /\ (a.rev = b.rev => b.text = a.text)
    /\ a.epoch <= b.epoch
    /\ a.epoch = b.epoch =>
          /\ b.scope = a.scope /\ b.status = a.status /\ b.temp = a.temp
          /\ b.until = a.until /\ b.use = a.use
    /\ b.owner = a.owner /\ b.self = a.self

LaterPerson(a, b) ==
    /\ a.rev <= b.rev /\ (a.rev = b.rev => b.value = a.value)
    /\ a.epoch <= b.epoch /\ (a.epoch = b.epoch => b.scope = a.scope /\ b.status = a.status)
    /\ b.source = a.source /\ b.owner = a.owner

SourcesAdvance ==
    \A s \in DOMAIN source : s \in DOMAIN source' /\ LaterSource(source[s], source'[s])

PeopleAdvance ==
    \A p \in DOMAIN person : p \in DOMAIN person' /\ LaterPerson(person[p], person'[p])

\* a scope, once made, keeps its members
ScopesStay == \A sc \in Scopes : scope[sc] # {} => scope'[sc] = scope[sc]

OthersAdvance ==
    /\ now <= now' /\ merged \subseteq merged' /\ blocked \subseteq blocked'
    /\ \A m \in Members : /\ member[m].rev <= member'[m].rev
                          /\ member[m].rev = member'[m].rev => member'[m] = member[m]

Advance == SourcesAdvance /\ PeopleAdvance /\ ScopesStay /\ OthersAdvance

LEMMA SourcesStand ==
    ASSUME RowsSound, UNCHANGED <<source, history>>, ScopesStay
    PROVE  SourcesSound' /\ SourcesAdvance
<1>1. \A s \in DOMAIN source : source[s] \in SourceRows BY DEF RowsSound, SourcesSound
<1>2. SourcesAdvance BY <1>1 DEF SourcesAdvance, LaterSource, SourceRows
<1>3. SourcesSound'
  BY <1>1 DEF RowsSound, SourcesSound, OthersSound, ScopesStay, Version, SourceRows
<1> QED BY <1>2, <1>3

LEMMA PeopleStand ==
    ASSUME RowsSound, UNCHANGED <<person, contacts>>, ScopesStay, SourcesAdvance
    PROVE  PeopleSound' /\ PeopleAdvance
<1>1. \A p \in DOMAIN person : person[p] \in PersonRows BY DEF RowsSound, PeopleSound
<1>2. PeopleAdvance BY <1>1 DEF PeopleAdvance, LaterPerson, PersonRows
<1>3. PeopleSound'
  BY <1>1 DEF RowsSound, PeopleSound, OthersSound, ScopesStay, SourcesAdvance, PersonRows
<1> QED BY <1>2, <1>3

\* Commands that change nothing of members, scopes and the clock
LEMMA OthersStand ==
    ASSUME RowsSound, UNCHANGED <<now, member, scope>>,
           merged \subseteq merged', merged' \subseteq People,
           blocked \subseteq blocked', blocked' \subseteq People \cup Sources,
           requests' \in 0..MaxRequests
    PROVE  OthersSound' /\ OthersAdvance /\ ScopesStay
<1>1. \A m \in Members : member[m] \in Memberships BY DEF RowsSound, OthersSound
<1>2. OthersAdvance BY <1>1 DEF OthersAdvance, RowsSound, OthersSound, Memberships
<1> QED BY <1>2 DEF RowsSound, OthersSound, ScopesStay

LEMMA CommandCounts ==
    ASSUME RowsSound, NEW m, NEW ps, Command(m, ps)
    PROVE  requests' \in 0..MaxRequests /\ member[m].active
BY RecordsConstants DEF RowsSound, OthersSound, Command

LEMMA SourceMoves ==
    ASSUME RowsSound, NEW s \in DOMAIN source, NEW row \in SourceRows, PutSource(s, row),
           row.rev = source[s].rev + 1, LaterSource(source[s], row), scope[row.scope] # {},
           ScopesStay
    PROVE  SourcesSound' /\ SourcesAdvance
<1>1. \A t \in DOMAIN source : source[t] \in SourceRows BY DEF RowsSound, SourcesSound
<1>2. /\ DOMAIN source' = DOMAIN source /\ DOMAIN history' = DOMAIN history
      /\ s \in DOMAIN history
      /\ source'[s] = row /\ history'[s] = Append(history[s], Version(row))
      /\ \A t \in DOMAIN source \ {s} : source'[t] = source[t] /\ history'[t] = history[t]
  BY DEF PutSource, RowsSound, SourcesSound
<1>3. Version(row) \in Versions BY DEF Version, Versions, SourceRows
<1>4. history[s] \in Seq(Versions) /\ Len(history[s]) = source[s].rev
  BY DEF RowsSound, SourcesSound
<1>5. /\ history'[s] \in Seq(Versions) /\ Len(history'[s]) = row.rev
      /\ history'[s][Len(history'[s])] = Version(row)
  BY <1>2, <1>3, <1>4
<1>6. \A sc \in Scopes : scope[sc] # {} => scope'[sc] # {} BY DEF ScopesStay
<1>7. \A t \in DOMAIN source : source[t].scope \in Scopes BY <1>1 DEF SourceRows
<1>8. row.scope \in Scopes BY DEF SourceRows
<1>9. ASSUME NEW t \in DOMAIN source'
      PROVE  /\ source'[t] \in SourceRows /\ scope'[source'[t].scope] # {}
             /\ history'[t] \in Seq(Versions)
             /\ Len(history'[t]) = source'[t].rev
             /\ history'[t][Len(history'[t])] = Version(source'[t])
  <2>1. CASE t = s BY <1>2, <1>5, <1>6, <1>8, <2>1
  <2>2. CASE t # s BY <1>2, <1>6, <1>7, <2>2 DEF RowsSound, SourcesSound
  <2> QED BY <2>1, <2>2
<1>10. SourcesSound' BY <1>2, <1>9 DEF SourcesSound, RowsSound, Version
<1>11. SourcesAdvance BY <1>1, <1>2 DEF SourcesAdvance, LaterSource, SourceRows
<1> QED BY <1>10, <1>11

LEMMA SourceAdded ==
    ASSUME RowsSound, NEW s, NEW row \in SourceRows, InsertSource(s, row),
           row.rev = 1, scope'[row.scope] # {}, ScopesStay
    PROVE  SourcesSound' /\ SourcesAdvance
<1>1. \A t \in DOMAIN source : source[t] \in SourceRows BY DEF RowsSound, SourcesSound
<1>2. /\ DOMAIN source' = DOMAIN source \cup {s} /\ DOMAIN history' = DOMAIN history \cup {s}
      /\ s \in Sources \ DOMAIN source
      /\ source'[s] = row /\ history'[s] = <<Version(row)>>
      /\ \A t \in DOMAIN source : source'[t] = source[t] /\ history'[t] = history[t]
  BY DEF InsertSource, RowsSound, SourcesSound, Added
<1>3. Version(row) \in Versions BY DEF Version, Versions, SourceRows
<1>4. history'[s] \in Seq(Versions) /\ Len(history'[s]) = 1 /\ history'[s][1] = Version(row)
  BY <1>2, <1>3
<1>5. \A t \in DOMAIN source : source[t].scope \in Scopes BY <1>1 DEF SourceRows
<1>6. ASSUME NEW t \in DOMAIN source'
      PROVE  /\ source'[t] \in SourceRows /\ scope'[source'[t].scope] # {}
             /\ history'[t] \in Seq(Versions)
             /\ Len(history'[t]) = source'[t].rev
             /\ history'[t][Len(history'[t])] = Version(source'[t])
  <2>1. CASE t = s BY <1>2, <1>4, <2>1
  <2>2. CASE t # s BY <1>2, <1>5, <2>2 DEF RowsSound, SourcesSound, ScopesStay
  <2> QED BY <2>1, <2>2
<1>7. SourcesSound' BY <1>2, <1>6 DEF SourcesSound, RowsSound, Version
<1>8. SourcesAdvance BY <1>1, <1>2 DEF SourcesAdvance, LaterSource, SourceRows
<1> QED BY <1>7, <1>8

LEMMA PersonMoves ==
    ASSUME RowsSound, NEW p \in DOMAIN person, NEW row \in PersonRows,
           person' = [person EXCEPT ![p] = row], LaterPerson(person[p], row),
           scope[row.scope] # {}, DOMAIN contacts' = DOMAIN person,
           \A q \in DOMAIN person : contacts'[q] \subseteq DOMAIN source,
           ScopesStay, SourcesAdvance
    PROVE  PeopleSound' /\ PeopleAdvance
<1>1. \A q \in DOMAIN person : person[q] \in PersonRows BY DEF RowsSound, PeopleSound
<1>2. /\ DOMAIN person' = DOMAIN person /\ person'[p] = row
      /\ \A q \in DOMAIN person \ {p} : person'[q] = person[q]
  OBVIOUS
<1>3. row.scope \in Scopes /\ row.source = person[p].source BY DEF PersonRows, LaterPerson
<1>4. \A q \in DOMAIN person : person[q].scope \in Scopes BY <1>1 DEF PersonRows
<1>5. PeopleSound'
  BY <1>2, <1>3, <1>4 DEF RowsSound, PeopleSound, ScopesStay, SourcesAdvance
<1>6. PeopleAdvance BY <1>1, <1>2 DEF PeopleAdvance, LaterPerson, PersonRows
<1> QED BY <1>5, <1>6

LEMMA PersonAdded ==
    ASSUME RowsSound, NEW p \in People \ DOMAIN person, NEW row \in PersonRows,
           person' = Added(person, p, row), contacts' = Added(contacts, p, {}),
           row.source \in DOMAIN source, scope[row.scope] # {}, ScopesStay, SourcesAdvance
    PROVE  PeopleSound' /\ PeopleAdvance
<1>1. \A q \in DOMAIN person : person[q] \in PersonRows BY DEF RowsSound, PeopleSound
<1>2. /\ DOMAIN person' = DOMAIN person \cup {p} /\ DOMAIN contacts' = DOMAIN contacts \cup {p}
      /\ person'[p] = row /\ contacts'[p] = {}
      /\ \A q \in DOMAIN person : person'[q] = person[q] /\ contacts'[q] = contacts[q]
  BY DEF RowsSound, PeopleSound, Added
<1>3. row.scope \in Scopes BY DEF PersonRows
<1>4. \A q \in DOMAIN person : person[q].scope \in Scopes BY <1>1 DEF PersonRows
<1>5. PeopleSound'
  BY <1>2, <1>3, <1>4 DEF RowsSound, PeopleSound, ScopesStay, SourcesAdvance
<1>6. PeopleAdvance BY <1>1, <1>2 DEF PeopleAdvance, LaterPerson, PersonRows
<1> QED BY <1>5, <1>6

-------------------------------------------------------------------------------
(* Grants through the steps of the rows *)

\* What is fresh of the snapshot a grant took, field by field
Ground(at, p) ==
    LET s == person[p].source
    IN  /\ person[p].epoch = at.personEpoch /\ person[p].scope = at.personScope
        /\ source[s].rev = at.sourceRev /\ source[s].epoch = at.sourceEpoch
        /\ source[s].scope = at.sourceScope
        /\ \A x \in DOMAIN at.members : member[x].rev = at.members[x]

LEMMA GroundsAgree ==
    ASSUME NEW at \in Grounds, NEW pr, NEW pe, NEW ps, NEW sr, NEW se, NEW ss, NEW f,
           NEW is, is = [personRev |-> pr, personEpoch |-> pe, personScope |-> ps,
                         sourceRev |-> sr, sourceEpoch |-> se, sourceScope |-> ss,
                         members |-> [x \in DOMAIN at.members |-> f[x].rev]]
    PROVE  LET same == /\ pe = at.personEpoch /\ ps = at.personScope
                       /\ sr = at.sourceRev /\ se = at.sourceEpoch /\ ss = at.sourceScope
                       /\ \A x \in DOMAIN at.members : f[x].rev = at.members[x]
           IN  /\ [is EXCEPT !.personRev = at.personRev] = at <=> same
               /\ is = at <=> same /\ pr = at.personRev
<1>1. PICK ms \in SUBSET Members : at.members \in [ms -> Nat] BY DEF Grounds
<1>2. at = [personRev |-> at.personRev, personEpoch |-> at.personEpoch,
            personScope |-> at.personScope, sourceRev |-> at.sourceRev,
            sourceEpoch |-> at.sourceEpoch, sourceScope |-> at.sourceScope,
            members |-> at.members]
  BY DEF Grounds
<1> DEFINE ms2 == [x \in DOMAIN at.members |-> f[x].rev]
<1>3. at.members = [x \in DOMAIN at.members |-> at.members[x]] BY <1>1
<1>4. (ms2 = at.members) <=> \A x \in DOMAIN at.members : f[x].rev = at.members[x]
  BY <1>3
<1>5. [is EXCEPT !.personRev = at.personRev] =
         [personRev |-> at.personRev, personEpoch |-> pe, personScope |-> ps,
          sourceRev |-> sr, sourceEpoch |-> se, sourceScope |-> ss, members |-> ms2]
  OBVIOUS
<1>6. is = [personRev |-> pr, personEpoch |-> pe, personScope |-> ps,
            sourceRev |-> sr, sourceEpoch |-> se, sourceScope |-> ss, members |-> ms2]
  OBVIOUS
<1> HIDE DEF ms2
<1>7. [is EXCEPT !.personRev = at.personRev] = at <=>
         /\ pe = at.personEpoch /\ ps = at.personScope
         /\ sr = at.sourceRev /\ se = at.sourceEpoch /\ ss = at.sourceScope
         /\ ms2 = at.members
  BY <1>2, <1>5
<1>8. is = at <=>
         /\ pe = at.personEpoch /\ ps = at.personScope
         /\ sr = at.sourceRev /\ se = at.sourceEpoch /\ ss = at.sourceScope
         /\ ms2 = at.members /\ pr = at.personRev
  BY <1>2, <1>6
<1> QED BY <1>4, <1>7, <1>8

LEMMA GroundIsSnapshot ==
    ASSUME NEW at \in Grounds, NEW p
    PROVE  /\ SameGround(at, p) <=> Ground(at, p)
           /\ Snapshot(p, DOMAIN at.members) = at <=>
                 Ground(at, p) /\ person[p].rev = at.personRev
           /\ SameGround(at, p)' <=> Ground(at, p)'
           /\ (Snapshot(p, DOMAIN at.members) = at)' <=>
                 Ground(at, p)' /\ person'[p].rev = at.personRev
<1>1. /\ SameGround(at, p) <=> Ground(at, p)
      /\ (Snapshot(p, DOMAIN at.members) = at) <=>
            Ground(at, p) /\ person[p].rev = at.personRev
  <2>1. PICK is : is = Snapshot(p, DOMAIN at.members) OBVIOUS
  <2>2. is = [personRev |-> person[p].rev, personEpoch |-> person[p].epoch,
              personScope |-> person[p].scope, sourceRev |-> source[person[p].source].rev,
              sourceEpoch |-> source[person[p].source].epoch,
              sourceScope |-> source[person[p].source].scope,
              members |-> [x \in DOMAIN at.members |-> member[x].rev]]
    BY <2>1 DEF Snapshot
  <2>3. /\ [is EXCEPT !.personRev = at.personRev] = at <=> Ground(at, p)
        /\ is = at <=> Ground(at, p) /\ person[p].rev = at.personRev
    BY <2>2, GroundsAgree DEF Ground
  <2> QED BY <2>1, <2>3 DEF SameGround, Snapshot
<1>2. /\ SameGround(at, p)' <=> Ground(at, p)'
      /\ (Snapshot(p, DOMAIN at.members) = at)' <=>
            Ground(at, p)' /\ person'[p].rev = at.personRev
  <2>1. PICK is : is = Snapshot(p, DOMAIN at.members)' OBVIOUS
  <2>2. is = [personRev |-> person'[p].rev, personEpoch |-> person'[p].epoch,
              personScope |-> person'[p].scope, sourceRev |-> source'[person'[p].source].rev,
              sourceEpoch |-> source'[person'[p].source].epoch,
              sourceScope |-> source'[person'[p].source].scope,
              members |-> [x \in DOMAIN at.members |-> member'[x].rev]]
    BY <2>1 DEF Snapshot
  <2>3. /\ [is EXCEPT !.personRev = at.personRev] = at <=> Ground(at, p)'
        /\ is = at <=> Ground(at, p)' /\ person'[p].rev = at.personRev
    BY <2>2, GroundsAgree DEF Ground
  <2> QED BY <2>1, <2>3 DEF SameGround, Snapshot
<1> QED BY <1>1, <1>2

LEMMA SeenStays ==
    ASSUME RowsSound, RowsSound', Advance, NEW p, NEW rev \in Nat, NEW value,
           NEW s, NEW srev \in Nat, NEW text, Seen(p, rev, value, s, srev, text)
    PROVE  Seen(p, rev, value, s, srev, text)'
<1>1. person[p] \in PersonRows /\ source[s] \in SourceRows
  BY DEF RowsSound, PeopleSound, SourcesSound, Seen
<1>2. /\ p \in DOMAIN person' /\ LaterPerson(person[p], person'[p])
      /\ s \in DOMAIN source' /\ LaterSource(source[s], source'[s])
  BY DEF Advance, SourcesAdvance, PeopleAdvance, Seen
<1>3. person'[p] \in PersonRows /\ source'[s] \in SourceRows
  BY <1>2 DEF RowsSound, PeopleSound, SourcesSound
<1> QED BY <1>1, <1>2, <1>3 DEF Seen, LaterPerson, LaterSource, PersonRows, SourceRows

LEMMA GroundStays ==
    ASSUME RowsSound, RowsSound', Advance, NEW g, g.at \in Grounds, Grounded(g)
    PROVE  Grounded(g)'
<1>1. g.at.personRev \in Nat /\ g.at.sourceRev \in Nat /\ g.at.personEpoch \in Nat
      /\ g.at.sourceEpoch \in Nat
  BY DEF Grounds
<1>2. Seen(g.person, g.at.personRev, g.value, g.source, g.at.sourceRev, g.text)'
  BY <1>1, SeenStays DEF Grounded
<1>3. /\ g.person \in DOMAIN person /\ g.source \in DOMAIN source
      /\ person[g.person] \in PersonRows /\ source[g.source] \in SourceRows
  BY DEF RowsSound, PeopleSound, SourcesSound, Seen, Grounded
<1>4. /\ LaterPerson(person[g.person], person'[g.person])
      /\ LaterSource(source[g.source], source'[g.source])
      /\ person'[g.person] \in PersonRows /\ source'[g.source] \in SourceRows
  BY <1>3 DEF Advance, SourcesAdvance, PeopleAdvance, RowsSound, PeopleSound, SourcesSound
<1>5. /\ person'[g.person].source = g.source
      /\ g.at.personEpoch <= person'[g.person].epoch
      /\ g.at.sourceEpoch <= source'[g.source].epoch
  BY <1>1, <1>3, <1>4 DEF Grounded, LaterPerson, LaterSource, PersonRows, SourceRows
<1>6. ASSUME NEW x \in DOMAIN g.at.members
      PROVE  g.at.members[x] <= member'[x].rev
  <2>1. PICK ms \in SUBSET Members : g.at.members \in [ms -> Nat] BY DEF Grounds
  <2>2. x \in Members /\ g.at.members[x] \in Nat BY <2>1
  <2>3. member[x].rev \in Nat /\ member'[x].rev \in Nat
    BY <2>2 DEF RowsSound, OthersSound, Memberships
  <2>4. g.at.members[x] <= member[x].rev /\ member[x].rev <= member'[x].rev
    BY <2>2 DEF Grounded, Advance, OthersAdvance
  <2> QED BY <2>2, <2>3, <2>4
<1> QED BY <1>2, <1>5, <1>6 DEF Grounded

\* A grant once made only changes its state, and is accepted only while it is current.
HandoffsAdvance ==
    \A h \in DOMAIN handoff :
       /\ h \in DOMAIN handoff'
       /\ \E st \in {"PENDING", "ACCEPTED", "REVOKED", "DECLINED"} :
             /\ handoff'[h] = [handoff[h] EXCEPT !.state = st]
             /\ \/ st = handoff[h].state
                \/ st \in {"REVOKED", "DECLINED"}
                \/ st = "ACCEPTED" /\ HandoffCurrent(handoff[h])

LEMMA HandoffsMove ==
    ASSUME RowsSound, RowsSound', Advance, HandoffsSound, HandoffsAdvance,
           DOMAIN handoff' = DOMAIN handoff
    PROVE  HandoffsSound'
<1> SUFFICES ASSUME NEW h \in DOMAIN handoff
             PROVE  /\ handoff'[h] \in HandoffRows /\ Grounded(handoff[h])'
                    /\ {handoff'[h].sender, handoff'[h].recipient} =
                          DOMAIN handoff'[h].at.members
  BY DEF HandoffsSound
<1>1. PICK st \in {"PENDING", "ACCEPTED", "REVOKED", "DECLINED"} :
         handoff'[h] = [handoff[h] EXCEPT !.state = st]
  BY DEF HandoffsAdvance
<1>2. handoff[h] \in HandoffRows /\ Grounded(handoff[h]) BY DEF HandoffsSound
<1>3. /\ handoff'[h] \in HandoffRows
      /\ handoff'[h].person = handoff[h].person /\ handoff'[h].source = handoff[h].source
      /\ handoff'[h].value = handoff[h].value /\ handoff'[h].text = handoff[h].text
      /\ handoff'[h].at = handoff[h].at /\ handoff'[h].sender = handoff[h].sender
      /\ handoff'[h].recipient = handoff[h].recipient
  BY <1>1, <1>2 DEF HandoffRows
<1>4. ASSUME NEW g, g = handoff[h] PROVE Grounded(handoff[h])'
  <2>1. g.at \in Grounds /\ Grounded(g) BY <1>2, <1>4 DEF HandoffRows
  <2>2. Grounded(g)' BY <2>1, GroundStays
  <2> QED BY <2>2, <1>3, <1>4 DEF Grounded, Seen
<1> QED BY <1>3, <1>4 DEF HandoffsSound

LEMMA SourceStaysCurrent ==
    ASSUME RowsSound, RowsSound', Advance, NEW s \in DOMAIN source,
           source'[s].epoch = source[s].epoch, SourceCurrent(s)'
    PROVE  SourceCurrent(s)
<1>1. /\ source[s] \in SourceRows /\ source'[s] \in SourceRows
      /\ LaterSource(source[s], source'[s])
  BY DEF RowsSound, SourcesSound, Advance, SourcesAdvance
<1>2. now \in Nat /\ now' \in Nat /\ now <= now'
  BY RecordsConstants DEF Advance, OthersAdvance, RowsSound, OthersSound
<1>3. source[s].until \in Int /\ source[s].use \in Int
  BY <1>1, RecordsConstants DEF SourceRows, Times
<1> QED BY <1>1, <1>2, <1>3 DEF SourceCurrent, LaterSource

\* What a handoff not yet ended stands on is what it stood on before.
LEMMA GroundWasThere ==
    ASSUME RowsSound, RowsSound', Advance, NEW p, NEW s, NEW at \in Grounds,
           p \in DOMAIN person, s \in DOMAIN source, person[p].source = s,
           at.personEpoch <= person[p].epoch, at.sourceEpoch <= source[s].epoch,
           at.sourceRev <= source[s].rev,
           \A x \in DOMAIN at.members : at.members[x] <= member[x].rev,
           Ground(at, p)'
    PROVE  /\ Ground(at, p)
           /\ person'[p].epoch = person[p].epoch /\ person'[p].status = person[p].status
           /\ person'[p].scope = person[p].scope
           /\ source'[s].epoch = source[s].epoch /\ source'[s].scope = source[s].scope
           /\ \A x \in DOMAIN at.members : member'[x] = member[x]
<1>1. /\ person[p] \in PersonRows /\ person'[p] \in PersonRows
      /\ LaterPerson(person[p], person'[p])
      /\ source[s] \in SourceRows /\ source'[s] \in SourceRows
      /\ LaterSource(source[s], source'[s])
  BY DEF RowsSound, PeopleSound, SourcesSound, Advance, PeopleAdvance, SourcesAdvance
<1>2. at.personEpoch \in Nat /\ at.sourceEpoch \in Nat /\ at.sourceRev \in Nat BY DEF Grounds
<1>3. /\ person'[p].epoch = at.personEpoch /\ person'[p].scope = at.personScope
      /\ person'[p].source = s
      /\ source'[s].rev = at.sourceRev /\ source'[s].epoch = at.sourceEpoch
      /\ source'[s].scope = at.sourceScope
  BY <1>1 DEF Ground, LaterPerson
<1>4. person[p].epoch = at.personEpoch /\ person'[p].epoch = person[p].epoch
  BY <1>1, <1>2, <1>3 DEF LaterPerson, PersonRows
<1>5. /\ source[s].epoch = at.sourceEpoch /\ source'[s].epoch = source[s].epoch
      /\ source[s].rev = at.sourceRev
  BY <1>1, <1>2, <1>3 DEF LaterSource, SourceRows
<1>6. ASSUME NEW x \in DOMAIN at.members
      PROVE  member'[x] = member[x] /\ member[x].rev = at.members[x]
  <2>1. PICK ms \in SUBSET Members : at.members \in [ms -> Nat] BY DEF Grounds
  <2>2. x \in Members /\ at.members[x] \in Nat BY <2>1
  <2>3. member[x].rev \in Nat /\ member'[x].rev \in Nat
    BY <2>2 DEF RowsSound, OthersSound, Memberships
  <2>4. member'[x].rev = at.members[x] BY DEF Ground
  <2>5. at.members[x] <= member[x].rev /\ member[x].rev <= member'[x].rev
    BY <2>2 DEF Advance, OthersAdvance
  <2>6. member[x].rev = at.members[x] BY <2>2, <2>3, <2>4, <2>5
  <2> QED BY <2>2, <2>4, <2>6 DEF Advance, OthersAdvance
<1>7. /\ person'[p].status = person[p].status /\ person'[p].scope = person[p].scope
      /\ source'[s].scope = source[s].scope
  BY <1>1, <1>4, <1>5 DEF LaterPerson, LaterSource
<1>8. Ground(at, p) BY <1>3, <1>4, <1>5, <1>6, <1>7 DEF Ground
<1> QED BY <1>4, <1>5, <1>6, <1>7, <1>8

\* A handoff whose row stays and which is current after a step was current before it.
LEMMA CurrentBefore ==
    ASSUME RowsSound, RowsSound', Advance, NEW g \in HandoffRows, Grounded(g),
           {g.sender, g.recipient} = DOMAIN g.at.members, HandoffCurrent(g)'
    PROVE  HandoffCurrent(g)
<1> DEFINE p == g.person
           s == g.source
<1>1. /\ g.at \in Grounds /\ p \in DOMAIN person /\ s \in DOMAIN source
      /\ person[p].source = s
  BY DEF HandoffRows, Grounded, Seen
<1>2. person'[p].source = s
  BY <1>1 DEF Advance, PeopleAdvance, LaterPerson
<1>3. Ground(g.at, p)' BY <1>1, GroundIsSnapshot DEF HandoffCurrent
<1>4. /\ Ground(g.at, p)
      /\ person'[p].epoch = person[p].epoch /\ person'[p].status = person[p].status
      /\ person'[p].scope = person[p].scope
      /\ source'[s].epoch = source[s].epoch /\ source'[s].scope = source[s].scope
      /\ \A x \in DOMAIN g.at.members : member'[x] = member[x]
  BY <1>1, <1>3, GroundWasThere DEF Grounded, Seen
<1>5. SameGround(g.at, p) BY <1>1, <1>4, GroundIsSnapshot
<1>6. SourceCurrent(s) BY <1>1, <1>4, SourceStaysCurrent DEF HandoffCurrent
<1>7. member'[g.sender] = member[g.sender] /\ member'[g.recipient] = member[g.recipient]
  BY <1>4
<1>8. /\ member[g.sender].active /\ RecipientEligible(g.recipient, g.purpose)
      /\ May(g.sender, "records.write") /\ May(g.sender, "sources.write")
  BY <1>7 DEF HandoffCurrent, RecipientEligible, May, PermissionsOf
<1>9. /\ person[p] \in PersonRows /\ person'[p] \in PersonRows
      /\ LaterPerson(person[p], person'[p])
      /\ source[s] \in SourceRows /\ LaterSource(source[s], source'[s])
      /\ scope[person[p].scope] # {} /\ scope[source[s].scope] # {}
  BY <1>1 DEF RowsSound, PeopleSound, SourcesSound, Advance, PeopleAdvance, SourcesAdvance
<1>10. person[p].owner = g.sender /\ source[s].owner = g.sender
  BY <1>9 DEF HandoffCurrent, LaterPerson, LaterSource
<1>11. scope'[person[p].scope] = scope[person[p].scope]
       /\ scope'[source[s].scope] = scope[source[s].scope]
  BY <1>9 DEF Advance, ScopesStay, PersonRows, SourceRows
<1>12. ScopeVisible(g.sender, person[p].scope) /\ ScopeVisible(g.sender, source[s].scope)
  BY <1>4, <1>11 DEF HandoffCurrent, ScopeVisible
<1>13. SamePerson(g)
  <2>1. g.at.personRev \in Nat BY <1>1 DEF Grounds
  <2>2. g.at.personRev <= person[p].rev /\ person[p].rev <= person'[p].rev
    BY <1>9 DEF Grounded, Seen, LaterPerson
  <2>3. SamePerson(g)' BY DEF HandoffCurrent
  <2>4. g.state = "PENDING" => person'[p].rev = g.at.personRev BY <2>3 DEF SamePerson
  <2> QED BY <1>9, <2>1, <2>2, <2>4 DEF SamePerson, PersonRows
<1>14. now < g.until
  <2>1. now \in Int /\ now' \in Int /\ now <= now' /\ g.until \in Int
    BY RecordsConstants DEF Advance, OthersAdvance, RowsSound, OthersSound, HandoffRows
  <2> QED BY <2>1 DEF HandoffCurrent
<1>15. p \notin merged \cup blocked /\ s \notin blocked
  BY DEF HandoffCurrent, Advance, OthersAdvance
<1>16. Open(g) /\ person[p].status # "ARCHIVED" BY <1>4 DEF HandoffCurrent
<1> QED BY <1>1, <1>5, <1>6, <1>8, <1>10, <1>12, <1>13, <1>14, <1>15, <1>16
        DEF HandoffCurrent

LEMMA EndedStays ==
    ASSUME RowsSound, RowsSound', Advance, HandoffsSound, HandoffsAdvance,
           NEW h \in DOMAIN handoff, HandoffCurrent(handoff[h])'
    PROVE  HandoffCurrent(handoff[h])
<1>1. PICK st \in {"PENDING", "ACCEPTED", "REVOKED", "DECLINED"} :
         /\ handoff'[h] = [handoff[h] EXCEPT !.state = st]
         /\ \/ st = handoff[h].state
            \/ st \in {"REVOKED", "DECLINED"}
            \/ st = "ACCEPTED" /\ HandoffCurrent(handoff[h])
  BY DEF HandoffsAdvance
<1>2. handoff[h] \in HandoffRows /\ Grounded(handoff[h])
      /\ {handoff[h].sender, handoff[h].recipient} = DOMAIN handoff[h].at.members
  BY DEF HandoffsSound
<1>3. handoff'[h].state = st BY <1>1, <1>2 DEF HandoffRows
<1>4. st \in {"PENDING", "ACCEPTED"} BY <1>3 DEF HandoffCurrent, Open
<1> SUFFICES ASSUME st = handoff[h].state PROVE HandoffCurrent(handoff[h])
  BY <1>1, <1>4
<1>5. handoff'[h] = handoff[h] BY <1>1, <1>2 DEF HandoffRows
<1>6. PICK g : g = handoff[h] OBVIOUS
<1>7. HandoffCurrent(g)' BY <1>5, <1>6 DEF HandoffCurrent, Open, RecipientEligible, May,
        PermissionsOf, ScopeVisible, SameGround, Snapshot, SamePerson, SourceCurrent
<1>8. g \in HandoffRows /\ Grounded(g) /\ {g.sender, g.recipient} = DOMAIN g.at.members
  BY <1>2, <1>6 DEF Grounded, Seen
<1>9. HandoffCurrent(g) BY <1>7, <1>8, CurrentBefore
<1> QED BY <1>6, <1>9

LEMMA HandoffsKeep ==
    ASSUME RowsSound, RowsSound', Advance, HandoffsSound, OneHandoffEach, HandoffsAdvance,
           DOMAIN handoff' = DOMAIN handoff
    PROVE  HandoffsSound' /\ OneHandoffEach'
<1>1. HandoffsSound' BY HandoffsMove
<1>2. ASSUME NEW h \in DOMAIN handoff
      PROVE  /\ handoff'[h].person = handoff[h].person
             /\ handoff'[h].recipient = handoff[h].recipient
             /\ handoff'[h].purpose = handoff[h].purpose
  BY DEF HandoffsAdvance, HandoffsSound, HandoffRows
<1>3. \A h \in DOMAIN handoff : HandoffCurrent(handoff[h])' => HandoffCurrent(handoff[h])
  BY EndedStays
<1>4. SUFFICES ASSUME NEW g \in DOMAIN handoff, NEW h \in DOMAIN handoff,
                      HandoffCurrent(handoff[g])', HandoffCurrent(handoff[h])',
                      handoff'[g].person = handoff'[h].person,
                      handoff'[g].recipient = handoff'[h].recipient,
                      handoff'[g].purpose = handoff'[h].purpose
               PROVE  g = h
  BY <1>1 DEF OneHandoffEach
<1>5. HandoffCurrent(handoff[g]) /\ HandoffCurrent(handoff[h]) BY <1>3, <1>4
<1> QED BY <1>2, <1>4, <1>5 DEF OneHandoffEach

LEMMA HandoffsStand ==
    ASSUME RowsSound, RowsSound', Advance, HandoffsSound, OneHandoffEach, UNCHANGED handoff
    PROVE  HandoffsSound' /\ OneHandoffEach' /\ HandoffsAdvance
<1>1. HandoffsAdvance BY DEF HandoffsAdvance, HandoffsSound, HandoffRows
<1> QED BY <1>1, HandoffsKeep

\* What a publication is about is what was asked to be reviewed.
PublishedAsAsked(g) ==
    LET r == review[g]
    IN  /\ r.value = person[r.person].value /\ r.text = source[r.source].text
        /\ \A q \in DOMAIN person \ {r.person} :
               person[q].source # r.source /\ r.source \notin contacts[q]
        /\ \A e \in evidence : e.source = r.source => e.person = r.person

ReviewsAdvance ==
    \A g \in DOMAIN review :
       /\ g \in DOMAIN review'
       /\ review'[g].person = review[g].person /\ review'[g].until = review[g].until
       /\ Live(review'[g]) => Live(review[g])
       /\ review'[g].state = "PUBLISHED" =>
            review[g].state = "PUBLISHED" \/ PublishedAsAsked(g)

LEMMA ReviewStays ==
    ASSUME RowsSound, RowsSound', Advance, ReviewsSound, NEW g \in DOMAIN review,
           NEW st \in ReviewStates, g \in DOMAIN review',
           review'[g] = [review[g] EXCEPT !.state = st]
    PROVE  /\ review'[g] \in ReviewRows /\ Grounded(review[g])'
           /\ review'[g].person = review[g].person /\ review'[g].until = review[g].until
           /\ review'[g].state = st
<1>2. review[g] \in ReviewRows /\ Grounded(review[g]) BY DEF ReviewsSound
<1>3. /\ review'[g] \in ReviewRows /\ review'[g].state = st
      /\ review'[g].person = review[g].person /\ review'[g].source = review[g].source
      /\ review'[g].value = review[g].value /\ review'[g].text = review[g].text
      /\ review'[g].at = review[g].at /\ review'[g].until = review[g].until
  BY <1>2 DEF ReviewRows
<1>4. ASSUME NEW r, r = review[g] PROVE Grounded(review[g])'
  <2>1. r.at \in Grounds /\ Grounded(r) BY <1>2, <1>4 DEF ReviewRows
  <2>2. Grounded(r)' BY <2>1, GroundStays
  <2> QED BY <2>2, <1>3, <1>4 DEF Grounded, Seen
<1> QED BY <1>3, <1>4

LEMMA ReviewsLinger ==
    ASSUME RowsSound, RowsSound', Advance, ReviewsSound, ReviewsAdvance,
           DOMAIN review' = DOMAIN review,
           \A g \in DOMAIN review : review'[g] \in ReviewRows /\ Grounded(review[g])'
    PROVE  ReviewsSound'
<1>1. now \in Int /\ now' \in Int /\ now <= now'
  BY RecordsConstants DEF Advance, OthersAdvance, RowsSound, OthersSound
<1>2. \A g \in DOMAIN review : review[g].until \in Int BY DEF ReviewsSound, ReviewRows
<1>3. ASSUME NEW g \in DOMAIN review, NEW h \in DOMAIN review,
             Live(review'[g]), now' < review'[g].until,
             Live(review'[h]), now' < review'[h].until,
             review'[g].person = review'[h].person
      PROVE  g = h
  <2>1. /\ Live(review[g]) /\ now < review[g].until
        /\ Live(review[h]) /\ now < review[h].until
        /\ review[g].person = review[h].person
    BY <1>1, <1>2, <1>3 DEF ReviewsAdvance
  <2> QED BY <2>1 DEF ReviewsSound
<1> QED BY <1>3 DEF ReviewsSound, Live

LEMMA ReviewsStand ==
    ASSUME RowsSound, RowsSound', Advance, ReviewsSound, UNCHANGED review
    PROVE  ReviewsSound' /\ ReviewsAdvance
<1>1. ReviewsAdvance BY DEF ReviewsAdvance, Live
<1>2. ASSUME NEW g \in DOMAIN review
      PROVE  review'[g] \in ReviewRows /\ Grounded(review[g])'
  <2>1. review[g] \in ReviewRows BY DEF ReviewsSound
  <2>2. review[g].state \in ReviewStates
        /\ review'[g] = [review[g] EXCEPT !.state = review[g].state]
    BY <2>1 DEF ReviewRows
  <2> QED BY <2>2, ReviewStays
<1> QED BY <1>1, <1>2, ReviewsLinger

LEMMA FactStays ==
    ASSUME RowsSound, RowsSound', Advance, NEW e \in FieldEvidence, FactSound(e)
    PROVE  FactSound(e)'
<1>1. e.srev \in Nat BY DEF FieldEvidence
<1>2. /\ e.person \in DOMAIN person' /\ e.source \in DOMAIN source'
      /\ LaterSource(source[e.source], source'[e.source])
      /\ source[e.source] \in SourceRows /\ source'[e.source] \in SourceRows
  BY DEF FactSound, Advance, PeopleAdvance, SourcesAdvance, RowsSound, SourcesSound
<1> QED BY <1>1, <1>2 DEF FactSound, LaterSource, SourceRows

LEMMA EvidenceStands ==
    ASSUME RowsSound, RowsSound', Advance, EvidenceSound, UNCHANGED evidence
    PROVE  EvidenceSound'
<1>1. \A e \in evidence : FactSound(e)' BY FactStays DEF EvidenceSound
<1> QED BY <1>1 DEF EvidenceSound

LEMMA FormStands ==
    ASSUME RowsSound, RowsSound', Advance, FormSound, UNCHANGED form
    PROVE  FormSound'
<1> SUFFICES ASSUME form # NoForm PROVE FormSound' BY DEF FormSound
<1>1. PICK f : f = form OBVIOUS
<1>2. /\ f \in [by: Members, person: People, rev: Nat, value: Values,
                 source: Sources, srev: Nat, text: Values]
      /\ Seen(f.person, f.rev, f.value, f.source, f.srev, f.text)
  BY <1>1 DEF FormSound
<1>3. Seen(f.person, f.rev, f.value, f.source, f.srev, f.text)' BY <1>2, SeenStays
<1> QED BY <1>1, <1>2, <1>3 DEF FormSound, Seen

Forward == Advance /\ HandoffsAdvance /\ ReviewsAdvance

\* A step of the rows alone
LEMMA RowStep ==
    ASSUME RecordsInv, RowsSound', Advance, UNCHANGED <<evidence, handoff, review, form>>
    PROVE  RecordsInv' /\ Forward
BY HandoffsStand, ReviewsStand, EvidenceStands, FormStands DEF RecordsInv, Forward

-------------------------------------------------------------------------------
(* The commands, one by one *)

LEMMA Deadlines ==
    ASSUME RowsSound
    PROVE  now + Temporary \in Times /\ now + Lease \in Times /\ now \in Times /\ 0 \in Times
BY RecordsConstants DEF RowsSound, OthersSound, Times

\* A command that writes one source
LEMMA SourceChange ==
    ASSUME RecordsInv, NEW s \in DOMAIN source, NEW row \in SourceRows, PutSource(s, row),
           row.rev = source[s].rev + 1, LaterSource(source[s], row), scope[row.scope] # {},
           requests' \in 0..MaxRequests, UNCHANGED <<now, member, scope, person, contacts>>,
           merged \subseteq merged', merged' \subseteq People,
           blocked \subseteq blocked', blocked' \subseteq People \cup Sources
    PROVE  RowsSound' /\ Advance
<1>1. RowsSound BY DEF RecordsInv
<1>2. OthersSound' /\ OthersAdvance /\ ScopesStay BY <1>1, OthersStand
<1>3. SourcesSound' /\ SourcesAdvance BY <1>1, <1>2, SourceMoves
<1>4. PeopleSound' /\ PeopleAdvance BY <1>1, <1>2, <1>3, PeopleStand
<1> QED BY <1>2, <1>3, <1>4 DEF RowsSound, Advance

\* A command that writes one person
LEMMA PersonChange ==
    ASSUME RecordsInv, NEW p \in DOMAIN person, NEW row \in PersonRows,
           person' = [person EXCEPT ![p] = row], LaterPerson(person[p], row),
           scope[row.scope] # {}, DOMAIN contacts' = DOMAIN person,
           \A q \in DOMAIN person : contacts'[q] \subseteq DOMAIN source,
           requests' \in 0..MaxRequests, UNCHANGED <<now, member, scope, source, history>>,
           merged \subseteq merged', merged' \subseteq People,
           blocked \subseteq blocked', blocked' \subseteq People \cup Sources
    PROVE  RowsSound' /\ Advance
<1>1. RowsSound BY DEF RecordsInv
<1>2. OthersSound' /\ OthersAdvance /\ ScopesStay BY <1>1, OthersStand
<1>3. SourcesSound' /\ SourcesAdvance BY <1>1, <1>2, SourcesStand
<1>4. PeopleSound' /\ PeopleAdvance BY <1>1, <1>2, <1>3, PersonMoves
<1> QED BY <1>2, <1>3, <1>4 DEF RowsSound, Advance

LEMMA CreateScopeKeeps ==
    ASSUME RecordsInv, NEW m \in Members, NEW sc \in Scopes, NEW ms \in SUBSET Members,
           CreateScope(m, sc, ms)
    PROVE  RecordsInv' /\ Forward
<1>1. RowsSound /\ requests' \in 0..MaxRequests BY CommandCounts DEF RecordsInv, CreateScope
<1>2. scope \in [Scopes -> SUBSET Members] BY <1>1 DEF RowsSound, OthersSound
<1>3. scope' \in [Scopes -> SUBSET Members] /\ ScopesStay
  BY <1>2 DEF CreateScope, ScopesStay
<1>4. OthersSound' BY <1>1, <1>3 DEF CreateScope, RowsSound, OthersSound
<1>5. \A x \in Members : member[x] \in Memberships BY <1>1 DEF RowsSound, OthersSound
<1>6. OthersAdvance
  BY <1>1, <1>5, RecordsConstants
     DEF CreateScope, OthersAdvance, RowsSound, OthersSound, Memberships
<1>7. SourcesSound' /\ SourcesAdvance BY <1>1, <1>3, SourcesStand DEF CreateScope
<1>8. PeopleSound' /\ PeopleAdvance BY <1>1, <1>3, <1>7, PeopleStand DEF CreateScope
<1> QED BY <1>3, <1>4, <1>6, <1>7, <1>8, RowStep DEF CreateScope, RowsSound, Advance

LEMMA CreateSourceKeeps ==
    ASSUME RecordsInv, NEW m \in Members, NEW s, NEW sc \in Scopes, NEW temp \in BOOLEAN,
           NEW v \in Values, CreateSource(m, s, sc, temp, now + Temporary, v)
    PROVE  RecordsInv' /\ Forward
<1> DEFINE row == [scope |-> sc, owner |-> m, temp |-> temp, until |-> now + Temporary,
                   status |-> IF temp THEN "RECEIVED" ELSE "CONFIRMED", text |-> v,
                   self |-> FALSE, use |-> 0, rev |-> 1, epoch |-> 1]
<1>1. RowsSound /\ requests' \in 0..MaxRequests
  BY CommandCounts DEF RecordsInv, CreateSource
<1>2. row \in SourceRows /\ row.rev = 1 /\ row.scope = sc
  BY <1>1, Deadlines DEF SourceRows
<1>3. InsertSource(s, row) BY DEF CreateSource
<1> HIDE DEF row
<1>4. scope \in [Scopes -> SUBSET Members] BY <1>1 DEF RowsSound, OthersSound
<1>5. scope' \in [Scopes -> SUBSET Members] /\ ScopesStay /\ scope'[sc] # {}
  BY <1>4 DEF CreateSource, ScopesStay, ScopeVisible
<1>6. OthersSound' BY <1>1, <1>5 DEF CreateSource, RowsSound, OthersSound
<1>7. \A x \in Members : member[x] \in Memberships BY <1>1 DEF RowsSound, OthersSound
<1>8. OthersAdvance
  BY <1>1, <1>7, RecordsConstants
     DEF CreateSource, OthersAdvance, RowsSound, OthersSound, Memberships
<1>9. SourcesSound' /\ SourcesAdvance BY <1>1, <1>2, <1>3, <1>5, SourceAdded
<1>10. PeopleSound' /\ PeopleAdvance
  BY <1>1, <1>5, <1>9, PeopleStand DEF CreateSource
<1> QED BY <1>5, <1>6, <1>8, <1>9, <1>10, RowStep DEF CreateSource, RowsSound, Advance

LEMMA SourceWritten ==
    ASSUME RecordsInv, NEW m, NEW ps, Command(m, ps), NEW s \in DOMAIN source,
           NEW row \in SourceRows, PutSource(s, row),
           row.rev = source[s].rev + 1, LaterSource(source[s], row), scope[row.scope] # {},
           UNCHANGED <<now, member, scope, person, contacts, evidence, handoff, review,
                       blocked, merged, form>>
    PROVE  RecordsInv' /\ Forward
<1>1. RowsSound /\ requests' \in 0..MaxRequests BY CommandCounts DEF RecordsInv
<1>2. /\ merged \subseteq merged' /\ merged' \subseteq People
      /\ blocked \subseteq blocked' /\ blocked' \subseteq People \cup Sources
  BY <1>1 DEF RowsSound, OthersSound
<1>3. RowsSound' /\ Advance BY <1>1, <1>2, SourceChange
<1> QED BY <1>3, RowStep

\* A row with a new revision is the same row.
LEMMA TouchedSource ==
    ASSUME NEW a \in SourceRows
    PROVE  LET b == Touch(a)
           IN  /\ b \in SourceRows /\ b.rev = a.rev + 1 /\ b.epoch = a.epoch
               /\ b.scope = a.scope /\ b.owner = a.owner /\ b.temp = a.temp
               /\ b.until = a.until /\ b.status = a.status /\ b.text = a.text
               /\ b.self = a.self /\ b.use = a.use
<1> DEFINE b == Touch(a)
<1>1. a.rev + 1 \in Nat /\ a.epoch + 1 \in Nat BY DEF SourceRows
<1>2. \A x \in Nat : [a EXCEPT !.rev = x] \in SourceRows BY DEF SourceRows
<1>3. b \in SourceRows BY <1>1, <1>2 DEF Touch
<1>4. b.rev = a.rev + 1 /\ b.epoch = a.epoch BY DEF Touch, SourceRows
<1>5. /\ b.scope = a.scope /\ b.owner = a.owner /\ b.temp = a.temp
      /\ b.until = a.until /\ b.status = a.status /\ b.text = a.text
      /\ b.self = a.self /\ b.use = a.use
  BY DEF Touch, SourceRows
<1> QED BY <1>3, <1>4, <1>5

LEMMA ProtectedSource ==
    ASSUME NEW a \in SourceRows
    PROVE  LET b == Protect(a)
           IN  /\ b \in SourceRows /\ b.rev = a.rev + 1 /\ b.epoch = a.epoch + 1
               /\ b.scope = a.scope /\ b.owner = a.owner /\ b.temp = a.temp
               /\ b.until = a.until /\ b.status = a.status /\ b.text = a.text
               /\ b.self = a.self /\ b.use = a.use
<1> DEFINE b == Protect(a)
<1>1. a.rev + 1 \in Nat /\ a.epoch + 1 \in Nat BY DEF SourceRows
<1>2. \A x \in Nat, y \in Nat : [a EXCEPT !.rev = x, !.epoch = y] \in SourceRows BY DEF SourceRows
<1>3. b \in SourceRows BY <1>1, <1>2 DEF Protect
<1>4. b.rev = a.rev + 1 /\ b.epoch = a.epoch + 1 BY DEF Protect, SourceRows
<1>5. /\ b.scope = a.scope /\ b.owner = a.owner /\ b.temp = a.temp
      /\ b.until = a.until /\ b.status = a.status /\ b.text = a.text
      /\ b.self = a.self /\ b.use = a.use
  BY DEF Protect, SourceRows
<1> QED BY <1>3, <1>4, <1>5

LEMMA TouchedPerson ==
    ASSUME NEW a \in PersonRows
    PROVE  LET b == Touch(a)
           IN  /\ b \in PersonRows /\ b.rev = a.rev + 1 /\ b.epoch = a.epoch
               /\ b.scope = a.scope /\ b.source = a.source /\ b.owner = a.owner
               /\ b.value = a.value /\ b.status = a.status
<1> DEFINE b == Touch(a)
<1>1. a.rev + 1 \in Nat /\ a.epoch + 1 \in Nat BY DEF PersonRows
<1>2. \A x \in Nat : [a EXCEPT !.rev = x] \in PersonRows BY DEF PersonRows
<1>3. b \in PersonRows BY <1>1, <1>2 DEF Touch
<1>4. b.rev = a.rev + 1 /\ b.epoch = a.epoch BY DEF Touch, PersonRows
<1>5. /\ b.scope = a.scope /\ b.source = a.source /\ b.owner = a.owner
      /\ b.value = a.value /\ b.status = a.status
  BY DEF Touch, PersonRows
<1> QED BY <1>3, <1>4, <1>5

LEMMA ProtectedPerson ==
    ASSUME NEW a \in PersonRows
    PROVE  LET b == Protect(a)
           IN  /\ b \in PersonRows /\ b.rev = a.rev + 1 /\ b.epoch = a.epoch + 1
               /\ b.scope = a.scope /\ b.source = a.source /\ b.owner = a.owner
               /\ b.value = a.value /\ b.status = a.status
<1> DEFINE b == Protect(a)
<1>1. a.rev + 1 \in Nat /\ a.epoch + 1 \in Nat BY DEF PersonRows
<1>2. \A x \in Nat, y \in Nat : [a EXCEPT !.rev = x, !.epoch = y] \in PersonRows BY DEF PersonRows
<1>3. b \in PersonRows BY <1>1, <1>2 DEF Protect
<1>4. b.rev = a.rev + 1 /\ b.epoch = a.epoch + 1 BY DEF Protect, PersonRows
<1>5. /\ b.scope = a.scope /\ b.source = a.source /\ b.owner = a.owner
      /\ b.value = a.value /\ b.status = a.status
  BY DEF Protect, PersonRows
<1> QED BY <1>3, <1>4, <1>5

LEMMA EditedRow ==
    ASSUME NEW a \in SourceRows, NEW v \in Values
    PROVE  LET row == [Touch(a) EXCEPT !.text = v]
           IN  /\ row \in SourceRows /\ row.rev = a.rev + 1 /\ row.epoch = a.epoch
               /\ row.scope = a.scope
               /\ LaterSource(a, row)
<1> DEFINE b == Touch(a)
<1>1. /\ b \in SourceRows /\ b.rev = a.rev + 1 /\ b.epoch = a.epoch
      /\ b.scope = a.scope /\ b.owner = a.owner /\ b.temp = a.temp
      /\ b.until = a.until /\ b.status = a.status /\ b.text = a.text
      /\ b.self = a.self /\ b.use = a.use
  BY TouchedSource
<1> HIDE DEF b
<1> DEFINE row == [b EXCEPT !.text = v]
<1>2. row \in SourceRows BY <1>1 DEF SourceRows
<1>3. /\ row.rev = b.rev /\ row.epoch = b.epoch
      /\ row.scope = b.scope /\ row.owner = b.owner /\ row.temp = b.temp
      /\ row.until = b.until /\ row.status = b.status /\ row.self = b.self
      /\ row.use = b.use
      /\ row.text = v
  BY <1>1 DEF SourceRows
<1> HIDE DEF row
<1>4. a.rev \in Nat /\ a.epoch \in Nat BY DEF SourceRows
<1>5. LaterSource(a, row) BY <1>1, <1>3, <1>4 DEF LaterSource
<1> QED BY <1>1, <1>2, <1>3, <1>5 DEF row, b

LEMMA ReviewedRow ==
    ASSUME NEW a \in SourceRows, NEW until \in Times
    PROVE  LET row == [Protect(a) EXCEPT !.until = until, !.temp = FALSE, !.status = "CONFIRMED"]
           IN  /\ row \in SourceRows /\ row.rev = a.rev + 1 /\ row.epoch = a.epoch + 1
               /\ row.scope = a.scope /\ row.text = a.text
               /\ LaterSource(a, row)
<1> DEFINE b == Protect(a)
<1>1. /\ b \in SourceRows /\ b.rev = a.rev + 1 /\ b.epoch = a.epoch + 1
      /\ b.scope = a.scope /\ b.owner = a.owner /\ b.temp = a.temp
      /\ b.until = a.until /\ b.status = a.status /\ b.text = a.text
      /\ b.self = a.self /\ b.use = a.use
  BY ProtectedSource
<1> HIDE DEF b
<1> DEFINE row == [b EXCEPT !.until = until, !.temp = FALSE, !.status = "CONFIRMED"]
<1>2. row \in SourceRows BY <1>1 DEF SourceRows
<1>3. /\ row.rev = b.rev /\ row.epoch = b.epoch
      /\ row.scope = b.scope /\ row.owner = b.owner /\ row.text = b.text
      /\ row.self = b.self /\ row.use = b.use
      /\ row.until = until /\ row.temp = FALSE /\ row.status = "CONFIRMED"
  BY <1>1 DEF SourceRows
<1> HIDE DEF row
<1>4. a.rev \in Nat /\ a.epoch \in Nat BY DEF SourceRows
<1>5. LaterSource(a, row) BY <1>1, <1>3, <1>4 DEF LaterSource
<1> QED BY <1>1, <1>2, <1>3, <1>5 DEF row, b

LEMMA SuspendedRow ==
    ASSUME NEW a \in SourceRows
    PROVE  LET row == [Protect(a) EXCEPT !.status = "SUSPENDED"]
           IN  /\ row \in SourceRows /\ row.rev = a.rev + 1 /\ row.epoch = a.epoch + 1
               /\ row.scope = a.scope
               /\ LaterSource(a, row)
<1> DEFINE b == Protect(a)
<1>1. /\ b \in SourceRows /\ b.rev = a.rev + 1 /\ b.epoch = a.epoch + 1
      /\ b.scope = a.scope /\ b.owner = a.owner /\ b.temp = a.temp
      /\ b.until = a.until /\ b.status = a.status /\ b.text = a.text
      /\ b.self = a.self /\ b.use = a.use
  BY ProtectedSource
<1> HIDE DEF b
<1> DEFINE row == [b EXCEPT !.status = "SUSPENDED"]
<1>2. row \in SourceRows BY <1>1 DEF SourceRows
<1>3. /\ row.rev = b.rev /\ row.epoch = b.epoch
      /\ row.scope = b.scope /\ row.owner = b.owner /\ row.temp = b.temp
      /\ row.until = b.until /\ row.text = b.text /\ row.self = b.self
      /\ row.use = b.use
      /\ row.status = "SUSPENDED"
  BY <1>1 DEF SourceRows
<1> HIDE DEF row
<1>4. a.rev \in Nat /\ a.epoch \in Nat BY DEF SourceRows
<1>5. LaterSource(a, row) BY <1>1, <1>3, <1>4 DEF LaterSource
<1> QED BY <1>1, <1>2, <1>3, <1>5 DEF row, b

LEMMA RescopedSource ==
    ASSUME NEW a \in SourceRows, NEW sc \in Scopes
    PROVE  LET row == [Protect(a) EXCEPT !.scope = sc]
           IN  /\ row \in SourceRows /\ row.rev = a.rev + 1 /\ row.epoch = a.epoch + 1
               /\ row.scope = sc /\ row.text = a.text
               /\ LaterSource(a, row)
<1> DEFINE b == Protect(a)
<1>1. /\ b \in SourceRows /\ b.rev = a.rev + 1 /\ b.epoch = a.epoch + 1
      /\ b.scope = a.scope /\ b.owner = a.owner /\ b.temp = a.temp
      /\ b.until = a.until /\ b.status = a.status /\ b.text = a.text
      /\ b.self = a.self /\ b.use = a.use
  BY ProtectedSource
<1> HIDE DEF b
<1> DEFINE row == [b EXCEPT !.scope = sc]
<1>2. row \in SourceRows BY <1>1 DEF SourceRows
<1>3. /\ row.rev = b.rev /\ row.epoch = b.epoch
      /\ row.owner = b.owner /\ row.temp = b.temp /\ row.until = b.until
      /\ row.status = b.status /\ row.text = b.text /\ row.self = b.self
      /\ row.use = b.use
      /\ row.scope = sc
  BY <1>1 DEF SourceRows
<1> HIDE DEF row
<1>4. a.rev \in Nat /\ a.epoch \in Nat BY DEF SourceRows
<1>5. LaterSource(a, row) BY <1>1, <1>3, <1>4 DEF LaterSource
<1> QED BY <1>1, <1>2, <1>3, <1>5 DEF row, b

LEMMA ValuedRow ==
    ASSUME NEW a \in PersonRows, NEW v \in Values
    PROVE  LET row == [Touch(a) EXCEPT !.value = v]
           IN  /\ row \in PersonRows /\ row.rev = a.rev + 1 /\ row.epoch = a.epoch
               /\ row.scope = a.scope
               /\ LaterPerson(a, row)
<1> DEFINE b == Touch(a)
<1>1. /\ b \in PersonRows /\ b.rev = a.rev + 1 /\ b.epoch = a.epoch
      /\ b.scope = a.scope /\ b.source = a.source /\ b.owner = a.owner
      /\ b.value = a.value /\ b.status = a.status
  BY TouchedPerson
<1> HIDE DEF b
<1> DEFINE row == [b EXCEPT !.value = v]
<1>2. row \in PersonRows BY <1>1 DEF PersonRows
<1>3. /\ row.rev = b.rev /\ row.epoch = b.epoch
      /\ row.scope = b.scope /\ row.source = b.source /\ row.owner = b.owner
      /\ row.status = b.status
      /\ row.value = v
  BY <1>1 DEF PersonRows
<1> HIDE DEF row
<1>4. a.rev \in Nat /\ a.epoch \in Nat BY DEF PersonRows
<1>5. LaterPerson(a, row) BY <1>1, <1>3, <1>4 DEF LaterPerson
<1> QED BY <1>1, <1>2, <1>3, <1>5 DEF row, b

LEMMA MergedRow ==
    ASSUME NEW a \in PersonRows, NEW v \in Values
    PROVE  LET row == [Protect(a) EXCEPT !.value = v]
           IN  /\ row \in PersonRows /\ row.rev = a.rev + 1 /\ row.epoch = a.epoch + 1
               /\ row.scope = a.scope
               /\ LaterPerson(a, row)
<1> DEFINE b == Protect(a)
<1>1. /\ b \in PersonRows /\ b.rev = a.rev + 1 /\ b.epoch = a.epoch + 1
      /\ b.scope = a.scope /\ b.source = a.source /\ b.owner = a.owner
      /\ b.value = a.value /\ b.status = a.status
  BY ProtectedPerson
<1> HIDE DEF b
<1> DEFINE row == [b EXCEPT !.value = v]
<1>2. row \in PersonRows BY <1>1 DEF PersonRows
<1>3. /\ row.rev = b.rev /\ row.epoch = b.epoch
      /\ row.scope = b.scope /\ row.source = b.source /\ row.owner = b.owner
      /\ row.status = b.status
      /\ row.value = v
  BY <1>1 DEF PersonRows
<1> HIDE DEF row
<1>4. a.rev \in Nat /\ a.epoch \in Nat BY DEF PersonRows
<1>5. LaterPerson(a, row) BY <1>1, <1>3, <1>4 DEF LaterPerson
<1> QED BY <1>1, <1>2, <1>3, <1>5 DEF row, b

LEMMA StatusRow ==
    ASSUME NEW a \in PersonRows, NEW st \in {"ACTIVE", "ARCHIVED"}
    PROVE  LET row == [Protect(a) EXCEPT !.status = st]
           IN  /\ row \in PersonRows /\ row.rev = a.rev + 1 /\ row.epoch = a.epoch + 1
               /\ row.scope = a.scope
               /\ LaterPerson(a, row)
<1> DEFINE b == Protect(a)
<1>1. /\ b \in PersonRows /\ b.rev = a.rev + 1 /\ b.epoch = a.epoch + 1
      /\ b.scope = a.scope /\ b.source = a.source /\ b.owner = a.owner
      /\ b.value = a.value /\ b.status = a.status
  BY ProtectedPerson
<1> HIDE DEF b
<1> DEFINE row == [b EXCEPT !.status = st]
<1>2. row \in PersonRows BY <1>1 DEF PersonRows
<1>3. /\ row.rev = b.rev /\ row.epoch = b.epoch
      /\ row.scope = b.scope /\ row.source = b.source /\ row.owner = b.owner
      /\ row.value = b.value
      /\ row.status = st
  BY <1>1 DEF PersonRows
<1> HIDE DEF row
<1>4. a.rev \in Nat /\ a.epoch \in Nat BY DEF PersonRows
<1>5. LaterPerson(a, row) BY <1>1, <1>3, <1>4 DEF LaterPerson
<1> QED BY <1>1, <1>2, <1>3, <1>5 DEF row, b

LEMMA RescopedPerson ==
    ASSUME NEW a \in PersonRows, NEW sc \in Scopes
    PROVE  LET row == [Protect(a) EXCEPT !.scope = sc]
           IN  /\ row \in PersonRows /\ row.rev = a.rev + 1 /\ row.epoch = a.epoch + 1
               /\ row.scope = sc /\ row.value = a.value
               /\ LaterPerson(a, row)
<1> DEFINE b == Protect(a)
<1>1. /\ b \in PersonRows /\ b.rev = a.rev + 1 /\ b.epoch = a.epoch + 1
      /\ b.scope = a.scope /\ b.source = a.source /\ b.owner = a.owner
      /\ b.value = a.value /\ b.status = a.status
  BY ProtectedPerson
<1> HIDE DEF b
<1> DEFINE row == [b EXCEPT !.scope = sc]
<1>2. row \in PersonRows BY <1>1 DEF PersonRows
<1>3. /\ row.rev = b.rev /\ row.epoch = b.epoch
      /\ row.source = b.source /\ row.owner = b.owner /\ row.value = b.value
      /\ row.status = b.status
      /\ row.scope = sc
  BY <1>1 DEF PersonRows
<1> HIDE DEF row
<1>4. a.rev \in Nat /\ a.epoch \in Nat BY DEF PersonRows
<1>5. LaterPerson(a, row) BY <1>1, <1>3, <1>4 DEF LaterPerson
<1> QED BY <1>1, <1>2, <1>3, <1>5 DEF row, b

LEMMA UpdateSourceKeeps ==
    ASSUME RecordsInv, NEW m \in Members, NEW s \in DOMAIN source, NEW v \in Values,
           UpdateSource(m, s, v)
    PROVE  RecordsInv' /\ Forward
<1> DEFINE row == [Touch(source[s]) EXCEPT !.text = v]
<1>1. source[s] \in SourceRows /\ scope[source[s].scope] # {}
  BY DEF RecordsInv, RowsSound, SourcesSound
<1>2. /\ row \in SourceRows /\ row.rev = source[s].rev + 1 /\ row.scope = source[s].scope
      /\ LaterSource(source[s], row)
  BY <1>1, EditedRow
<1>3. PutSource(s, row) BY DEF UpdateSource, EditedSource
<1> HIDE DEF row
<1>4. scope[row.scope] # {} BY <1>1, <1>2 DEF UpdateSource, ScopeVisible
<1> QED BY <1>2, <1>3, <1>4, SourceWritten DEF UpdateSource

LEMMA ReviewSourceKeeps ==
    ASSUME RecordsInv, NEW m \in Members, NEW s \in DOMAIN source,
           ReviewSource(m, s, now + Lease)
    PROVE  RecordsInv' /\ Forward
<1> DEFINE row == Reviewed(source[s], now + Lease)
<1>1. source[s] \in SourceRows /\ scope[source[s].scope] # {}
  BY DEF RecordsInv, RowsSound, SourcesSound
<1>2. /\ row \in SourceRows /\ row.rev = source[s].rev + 1 /\ row.scope = source[s].scope
      /\ LaterSource(source[s], row)
  BY <1>1, ReviewedRow, Deadlines DEF Reviewed, RecordsInv
<1>3. PutSource(s, row) BY DEF ReviewSource
<1> HIDE DEF row
<1>4. scope[row.scope] # {} BY <1>1, <1>2 DEF ReviewSource, ScopeVisible
<1> QED BY <1>2, <1>3, <1>4, SourceWritten DEF ReviewSource

LEMMA SuspendSourceKeeps ==
    ASSUME RecordsInv, NEW m \in Members, NEW s \in DOMAIN source,
           SuspendSource(m, s)
    PROVE  RecordsInv' /\ Forward
<1> DEFINE row == [Protect(source[s]) EXCEPT !.status = "SUSPENDED"]
<1>1. source[s] \in SourceRows /\ scope[source[s].scope] # {}
  BY DEF RecordsInv, RowsSound, SourcesSound
<1>2. /\ row \in SourceRows /\ row.rev = source[s].rev + 1 /\ row.scope = source[s].scope
      /\ LaterSource(source[s], row)
  BY <1>1, SuspendedRow
<1>3. PutSource(s, row) BY DEF SuspendSource
<1> HIDE DEF row
<1>4. scope[row.scope] # {} BY <1>1, <1>2 DEF SuspendSource, ScopeVisible
<1> QED BY <1>2, <1>3, <1>4, SourceWritten DEF SuspendSource

LEMMA ChangeSourceScopeKeeps ==
    ASSUME RecordsInv, NEW m \in Members, NEW s \in DOMAIN source, NEW sc \in Scopes,
           ChangeSourceScope(m, s, sc)
    PROVE  RecordsInv' /\ Forward
<1> DEFINE row == [Protect(source[s]) EXCEPT !.scope = sc]
<1>1. source[s] \in SourceRows /\ scope[source[s].scope] # {}
  BY DEF RecordsInv, RowsSound, SourcesSound
<1>2. /\ row \in SourceRows /\ row.rev = source[s].rev + 1 /\ row.scope = sc
      /\ LaterSource(source[s], row)
  BY <1>1, RescopedSource
<1>3. PutSource(s, row) BY DEF ChangeSourceScope
<1> HIDE DEF row
<1>4. scope[row.scope] # {} BY <1>1, <1>2 DEF ChangeSourceScope, ScopeVisible
<1> QED BY <1>2, <1>3, <1>4, SourceWritten DEF ChangeSourceScope

LEMMA CreatePersonKeeps ==
    ASSUME RecordsInv, NEW m \in Members, NEW p, NEW s \in DOMAIN source, NEW v \in Values,
           CreatePerson(m, p, s, v)
    PROVE  RecordsInv' /\ Forward
<1> DEFINE row == [scope |-> source[s].scope, source |-> s, owner |-> m,
                   value |-> v, status |-> "DRAFT", rev |-> 1, epoch |-> 1]
<1>1. RowsSound /\ requests' \in 0..MaxRequests
  BY CommandCounts DEF RecordsInv, CreatePerson
<1>2. source[s] \in SourceRows /\ scope[source[s].scope] # {} /\ s \in Sources
  BY <1>1 DEF RowsSound, SourcesSound
<1>3. row \in PersonRows /\ row.source = s /\ row.scope = source[s].scope
  BY <1>2 DEF SourceRows, PersonRows
<1>4. /\ p \in People \ DOMAIN person
      /\ person' = Added(person, p, row) /\ contacts' = Added(contacts, p, {})
  BY DEF CreatePerson
<1> HIDE DEF row
<1>5. OthersSound' /\ OthersAdvance /\ ScopesStay
  BY <1>1, OthersStand DEF CreatePerson, RowsSound, OthersSound
<1>6. SourcesSound' /\ SourcesAdvance BY <1>1, <1>5, SourcesStand DEF CreatePerson
<1>7. PeopleSound' /\ PeopleAdvance
  BY <1>1, <1>2, <1>3, <1>4, <1>5, <1>6, PersonAdded
<1> QED BY <1>5, <1>6, <1>7, RowStep DEF CreatePerson, RowsSound, Advance

\* A command that writes one person and nothing else
LEMMA PersonWritten ==
    ASSUME RecordsInv, NEW m, NEW ps, Command(m, ps), NEW p \in DOMAIN person,
           NEW row \in PersonRows, person' = [person EXCEPT ![p] = row],
           LaterPerson(person[p], row), scope[row.scope] # {},
           UNCHANGED <<now, member, scope, source, history, contacts, evidence, handoff,
                       review, blocked, merged, form>>
    PROVE  RecordsInv' /\ Forward
<1>1. RowsSound /\ requests' \in 0..MaxRequests BY CommandCounts DEF RecordsInv
<1>2. /\ merged \subseteq merged' /\ merged' \subseteq People
      /\ blocked \subseteq blocked' /\ blocked' \subseteq People \cup Sources
      /\ DOMAIN contacts' = DOMAIN person
      /\ \A q \in DOMAIN person : contacts'[q] \subseteq DOMAIN source
  BY <1>1 DEF RowsSound, OthersSound, PeopleSound
<1>3. RowsSound' /\ Advance BY <1>1, <1>2, PersonChange
<1> QED BY <1>3, RowStep

LEMMA PersonRow ==
    ASSUME RecordsInv, NEW p \in DOMAIN person
    PROVE  person[p] \in PersonRows /\ scope[person[p].scope] # {}
BY DEF RecordsInv, RowsSound, PeopleSound

LEMMA UpdatePersonKeeps ==
    ASSUME RecordsInv, NEW m \in Members, NEW p \in DOMAIN person, NEW v \in Values,
           UpdatePerson(m, p, v)
    PROVE  RecordsInv' /\ Forward
<1> DEFINE row == [Touch(person[p]) EXCEPT !.value = v]
<1>1. person[p] \in PersonRows /\ scope[person[p].scope] # {} BY PersonRow
<1>2. /\ row \in PersonRows /\ row.scope = person[p].scope /\ LaterPerson(person[p], row)
  BY <1>1, ValuedRow
<1>3. person' = [person EXCEPT ![p] = row] BY DEF UpdatePerson
<1> HIDE DEF row
<1> QED BY <1>1, <1>2, <1>3, PersonWritten DEF UpdatePerson

LEMMA ChangeStatusKeeps ==
    ASSUME RecordsInv, NEW m \in Members, NEW p \in DOMAIN person,
           NEW st \in {"ACTIVE", "ARCHIVED"}, ChangeStatus(m, p, st)
    PROVE  RecordsInv' /\ Forward
<1> DEFINE row == WithStatus(person[p], st)
<1>1. person[p] \in PersonRows /\ scope[person[p].scope] # {} BY PersonRow
<1>2. /\ row \in PersonRows /\ row.scope = person[p].scope /\ LaterPerson(person[p], row)
  BY <1>1, StatusRow DEF WithStatus
<1>3. person' = [person EXCEPT ![p] = row] BY DEF ChangeStatus
<1> HIDE DEF row
<1> QED BY <1>1, <1>2, <1>3, PersonWritten DEF ChangeStatus

LEMMA ChangePersonScopeKeeps ==
    ASSUME RecordsInv, NEW m \in Members, NEW p \in DOMAIN person, NEW sc \in Scopes,
           ChangePersonScope(m, p, sc)
    PROVE  RecordsInv' /\ Forward
<1> DEFINE row == [Protect(person[p]) EXCEPT !.scope = sc]
<1>1. person[p] \in PersonRows BY PersonRow
<1>2. /\ row \in PersonRows /\ row.scope = sc /\ LaterPerson(person[p], row)
  BY <1>1, RescopedPerson
<1>3. person' = [person EXCEPT ![p] = row] BY DEF ChangePersonScope
<1>4. scope[sc] # {} BY DEF ChangePersonScope, ScopeVisible
<1> HIDE DEF row
<1> QED BY <1>2, <1>3, <1>4, PersonWritten DEF ChangePersonScope

\* A command that writes none of the rows
LEMMA RowsStand ==
    ASSUME RowsSound, requests' \in 0..MaxRequests,
           UNCHANGED <<now, member, scope, source, history, person, contacts, blocked, merged>>
    PROVE  RowsSound' /\ Advance
<1>1. OthersSound' /\ OthersAdvance /\ ScopesStay
  BY OthersStand DEF RowsSound, OthersSound
<1>2. SourcesSound' /\ SourcesAdvance BY <1>1, SourcesStand
<1>3. PeopleSound' /\ PeopleAdvance BY <1>1, <1>2, PeopleStand
<1> QED BY <1>1, <1>2, <1>3 DEF RowsSound, Advance

LEMMA ReplaceContactsKeeps ==
    ASSUME RecordsInv, NEW m \in Members, NEW p \in DOMAIN person,
           NEW ss \in SUBSET DOMAIN source, ReplaceContacts(m, p, ss)
    PROVE  RecordsInv' /\ Forward
<1> DEFINE row == Touch(person[p])
<1>1. person[p] \in PersonRows /\ scope[person[p].scope] # {} BY PersonRow
<1>2. /\ row \in PersonRows /\ row.scope = person[p].scope /\ LaterPerson(person[p], row)
  BY <1>1, TouchedPerson DEF LaterPerson, PersonRows
<1>3. person' = [person EXCEPT ![p] = row] BY DEF ReplaceContacts
<1>4. RowsSound /\ requests' \in 0..MaxRequests
  BY CommandCounts DEF RecordsInv, ReplaceContacts
<1>5. /\ merged \subseteq merged' /\ merged' \subseteq People
      /\ blocked \subseteq blocked' /\ blocked' \subseteq People \cup Sources
      /\ DOMAIN contacts' = DOMAIN person
      /\ \A q \in DOMAIN person : contacts'[q] \subseteq DOMAIN source
  BY <1>4 DEF RowsSound, OthersSound, PeopleSound, ReplaceContacts
<1> HIDE DEF row
<1>6. RowsSound' /\ Advance BY <1>1, <1>2, <1>3, <1>4, <1>5, PersonChange DEF ReplaceContacts
<1> QED BY <1>6, RowStep DEF ReplaceContacts

LEMMA CompareKeeps ==
    ASSUME RecordsInv, NEW m \in Members, NEW p \in DOMAIN person, NEW s \in DOMAIN source,
           Compare(m, p, s)
    PROVE  RecordsInv' /\ Forward
<1>1. RowsSound BY DEF RecordsInv
<1>2. RowsSound' /\ Advance BY <1>1, RowsStand DEF Compare, RowsSound, OthersSound
<1>3. person[p] \in PersonRows /\ source[s] \in SourceRows /\ p \in People /\ s \in Sources
  BY <1>1 DEF RowsSound, PeopleSound, SourcesSound
<1>4. FormSound' BY <1>3 DEF Compare, FormSound, Seen, PersonRows, SourceRows
<1> QED BY <1>1, <1>2, <1>4, HandoffsStand, ReviewsStand, EvidenceStands
        DEF RecordsInv, Forward, Compare

LEMMA EvidenceGrows ==
    ASSUME RowsSound, RowsSound', Advance, EvidenceSound, NEW e \in FieldEvidence,
           FactSound(e)', evidence' = evidence \cup {e}
    PROVE  EvidenceSound'
<1>1. \A f \in evidence : FactSound(f)' BY FactStays DEF EvidenceSound
<1> QED BY <1>1 DEF EvidenceSound

LEMMA ConfirmEvidenceKeeps ==
    ASSUME RecordsInv, NEW m \in Members, form # NoForm, ConfirmEvidence(m)
    PROVE  RecordsInv' /\ Forward
<1>1. RowsSound /\ requests' \in 0..MaxRequests
  BY CommandCounts DEF RecordsInv, ConfirmEvidence
<1>2. PICK p, s : p = form.person /\ s = form.source OBVIOUS
<1>3. /\ p \in DOMAIN person /\ s \in DOMAIN source
      /\ person[p].value = form.value /\ source[s].text = form.text
      /\ source[s].rev = form.srev
      /\ form.value \in Values /\ form.text \in Values
  BY <1>2 DEF RecordsInv, FormSound, Seen, ConfirmEvidence
<1>4. person[p] \in PersonRows /\ scope[person[p].scope] # {} /\ source[s] \in SourceRows
      /\ p \in People /\ s \in Sources
  BY <1>1, <1>3 DEF RowsSound, PeopleSound, SourcesSound
<1> DEFINE row == Touch(person[p])
<1>5. /\ row \in PersonRows /\ row.scope = person[p].scope /\ LaterPerson(person[p], row)
  BY <1>4, TouchedPerson DEF LaterPerson, PersonRows
<1>6. person' = [person EXCEPT ![p] = row] BY <1>2 DEF ConfirmEvidence
<1> HIDE DEF row
<1>7. /\ merged \subseteq merged' /\ merged' \subseteq People
      /\ blocked \subseteq blocked' /\ blocked' \subseteq People \cup Sources
      /\ DOMAIN contacts' = DOMAIN person
      /\ \A q \in DOMAIN person : contacts'[q] \subseteq DOMAIN source
  BY <1>1 DEF RowsSound, OthersSound, PeopleSound, ConfirmEvidence
<1>8. RowsSound' /\ Advance
  BY <1>1, <1>3, <1>4, <1>5, <1>6, <1>7, PersonChange DEF ConfirmEvidence
<1>9. PICK e : e = [person |-> p, source |-> s, srev |-> source[s].rev,
                    value |-> person[p].value, sawValue |-> form.value, sawText |-> form.text]
  OBVIOUS
<1>10. e \in FieldEvidence BY <1>3, <1>4, <1>9 DEF FieldEvidence, PersonRows, SourceRows
<1>11. FactSound(e)'
  <2>1. DOMAIN person' = DOMAIN person /\ source' = source BY <1>6 DEF ConfirmEvidence
  <2>2. source[s].rev \in Nat BY <1>4 DEF SourceRows
  <2> QED BY <2>1, <2>2, <1>3, <1>9 DEF FactSound
<1>12. evidence' = evidence \cup {e} BY <1>2, <1>9 DEF ConfirmEvidence
<1>13. EvidenceSound' BY <1>1, <1>8, <1>10, <1>11, <1>12, EvidenceGrows DEF RecordsInv
<1>14. FormSound' BY DEF FormSound, ConfirmEvidence
<1> QED BY <1>1, <1>8, <1>13, <1>14, HandoffsStand, ReviewsStand
        DEF RecordsInv, Forward, ConfirmEvidence

LEMMA AdoptSubmissionKeeps ==
    ASSUME RecordsInv, NEW m \in Members, NEW p \in DOMAIN person, NEW s, NEW v \in Values,
           AdoptSubmission(m, p, s, v)
    PROVE  RecordsInv' /\ Forward
<1>1. RowsSound /\ requests' \in 0..MaxRequests
  BY CommandCounts DEF RecordsInv, AdoptSubmission
<1>2. person[p] \in PersonRows /\ scope[person[p].scope] # {} /\ p \in People
  BY <1>1 DEF RowsSound, PeopleSound
<1> DEFINE row == [Touch(person[p]) EXCEPT !.value = v]
           fresh == [scope |-> person[p].scope, owner |-> m, temp |-> FALSE,
                    until |-> now + Lease, status |-> "CONFIRMED", text |-> v,
                    self |-> TRUE, use |-> now + Lease, rev |-> 1, epoch |-> 1]
<1>3. fresh \in SourceRows /\ fresh.rev = 1 /\ fresh.scope = person[p].scope /\ fresh.text = v
  BY <1>1, <1>2, Deadlines DEF SourceRows, PersonRows
<1>4. InsertSource(s, fresh) BY DEF AdoptSubmission
<1> HIDE DEF fresh
<1>5. /\ row \in PersonRows /\ row.scope = person[p].scope /\ LaterPerson(person[p], row)
  BY <1>2, ValuedRow
<1>6. person' = [person EXCEPT ![p] = row] BY DEF AdoptSubmission
<1> HIDE DEF row
<1>7. OthersSound' /\ OthersAdvance /\ ScopesStay
  BY <1>1, OthersStand DEF AdoptSubmission, RowsSound, OthersSound
<1>8. scope'[fresh.scope] # {} BY <1>2, <1>3 DEF AdoptSubmission
<1>9. SourcesSound' /\ SourcesAdvance BY <1>1, <1>3, <1>4, <1>7, <1>8, SourceAdded
<1>10. /\ DOMAIN contacts' = DOMAIN person
       /\ \A q \in DOMAIN person : contacts'[q] \subseteq DOMAIN source
  BY <1>1 DEF RowsSound, PeopleSound, AdoptSubmission
<1>11. PeopleSound' /\ PeopleAdvance
  BY <1>1, <1>2, <1>5, <1>6, <1>7, <1>9, <1>10, PersonMoves
<1>12. RowsSound' /\ Advance BY <1>7, <1>9, <1>11 DEF RowsSound, Advance
<1>13. PICK e : e = [person |-> p, source |-> s, srev |-> 1, value |-> v, sawValue |-> v,
                     sawText |-> v]
  OBVIOUS
<1>14. e \in FieldEvidence /\ evidence' = evidence \cup {e}
  BY <1>2, <1>4, <1>13 DEF FieldEvidence, AdoptSubmission, InsertSource
<1>15. FactSound(e)'
  <2>1. s \in DOMAIN source' /\ source'[s] = fresh BY <1>4 DEF InsertSource, Added
  <2>2. p \in DOMAIN person' BY <1>6
  <2> QED BY <2>1, <2>2, <1>3, <1>13 DEF FactSound
<1>16. EvidenceSound' BY <1>1, <1>12, <1>14, <1>15, EvidenceGrows DEF RecordsInv
<1> QED BY <1>1, <1>12, <1>16, HandoffsStand, ReviewsStand, FormStands
        DEF RecordsInv, Forward, AdoptSubmission

LEMMA RevokeConsentKeeps ==
    ASSUME RecordsInv, NEW s \in DOMAIN source, RevokeConsent(s)
    PROVE  RecordsInv' /\ Forward
<1>1. RowsSound BY DEF RecordsInv
<1>2. \A x \in DOMAIN source : source[x] \in SourceRows
  BY <1>1 DEF RowsSound, SourcesSound
<1> DEFINE row == [source[s] EXCEPT !.use = now, !.epoch = @ + 1]
<1>3. row \in SourceRows
  <2>1. source[s].epoch + 1 \in Nat /\ now \in Times BY <1>1, <1>2, Deadlines DEF SourceRows
  <2>2. \A x \in Times, y \in Nat : [source[s] EXCEPT !.use = x, !.epoch = y] \in SourceRows
    BY <1>2 DEF SourceRows
  <2> QED BY <2>1, <2>2
<1>4. /\ row.rev = source[s].rev /\ row.text = source[s].text /\ row.scope = source[s].scope
      /\ row.status = source[s].status /\ row.epoch = source[s].epoch + 1
      /\ row.owner = source[s].owner /\ row.self = source[s].self
  BY <1>2 DEF SourceRows
<1>5. source' = [source EXCEPT ![s] = row] BY DEF RevokeConsent
<1> HIDE DEF row
<1>6. DOMAIN source' = DOMAIN source /\ source'[s] = row
      /\ \A x \in DOMAIN source \ {s} : source'[x] = source[x]
  BY <1>5
<1>7. Version(row) = Version(source[s]) BY <1>4 DEF Version
<1>8. requests' \in 0..MaxRequests BY <1>1 DEF RevokeConsent, RowsSound, OthersSound
<1>9. OthersSound' /\ OthersAdvance /\ ScopesStay
  BY <1>1, <1>8, OthersStand DEF RevokeConsent, RowsSound, OthersSound
<1>10. ASSUME NEW x \in DOMAIN source'
       PROVE  /\ source'[x] \in SourceRows /\ scope'[source'[x].scope] # {}
              /\ history'[x] \in Seq(Versions)
              /\ Len(history'[x]) = source'[x].rev
              /\ history'[x][Len(history'[x])] = Version(source'[x])
  <2>1. CASE x = s
    BY <1>1, <1>3, <1>4, <1>6, <1>7, <2>1 DEF RowsSound, SourcesSound, RevokeConsent
  <2>2. CASE x # s BY <1>1, <1>6, <2>2 DEF RowsSound, SourcesSound, RevokeConsent
  <2> QED BY <2>1, <2>2
<1>11. SourcesSound'
  BY <1>1, <1>6, <1>10 DEF RowsSound, SourcesSound, RevokeConsent, Version
<1>12. LaterSource(source[s], row) BY <1>2, <1>4 DEF LaterSource, SourceRows
<1>13. SourcesAdvance BY <1>2, <1>6, <1>12 DEF SourcesAdvance, LaterSource, SourceRows
<1>14. PeopleSound' /\ PeopleAdvance BY <1>1, <1>9, <1>13, PeopleStand DEF RevokeConsent
<1>15. RowsSound' /\ Advance BY <1>9, <1>11, <1>13, <1>14 DEF RowsSound, Advance
<1> QED BY <1>15, RowStep DEF RevokeConsent

LEMMA SnapshotIsGround ==
    ASSUME RowsSound, NEW p \in DOMAIN person, NEW ms \in SUBSET Members
    PROVE  Snapshot(p, ms) \in Grounds /\ DOMAIN Snapshot(p, ms).members = ms
<1>1. /\ person[p] \in PersonRows /\ source[person[p].source] \in SourceRows
      /\ \A x \in ms : member[x] \in Memberships
  BY DEF RowsSound, PeopleSound, SourcesSound, OthersSound
<1>2. [x \in ms |-> member[x].rev] \in [ms -> Nat] BY <1>1 DEF Memberships
<1> QED BY <1>1, <1>2 DEF Snapshot, Grounds, PersonRows, SourceRows

\* What is asked for stands on the rows of this moment.
LEMMA AskedIsGrounded ==
    ASSUME RowsSound, NEW p \in DOMAIN person, NEW ms \in SUBSET Members, NEW g,
           g.person = p, g.source = person[p].source, g.at = Snapshot(p, ms),
           g.value = person[p].value, g.text = source[person[p].source].text
    PROVE  Grounded(g)
<1>1. /\ person[p] \in PersonRows /\ source[g.source] \in SourceRows
      /\ g.source \in DOMAIN source /\ \A x \in ms : member[x] \in Memberships
  BY DEF RowsSound, PeopleSound, SourcesSound, OthersSound
<1>2. /\ g.at.personRev = person[p].rev /\ g.at.sourceRev = source[g.source].rev
      /\ g.at.personEpoch = person[p].epoch /\ g.at.sourceEpoch = source[g.source].epoch
      /\ DOMAIN g.at.members = ms
      /\ \A x \in ms : g.at.members[x] = member[x].rev
  BY DEF Snapshot
<1> QED BY <1>1, <1>2 DEF Grounded, Seen, PersonRows, SourceRows, Memberships

LEMMA OfferKeeps ==
    ASSUME RecordsInv, NEW m \in Members, NEW p \in DOMAIN person, NEW h, NEW r \in Members,
           NEW purpose \in {"EDIT", "REVIEW"}, Offer(m, p, h, r, purpose, now + 1)
    PROVE  RecordsInv' /\ Forward
<1>1. RowsSound /\ requests' \in 0..MaxRequests BY CommandCounts DEF RecordsInv, Offer
<1>2. RowsSound' /\ Advance BY <1>1, RowsStand DEF Offer
<1>3. PICK g : g = [person |-> p, source |-> person[p].source, sender |-> m, recipient |-> r,
                    purpose |-> purpose, until |-> now + 1, at |-> Snapshot(p, {m, r}),
                    state |-> "PENDING", value |-> person[p].value,
                    text |-> source[person[p].source].text]
  OBVIOUS
<1>4. handoff' = Added(handoff, h, g) /\ h \in Grants \ DOMAIN handoff
  BY <1>3 DEF Offer
<1>5. /\ DOMAIN handoff' = DOMAIN handoff \cup {h} /\ handoff'[h] = g
      /\ \A x \in DOMAIN handoff : handoff'[x] = handoff[x]
  BY <1>4 DEF Added
<1>6. g \in HandoffRows /\ {g.sender, g.recipient} = DOMAIN g.at.members
  <2>1. Snapshot(p, {m, r}) \in Grounds /\ DOMAIN Snapshot(p, {m, r}).members = {m, r}
    BY <1>1, SnapshotIsGround
  <2>2. /\ person[p] \in PersonRows /\ source[person[p].source] \in SourceRows /\ p \in People
    BY <1>1 DEF RowsSound, PeopleSound, SourcesSound
  <2>3. now + 1 \in Nat BY <1>1, RecordsConstants DEF RowsSound, OthersSound
  <2> QED BY <1>3, <2>1, <2>2, <2>3 DEF HandoffRows, PersonRows, SourceRows
<1>7. Grounded(g)'
  <2>1. Grounded(g) BY <1>1, <1>3, AskedIsGrounded
  <2> QED BY <1>1, <1>2, <1>6, <2>1, GroundStays DEF HandoffRows
<1>8. HandoffsAdvance BY <1>5 DEF HandoffsAdvance, RecordsInv, HandoffsSound, HandoffRows
<1>9. ASSUME NEW x \in DOMAIN handoff'
      PROVE  /\ handoff'[x] \in HandoffRows /\ Grounded(handoff[x])'
             /\ {handoff'[x].sender, handoff'[x].recipient} = DOMAIN handoff'[x].at.members
  <2>1. CASE x = h
    <3>1. Grounded(handoff[h])' BY <1>5, <1>7 DEF Grounded, Seen
    <3> QED BY <1>5, <1>6, <2>1, <3>1
  <2>2. CASE x \in DOMAIN handoff
    <3>1. /\ handoff[x] \in HandoffRows /\ Grounded(handoff[x])
          /\ {handoff[x].sender, handoff[x].recipient} = DOMAIN handoff[x].at.members
      BY <2>2 DEF RecordsInv, HandoffsSound
    <3>2. PICK y : y = handoff[x] OBVIOUS
    <3>3. Grounded(y)' BY <1>1, <1>2, <3>1, <3>2, GroundStays DEF HandoffRows
    <3>4. Grounded(handoff[x])' BY <1>5, <2>2, <3>2, <3>3 DEF Grounded, Seen
    <3> QED BY <1>5, <2>2, <3>1, <3>4
  <2> QED BY <1>5, <2>1, <2>2
<1>10. HandoffsSound'
  BY <1>4, <1>5, <1>9 DEF HandoffsSound, RecordsInv
<1>11. \A x \in DOMAIN handoff : HandoffCurrent(handoff[x])' => HandoffCurrent(handoff[x])
  BY <1>1, <1>2, <1>8, EndedStays DEF RecordsInv
<1>12. ASSUME NEW x \in DOMAIN handoff, HandoffCurrent(handoff[x])',
              handoff[x].person = p, handoff[x].recipient = r, handoff[x].purpose = purpose
       PROVE  FALSE
  BY <1>11, <1>12 DEF Offer, Unfinished, HandoffCurrent
<1>13. OneHandoffEach'
  <2> SUFFICES ASSUME NEW x \in DOMAIN handoff', NEW y \in DOMAIN handoff',
                      HandoffCurrent(handoff[x])', HandoffCurrent(handoff[y])',
                      handoff'[x].person = handoff'[y].person,
                      handoff'[x].recipient = handoff'[y].recipient,
                      handoff'[x].purpose = handoff'[y].purpose
               PROVE  x = y
    BY DEF OneHandoffEach
  <2>1. g.person = p /\ g.recipient = r /\ g.purpose = purpose BY <1>3
  <2>2. CASE x = h /\ y \in DOMAIN handoff BY <1>5, <1>12, <2>1, <2>2
  <2>3. CASE y = h /\ x \in DOMAIN handoff BY <1>5, <1>12, <2>1, <2>3
  <2>4. CASE x \in DOMAIN handoff /\ y \in DOMAIN handoff
    BY <1>5, <1>11, <2>4 DEF OneHandoffEach, RecordsInv
  <2> QED BY <1>5, <2>2, <2>3, <2>4
<1> QED BY <1>1, <1>2, <1>8, <1>10, <1>13, ReviewsStand, EvidenceStands, FormStands
        DEF RecordsInv, Forward, Offer

\* A step that only moves handoffs
LEMMA HandoffStep ==
    ASSUME RecordsInv, RowsSound', Advance, HandoffsAdvance, DOMAIN handoff' = DOMAIN handoff,
           UNCHANGED <<evidence, review, form>>
    PROVE  RecordsInv' /\ Forward
BY HandoffsKeep, ReviewsStand, EvidenceStands, FormStands DEF RecordsInv, Forward

LEMMA AcceptHandoffKeeps ==
    ASSUME RecordsInv, NEW m \in Members, NEW h \in DOMAIN handoff, AcceptHandoff(m, h)
    PROVE  RecordsInv' /\ Forward
<1>1. RowsSound /\ requests' \in 0..MaxRequests
  BY CommandCounts DEF RecordsInv, AcceptHandoff
<1>2. RowsSound' /\ Advance BY <1>1, RowsStand DEF AcceptHandoff
<1>3. HandoffsAdvance
  BY DEF HandoffsAdvance, RecordsInv, HandoffsSound, HandoffRows, AcceptHandoff
<1> QED BY <1>2, <1>3, HandoffStep DEF AcceptHandoff

LEMMA CloseHandoffKeeps ==
    ASSUME RecordsInv, NEW m \in Members, NEW h \in DOMAIN handoff,
           NEW st \in {"REVOKED", "DECLINED"}, CloseHandoff(m, h, st)
    PROVE  RecordsInv' /\ Forward
<1>1. RowsSound /\ requests' \in 0..MaxRequests
  BY CommandCounts DEF RecordsInv, CloseHandoff
<1>2. RowsSound' /\ Advance BY <1>1, RowsStand DEF CloseHandoff
<1>3. HandoffsAdvance
  BY DEF HandoffsAdvance, RecordsInv, HandoffsSound, HandoffRows, CloseHandoff
<1> QED BY <1>2, <1>3, HandoffStep DEF CloseHandoff

\* A review that is still current stands on what its sender asked about.
LEMMA CurrentIsAsAsked ==
    ASSUME RowsSound, ReviewsSound, NEW g \in DOMAIN review, ReviewCurrent(review[g])
    PROVE  /\ review[g].value = person[review[g].person].value
           /\ review[g].text = source[review[g].source].text
           /\ PublishedAsAsked(g)
<1>1. review[g] \in ReviewRows /\ Grounded(review[g]) BY DEF ReviewsSound
<1>2. PICK r : r = review[g] OBVIOUS
<1>3. r.at \in Grounds /\ Grounded(r) /\ ReviewCurrent(r) BY <1>1, <1>2 DEF ReviewRows
<1>4. Ground(r.at, r.person) /\ person[r.person].rev = r.at.personRev
  BY <1>3, GroundIsSnapshot DEF ReviewCurrent
<1>5. source[r.source].rev = r.at.sourceRev BY <1>3, <1>4 DEF Ground, Grounded
<1>6. r.value = person[r.person].value /\ r.text = source[r.source].text
  BY <1>3, <1>4, <1>5 DEF Grounded, Seen
<1>7. Exclusive(r.person, r.source) BY <1>3 DEF ReviewCurrent
<1> QED BY <1>2, <1>6, <1>7 DEF PublishedAsAsked, Exclusive

\* A step that moves one review
LEMMA ReviewStep ==
    ASSUME RecordsInv, RowsSound', Advance, UNCHANGED <<evidence, handoff, form>>,
           NEW g \in DOMAIN review, NEW st \in ReviewStates,
           review' = [review EXCEPT ![g].state = st], Live(review[g]),
           st = "PUBLISHED" => PublishedAsAsked(g)
    PROVE  RecordsInv' /\ Forward
<1>1. RowsSound /\ ReviewsSound BY DEF RecordsInv
<1>2. ASSUME NEW x \in DOMAIN review
      PROVE  /\ review'[x] \in ReviewRows /\ Grounded(review[x])'
             /\ review'[x].person = review[x].person /\ review'[x].until = review[x].until
             /\ review'[x].state = IF x = g THEN st ELSE review[x].state
  <2>1. review[x] \in ReviewRows BY <1>1 DEF ReviewsSound
  <2>2. PICK at : at = IF x = g THEN st ELSE review[x].state OBVIOUS
  <2>3. at \in ReviewStates /\ review'[x] = [review[x] EXCEPT !.state = at]
        /\ x \in DOMAIN review'
    BY <2>1, <2>2 DEF ReviewRows
  <2> QED BY <1>1, <2>2, <2>3, ReviewStays
<1>3. ReviewsAdvance BY <1>2 DEF ReviewsAdvance, Live
<1>4. DOMAIN review' = DOMAIN review OBVIOUS
<1>5. ReviewsSound' BY <1>1, <1>2, <1>3, <1>4, ReviewsLinger
<1> QED BY <1>3, <1>5, HandoffsStand, EvidenceStands, FormStands DEF RecordsInv, Forward

LEMMA AcceptReviewKeeps ==
    ASSUME RecordsInv, NEW m \in Members, NEW g \in DOMAIN review, AcceptReview(m, g)
    PROVE  RecordsInv' /\ Forward
<1>1. RowsSound /\ requests' \in 0..MaxRequests
  BY CommandCounts DEF RecordsInv, AcceptReview
<1>2. RowsSound' /\ Advance BY <1>1, RowsStand DEF AcceptReview
<1> QED BY <1>2, ReviewStep DEF AcceptReview, Live, ReviewStates

LEMMA CloseReviewKeeps ==
    ASSUME RecordsInv, NEW m \in Members, NEW g \in DOMAIN review, CloseReview(m, g)
    PROVE  RecordsInv' /\ Forward
<1>1. RowsSound /\ requests' \in 0..MaxRequests
  BY CommandCounts DEF RecordsInv, CloseReview
<1>2. RowsSound' /\ Advance BY <1>1, RowsStand DEF CloseReview
<1>3. PICK st \in {"REVOKED", "DECLINED"} : review' = [review EXCEPT ![g].state = st]
  BY DEF CloseReview
<1>4. st \in ReviewStates /\ st # "PUBLISHED" BY DEF ReviewStates
<1> QED BY <1>2, <1>3, <1>4, ReviewStep DEF CloseReview

LEMMA PublishKeeps ==
    ASSUME RecordsInv, NEW m \in Members, NEW g \in DOMAIN review, Publish(m, g)
    PROVE  RecordsInv' /\ Forward
<1>1. RowsSound /\ ReviewsSound /\ requests' \in 0..MaxRequests
  BY CommandCounts DEF RecordsInv, Publish
<1>2. PICK p, s, sc : p = review[g].person /\ s = review[g].source /\ sc = review[g].target
  OBVIOUS
<1>3. /\ p \in DOMAIN person /\ s \in DOMAIN source /\ sc \in Scopes
  BY <1>1, <1>2 DEF ReviewsSound, ReviewRows, Grounded, Seen
<1>4. person[p] \in PersonRows /\ source[s] \in SourceRows
  BY <1>1, <1>3 DEF RowsSound, PeopleSound, SourcesSound
<1> DEFINE row == [Protect(person[p]) EXCEPT !.scope = sc]
           its == [Protect(source[s]) EXCEPT !.scope = sc]
<1>5. row \in PersonRows /\ row.scope = sc /\ LaterPerson(person[p], row)
  BY <1>3, <1>4, RescopedPerson
<1>6. /\ its \in SourceRows /\ its.rev = source[s].rev + 1 /\ its.scope = sc
      /\ LaterSource(source[s], its)
  BY <1>3, <1>4, RescopedSource
<1>7. person' = [person EXCEPT ![p] = row] /\ PutSource(s, its) BY <1>2 DEF Publish
<1> HIDE DEF row, its
<1>8. scope[sc] # {} BY <1>2 DEF Publish, ReviewCurrent, ScopeVisible
<1>9. OthersSound' /\ OthersAdvance /\ ScopesStay
  BY <1>1, OthersStand DEF Publish, RowsSound, OthersSound
<1>10. SourcesSound' /\ SourcesAdvance
  BY <1>1, <1>3, <1>6, <1>7, <1>8, <1>9, SourceMoves
<1>11. /\ DOMAIN contacts' = DOMAIN person
       /\ \A q \in DOMAIN person : contacts'[q] \subseteq DOMAIN source
  BY <1>1 DEF RowsSound, PeopleSound, Publish
<1>12. PeopleSound' /\ PeopleAdvance
  BY <1>1, <1>3, <1>5, <1>7, <1>8, <1>9, <1>10, <1>11, PersonMoves
<1>13. RowsSound' /\ Advance BY <1>9, <1>10, <1>12 DEF RowsSound, Advance
<1>14. PublishedAsAsked(g) BY <1>1, CurrentIsAsAsked DEF Publish
<1> QED BY <1>13, <1>14, ReviewStep DEF Publish, Live, ReviewStates

LEMMA FinishReviewKeeps ==
    ASSUME RecordsInv, NEW m \in Members, NEW g \in DOMAIN review,
           FinishReview(m, g, now + Lease)
    PROVE  RecordsInv' /\ Forward
<1>1. RowsSound /\ ReviewsSound /\ requests' \in 0..MaxRequests
  BY CommandCounts DEF RecordsInv, FinishReview
<1>2. PICK r : r = review[g] OBVIOUS
<1>3. r \in ReviewRows /\ Grounded(r) BY <1>1, <1>2 DEF ReviewsSound
<1>4. r.source \in DOMAIN source /\ source[r.source] \in SourceRows
      /\ scope[source[r.source].scope] # {}
  BY <1>1, <1>3 DEF RowsSound, SourcesSound, Grounded, Seen
<1> DEFINE row == Reviewed(source[r.source], now + Lease)
<1>5. /\ row \in SourceRows /\ row.rev = source[r.source].rev + 1
      /\ row.epoch = source[r.source].epoch + 1
      /\ row.scope = source[r.source].scope /\ row.text = source[r.source].text
      /\ LaterSource(source[r.source], row)
  BY <1>1, <1>4, ReviewedRow, Deadlines DEF Reviewed
<1>6. /\ PutSource(r.source, row)
      /\ review' = [review EXCEPT ![g] =
            [r EXCEPT !.state = "REVIEWED",
                      !.at = [r.at EXCEPT !.sourceRev = row.rev, !.sourceEpoch = row.epoch]]]
  BY <1>2, <1>3 DEF FinishReview, ReviewRows
<1> HIDE DEF row
<1>7. /\ merged \subseteq merged' /\ merged' \subseteq People
      /\ blocked \subseteq blocked' /\ blocked' \subseteq People \cup Sources
  BY <1>1 DEF RowsSound, OthersSound, FinishReview
<1>8. RowsSound' /\ Advance BY <1>1, <1>4, <1>5, <1>6, <1>7, SourceChange DEF FinishReview
<1>9. r.text = source[r.source].text BY <1>1, <1>2, CurrentIsAsAsked DEF FinishReview
<1> DEFINE at == [r.at EXCEPT !.sourceRev = row.rev, !.sourceEpoch = row.epoch]
           done == [r EXCEPT !.state = "REVIEWED", !.at = at]
<1>10. /\ at \in Grounds /\ at.personRev = r.at.personRev
       /\ at.personEpoch = r.at.personEpoch /\ at.members = r.at.members
       /\ at.sourceRev = row.rev /\ at.sourceEpoch = row.epoch
  BY <1>3, <1>5 DEF ReviewRows, Grounds, SourceRows
<1> HIDE DEF at
<1>11. /\ done \in ReviewRows /\ done.state = "REVIEWED" /\ done.at = at
       /\ done.person = r.person /\ done.source = r.source /\ done.until = r.until
       /\ done.value = r.value /\ done.text = r.text
  BY <1>3, <1>10 DEF ReviewRows, ReviewStates
<1>12. /\ DOMAIN review' = DOMAIN review /\ review'[g] = done
       /\ \A x \in DOMAIN review \ {g} : review'[x] = review[x]
  BY <1>6 DEF at
<1> HIDE DEF done
<1>13. Grounded(review[g])'
  <2>1. Grounded(r)' BY <1>1, <1>3, <1>8, GroundStays DEF ReviewRows
  <2>2. source'[r.source] = row /\ r.source \in DOMAIN source'
    BY <1>4, <1>6 DEF PutSource
  <2>3. row.rev \in Nat /\ row.epoch \in Nat BY <1>5 DEF SourceRows
  <2>4. row.text = r.text BY <1>5, <1>9
  <2> QED BY <2>1, <2>2, <2>3, <2>4, <1>10, <1>11, <1>12 DEF Grounded, Seen
<1>14. ASSUME NEW x \in DOMAIN review
       PROVE  review'[x] \in ReviewRows /\ Grounded(review[x])'
  <2>1. CASE x = g BY <1>11, <1>12, <1>13, <2>1
  <2>2. CASE x # g
    <3>1. review[x] \in ReviewRows BY <1>1 DEF ReviewsSound
    <3>2. review[x].state \in ReviewStates /\ x \in DOMAIN review'
          /\ review'[x] = [review[x] EXCEPT !.state = review[x].state]
      BY <1>12, <2>2, <3>1 DEF ReviewRows
    <3> QED BY <1>1, <1>8, <3>2, ReviewStays
  <2> QED BY <2>1, <2>2
<1>15. Live(r) BY <1>2 DEF FinishReview, Live
<1>16. ReviewsAdvance BY <1>2, <1>11, <1>12, <1>15 DEF ReviewsAdvance
<1>17. ReviewsSound' BY <1>1, <1>8, <1>12, <1>14, <1>16, ReviewsLinger
<1> QED BY <1>8, <1>16, <1>17, HandoffsStand, EvidenceStands, FormStands
        DEF RecordsInv, Forward, FinishReview

LEMMA RequestReviewKeeps ==
    ASSUME RecordsInv, NEW m \in Members, NEW p \in DOMAIN person, NEW g,
           NEW rv \in Members, NEW pb \in Members, NEW sc \in Scopes,
           RequestReview(m, p, g, rv, pb, sc, now + 1)
    PROVE  RecordsInv' /\ Forward
<1>1. RowsSound /\ ReviewsSound /\ requests' \in 0..MaxRequests
  BY CommandCounts DEF RecordsInv, RequestReview
<1>2. RowsSound' /\ Advance BY <1>1, RowsStand DEF RequestReview
<1> DEFINE ofPerson == {x \in {y \in DOMAIN review : Live(review[y]) /\ now < review[y].until} :
                           review[x].person = p}
           closed == [x \in DOMAIN review |-> IF x \in ofPerson
                                              THEN [review[x] EXCEPT !.state = "REVOKED"]
                                              ELSE review[x]]
<1>3. PICK r : r = [person |-> p, source |-> person[p].source, sender |-> m, reviewer |-> rv,
                    publisher |-> pb, target |-> sc, until |-> now + 1, state |-> "PENDING",
                    at |-> Snapshot(p, {m, rv, pb}), value |-> person[p].value,
                    text |-> source[person[p].source].text]
  OBVIOUS
<1>4. review' = Added(closed, g, r) /\ g \in Reviews \ DOMAIN review
  BY <1>3 DEF RequestReview
<1>5. /\ DOMAIN review' = DOMAIN review \cup {g} /\ review'[g] = r
      /\ \A x \in DOMAIN review : review'[x] = closed[x]
  BY <1>4 DEF Added
<1>6. r \in ReviewRows
  <2>1. Snapshot(p, {m, rv, pb}) \in Grounds BY <1>1, SnapshotIsGround
  <2>2. /\ person[p] \in PersonRows /\ source[person[p].source] \in SourceRows /\ p \in People
    BY <1>1 DEF RowsSound, PeopleSound, SourcesSound
  <2>3. now + 1 \in Nat BY <1>1, RecordsConstants DEF RowsSound, OthersSound
  <2> QED BY <1>3, <2>1, <2>2, <2>3 DEF ReviewRows, ReviewStates, PersonRows, SourceRows
<1>7. Grounded(r)'
  <2>1. Grounded(r) BY <1>1, <1>3, AskedIsGrounded
  <2> QED BY <1>1, <1>2, <1>6, <2>1, GroundStays DEF ReviewRows
<1>8. Grounded(review[g])' BY <1>5, <1>7 DEF Grounded, Seen
<1>9. ASSUME NEW x \in DOMAIN review
      PROVE  /\ review'[x] \in ReviewRows /\ Grounded(review[x])'
             /\ review'[x].person = review[x].person /\ review'[x].until = review[x].until
             /\ review'[x].state = IF x \in ofPerson THEN "REVOKED" ELSE review[x].state
  <2>1. review[x] \in ReviewRows BY <1>1 DEF ReviewsSound
  <2>2. PICK st : st = IF x \in ofPerson THEN "REVOKED" ELSE review[x].state OBVIOUS
  <2>3. st \in ReviewStates /\ review'[x] = [review[x] EXCEPT !.state = st]
        /\ x \in DOMAIN review'
    <3> HIDE DEF ofPerson
    <3> QED BY <1>5, <2>1, <2>2 DEF ReviewRows, ReviewStates
  <2> QED BY <1>1, <1>2, <2>2, <2>3, ReviewStays
<1>10. ReviewsAdvance
  <2> HIDE DEF ofPerson, closed
  <2> QED BY <1>5, <1>9 DEF ReviewsAdvance, Live
<1>11. now \in Int /\ now' = now /\ r.until \in Int /\ r.person = p
  BY <1>1, <1>3, RecordsConstants DEF RequestReview, RowsSound, OthersSound
<1>12. ASSUME NEW x \in DOMAIN review, Live(review'[x]), now' < review'[x].until
       PROVE  /\ Live(review[x]) /\ now < review[x].until
              /\ review'[x].person = review[x].person /\ review[x].person # p
  BY <1>9, <1>11, <1>12 DEF Live
<1> HIDE DEF ofPerson, closed
<1>13. ASSUME NEW x \in DOMAIN review', NEW y \in DOMAIN review',
              Live(review'[x]), now' < review'[x].until,
              Live(review'[y]), now' < review'[y].until,
              review'[x].person = review'[y].person
       PROVE  x = y
  <2>1. CASE x = g /\ y \in DOMAIN review BY <1>5, <1>11, <1>12, <1>13, <2>1
  <2>2. CASE y = g /\ x \in DOMAIN review BY <1>5, <1>11, <1>12, <1>13, <2>2
  <2>3. CASE x \in DOMAIN review /\ y \in DOMAIN review
    BY <1>1, <1>12, <1>13, <2>3 DEF ReviewsSound
  <2> QED BY <1>5, <2>1, <2>2, <2>3
<1>14. \A x \in DOMAIN review' : review'[x] \in ReviewRows /\ Grounded(review[x])'
  BY <1>5, <1>6, <1>8, <1>9
<1>15. DOMAIN review' \subseteq Reviews BY <1>1, <1>4, <1>5 DEF ReviewsSound
<1>16. ReviewsSound' BY <1>13, <1>14, <1>15 DEF ReviewsSound, Live
<1> QED BY <1>1, <1>2, <1>10, <1>16, HandoffsStand, EvidenceStands, FormStands
        DEF RecordsInv, Forward, RequestReview

LEMMA MergeKeeps ==
    ASSUME RecordsInv, NEW m \in Members, NEW c \in DOMAIN person, NEW d \in DOMAIN person,
           NEW v \in Values, Merge(m, c, d, v)
    PROVE  RecordsInv' /\ Forward
<1>1. RowsSound /\ requests' \in 0..MaxRequests BY CommandCounts DEF RecordsInv, Merge
<1>2. \A q \in DOMAIN person : person[q] \in PersonRows /\ scope[person[q].scope] # {}
  BY PersonRow
<1>3. c # d /\ c \in People /\ d \in People BY <1>1 DEF Merge, RowsSound, PeopleSound
<1> DEFINE kept == [Protect(person[c]) EXCEPT !.value = v]
           left == [Protect(person[d]) EXCEPT !.status = "ARCHIVED"]
<1>4. kept \in PersonRows /\ kept.scope = person[c].scope /\ LaterPerson(person[c], kept)
  BY <1>2, MergedRow
<1>5. left \in PersonRows /\ left.scope = person[d].scope /\ LaterPerson(person[d], left)
  BY <1>2, StatusRow
<1>6. person' = [person EXCEPT ![c] = kept, ![d] = left] BY DEF Merge
<1> HIDE DEF kept, left
<1>7. /\ DOMAIN person' = DOMAIN person /\ person'[c] = kept /\ person'[d] = left
      /\ \A q \in DOMAIN person \ {c, d} : person'[q] = person[q]
  BY <1>3, <1>6
<1>8. OthersSound' /\ OthersAdvance /\ ScopesStay
  <2>1. /\ merged \subseteq merged' /\ merged' \subseteq People
        /\ blocked \subseteq blocked' /\ blocked' \subseteq People \cup Sources
    BY <1>1, <1>3 DEF Merge, RowsSound, OthersSound
  <2> QED BY <1>1, <2>1, OthersStand DEF Merge
<1>9. SourcesSound' /\ SourcesAdvance BY <1>1, <1>8, SourcesStand DEF Merge
<1>10. PeopleAdvance
  <2>1. ASSUME NEW q \in DOMAIN person PROVE LaterPerson(person[q], person'[q])
    <3>1. CASE q \in {c, d} BY <1>4, <1>5, <1>7, <3>1
    <3>2. CASE q \notin {c, d} BY <1>2, <1>7, <3>2 DEF LaterPerson, PersonRows
    <3> QED BY <3>1, <3>2
  <2> QED BY <1>7, <2>1 DEF PeopleAdvance
<1>11. /\ DOMAIN contacts' = DOMAIN person
       /\ \A q \in DOMAIN person : contacts'[q] \subseteq DOMAIN source
  <2>1. /\ DOMAIN contacts = DOMAIN person
        /\ \A q \in DOMAIN person : contacts[q] \subseteq DOMAIN source
    BY <1>1 DEF RowsSound, PeopleSound
  <2> QED BY <2>1, <1>3 DEF Merge
<1>12. ASSUME NEW q \in DOMAIN person
       PROVE  /\ person'[q] \in PersonRows /\ person'[q].source \in DOMAIN source
              /\ person'[q].scope \in Scopes /\ scope[person'[q].scope] # {}
  <2>1. person'[q] \in PersonRows /\ scope[person'[q].scope] # {}
    <3>1. CASE q = c BY <1>2, <1>4, <1>7, <3>1
    <3>2. CASE q = d BY <1>2, <1>5, <1>7, <3>2
    <3>3. CASE q \notin {c, d} BY <1>2, <1>7, <3>3
    <3> QED BY <3>1, <3>2, <3>3
  <2>2. person'[q].source = person[q].source BY <1>10 DEF PeopleAdvance, LaterPerson
  <2> QED BY <1>1, <2>1, <2>2 DEF RowsSound, PeopleSound, PersonRows
<1>13. PeopleSound'
  BY <1>1, <1>7, <1>11, <1>12 DEF PeopleSound, RowsSound, Merge
<1>14. RowsSound' /\ Advance BY <1>8, <1>9, <1>10, <1>13 DEF RowsSound, Advance
<1>15. DOMAIN handoff' = DOMAIN handoff /\ HandoffsAdvance
  BY DEF Merge, HandoffsAdvance, RecordsInv, HandoffsSound, HandoffRows
<1>16. EvidenceSound'
  <2>1. ASSUME NEW e \in evidence
        PROVE  LET f == IF e.person = d THEN [e EXCEPT !.person = c] ELSE e
               IN  f \in FieldEvidence /\ FactSound(f)'
    <3>1. e \in FieldEvidence /\ FactSound(e) BY DEF RecordsInv, EvidenceSound
    <3>2. PICK f : f = IF e.person = d THEN [e EXCEPT !.person = c] ELSE e OBVIOUS
    <3>3. /\ f \in FieldEvidence /\ f.source = e.source /\ f.value = e.value
          /\ f.sawValue = e.sawValue /\ f.srev = e.srev /\ f.sawText = e.sawText
          /\ f.person \in DOMAIN person
      BY <1>3, <3>1, <3>2 DEF FieldEvidence, FactSound
    <3>4. FactSound(f) BY <3>1, <3>3 DEF FactSound
    <3>5. FactSound(f)' BY <1>1, <1>14, <3>3, <3>4, FactStays
    <3> QED BY <3>2, <3>3, <3>5
  <2>2. ASSUME NEW f \in evidence' PROVE f \in FieldEvidence /\ FactSound(f)'
    <3>1. PICK e \in evidence : f = IF e.person = d THEN [e EXCEPT !.person = c] ELSE e
      BY DEF Merge
    <3> QED BY <2>1, <3>1
  <2> QED BY <2>2 DEF EvidenceSound
<1> QED BY <1>1, <1>14, <1>15, <1>16, HandoffsKeep, ReviewsStand, FormStands
        DEF RecordsInv, Forward, Merge

LEMMA ChangeMemberKeeps ==
    ASSUME RecordsInv, NEW m \in Members, NEW role \in {"EDITOR", "REVIEWER"},
           NEW active \in BOOLEAN, ChangeMember(m, role, active)
    PROVE  RecordsInv' /\ Forward
<1>1. RowsSound /\ requests' \in 0..MaxRequests
  BY RecordsConstants DEF RecordsInv, RowsSound, OthersSound, ChangeMember
<1>2. \A x \in Members : member[x] \in Memberships /\ member[x].rev \in Nat
  BY <1>1 DEF RowsSound, OthersSound, Memberships
<1> DEFINE row == [Touch(member[m]) EXCEPT !.role = role, !.active = active]
<1>3. row \in Memberships /\ row.rev = member[m].rev + 1
  <2>1. [member[m] EXCEPT !.rev = @ + 1] \in Memberships BY <1>2 DEF Memberships
  <2> QED BY <1>2, <2>1 DEF Memberships, Touch
<1>4. member' = [member EXCEPT ![m] = row] BY DEF ChangeMember
<1> HIDE DEF row
<1>5. member \in [Members -> Memberships] BY <1>1 DEF RowsSound, OthersSound
<1>6. /\ member' \in [Members -> Memberships] /\ member'[m] = row
      /\ \A x \in Members \ {m} : member'[x] = member[x]
  BY <1>3, <1>4, <1>5
<1>7. OthersSound' /\ ScopesStay
  BY <1>1, <1>6 DEF ChangeMember, RowsSound, OthersSound, ScopesStay
<1>8. now <= now' /\ merged \subseteq merged' /\ blocked \subseteq blocked'
  BY <1>1, RecordsConstants DEF ChangeMember, RowsSound, OthersSound
<1>9. OthersAdvance BY <1>2, <1>3, <1>6, <1>8 DEF OthersAdvance
<1>10. SourcesSound' /\ SourcesAdvance BY <1>1, <1>7, SourcesStand DEF ChangeMember
<1>11. PeopleSound' /\ PeopleAdvance BY <1>1, <1>7, <1>10, PeopleStand DEF ChangeMember
<1>12. RowsSound' /\ Advance BY <1>7, <1>9, <1>10, <1>11 DEF RowsSound, Advance
<1> QED BY <1>12, RowStep DEF ChangeMember

LEMMA BlockPersonKeeps ==
    ASSUME RecordsInv, NEW p \in DOMAIN person, BlockPerson(p)
    PROVE  RecordsInv' /\ Forward
<1> DEFINE row == Protect(person[p])
<1>1. person[p] \in PersonRows /\ scope[person[p].scope] # {} BY PersonRow
<1>2. /\ row \in PersonRows /\ row.scope = person[p].scope /\ LaterPerson(person[p], row)
  BY <1>1, ProtectedPerson DEF LaterPerson, PersonRows
<1>3. person' = [person EXCEPT ![p] = row] BY DEF BlockPerson
<1> HIDE DEF row
<1>4. RowsSound /\ requests' \in 0..MaxRequests
  BY RecordsConstants DEF RecordsInv, RowsSound, OthersSound, BlockPerson
<1>5. /\ merged \subseteq merged' /\ merged' \subseteq People
      /\ blocked \subseteq blocked' /\ blocked' \subseteq People \cup Sources
      /\ DOMAIN contacts' = DOMAIN person
      /\ \A q \in DOMAIN person : contacts'[q] \subseteq DOMAIN source
  BY <1>4 DEF RowsSound, OthersSound, PeopleSound, BlockPerson
<1>6. RowsSound' /\ Advance BY <1>1, <1>2, <1>3, <1>4, <1>5, PersonChange DEF BlockPerson
<1> QED BY <1>6, RowStep DEF BlockPerson

LEMMA BlockSourceKeeps ==
    ASSUME RecordsInv, NEW s \in DOMAIN source, BlockSource(s)
    PROVE  RecordsInv' /\ Forward
<1> DEFINE row == Protect(source[s])
<1>1. RowsSound /\ requests' \in 0..MaxRequests
  BY RecordsConstants DEF RecordsInv, RowsSound, OthersSound, BlockSource
<1>2. source[s] \in SourceRows /\ scope[source[s].scope] # {} /\ s \in Sources
  BY <1>1 DEF RowsSound, SourcesSound
<1>3. /\ row \in SourceRows /\ row.rev = source[s].rev + 1 /\ row.scope = source[s].scope
      /\ LaterSource(source[s], row)
  BY <1>2, ProtectedSource DEF LaterSource, SourceRows
<1>4. PutSource(s, row) BY DEF BlockSource
<1> HIDE DEF row
<1>5. /\ merged \subseteq merged' /\ merged' \subseteq People
      /\ blocked \subseteq blocked' /\ blocked' \subseteq People \cup Sources
  BY <1>1, <1>2 DEF RowsSound, OthersSound, BlockSource
<1>6. RowsSound' /\ Advance BY <1>1, <1>2, <1>3, <1>4, <1>5, SourceChange DEF BlockSource
<1> QED BY <1>6, RowStep DEF BlockSource

LEMMA TickKeeps ==
    ASSUME RecordsInv, Tick
    PROVE  RecordsInv' /\ Forward
<1>1. RowsSound BY DEF RecordsInv
<1>2. now \in Nat /\ now' \in 0..MaxTime /\ now <= now' /\ now' = now + 1
  BY <1>1, RecordsConstants DEF RowsSound, OthersSound, Tick
<1>3. \A x \in Members : member[x] \in Memberships BY <1>1 DEF RowsSound, OthersSound
<1>4. OthersSound' /\ ScopesStay BY <1>1, <1>2 DEF RowsSound, OthersSound, ScopesStay, Tick
<1>5. OthersAdvance BY <1>2, <1>3 DEF OthersAdvance, Memberships, Tick
<1>6. SourcesSound' /\ SourcesAdvance BY <1>1, <1>4, SourcesStand DEF Tick
<1>7. PeopleSound' /\ PeopleAdvance BY <1>1, <1>4, <1>6, PeopleStand DEF Tick
<1>8. RowsSound' /\ Advance BY <1>4, <1>5, <1>6, <1>7 DEF RowsSound, Advance
<1> QED BY <1>8, RowStep DEF Tick

-------------------------------------------------------------------------------
(* The initial states, the next-state relation and the theorems *)

LEMMA InitIsSound ==
    ASSUME Init
    PROVE  RecordsInv
<1>1. PICK sc \in {all, own} :
         /\ source = [s \in {s1, s2} |-> Source(IF s = s1 THEN sc ELSE all)]
         /\ \/ person = [p \in {p1} |-> Person(sc, s1)] /\ contacts = [p \in {p1} |-> {}]
            \/ /\ person = [p \in {p1, p2} |-> Person(sc, s1)]
               /\ contacts = [p \in {p1, p2} |-> {}]
            \/ /\ person = [p \in {p1, p2} |-> Person(sc, IF p = p1 THEN s1 ELSE s2)]
               /\ contacts = [p \in {p1, p2} |-> IF p = p1 THEN {} ELSE {s1}]
  BY DEF Init
<1>2. sc \in Scopes /\ all \in Scopes /\ scope \in [Scopes -> SUBSET Members]
      /\ scope[sc] # {} /\ scope[all] # {}
  BY MCRecordsConstants DEF Init
<1>3. ASSUME NEW x \in {sc, all}
      PROVE  Source(x) \in SourceRows /\ Source(x).scope = x /\ Source(x).rev = 1
  BY <1>2, RecordsConstants, MCRecordsConstants DEF Source, SourceRows, Times
<1>4. ASSUME NEW s \in {s1, s2}
      PROVE  Person(sc, s) \in PersonRows /\ Person(sc, s).scope = sc
             /\ Person(sc, s).source = s
  BY <1>2, MCRecordsConstants DEF Person, PersonRows
<1>5. SourcesSound
  <2>1. DOMAIN source = {s1, s2} /\ DOMAIN history = {s1, s2} BY <1>1 DEF Init
  <2>2. ASSUME NEW s \in {s1, s2}
        PROVE  /\ source[s] \in SourceRows /\ scope[source[s].scope] # {}
               /\ history[s] \in Seq(Versions)
               /\ Len(history[s]) = source[s].rev
               /\ history[s][Len(history[s])] = Version(source[s])
    <3>1. source[s] \in SourceRows /\ source[s].scope \in {sc, all} /\ source[s].rev = 1
      BY <1>1, <1>3
    <3>2. history[s] = <<Version(source[s])>> BY <2>1 DEF Init
    <3>3. Version(source[s]) \in Versions BY <3>1 DEF Version, Versions, SourceRows
    <3> QED BY <1>2, <3>1, <3>2, <3>3
  <2> QED BY <2>1, <2>2, MCRecordsConstants DEF SourcesSound
<1>6. PeopleSound
  <2>1. DOMAIN source = {s1, s2} BY <1>1
  <2>2. CASE person = [p \in {p1} |-> Person(sc, s1)] /\ contacts = [p \in {p1} |-> {}]
    BY <1>2, <1>4, <2>1, <2>2, MCRecordsConstants DEF PeopleSound
  <2>3. CASE /\ person = [p \in {p1, p2} |-> Person(sc, s1)]
             /\ contacts = [p \in {p1, p2} |-> {}]
    BY <1>2, <1>4, <2>1, <2>3, MCRecordsConstants DEF PeopleSound
  <2>4. CASE /\ person = [p \in {p1, p2} |-> Person(sc, IF p = p1 THEN s1 ELSE s2)]
             /\ contacts = [p \in {p1, p2} |-> IF p = p1 THEN {} ELSE {s1}]
    <3>1. DOMAIN person = {p1, p2} /\ DOMAIN contacts = {p1, p2} BY <2>4
    <3>2. \A p \in {p1, p2} :
             /\ person[p] \in PersonRows /\ person[p].scope = sc
             /\ person[p].source \in {s1, s2}
      BY <1>4, <2>4
    <3>3. \A p \in {p1, p2} : contacts[p] \subseteq {s1, s2} BY <2>4
    <3> QED BY <1>2, <2>1, <3>1, <3>2, <3>3, MCRecordsConstants DEF PeopleSound
  <2> QED BY <1>1, <2>2, <2>3, <2>4
<1>7. OthersSound
  <2>1. \A m \in Members : Role[m] \in {"ADMIN", "EDITOR", "REVIEWER", "VIEWER"} BY DEF Role
  <2>2. member \in [Members -> Memberships] BY <2>1 DEF Init, Memberships
  <2>3. now \in 0..MaxTime /\ requests \in 0..MaxRequests
    BY RecordsConstants, MCRecordsConstants DEF Init
  <2> QED BY <1>2, <2>2, <2>3 DEF OthersSound, Init
<1>8. HandoffsSound /\ OneHandoffEach /\ ReviewsSound
  BY DEF Init, HandoffsSound, OneHandoffEach, ReviewsSound
<1> QED BY <1>5, <1>6, <1>7, <1>8 DEF RecordsInv, RowsSound, EvidenceSound, FormSound, Init

LEMMA NextKeeps ==
    ASSUME RecordsInv, MCNext
    PROVE  RecordsInv' /\ Forward
<1>1. ASSUME NEW m \in Members, SourceSteps(m) PROVE RecordsInv' /\ Forward
  BY <1>1, CreateScopeKeeps, CreateSourceKeeps, ChangeSourceScopeKeeps DEF SourceSteps
<1>2. ASSUME NEW m \in Members, BasisSteps(m) PROVE RecordsInv' /\ Forward
  BY <1>2, SuspendSourceKeeps, ReviewSourceKeeps DEF BasisSteps
<1>3. ASSUME NEW m \in Members, PersonSteps(m) PROVE RecordsInv' /\ Forward
  BY <1>3, CreatePersonKeeps, ChangePersonScopeKeeps, MergeKeeps DEF PersonSteps
<1>4. ASSUME NEW m \in Members, EditSteps(m) PROVE RecordsInv' /\ Forward
  BY <1>4, UpdateSourceKeeps, UpdatePersonKeeps, ChangeStatusKeeps DEF EditSteps
<1>5. ASSUME NEW m \in Members, EvidenceSteps(m) PROVE RecordsInv' /\ Forward
  BY <1>5, ReplaceContactsKeeps, CompareKeeps, AdoptSubmissionKeeps, ConfirmEvidenceKeeps
     DEF EvidenceSteps
<1>6. ASSUME NEW m \in Members, HandoffSteps(m) PROVE RecordsInv' /\ Forward
  BY <1>6, OfferKeeps, AcceptHandoffKeeps, CloseHandoffKeeps DEF HandoffSteps
<1>7. ASSUME NEW m \in Members, ReviewSteps(m) PROVE RecordsInv' /\ Forward
  BY <1>7, RequestReviewKeeps, AcceptReviewKeeps, CloseReviewKeeps, PublishKeeps,
     FinishReviewKeeps
     DEF ReviewSteps
<1>8. ASSUME Elsewhere PROVE RecordsInv' /\ Forward
  BY <1>8, TickKeeps, ChangeMemberKeeps, BlockPersonKeeps, BlockSourceKeeps,
     RevokeConsentKeeps
     DEF Elsewhere
<1> QED BY <1>1, <1>2, <1>3, <1>4, <1>5, <1>6, <1>7, <1>8 DEF MCNext

LEMMA StepKeeps ==
    ASSUME RecordsInv, [MCNext]_<<vars, part>>
    PROVE  RecordsInv' /\ Forward
<1>1. CASE MCNext BY <1>1, NextKeeps
<1>2. CASE UNCHANGED <<vars, part>>
  <2>1. RowsSound /\ requests' \in 0..MaxRequests
    BY <1>2 DEF RecordsInv, RowsSound, OthersSound, vars
  <2>2. RowsSound' /\ Advance BY <1>2, <2>1, RowsStand DEF vars
  <2> QED BY <1>2, <2>2, RowStep DEF vars
<1> QED BY <1>1, <1>2

\* In every state the rows have their histories, every grant and every evidence stands on
\* what was there when it was made, and no grant has a twin.
THEOREM RecordsInvariant == Spec => []RecordsInv
<1>1. Init => RecordsInv BY InitIsSound
<1>2. RecordsInv /\ [MCNext]_<<vars, part>> => RecordsInv' BY StepKeeps
<1> QED BY <1>1, <1>2, PTL DEF Spec

LEMMA Typed == ASSUME RecordsInv PROVE TypeOK
BY DEF RecordsInv, RowsSound, SourcesSound, PeopleSound, OthersSound, HandoffsSound,
       ReviewsSound, EvidenceSound, TypeOK

LEMMA Whole == ASSUME RecordsInv PROVE HistoryIsWhole
BY DEF RecordsInv, RowsSound, SourcesSound, HistoryIsWhole

LEMMA OneGrant == ASSUME RecordsInv PROVE OneGrantAtATime
BY DEF RecordsInv, OneHandoffEach, ReviewsSound, OneGrantAtATime, ReviewCurrent

\* The lists read no evidence when no source needs it, and show nobody more.
LEMMA ListedIsVisible ==
    ASSUME RecordsInv, NEW m, NEW p \in DOMAIN person, IndexPersonVisible(m, p)
    PROVE  PersonVisible(m, p)
<1>1. CASE \E s \in DOMAIN source : source[s].self
  BY <1>1 DEF IndexPersonVisible, PersonVisible
<1>2. CASE ~\E s \in DOMAIN source : source[s].self
  <2>1. \A e \in evidence : ~source[e.source].self
    BY <1>2 DEF RecordsInv, EvidenceSound, FactSound
  <2>2. CurrentIdentity(p, {}, {s \in DOMAIN source : SourceVisible(m, s)})
    BY <1>2 DEF IndexPersonVisible
  <2>3. /\ ~source[person[p].source].self
        /\ person[p].source \in {s \in DOMAIN source : SourceVisible(m, s)}
    BY <2>2 DEF CurrentIdentity
  <2>4. CurrentIdentity(p, evidence, {s \in DOMAIN source : SourceVisible(m, s)})
    BY <2>1, <2>3 DEF CurrentIdentity
  <2> QED BY <2>4 DEF IndexPersonVisible, PersonVisible
<1> QED BY <1>1, <1>2

LEMMA Offered == ASSUME RecordsInv PROVE OfferedIsAllowed
<1> SUFFICES ASSUME NEW m \in Members, member[m].active
             PROVE  /\ \A p \in VisiblePeople(m) : OpenPerson(m, p)
                    /\ \A s \in ListedSources(m) : OpenSource(m, s)
                    /\ \A p \in DOMAIN person :
                          /\ ReadContacts(m, p) # {} => Native(m, p)
                          /\ CanOffer(m, p) =>
                               /\ OwnedPair(m, p)
                               /\ \A r \in Recipients(m, p, "EDIT") : member[r].active
                    /\ \A h \in DOMAIN handoff :
                          HandoffNames(m, h) => OpenPerson(m, handoff[h].person)
                    /\ \A g \in DOMAIN review :
                          ShowsMaterial(m, g) => m = review[g].sender \/ CanReview(m)
  BY DEF OfferedIsAllowed
<1>1. ASSUME NEW p \in DOMAIN person, Delegated(m, p, "read") PROVE p \notin merged
  BY <1>1 DEF Delegated, HandoffCurrent
<1>2. \A p \in VisiblePeople(m) : OpenPerson(m, p)
  BY <1>1, ListedIsVisible DEF VisiblePeople, OpenPerson, ProfileAccess, PersonVisible
<1>3. \A s \in ListedSources(m) : OpenSource(m, s)
  BY DEF ListedSources, OpenSource, SourceFor
<1>4. ASSUME NEW p \in DOMAIN person
      PROVE  /\ ReadContacts(m, p) # {} => Native(m, p)
             /\ CanOffer(m, p) => /\ OwnedPair(m, p)
                                  /\ \A r \in Recipients(m, p, "EDIT") : member[r].active
  BY DEF ReadContacts, Native, PersonFor, PersonVisible, CanOffer, OwnedPair, Recipients,
         RecipientEligible
<1>5. May(m, "records.read")
  <2>1. member[m].role \in {"ADMIN", "EDITOR", "REVIEWER", "VIEWER"}
    BY DEF RecordsInv, RowsSound, OthersSound, Memberships
  <2> QED BY <2>1 DEF May, PermissionsOf, RolePermissions, Permissions
<1>6. ASSUME NEW h \in DOMAIN handoff, HandoffNames(m, h)
      PROVE  OpenPerson(m, handoff[h].person)
  <2>1. handoff[h].person \in DOMAIN person
    BY DEF RecordsInv, HandoffsSound, Grounded, Seen
  <2>2. CASE Native(m, handoff[h].person)
    BY <1>5, <2>2 DEF Native, OpenPerson, ProfileAccess, PersonVisible
  <2>3. CASE handoff[h].recipient = m /\ handoff[h].state = "ACCEPTED"
             /\ HandoffCurrent(handoff[h])
    <3>1. Delegated(m, handoff[h].person, "read") BY <2>3 DEF Delegated
    <3> QED BY <1>1, <1>5, <2>1, <3>1 DEF OpenPerson, ProfileAccess
  <2> QED BY <1>6, <2>2, <2>3 DEF HandoffNames
<1>7. ASSUME NEW g \in DOMAIN review, ShowsMaterial(m, g)
      PROVE  m = review[g].sender \/ CanReview(m)
  BY <1>7 DEF ShowsMaterial, ReviewCurrent
<1> QED BY <1>2, <1>3, <1>4, <1>6, <1>7

\* Rows have their types and their whole histories, grants have no twin, and what a list or
\* a button offers is not refused when it is used.
THEOREM RecordsAreSound == Spec => []MCRecordsOK
<1>1. RecordsInv => MCRecordsOK BY Typed, Whole, OneGrant, Offered DEF MCRecordsOK
<1> QED BY <1>1, RecordsInvariant, PTL

\* Evidence shown as verified is for the value and the text its reviewer had on the screen.
THEOREM EvidenceIsReviewed == Spec => []VerifiedIsReviewed
<1>1. RecordsInv => VerifiedIsReviewed
  BY DEF RecordsInv, EvidenceSound, FactSound, VerifiedIsReviewed, Verified
<1> QED BY <1>1, RecordsInvariant, PTL

\* A delegation that lost its ground never regains it.
THEOREM EndedHandoffsStayEnded == Spec => HandoffsStayEnded
<1>1. RecordsInv /\ RecordsInv' /\ [MCNext]_<<vars, part>> =>
         [\A h \in DOMAIN handoff :
             ~HandoffCurrent(handoff[h]) => (~HandoffCurrent(handoff[h]))']_vars
  BY StepKeeps, EndedStays DEF RecordsInv, Forward
<1> QED BY <1>1, RecordsInvariant, PTL DEF Spec, HandoffsStayEnded

LEMMA AcceptedAsOffered ==
    ASSUME RowsSound, HandoffsSound, HandoffsAdvance, NEW h \in DOMAIN handoff,
           handoff[h].state = "PENDING", handoff'[h].state = "ACCEPTED"
    PROVE  /\ handoff[h].value = person[handoff[h].person].value
           /\ handoff[h].text = source[handoff[h].source].text
<1>1. handoff[h] \in HandoffRows /\ Grounded(handoff[h]) BY DEF HandoffsSound
<1>2. PICK r : r = handoff[h] OBVIOUS
<1>3. HandoffCurrent(r) BY <1>1, <1>2 DEF HandoffsAdvance, HandoffRows
<1>4. r.at \in Grounds /\ Grounded(r) BY <1>1, <1>2 DEF HandoffRows
<1>5. Ground(r.at, r.person) /\ person[r.person].rev = r.at.personRev
  BY <1>2, <1>3, <1>4, GroundIsSnapshot DEF HandoffCurrent, SamePerson
<1>6. source[r.source].rev = r.at.sourceRev BY <1>4, <1>5 DEF Ground, Grounded
<1> QED BY <1>2, <1>4, <1>5, <1>6 DEF Grounded, Seen

\* What a recipient accepts is what the sender offered, and what is published is what was
\* asked to be reviewed and nobody else's.
THEOREM GrantsAreGivenAsAsked == Spec => GivenAsAsked
<1>1. ASSUME RecordsInv, [MCNext]_<<vars, part>>
      PROVE  /\ \A h \in DOMAIN handoff :
                   handoff[h].state = "PENDING" /\ handoff'[h].state = "ACCEPTED"
                   => /\ handoff[h].value = person[handoff[h].person].value
                      /\ handoff[h].text = source[handoff[h].source].text
             /\ \A g \in DOMAIN review :
                   review[g].state = "REVIEWED" /\ review'[g].state = "PUBLISHED"
                   => PublishedAsAsked(g)
  <2>1. RowsSound /\ HandoffsSound /\ HandoffsAdvance /\ ReviewsAdvance
    BY <1>1, StepKeeps DEF RecordsInv, Forward
  <2> QED BY <2>1, AcceptedAsOffered DEF ReviewsAdvance
<1>2. RecordsInv /\ [MCNext]_<<vars, part>> =>
       [/\ \A h \in DOMAIN handoff :
              handoff[h].state = "PENDING" /\ handoff'[h].state = "ACCEPTED"
              => /\ handoff[h].value = person[handoff[h].person].value
                 /\ handoff[h].text = source[handoff[h].source].text
       /\ \A g \in DOMAIN review :
              LET r == review[g]
              IN  r.state = "REVIEWED" /\ review'[g].state = "PUBLISHED"
                  => /\ r.value = person[r.person].value /\ r.text = source[r.source].text
                     /\ \A q \in DOMAIN person \ {r.person} :
                            person[q].source # r.source /\ r.source \notin contacts[q]
                     /\ \A e \in evidence : e.source = r.source => e.person = r.person]_vars
  BY <1>1 DEF PublishedAsAsked
<1> QED BY <1>2, RecordsInvariant, PTL DEF Spec, GivenAsAsked
====
