------------------------------- MODULE MCRecords -------------------------------
(***************************************************************************)
(* A maintainer, a reviewer and an administrator; a person described from   *)
(* the maintainer's source, and a second source. A behaviour takes one kind *)
(* of grant or fact and the steps that may take its ground away; each has   *)
(* all the steps it reads rows of.                                          *)
(***************************************************************************)
EXTENDS Records

CONSTANTS editor, reviewer, admin, all, own, s1, s2, p1, p2

ASSUME MCRecordsConstants ==
    /\ {editor, reviewer, admin} \subseteq Members /\ {all, own} \subseteq Scopes
    /\ {s1, s2} \subseteq Sources /\ {p1, p2} \subseteq People /\ 1 \in Values
    /\ all # own /\ s1 # s2 /\ p1 # p2
    /\ MaxRequests >= 2

VARIABLE part

Parts == {"rows", "evidence", "handoffs", "reviews"}

Role == [m \in Members |-> CASE m = editor -> "EDITOR" [] m = reviewer -> "REVIEWER"
                              [] m = admin -> "ADMIN" [] OTHER -> "VIEWER"]
MCExtra == [m \in Members |-> {"sensitive.read", "sensitive.write"}]

Source(sc) == [scope |-> sc, owner |-> editor, temp |-> FALSE, until |-> Lease,
               status |-> "CONFIRMED", text |-> 1, self |-> FALSE, use |-> 0,
               rev |-> 1, epoch |-> 1]
Person(sc, s) == [scope |-> sc, source |-> s, owner |-> editor, value |-> 1,
                  status |-> "ACTIVE", rev |-> 1, epoch |-> 1]

Init ==
    /\ now = 0 /\ part \in Parts
    /\ requests = CASE part = "reviews" -> 0 [] part = "handoffs" -> 1 [] OTHER -> 2
    /\ member = [m \in Members |-> [role |-> Role[m], active |-> TRUE, rev |-> 1]]
    /\ scope = [sc \in Scopes |-> IF sc = all THEN Members
                                  ELSE IF sc = own THEN {editor, reviewer} ELSE {}]
    /\ \E sc \in IF part \in {"evidence", "reviews"} THEN {own} ELSE {all, own} :
           /\ source = [s \in {s1, s2} |-> Source(IF s = s1 THEN sc ELSE all)]
           /\ \/ person = [p \in {p1} |-> Person(sc, s1)] /\ contacts = [p \in {p1} |-> {}]
              \/ /\ part # "reviews"
                 /\ person = [p \in {p1, p2} |-> Person(sc, s1)]
                 /\ contacts = [p \in {p1, p2} |-> {}]
              \/ /\ person = [p \in {p1, p2} |-> Person(sc, IF p = p1 THEN s1 ELSE s2)]
                 /\ contacts = [p \in {p1, p2} |-> IF p = p1 THEN {} ELSE {s1}]
    /\ history = [s \in DOMAIN source |-> <<Version(source[s])>>]
    /\ evidence = {}
    /\ handoff = << >> /\ review = << >>
    /\ blocked = {} /\ merged = {} /\ form = NoForm

MCNext ==
    /\ UNCHANGED part
    /\ \/ \E m \in Members :
            \/ part = "rows" /\ (SourceSteps(m) \/ PersonSteps(m))
            \/ part = "evidence" /\ EvidenceSteps(m)
            \/ part = "handoffs" /\ HandoffSteps(m)
            \/ part = "reviews" /\ ReviewSteps(m)
            \/ BasisSteps(m) \/ EditSteps(m)
       \/ Elsewhere

Spec == Init /\ [][MCNext]_<<vars, part>>

\* Rows have the shape of their tables, a source its whole history, and grants do not pile up.
MCRecordsOK == TypeOK /\ HistoryIsWhole /\ OneGrantAtATime /\ OfferedIsAllowed
=============================================================================
