-------------------------- MODULE IncidentsProofs --------------------------
(***************************************************************************)
(* The theorems of the incident store and of the case files.               *)
(*                                                                         *)
(* Every step of Incidents either keeps the analyst's word on all the      *)
(* incidents there are (Keeps: analyses, listings, cases), or is one       *)
(* decision on one of them (Decides).  What is proved of the store follows *)
(* from that: the types, the honesty of dispositions and timestamps, and   *)
(* that it implements AnalystRecord, for any ids, runs, cases and bounds.  *)
(*                                                                         *)
(* The second half is about CaseFile, which overlaps where Incidents does  *)
(* not; its definitions and lemmas begin with File where both have one.    *)
(***************************************************************************)
EXTENDS Incidents, CaseFile, TLAPS

(* b says of the analyst's decisions what a says.                           *)
SameWord(a, b) ==
    /\ b.state = a.state
    /\ b.acknowledgedAt = a.acknowledgedAt
    /\ b.resolvedAt = a.resolvedAt
    /\ b.disposition = a.disposition
    /\ b.dispositionHistory = a.dispositionHistory

IsStore(incs) ==
    /\ incs = [i \in DOMAIN incs |-> incs[i]]
    /\ DOMAIN incs \subseteq Ids
    /\ \A i \in DOMAIN incs : incs[i] \in Incident

AreCases(cs) ==
    /\ cs \in Seq(Case)
    /\ Len(cs) <= MaxCases

Keeps(old, new) ==
    /\ IsStore(new)
    /\ DOMAIN old \subseteq DOMAIN new
    /\ \A i \in DOMAIN old : SameWord(old[i], new[i])
    /\ \A i \in DOMAIN new \ DOMAIN old :
        /\ new[i].disposition = None
        /\ new[i].dispositionHistory = <<>>
        /\ i \in Derived => SameWord(Unseen("new"), new[i])

Decides(i, s, d) ==
    /\ i \in DOMAIN incidents
    /\ d # None => s = "closed"
    /\ incidents' = [incidents EXCEPT ![i] = Moved(incidents[i], s, d)]

-----------------------------------------------------------------------------
(* Keeping the analyst's word is transitive.                                *)
LEMMA KeepsTransitive ==
    ASSUME NEW a, NEW b, NEW c, Keeps(a, b), Keeps(b, c)
    PROVE  Keeps(a, c)
BY DEF Keeps, SameWord

(* An incident seen for the first time has the types.                       *)
LEMMA UnseenType ==
    ASSUME NEW s \in States
    PROVE  /\ Unseen(s) \in Incident
           /\ Unseen(s).state = s
           /\ Unseen(s).disposition = None
           /\ Unseen(s).dispositionHistory = <<>>
BY DEF Unseen, Incident

LEMMA PrevType ==
    ASSUME NEW incs, IsStore(incs), NEW i, NEW s \in States
    PROVE  Prev(incs, i, s) \in Incident
BY UnseenType DEF Prev, IsStore

(* Rebuilding a derived incident from prev loses nothing of prev.           *)
LEMMA CarriedIsPrev ==
    ASSUME NEW prev \in Incident
    PROVE  /\ Carried(prev) \in Incident
           /\ SameWord(prev, Carried(prev))
BY UnseenType DEF Carried, Unseen, Incident, SameWord, States

(* sync_incidents keeps the analyst's word.                                 *)
LEMMA MergedKeeps ==
    ASSUME IsStore(incidents), NEW r, r \subseteq Derived
    PROVE  Keeps(incidents, Merged(r))
<1> DEFINE new == Merged(r)
<1>1. "new" \in States
    BY DEF States
<1>2. /\ new = [i \in DOMAIN new |-> new[i]]
      /\ DOMAIN new = DOMAIN incidents \cup r
      /\ \A i \in r : new[i] = Carried(Prev(incidents, i, "new"))
      /\ \A i \in DOMAIN incidents \ r : new[i] = incidents[i]
    BY DEF Merged
<1>3. \A i \in r : /\ new[i] \in Incident
                  /\ SameWord(Prev(incidents, i, "new"), new[i])
    BY <1>1, <1>2, PrevType, CarriedIsPrev
<1>4. IsStore(new)
    BY <1>2, <1>3 DEF IsStore, Ids
<1>5. \A i \in DOMAIN incidents : SameWord(incidents[i], new[i])
    <2> TAKE i \in DOMAIN incidents
    <2>1. CASE i \in r
        BY <2>1, <1>3 DEF Prev
    <2>2. CASE i \notin r
        BY <2>2, <1>2 DEF SameWord
    <2> QED BY <2>1, <2>2
<1>6. \A i \in DOMAIN new \ DOMAIN incidents : SameWord(Unseen("new"), new[i])
    BY <1>2, <1>3 DEF Prev
<1>7. \A i \in DOMAIN new \ DOMAIN incidents :
        new[i].disposition = None /\ new[i].dispositionHistory = <<>>
    BY <1>6, <1>1, UnseenType DEF SameWord
<1> HIDE DEF new
<1> QED BY <1>2, <1>4, <1>5, <1>6, <1>7 DEF Keeps, new

LEMMA Recased ==
    ASSUME NEW p \in Incident, NEW b \in SUBSET Case
    PROVE  [p EXCEPT !.cases = b] \in Incident /\ SameWord(p, [p EXCEPT !.cases = b])
BY DEF Incident, SameWord

(* migrate_cases_to_incidents keeps the analyst's word, on the manual       *)
(* incidents it rebuilds as well.                                           *)
LEMMA AbsorbedKeeps ==
    ASSUME NEW incs, IsStore(incs), NEW cs, AreCases(cs)
    PROVE  Keeps(incs, Absorbed(incs, cs))
<1> DEFINE homeless == {n \in DOMAIN cs : cs[n].links \cap DOMAIN incs = {}}
           Bucket(i) ==
               IF i \in homeless
               THEN {cs[n] : n \in {i} \cup {k \in Linking(cs, i) : k > i}}
               ELSE {c \in incs[i].cases : c.id \notin Linking(cs, i)}
                    \cup {cs[n] : n \in Linking(cs, i)}
           new == Absorbed(incs, cs)
<1>1. /\ new = [i \in DOMAIN incs \cup homeless |->
                  [Prev(incs, i, cs[i].status) EXCEPT !.cases = Bucket(i)]]
      /\ DOMAIN new = DOMAIN incs \cup homeless
    BY DEF Absorbed
<1>2. /\ homeless \subseteq DOMAIN cs
      /\ DOMAIN cs \subseteq Manual
      /\ \A n \in DOMAIN cs : cs[n] \in Case
    BY IncidentsAssumption DEF AreCases, Manual
<1>3. \A i \in DOMAIN new : Bucket(i) \subseteq Case
    <2> TAKE i \in DOMAIN new
    <2>1. CASE i \in homeless
        BY <2>1, <1>2 DEF Linking
    <2>2. CASE i \notin homeless
        <3>1. incs[i].cases \subseteq Case
            BY <2>2, <1>1 DEF IsStore, Incident
        <3> QED BY <3>1, <2>2, <1>2 DEF Linking
    <2> QED BY <2>1, <2>2
<1>4. \A i \in DOMAIN new : Prev(incs, i, cs[i].status) \in Incident
    BY <1>1, <1>2, UnseenType DEF Prev, IsStore, Case
<1> HIDE DEF homeless, Bucket, new
<1>5. \A i \in DOMAIN new : /\ new[i] \in Incident
                           /\ SameWord(Prev(incs, i, cs[i].status), new[i])
    <2> TAKE i \in DOMAIN new
    <2>1. new[i] = [Prev(incs, i, cs[i].status) EXCEPT !.cases = Bucket(i)]
        BY <1>1
    <2> QED BY <2>1, <1>3, <1>4, Recased
<1>6. IsStore(new)
    BY <1>1, <1>2, <1>5 DEF IsStore, Ids
<1>7. \A i \in DOMAIN incs : SameWord(incs[i], new[i])
    BY <1>1, <1>5 DEF Prev
<1>8. \A i \in DOMAIN new \ DOMAIN incs :
        /\ i \notin Derived
        /\ new[i].disposition = None /\ new[i].dispositionHistory = <<>>
    <2> TAKE i \in DOMAIN new \ DOMAIN incs
    <2>1. i \in homeless /\ i \in Nat /\ cs[i].status \in States
        BY <1>1, <1>2 DEF Manual, Case
    <2>2. SameWord(Unseen(cs[i].status), new[i])
        BY <1>5 DEF Prev
    <2> QED BY <2>1, <2>2, UnseenType, IncidentsAssumption DEF SameWord
<1> QED BY <1>1, <1>6, <1>7, <1>8 DEF Keeps, new

(* ensure_incident_cases keeps what incs says, and numbers its cases within *)
(* the store.                                                               *)
LEMMA EnsureKeeps ==
    ASSUME NEW incs, IsStore(incs), AreCases(cases),
           NEW more \in Seq(Ids), EnsureCases(incs, more)
    PROVE  Keeps(incs, incidents') /\ AreCases(cases')
<1>1. PICK k \in 0..MaxCases : \E order \in Bijection(1..k, Uncased(incs)) :
          LET wanted == order \o more
              opened == cases \o [j \in DOMAIN wanted |-> NewCase(Len(cases) + j, {wanted[j]})]
          IN  /\ Len(opened) <= MaxCases
              /\ cases' = opened
              /\ incidents' = IF wanted = <<>> THEN incs ELSE Absorbed(incs, opened)
    BY DEF EnsureCases
<1>2. PICK order \in Bijection(1..k, Uncased(incs)) :
          LET wanted == order \o more
              opened == cases \o [j \in DOMAIN wanted |-> NewCase(Len(cases) + j, {wanted[j]})]
          IN  /\ Len(opened) <= MaxCases
              /\ cases' = opened
              /\ incidents' = IF wanted = <<>> THEN incs ELSE Absorbed(incs, opened)
    BY <1>1
<1> DEFINE wanted == order \o more
           added == [j \in DOMAIN wanted |-> NewCase(Len(cases) + j, {wanted[j]})]
<1>3. order \in Seq(Ids)
    <2>1. order \in [1..k -> Uncased(incs)]
        BY DEF Bijection, Injection
    <2> QED BY <2>1, IncidentsAssumption DEF Uncased, Ids
<1>4. wanted \in Seq(Ids) /\ DOMAIN added = 1..Len(wanted) /\ Len(wanted) \in Nat
    BY <1>3
<1>5. Len(cases \o added) <= MaxCases /\ cases' = cases \o added
    BY <1>2
<1>6. added \in Seq(Case)
    <2>1. Len(cases) + Len(wanted) <= MaxCases /\ Len(cases) \in Nat
        BY <1>4, <1>5 DEF AreCases
    <2>2. ASSUME NEW j \in 1..Len(wanted)
          PROVE  NewCase(Len(cases) + j, {wanted[j]}) \in Case
        <3>1. wanted[j] \in Ids
            BY <1>4
        <3>2. Len(cases) + j \in Manual
            BY <2>1, <1>4, IncidentsAssumption DEF Manual
        <3>3. MaxEdits \in Nat
            BY IncidentsAssumption
        <3> HIDE DEF wanted
        <3> QED BY <3>1, <3>2, <3>3 DEF NewCase, Case, States
    <2>3. added = [j \in 1..Len(wanted) |-> NewCase(Len(cases) + j, {wanted[j]})]
        BY <1>4
    <2> HIDE DEF added, wanted
    <2>4. added \in [1..Len(wanted) -> Case]
        BY <2>2, <2>3
    <2> QED BY <2>4, <1>4
<1>7. AreCases(cases')
    BY <1>5, <1>6 DEF AreCases
<1>8. Keeps(incs, incs)
    BY DEF Keeps, SameWord
<1>9. incidents' = incs \/ incidents' = Absorbed(incs, cases')
    BY <1>2
<1> QED BY <1>7, <1>8, <1>9, AbsorbedKeeps

-----------------------------------------------------------------------------
(* What a step is: it keeps the analyst's word and stores cases, or it is a *)
(* decision.                                                                *)
LEMMA StepIs ==
    ASSUME TypeOK, [Next]_vars, IsStore(incidents)
    PROVE  /\ AreCases(cases')
           /\ run' \subseteq Derived
           /\ decisions' \in 0..MaxDecisions
           /\ \/ Keeps(incidents, incidents')
              \/ \E i \in Ids, s \in States, d \in Dispositions \cup {None} : Decides(i, s, d)
<1> USE IncidentsAssumption
<1>1. IsStore(incidents) /\ AreCases(cases) /\ run \subseteq Derived
    BY DEF TypeOK, AreCases
<1>2. Keeps(incidents, incidents)
    BY <1>1 DEF Keeps, SameWord
<1>3. decisions \in 0..MaxDecisions
    BY DEF TypeOK
<1>0. <<>> \in Seq(Ids)
    OBVIOUS
<1>4. ASSUME NEW r \in Runs, Publish(r) PROVE Keeps(incidents, incidents') /\ AreCases(cases')
    <2>1. Keeps(incidents, Merged(r)) /\ EnsureCases(Merged(r), <<>>)
        BY <1>1, <1>4, MergedKeeps DEF Publish
    <2>2. IsStore(Merged(r))
        BY <2>1 DEF Keeps
    <2>3. Keeps(Merged(r), incidents') /\ AreCases(cases')
        BY <1>0, <1>1, <2>1, <2>2, EnsureKeeps
    <2> QED BY <2>1, <2>3, KeepsTransitive
<1>5. CASE ListIncidents
    BY <1>1, <1>3, <1>5, MergedKeeps DEF ListIncidents
<1>6. CASE ListCases
    BY <1>0, <1>1, <1>3, <1>6, EnsureKeeps DEF ListCases
<1>7. ASSUME NEW i \in Ids, NEW s \in Moves, NEW d \in Dispositions \cup {None},
             SetIncidentState(i, s, d)
      PROVE  Decides(i, s, d) /\ UNCHANGED <<cases, run>> /\ decisions' \in 0..MaxDecisions
    BY <1>3, <1>7 DEF SetIncidentState, Decides
<1>8. ASSUME NEW cs, AreCases(cs), Store(cs)
      PROVE  Keeps(incidents, incidents') /\ AreCases(cases') /\ UNCHANGED <<run, decisions>>
    BY <1>1, <1>8, AbsorbedKeeps DEF Store
<1>9. ASSUME NEW links \in SUBSET Ids, CreateCase(links)
      PROVE  Keeps(incidents, incidents') /\ AreCases(cases') /\ UNCHANGED <<run, decisions>>
    <2>1. NewCase(Len(cases) + 1, links) \in Case
        BY <1>1, <1>9 DEF CreateCase, NewCase, Case, Manual, States, AreCases
    <2>2. AreCases(Append(cases, NewCase(Len(cases) + 1, links)))
        BY <1>1, <1>9, <2>1 DEF CreateCase, AreCases
    <2> QED BY <1>8, <1>9, <2>2 DEF CreateCase
<1>10. ASSUME NEW n \in Manual, NEW status \in Statuses, NEW links \in SUBSET Ids,
              EditCase(n, status, links)
       PROVE  Keeps(incidents, incidents') /\ AreCases(cases') /\ UNCHANGED <<run, decisions>>
    <2> DEFINE c == [id |-> n, status |-> status, links |-> links, edits |-> cases[n].edits + 1]
    <2>1. n \in DOMAIN cases /\ cases[n].edits < MaxEdits
        BY <1>10 DEF EditCase
    <2>2. cases[n] \in Case
        BY <1>1, <2>1 DEF AreCases
    <2>3. c \in Case
        BY <2>1, <2>2 DEF Case
    <2> HIDE DEF c
    <2>4. AreCases([cases EXCEPT ![n] = c])
        BY <1>1, <2>1, <2>3 DEF AreCases
    <2>5. Store([cases EXCEPT ![n] = c])
        BY <1>10 DEF EditCase, c
    <2> QED BY <1>8, <2>4, <2>5
<1>11. ASSUME NEW i \in Ids, OpenIncidentCase(i)
       PROVE  Keeps(incidents, incidents') /\ AreCases(cases') /\ UNCHANGED <<run, decisions>>
    <2>1. (IF i \in Manual /\ Linking(cases, i) = {} THEN <<i>> ELSE <<>>) \in Seq(Ids)
        OBVIOUS
    <2> QED BY <1>1, <1>11, <2>1, EnsureKeeps DEF OpenIncidentCase
<1>12. CASE UNCHANGED vars
    BY <1>1, <1>2, <1>3, <1>12 DEF vars
<1>13. ASSUME NEW r \in Runs, OpenRun(r)
       PROVE  Keeps(incidents, incidents') /\ AreCases(cases') /\ run' \subseteq Derived
    BY <1>1, <1>2, <1>13 DEF OpenRun
<1> QED
    <2>1. CASE \E r \in Runs : Publish(r) \/ OpenRun(r)
        BY <2>1, <1>3, <1>4, <1>13 DEF Publish, OpenRun
    <2>2. CASE \E i \in Ids, s \in Moves, d \in Dispositions \cup {None} : SetIncidentState(i, s, d)
        BY <2>2, <1>1, <1>7
    <2>3. CASE \E links \in SUBSET Ids : CreateCase(links)
        BY <2>3, <1>1, <1>3, <1>9
    <2>4. CASE \E n \in Manual, status \in Statuses, links \in SUBSET Ids : EditCase(n, status, links)
        BY <2>4, <1>1, <1>3, <1>10
    <2>5. CASE \E i \in Ids : OpenIncidentCase(i)
        BY <2>5, <1>1, <1>3, <1>11
    <2>6. AreCases(cases') /\ run' \subseteq Derived /\ decisions' \in 0..MaxDecisions
          BY <1>1, <1>3, <1>5, <1>6, <1>12, <2>1, <2>2, <2>3, <2>4, <2>5 DEF Next, ListIncidents, ListCases
    <2> QED BY <1>1, <1>3, <1>5, <1>6, <1>12, <2>1, <2>2, <2>3, <2>4, <2>5 DEF Next, ListIncidents, ListCases

-----------------------------------------------------------------------------
IInv == TypeOK /\ IsStore(incidents)

LEMMA InitIInv == Init => IInv
<1> SUFFICES ASSUME Init PROVE IInv
    OBVIOUS
<1>1. DOMAIN incidents = {} /\ incidents = [i \in DOMAIN incidents |-> incidents[i]]
    BY DEF Init
<1>2. cases \in Seq(Case) /\ Len(cases) = 0
    BY DEF Init
<1> QED BY <1>1, <1>2, IncidentsAssumption DEF Init, IInv, TypeOK, IsStore

(* A decision on an incident leaves an incident.                            *)
LEMMA MovedType ==
    ASSUME NEW inc \in Incident, NEW s \in States, NEW d \in Dispositions \cup {None}
    PROVE  Moved(inc, s, d) \in Incident
<1> DEFINE cleared == d = None /\ s \notin Terminal /\ inc.disposition # None
           acked == inc.acknowledgedAt \/ s # "new"
           ended == s \in Terminal
           held == IF d # None THEN d ELSE IF cleared THEN None ELSE inc.disposition
           trail ==
               IF d # None THEN Append(inc.dispositionHistory, [action |-> "set", disposition |-> d])
               ELSE IF cleared
                    THEN Append(inc.dispositionHistory, [action |-> "cleared", disposition |-> inc.disposition])
                    ELSE inc.dispositionHistory
<1>1. inc.dispositionHistory \in Seq(Marks) /\ inc.disposition \in Dispositions \cup {None}
    BY DEF Incident
<1>2. trail \in Seq(Marks)
    <2>1. CASE d # None
        <3>1. [action |-> "set", disposition |-> d] \in Marks
            BY <2>1 DEF Marks
        <3> QED BY <1>1, <2>1, <3>1
    <2>2. CASE d = None /\ cleared
        <3>1. [action |-> "cleared", disposition |-> inc.disposition] \in Marks
            BY <1>1, <2>2 DEF Marks
        <3> QED BY <1>1, <2>2, <3>1
    <2>3. CASE d = None /\ ~cleared
        BY <1>1, <2>3
    <2> QED BY <2>1, <2>2, <2>3
<1>3. held \in Dispositions \cup {None}
    BY <1>1
<1>4. acked \in BOOLEAN /\ ended \in BOOLEAN
    OBVIOUS
<1>5. Moved(inc, s, d) =
        [inc EXCEPT !.state = s, !.acknowledgedAt = acked, !.resolvedAt = ended,
                    !.disposition = held, !.dispositionHistory = trail]
    BY DEF Moved
<1> HIDE DEF acked, ended, held, trail, cleared
<1> QED BY <1>2, <1>3, <1>4, <1>5 DEF Incident

LEMMA DecidesStore ==
    ASSUME IsStore(incidents),
           NEW i \in Ids, NEW s \in States, NEW d \in Dispositions \cup {None}, Decides(i, s, d)
    PROVE  IsStore(incidents') /\ DOMAIN incidents' = DOMAIN incidents
<1>1. i \in DOMAIN incidents /\ incidents[i] \in Incident
    BY DEF Decides, IsStore
<1>2. Moved(incidents[i], s, d) \in Incident
    BY <1>1, MovedType
<1>3. incidents' = [incidents EXCEPT ![i] = Moved(incidents[i], s, d)]
    BY DEF Decides
<1> QED BY <1>1, <1>2, <1>3 DEF IsStore

LEMMA NextIInv == IInv /\ [Next]_vars => IInv'
<1> SUFFICES ASSUME IInv, [Next]_vars PROVE IInv'
    OBVIOUS
<1>1. AreCases(cases') /\ run' \subseteq Derived /\ decisions' \in 0..MaxDecisions
    BY StepIs DEF IInv
<1>2. IsStore(incidents')
    <2>1. CASE Keeps(incidents, incidents')
        BY <2>1 DEF Keeps
    <2>2. CASE \E i \in Ids, s \in States, d \in Dispositions \cup {None} : Decides(i, s, d)
        BY <2>2, DecidesStore DEF IInv
    <2> QED BY <2>1, <2>2, StepIs DEF IInv
<1> QED BY <1>1, <1>2 DEF IInv, TypeOK, IsStore, AreCases

(* The types of the two stores, for any ids, runs and bounds (_load, _save  *)
(* and every request between them).                                         *)
THEOREM TypeCorrect == Spec => []TypeOK
<1>1. Spec => []IInv
    BY InitIInv, NextIInv, PTL DEF Spec
<1>2. IInv => TypeOK
    BY DEF IInv
<1> QED BY <1>1, <1>2, PTL

-----------------------------------------------------------------------------
(* What a decision makes of an incident.                                    *)
MovedTo(inc, s, d, m) ==
    /\ m.state = s
    /\ m.acknowledgedAt <=> inc.acknowledgedAt \/ s # "new"
    /\ m.resolvedAt <=> s \in Terminal
    /\ d # None =>
          /\ m.disposition = d
          /\ m.dispositionHistory =
                Append(inc.dispositionHistory, [action |-> "set", disposition |-> d])
    /\ d = None /\ s \notin Terminal /\ inc.disposition # None =>
          /\ m.disposition = None
          /\ m.dispositionHistory =
                Append(inc.dispositionHistory, [action |-> "cleared", disposition |-> inc.disposition])
    /\ d = None /\ (s \in Terminal \/ inc.disposition = None) =>
          /\ m.disposition = inc.disposition
          /\ m.dispositionHistory = inc.dispositionHistory

LEMMA MovedIs ==
    ASSUME NEW inc \in Incident, NEW s \in States, NEW d \in Dispositions \cup {None}
    PROVE  MovedTo(inc, s, d, Moved(inc, s, d))
BY DEF Moved, MovedTo, Incident

(* The disposition of one incident agrees with its history and its state.   *)
Sound(inc) ==
    LET trail == inc.dispositionHistory
    IN  /\ inc.disposition # None =>
              /\ inc.state \in Terminal
              /\ trail # <<>>
              /\ trail[Len(trail)] = [action |-> "set", disposition |-> inc.disposition]
        /\ inc.disposition = None /\ trail # <<>> => trail[Len(trail)].action = "cleared"

Honest(inc) ==
    /\ inc.resolvedAt <=> inc.state \in Terminal
    /\ inc.state # "new" => inc.acknowledgedAt

LEMMA MovedSound ==
    ASSUME NEW inc \in Incident, NEW s \in States, NEW d \in Dispositions \cup {None},
           d # None => s = "closed", Sound(inc)
    PROVE  Sound(Moved(inc, s, d))
<1> DEFINE m == Moved(inc, s, d)
<1>1. inc.dispositionHistory \in Seq(Marks) /\ inc.disposition \in Dispositions \cup {None}
    BY DEF Incident
<1>0. MovedTo(inc, s, d, m)
    BY MovedIs
<1>2. CASE d # None
    <2> DEFINE e == [action |-> "set", disposition |-> d]
    <2>1. m.disposition = d /\ m.state \in Terminal /\ m.dispositionHistory = Append(inc.dispositionHistory, e)
        BY <1>0, <1>2 DEF MovedTo, Terminal
    <2> HIDE DEF m, e
    <2>2. m.dispositionHistory # <<>> /\ m.dispositionHistory[Len(m.dispositionHistory)] = e
        BY <1>1, <2>1
    <2> QED BY <1>2, <2>1, <2>2 DEF Sound, e, m
<1>3. CASE d = None /\ s \notin Terminal /\ inc.disposition # None
    <2> DEFINE e == [action |-> "cleared", disposition |-> inc.disposition]
    <2>1. m.disposition = None /\ m.dispositionHistory = Append(inc.dispositionHistory, e)
        BY <1>0, <1>3 DEF MovedTo
    <2> HIDE DEF m, e
    <2>2. m.dispositionHistory[Len(m.dispositionHistory)] = e
        BY <1>1, <2>1
    <2> QED BY <2>1, <2>2 DEF Sound, e, m
<1>4. CASE d = None /\ (s \in Terminal \/ inc.disposition = None)
    <2>1. m.disposition = inc.disposition /\ m.dispositionHistory = inc.dispositionHistory /\ m.state = s
        BY <1>0, <1>4 DEF MovedTo
    <2> HIDE DEF m
    <2> QED BY <1>4, <2>1 DEF Sound, m
<1> QED BY <1>2, <1>3, <1>4

LEMMA MovedHonest ==
    ASSUME NEW inc \in Incident, NEW s \in States, NEW d \in Dispositions \cup {None}
    PROVE  Honest(Moved(inc, s, d))
<1>1. MovedTo(inc, s, d, Moved(inc, s, d))
    BY MovedIs
<1> QED BY <1>1 DEF MovedTo, Honest

(* Keeping the word keeps what depends on the word alone.                   *)
LEMMA KeepsSound ==
    ASSUME NEW new, Keeps(incidents, new), \A i \in DOMAIN incidents : Sound(incidents[i])
    PROVE  \A i \in DOMAIN new : Sound(new[i])
BY DEF Keeps, SameWord, Sound

LEMMA KeepsHonest ==
    ASSUME NEW new, Keeps(incidents, new), \A i \in DOMAIN incidents \cap Derived : Honest(incidents[i])
    PROVE  \A i \in DOMAIN new \cap Derived : Honest(new[i])
<1>1. Honest(Unseen("new"))
    BY DEF Honest, Unseen, Terminal
<1> QED BY <1>1 DEF Keeps, SameWord, Honest

AllSound == \A i \in DOMAIN incidents : Sound(incidents[i])
AllHonest == \A i \in DOMAIN incidents \cap Derived : Honest(incidents[i])

LEMMA NextSound == IInv /\ AllSound /\ AllHonest /\ [Next]_vars => AllSound' /\ AllHonest'
<1> SUFFICES ASSUME IInv, AllSound, AllHonest, [Next]_vars PROVE AllSound' /\ AllHonest'
    OBVIOUS
<1>1. CASE Keeps(incidents, incidents')
    BY <1>1, KeepsSound, KeepsHonest DEF AllSound, AllHonest
<1>2. ASSUME NEW i \in Ids, NEW s \in States, NEW d \in Dispositions \cup {None}, Decides(i, s, d)
      PROVE  AllSound' /\ AllHonest'
    <2>1. i \in DOMAIN incidents /\ incidents[i] \in Incident
        BY <1>2 DEF Decides, IInv, TypeOK
    <2>2. /\ DOMAIN incidents' = DOMAIN incidents
          /\ incidents'[i] = Moved(incidents[i], s, d)
          /\ \A j \in DOMAIN incidents \ {i} : incidents'[j] = incidents[j]
        BY <1>2, <2>1 DEF Decides
    <2>3. Sound(incidents'[i]) /\ Honest(incidents'[i])
        BY <1>2, <2>1, <2>2, MovedSound, MovedHonest DEF Decides, AllSound
    <2> QED BY <2>2, <2>3 DEF AllSound, AllHonest
<1> QED BY <1>1, <1>2, StepIs DEF IInv

LEMMA WordHolds == Spec => [](IInv /\ AllSound /\ AllHonest)
<1>1. Init => AllSound /\ AllHonest
    BY DEF Init, AllSound, AllHonest
<1> QED BY <1>1, InitIInv, NextIInv, NextSound, PTL DEF Spec

(* set_incident_state: a disposition in force was the last one set, and its *)
(* incident is resolved or closed, whatever analyses and cases come between.*)
THEOREM DispositionsAreClosed == Spec => []DispositionIsClosed
<1>1. IInv /\ AllSound => DispositionIsClosed
    BY DEF IInv, TypeOK, AllSound, Sound, DispositionIsClosed, Record!Coherent, Record!Said, In
<1> QED BY <1>1, WordHolds, PTL

(* The timestamps of an incident the rules found follow its state.          *)
THEOREM TimestampsHold == Spec => []TimestampsAreHonest
<1>1. AllHonest => TimestampsAreHonest
    BY DEF AllHonest, Honest, TimestampsAreHonest
<1> QED BY <1>1, WordHolds, PTL

-----------------------------------------------------------------------------
standing == [i \in Ids |-> IF In(i) THEN incidents[i].state ELSE "absent"]
holding == [i \in Ids |-> IF In(i) THEN incidents[i].disposition ELSE None]
trail == [i \in Ids |-> IF In(i) THEN incidents[i].dispositionHistory ELSE <<>>]

LEMMA InitMaps == Init => Record!RecordInit
BY DEF Init, Record!RecordInit, In

(* A step that keeps the word makes incidents appear, or nothing.           *)
LEMMA KeepsMaps ==
    ASSUME IInv, Keeps(incidents, incidents')
    PROVE  Record!Appear
<1>1. standing' \in [Ids -> States \cup {"absent"}]
    BY DEF standing, In, Keeps, IsStore, Incident
<1>2. \A i \in Ids : standing[i] # "absent" => standing'[i] = standing[i]
    BY DEF standing, In, Keeps, SameWord
<1>3. holding' = holding /\ trail' = trail
    BY DEF holding, trail, In, Keeps, SameWord
<1> QED BY <1>1, <1>2, <1>3 DEF Record!Appear, standing, holding, trail

LEMMA DecidesMaps ==
    ASSUME IInv, NEW i \in Ids, NEW s \in States, NEW d \in Dispositions \cup {None}, Decides(i, s, d)
    PROVE  Record!Decide(i, s, d)
<1>1. i \in DOMAIN incidents /\ incidents[i] \in Incident /\ incidents[i].state # "absent"
    BY DEF Decides, IInv, TypeOK, Incident, States
<1>2. /\ DOMAIN incidents' = DOMAIN incidents
      /\ incidents'[i] = Moved(incidents[i], s, d)
      /\ \A j \in DOMAIN incidents \ {i} : incidents'[j] = incidents[j]
    BY <1>1 DEF Decides
<1>0. MovedTo(incidents[i], s, d, incidents'[i])
    BY <1>1, <1>2, MovedIs
<1>3. standing[i] # "absent" /\ standing' = [standing EXCEPT ![i] = s]
    BY <1>1, <1>2, <1>0 DEF MovedTo, standing, In
<1>4. holding[i] = incidents[i].disposition /\ trail[i] = incidents[i].dispositionHistory
    BY <1>1 DEF holding, trail, In
<1>5. /\ holding' = [holding EXCEPT ![i] = incidents'[i].disposition]
      /\ trail' = [trail EXCEPT ![i] = incidents'[i].dispositionHistory]
    BY <1>1, <1>2 DEF holding, trail, In
<1>6. holding = [holding EXCEPT ![i] = holding[i]] /\ trail = [trail EXCEPT ![i] = trail[i]]
    BY DEF holding, trail
<1>7. CASE d # None
    <2>1. /\ incidents'[i].disposition = d
          /\ incidents'[i].dispositionHistory = Append(trail[i], [action |-> "set", disposition |-> d])
        BY <1>0, <1>4, <1>7 DEF MovedTo
    <2> QED BY <1>3, <1>5, <1>7, <2>1 DEF Decides, Record!Decide, Record!Said, standing, holding, trail
<1>8. CASE d = None /\ s \notin Terminal /\ holding[i] # None
    <2>1. /\ incidents'[i].disposition = None
          /\ incidents'[i].dispositionHistory =
                Append(trail[i], [action |-> "cleared", disposition |-> holding[i]])
        BY <1>0, <1>4, <1>8 DEF MovedTo
    <2> QED BY <1>3, <1>5, <1>8, <2>1 DEF Record!Decide, Record!Said, standing, holding, trail
<1>9. CASE d = None /\ (s \in Terminal \/ holding[i] = None)
    <2>1. incidents'[i].disposition = holding[i] /\ incidents'[i].dispositionHistory = trail[i]
        BY <1>0, <1>4, <1>9 DEF MovedTo
    <2> QED BY <1>3, <1>5, <1>6, <1>9, <2>1 DEF Record!Decide, standing, holding, trail
<1> QED BY <1>7, <1>8, <1>9

(* The stores keep the analyst's record as AnalystRecord states it: what    *)
(* "MUST be carried across every re-derivation" is, for any number of runs, *)
(* cases and decisions.                                                     *)
THEOREM RecordIsKept == Spec => ImplementsRecord
<1>1. IInv /\ [Next]_vars => [Record!RecordNext]_<<standing, holding, trail>>
    BY KeepsMaps, DecidesMaps, StepIs DEF Record!RecordNext, IInv
<1> QED BY <1>1, InitIInv, NextIInv, InitMaps, PTL
        DEF Spec, ImplementsRecord, Record!RecordSpec, Record!rvars, standing, holding, trail

-----------------------------------------------------------------------------
(* CaseIsHosted, of any incidents and cases.                                *)
Homed(incs, cs) ==
    \A n \in DOMAIN cs :
        \/ \E i \in DOMAIN incs : cs[n] \in incs[i].cases
        \/ \E i \in cs[n].links \cap Manual : i > n

(* What held the copies before holds them after.                            *)
LEMMA HomedGrows ==
    ASSUME NEW old, NEW new, NEW cs, Homed(old, cs), DOMAIN old \subseteq DOMAIN new,
           \A i \in DOMAIN old : old[i].cases \subseteq new[i].cases
    PROVE  Homed(new, cs)
BY DEF Homed

(* Absorbing the cases gives each its place, wherever they were before: a   *)
(* homeless one in its manual incident, another on an incident it links,    *)
(* unless that is the manual incident of a homeless later one.              *)
LEMMA AbsorbedHomes ==
    ASSUME NEW incs, IsStore(incs), NEW cs, AreCases(cs)
    PROVE  Homed(Absorbed(incs, cs), cs)
<1> DEFINE homeless == {n \in DOMAIN cs : cs[n].links \cap DOMAIN incs = {}}
           Bucket(i) ==
               IF i \in homeless
               THEN {cs[n] : n \in {i} \cup {k \in Linking(cs, i) : k > i}}
               ELSE {c \in incs[i].cases : c.id \notin Linking(cs, i)}
                    \cup {cs[n] : n \in Linking(cs, i)}
           new == Absorbed(incs, cs)
<1>1. /\ new = [i \in DOMAIN incs \cup homeless |->
                  [Prev(incs, i, cs[i].status) EXCEPT !.cases = Bucket(i)]]
      /\ DOMAIN new = DOMAIN incs \cup homeless
    BY DEF Absorbed
<1>2. /\ homeless \subseteq Manual
      /\ \A n \in DOMAIN cs : cs[n] \in Case
      /\ DOMAIN cs \subseteq Manual
    BY IncidentsAssumption DEF AreCases, Manual
<1>3. \A i \in DOMAIN new : new[i].cases = Bucket(i)
    <2>1. \A i \in DOMAIN new : Prev(incs, i, cs[i].status) \in Incident
        BY <1>1, <1>2, UnseenType DEF Prev, IsStore, Case
    <2> HIDE DEF Bucket, homeless, new
    <2> QED BY <1>1, <2>1 DEF Incident
<1>4. ASSUME NEW n \in DOMAIN cs
      PROVE  \/ \E i \in DOMAIN new : cs[n] \in new[i].cases
             \/ \E i \in cs[n].links \cap Manual : i > n
    <2>1. CASE n \in homeless
        <3>1. cs[n] \in Bucket(n) /\ n \in DOMAIN new
            BY <1>1, <2>1
        <3> QED BY <1>3, <3>1
    <2>2. CASE n \notin homeless
        <3>1. PICK i \in cs[n].links : i \in DOMAIN incs
            BY <2>2
        <3>2. n \in Linking(cs, i) /\ i \in DOMAIN new
            BY <1>1, <3>1 DEF Linking
        <3>3. CASE i \notin homeless
            <4>1. cs[n] \in Bucket(i)
                BY <3>2, <3>3
            <4> QED BY <1>3, <3>2, <4>1
        <3>4. CASE i \in homeless /\ n > i
            <4>1. cs[n] \in Bucket(i)
                BY <3>2, <3>4
            <4> QED BY <1>3, <3>2, <4>1
        <3>5. CASE i \in homeless /\ ~(n > i)
            <4>1. i \in Nat /\ n \in Nat /\ i # n
                BY <1>2, <2>2, <3>5 DEF Manual
            <4> QED BY <1>2, <3>1, <3>5, <4>1
        <3> QED BY <3>3, <3>4, <3>5
    <2> QED BY <2>1, <2>2
<1> QED BY <1>4 DEF Homed

LEMMA MergedHomes ==
    ASSUME IInv, Homed(incidents, cases), NEW r, r \subseteq Derived
    PROVE  Homed(Merged(r), cases)
<1>1. DOMAIN incidents \subseteq DOMAIN Merged(r)
    BY DEF Merged
<1>2. ASSUME NEW i \in DOMAIN incidents PROVE incidents[i].cases \subseteq Merged(r)[i].cases
    <2>1. incidents[i] \in Incident
        BY DEF IInv, TypeOK
    <2>2. Carried(incidents[i]).cases = incidents[i].cases
        BY <2>1 DEF Carried, Unseen, Incident
    <2>3. Merged(r)[i] = Carried(incidents[i]) \/ Merged(r)[i] = incidents[i]
        BY DEF Merged, Prev
    <2> QED BY <2>2, <2>3
<1> QED BY <1>1, <1>2, HomedGrows

LEMMA EnsureHomes ==
    ASSUME NEW incs, IsStore(incs), AreCases(cases), Homed(incs, cases),
           NEW more \in Seq(Ids), EnsureCases(incs, more)
    PROVE  Homed(incidents', cases')
<1>1. AreCases(cases')
    BY EnsureKeeps
<1>2. PICK k \in 0..MaxCases : \E order \in Bijection(1..k, Uncased(incs)) :
          LET wanted == order \o more
              opened == cases \o [j \in DOMAIN wanted |-> NewCase(Len(cases) + j, {wanted[j]})]
          IN  /\ Len(opened) <= MaxCases
              /\ cases' = opened
              /\ incidents' = IF wanted = <<>> THEN incs ELSE Absorbed(incs, opened)
    BY DEF EnsureCases
<1>3. PICK order \in Bijection(1..k, Uncased(incs)) :
          LET wanted == order \o more
              opened == cases \o [j \in DOMAIN wanted |-> NewCase(Len(cases) + j, {wanted[j]})]
          IN  /\ Len(opened) <= MaxCases
              /\ cases' = opened
              /\ incidents' = IF wanted = <<>> THEN incs ELSE Absorbed(incs, opened)
    BY <1>2
<1> DEFINE wanted == order \o more
           added == [j \in DOMAIN wanted |-> NewCase(Len(cases) + j, {wanted[j]})]
<1>4. CASE wanted = <<>>
    <2>1. DOMAIN added = {}
        BY <1>4
    <2>2. added = <<>>
        BY <2>1
    <2>3. cases' = cases \o added /\ incidents' = incs
        BY <1>3, <1>4
    <2> HIDE DEF added
    <2>4. cases' = cases
        BY <2>2, <2>3 DEF AreCases
    <2> QED BY <2>3, <2>4
<1>5. CASE wanted # <<>>
    <2>1. incidents' = Absorbed(incs, cases')
        BY <1>3, <1>5
    <2> QED BY <1>1, <2>1, AbsorbedHomes
<1> QED BY <1>4, <1>5

LEMMA NextHomed == IInv /\ Homed(incidents, cases) /\ [Next]_vars => Homed(incidents, cases)'
<1> SUFFICES ASSUME IInv, Homed(incidents, cases), [Next]_vars
             PROVE  Homed(incidents', cases')
    OBVIOUS
<1> USE IncidentsAssumption
<1>1. IsStore(incidents) /\ AreCases(cases) /\ run \subseteq Derived /\ <<>> \in Seq(Ids)
    BY DEF IInv, TypeOK, AreCases
<1>2. AreCases(cases')
    BY StepIs DEF IInv
<1>3. ASSUME NEW r \in Runs, Publish(r) PROVE Homed(incidents', cases')
    <2>1. IsStore(Merged(r)) /\ Homed(Merged(r), cases)
        BY <1>1, MergedKeeps, MergedHomes DEF Keeps
    <2> QED BY <1>1, <1>3, <2>1, EnsureHomes DEF Publish
<1>4. CASE ListIncidents
    BY <1>1, <1>4, MergedHomes DEF ListIncidents
<1>5. CASE ListCases
    BY <1>1, <1>5, EnsureHomes DEF ListCases
<1>6. ASSUME NEW i \in Ids, NEW s \in Moves, NEW d \in Dispositions \cup {None},
             SetIncidentState(i, s, d)
      PROVE  Homed(incidents', cases')
    <2>1. i \in DOMAIN incidents /\ incidents[i] \in Incident
        BY <1>6 DEF SetIncidentState, IInv, TypeOK
    <2>2. /\ DOMAIN incidents' = DOMAIN incidents
          /\ incidents'[i] = Moved(incidents[i], s, d)
          /\ \A j \in DOMAIN incidents \ {i} : incidents'[j] = incidents[j]
          /\ cases' = cases
        BY <1>6, <2>1 DEF SetIncidentState
    <2>3. Moved(incidents[i], s, d).cases = incidents[i].cases
        BY <2>1 DEF Moved, Incident
    <2>4. \A j \in DOMAIN incidents : incidents[j].cases \subseteq incidents'[j].cases
        BY <2>2, <2>3
    <2>5. Homed(incidents', cases)
        BY <2>2, <2>4, HomedGrows
    <2> QED BY <2>2, <2>5
<1>7. ASSUME NEW cs, Store(cs) PROVE Homed(incidents', cases')
    BY <1>1, <1>2, <1>7, AbsorbedHomes DEF Store
<1>8. ASSUME NEW i \in Ids, OpenIncidentCase(i) PROVE Homed(incidents', cases')
    <2>1. (IF i \in Manual /\ Linking(cases, i) = {} THEN <<i>> ELSE <<>>) \in Seq(Ids)
        OBVIOUS
    <2> QED BY <1>1, <1>8, <2>1, EnsureHomes DEF OpenIncidentCase
<1>9. CASE UNCHANGED <<incidents, cases>>
    BY <1>9
<1> QED BY <1>3, <1>4, <1>5, <1>6, <1>7, <1>8, <1>9
        DEF Next, vars, OpenRun, CreateCase, EditCase

(* migrate_cases_to_incidents: what a case says is on some incident after   *)
(* every request, but for a case that links the manual incident of a later  *)
(* one.                                                                     *)
THEOREM CasesAreHosted == Spec => []CaseIsHosted
<1>1. Init => Homed(incidents, cases)
    BY DEF Init, Homed
<1>2. Homed(incidents, cases) => CaseIsHosted
    BY DEF Homed, CaseIsHosted, Hosted
<1> QED BY <1>1, <1>2, InitIInv, NextIInv, NextHomed, PTL DEF Spec
-----------------------------------------------------------------------------
(* The case files, with every load, write and overlap: what CaseFilesHold   *)
(* says of attachments, links and entries.  It is not inductive.  What is   *)
(* saved was copied before, so the invariant says of every copy what the    *)
(* property says of the file; and that a file is all there once it is       *)
(* listed is said of its handler, who lists it last.                        *)
Filed == [activity : SUBSET Requests, observables : Seq({"none", "advisory"}),
         attachments : Seq(Requests), links : SUBSET Nat]
Stores == UNION {[1..k -> Filed] : k \in Nat}
Files == [by : Requests, whole : BOOLEAN]
Steps == {"unsent", "loaded", "opened", "stored", "truncated", "over"}
Handlers == [at : Steps, op : Ops, case : Nat, item : Nat, copy : Stores,
             answer : Nat, got : {<<>>} \cup {<<f>> : f \in Files}]

FileTypeOK ==
    /\ caseFile \in [form : {"json", "empty", "garbled"}, cases : Stores]
    /\ DOMAIN blobs \subseteq Nat \X Nat /\ blobs \in [DOMAIN blobs -> Files]
    /\ request \in [Requests -> Handlers]

Mutual(cs) == \A n \in DOMAIN cs : \A m \in cs[n].links : m \in DOMAIN cs /\ n \in cs[m].links

MutualOK == Mutual(caseFile.cases) /\ \A r \in Requests : Mutual(request[r].copy)

(* A handler that has not answered has what it needs for its change. *)
Fit(q) ==
    /\ q.op = "create" => q.case = NextCase(q.copy)
    /\ q.op # "create" => q.case \in DOMAIN q.copy
    /\ q.op = "link" => q.item \in DOMAIN q.copy \ {q.case}
    /\ q.op = "enrich" => q.item \in DOMAIN q.copy[q.case].observables
    /\ q.op \in Reads => q.item \in DOMAIN q.copy[q.case].attachments

WorkOK ==
    \A r \in Requests : LET q == request[r] IN
        /\ q.at \notin {"unsent", "over"} => Fit(q)
        /\ q.at \in {"opened", "stored"} => q.op = "attach"
        /\ q.at = "truncated" => q.op \notin Reads
        /\ q.at # "over" => q.answer = 0

(* A file is where its handler drew a place for it, and is all there by the  *)
(* time that handler saves the case.                                         *)
Drawn(f, b) ==
    LET q == request[f.by]
    IN  q.at # "unsent" /\ q.op = "attach" /\ q.case \in DOMAIN q.copy /\ Draw(q) = b

Whole(b, r) == b \in DOMAIN blobs /\ (blobs[b].by = r => blobs[b].whole)

BlobsOK ==
    /\ \A b \in DOMAIN blobs : Drawn(blobs[b], b)
    /\ \A r \in Requests : LET q == request[r] IN
          q.op = "attach" =>
             /\ q.at = "opened" => Draw(q) \in DOMAIN blobs
             /\ q.at \in {"stored", "truncated"} => Whole(Draw(q), r)

(* cs lists the file of r in place b[2] of case b[1]. *)
Lists(cs, b, r) ==
    b[1] \in DOMAIN cs /\ b[2] \in DOMAIN cs[b[1]].attachments /\ cs[b[1]].attachments[b[2]] = r

Listed(b, r) == Lists(caseFile.cases, b, r) \/ \E s \in Requests : Lists(request[s].copy, b, r)

ListedOK ==
    \A b \in Nat \X Nat, r \in Requests :
        Listed(b, r) => request[r].at = "over" /\ Whole(b, r)

(* A reader was given f, as the file of x in place b. *)
Got(q, f, b, x) ==
    /\ b = <<q.case, q.item>> /\ q.got = <<f>> /\ Lists(q.copy, b, x)
    /\ Drawn(f, b) /\ (f.by = x => f.whole)

ReadOK ==
    \A r \in Requests : request[r].op \in Reads /\ request[r].answer = 200 =>
        \E f \in Files, b \in Nat \X Nat, x \in Requests : Got(request[r], f, b, x)

(* While nobody who was overtaken has saved: what was answered as recorded   *)
(* is in the file, and in the copy of everyone who may save without having   *)
(* been overtaken.                                                           *)
Holds(cs, n, r) == n \in DOMAIN cs /\ r \in cs[n].activity

Undisturbed == \A s \in overtaken : s \in Requests => ~Made(s)

RecordOK ==
    Undisturbed => \A r \in Requests : Made(r) =>
        /\ caseFile.form = "json" => Holds(caseFile.cases, request[r].case, r)
        /\ \A s \in Underway \ overtaken : Holds(request[s].copy, request[r].case, r)

FileInv == FileTypeOK /\ MutualOK /\ WorkOK /\ BlobsOK /\ ListedOK /\ ReadOK /\ RecordOK

-----------------------------------------------------------------------------
(* Stores: cases numbered from 1. *)
LEMMA StoreIs ==
    ASSUME NEW cs \in Stores
    PROVE  /\ DOMAIN cs \subseteq Nat \ {0}
           /\ \A n \in DOMAIN cs : cs[n] \in Filed
  BY DEF Stores

LEMMA NoCasesIs ==
    NoCases \in Stores /\ DOMAIN NoCases = {}
<1>1. NoCases \in [1..0 -> Filed]
  BY DEF NoCases
<1> QED BY <1>1 DEF Stores, NoCases

LEMMA StoreExcept ==
    ASSUME NEW cs \in Stores, NEW n \in DOMAIN cs, NEW c \in Filed
    PROVE  /\ [cs EXCEPT ![n] = c] \in Stores
           /\ DOMAIN [cs EXCEPT ![n] = c] = DOMAIN cs
  BY DEF Stores

LEMMA StoreNext ==
    ASSUME NEW cs \in Stores, NEW r \in Requests
    PROVE  /\ NextCase(cs) \in Nat \ DOMAIN cs
           /\ Created(cs, r, NextCase(cs)) \in Stores
<1>1. PICK k \in Nat : cs \in [1..k -> Filed]
  BY DEF Stores
<1>2. NextCase(cs) = k + 1
  <2>1. CASE k = 0
    BY <1>1, <2>1 DEF NextCase, NoCases
  <2>2. CASE k # 0
    <3>1. cs # NoCases
      BY <1>1, <2>2, NoCasesIs
    <3>2. \A y \in 1..k : k >= y
      OBVIOUS
    <3>3. \A x \in 1..k : (\A y \in 1..k : x >= y) => x = k
      BY <2>2
    <3>4. Max(1..k) = k
      BY <2>2, <3>2, <3>3 DEF Max
    <3>5. DOMAIN cs = 1..k
      BY <1>1
    <3> QED BY <3>1, <3>4, <3>5 DEF NextCase
  <2> QED BY <2>1, <2>2
<1>3. Bare(r) \in Filed
  BY DEF Bare, Filed
<1>4. (1..k) \cup {k + 1} = 1..k + 1
  OBVIOUS
<1>5. Created(cs, r, k + 1) \in [1..k + 1 -> Filed]
  BY <1>1, <1>3, <1>4 DEF Created
<1> QED BY <1>1, <1>2, <1>5 DEF Stores

LEMMA SequenceIs ==
    ASSUME NEW S, NEW s \in Seq(S)
    PROVE  /\ Len(s) \in Nat /\ DOMAIN s = 1..Len(s)
           /\ Len(s) + 1 \notin DOMAIN s
           /\ \A i \in DOMAIN s, x \in S : [s EXCEPT ![i] = x] \in Seq(S)
<1>1. Len(s) \in Nat /\ DOMAIN s = 1..Len(s)
  OBVIOUS
<1>2. \A i \in DOMAIN s, x \in S : [s EXCEPT ![i] = x] \in Seq(S)
  OBVIOUS
<1> QED BY <1>1, <1>2

LEMMA AppendIs ==
    ASSUME NEW S, NEW s \in Seq(S), NEW x \in S
    PROVE  /\ Len(s) \in Nat /\ DOMAIN s = 1..Len(s)
           /\ DOMAIN Append(s, x) = 1..Len(s) + 1 /\ Append(s, x)[Len(s) + 1] = x
           /\ \A i \in 1..Len(s) : Append(s, x)[i] = s[i]
<1>1. Len(Append(s, x)) = Len(s) + 1 /\ Append(s, x) \in Seq(S)
  OBVIOUS
<1>2. Append(s, x)[Len(s) + 1] = x
  OBVIOUS
<1>3. \A i \in 1..Len(s) : Append(s, x)[i] = s[i]
  OBVIOUS
<1> QED BY <1>1, <1>2, <1>3

LEMMA AnsweredIs ==
    ASSUME NEW q \in Handlers, NEW code \in Nat
    PROVE  LET a == Answered(q, code)
           IN  /\ a \in Handlers /\ a.at = "over" /\ a.answer = code
               /\ a.op = q.op /\ a.case = q.case /\ a.item = q.item /\ a.got = q.got
               /\ a.copy = IF q.op \in Reads \cup {"attach"} THEN q.copy ELSE NoCases
<1> DEFINE kept == IF q.op \in Reads \cup {"attach"} THEN q.copy ELSE NoCases
<1>1. kept \in Stores
  BY NoCasesIs DEF Handlers
<1>2. Answered(q, code) = [q EXCEPT !.at = "over", !.answer = code, !.copy = kept]
  BY DEF Answered, Handlers
<1> HIDE DEF kept
<1>3. "over" \in Steps
  BY DEF Steps
<1>4. [q EXCEPT !.at = "over", !.answer = code, !.copy = kept] \in Handlers
  BY <1>1, <1>3 DEF Handlers
<1>5. /\ Answered(q, code).at = "over" /\ Answered(q, code).answer = code
      /\ Answered(q, code).op = q.op /\ Answered(q, code).case = q.case
      /\ Answered(q, code).item = q.item /\ Answered(q, code).got = q.got
      /\ Answered(q, code).copy = kept
  BY <1>2 DEF Handlers
<1> QED BY <1>2, <1>4, <1>5 DEF kept

LEMMA DrawIs ==
    ASSUME NEW q \in Handlers, q.case \in DOMAIN q.copy
    PROVE  /\ Draw(q) \in Nat \X Nat
           /\ Draw(q)[1] = q.case
           /\ Draw(q)[2] = Len(q.copy[q.case].attachments) + 1
           /\ Draw(q)[2] \notin DOMAIN q.copy[q.case].attachments
<1>1. q.copy[q.case].attachments \in Seq(Requests)
  BY StoreIs DEF Handlers, Filed
<1>3. q.case \in Nat
  BY DEF Handlers
<1> DEFINE k == Len(q.copy[q.case].attachments)
<1>4. Draw(q) = <<q.case, k + 1>>
  BY DEF Draw
<1>5. k \in Nat /\ k + 1 \notin DOMAIN q.copy[q.case].attachments
  BY <1>1, SequenceIs
<1> HIDE DEF k
<1>6. <<q.case, k + 1>> \in Nat \X Nat
  BY <1>3, <1>5
<1>7. Draw(q)[1] = q.case /\ Draw(q)[2] = k + 1
  BY <1>4
<1> QED BY <1>4, <1>5, <1>6, <1>7 DEF k

-----------------------------------------------------------------------------
(* What a change does to the cases. *)
Grows(cs, ds) == \A n \in DOMAIN cs : n \in DOMAIN ds /\ cs[n].activity \subseteq ds[n].activity

(* ds lists what cs does, and what d does in case n. *)
Adds(cs, ds, n, d) ==
    \A b, x : Lists(ds, b, x) =>
        \/ Lists(cs, b, x)
        \/ b[1] = n /\ b[2] \in DOMAIN d.attachments /\ d.attachments[b[2]] = x

LEMMA EntriesAre ==
    ASSUME NEW c \in Filed, NEW r \in Requests, NEW d,
           \/ d = Noted(c, r)
           \/ d = WithObservable(c, r)
           \/ \E i \in DOMAIN c.observables : d = Enriched(c, r, i)
    PROVE  /\ d \in Filed /\ d.activity = c.activity \cup {r} /\ d.links = c.links
           /\ d.attachments = c.attachments
<1>1. CASE d = Noted(c, r)
  BY <1>1 DEF Noted, Filed
<1>2. CASE d = WithObservable(c, r)
  <2>1. Append(c.observables, "none") \in Seq({"none", "advisory"})
    BY DEF Filed
  <2> QED BY <1>2, <2>1 DEF WithObservable, Filed
<1>3. ASSUME NEW i \in DOMAIN c.observables, d = Enriched(c, r, i)
      PROVE  d \in Filed /\ d.activity = c.activity \cup {r} /\ d.links = c.links
             /\ d.attachments = c.attachments
  <2> DEFINE obs == [c.observables EXCEPT ![i] = "advisory"]
  <2>1. obs \in Seq({"none", "advisory"})
    <3>1. c.observables \in Seq({"none", "advisory"})
      BY DEF Filed
    <3> QED BY <3>1, SequenceIs
  <2>2. d = [c EXCEPT !.activity = c.activity \cup {r}, !.observables = obs]
    BY <1>3 DEF Enriched, Filed
  <2> HIDE DEF obs
  <2> QED BY <2>1, <2>2 DEF Filed
<1> QED BY <1>1, <1>2, <1>3

LEMMA AttachedIs ==
    ASSUME NEW c \in Filed, NEW r \in Requests
    PROVE  LET d == WithAttachment(c, r)
           IN  /\ d \in Filed /\ d.activity = c.activity \cup {r} /\ d.links = c.links
               /\ d.attachments = Append(c.attachments, r)
<1>1. Append(c.attachments, r) \in Seq(Requests)
  BY DEF Filed
<1> QED BY <1>1 DEF WithAttachment, Filed

LEMMA EditIs ==
    ASSUME NEW cs \in Stores, NEW n \in DOMAIN cs, NEW r \in Requests,
           NEW d \in Filed, d.activity = cs[n].activity \cup {r}, d.links = cs[n].links,
           NEW ds, ds = [cs EXCEPT ![n] = d]
    PROVE  /\ ds \in Stores /\ Grows(cs, ds) /\ Holds(ds, n, r)
           /\ Mutual(cs) => Mutual(ds)
           /\ Adds(cs, ds, n, d)
<1>1. ds \in Stores /\ DOMAIN ds = DOMAIN cs
  BY StoreExcept
<1>2. ds[n] = d /\ \A k \in DOMAIN cs \ {n} : ds[k] = cs[k]
  BY DEF Stores
<1>3. Grows(cs, ds) /\ Holds(ds, n, r)
  BY <1>1, <1>2 DEF Grows, Holds
<1>4. \A k \in DOMAIN cs : ds[k].links = cs[k].links
  BY <1>2
<1>5. Mutual(cs) => Mutual(ds)
  BY <1>1, <1>4 DEF Mutual
<1>6. Adds(cs, ds, n, d)
  <2> USE DEF Adds
  <2> TAKE b, x
  <2> HAVE Lists(ds, b, x)
  <2>1. /\ b[1] \in DOMAIN cs /\ b[2] \in DOMAIN ds[b[1]].attachments
        /\ ds[b[1]].attachments[b[2]] = x
    BY <1>1 DEF Lists
  <2>2. CASE b[1] = n
    <3>1. ds[b[1]] = d
      BY <1>2, <2>2
    <3> QED BY <2>1, <2>2, <3>1
  <2>3. CASE b[1] # n
    <3>1. ds[b[1]] = cs[b[1]]
      BY <1>2, <2>1, <2>3
    <3>2. /\ b[1] \in DOMAIN cs /\ b[2] \in DOMAIN cs[b[1]].attachments
          /\ cs[b[1]].attachments[b[2]] = x
      BY <2>1, <3>1
    <3> QED BY <3>2 DEF Lists
  <2> QED BY <2>2, <2>3
<1> QED BY <1>1, <1>3, <1>5, <1>6

LEMMA ChangedIs ==
    ASSUME NEW q \in Handlers, NEW r \in Requests, Fit(q), q.op \notin Reads
    PROVE  /\ Changed(q, r) \in Stores /\ Grows(q.copy, Changed(q, r))
           /\ Holds(Changed(q, r), q.case, r)
           /\ Mutual(q.copy) => Mutual(Changed(q, r))
           /\ \A b \in Nat \X Nat, x \in Requests : Lists(Changed(q, r), b, x) =>
                 Lists(q.copy, b, x) \/ (q.op = "attach" /\ b = Draw(q) /\ x = r)
<1> DEFINE cs == q.copy
           n == q.case
           ds == Changed(q, r)
           Good == /\ ds \in Stores /\ Grows(cs, ds) /\ Holds(ds, n, r)
                   /\ Mutual(cs) => Mutual(ds)
                   /\ \A b \in Nat \X Nat, x \in Requests : Lists(ds, b, x) =>
                         Lists(cs, b, x) \/ (q.op = "attach" /\ b = Draw(q) /\ x = r)
<1> SUFFICES Good
  OBVIOUS
<1>1. cs \in Stores
  BY DEF Handlers
<1>2. ASSUME q.op # "create"
      PROVE  n \in DOMAIN cs /\ cs[n] \in Filed /\ n \in Nat
  BY <1>1, <1>2, StoreIs DEF Fit
<1>3. ASSUME NEW d, q.op # "create", ds = [cs EXCEPT ![n] = d],
             \/ d = Noted(cs[n], r)
             \/ d = WithObservable(cs[n], r)
             \/ \E i \in DOMAIN cs[n].observables : d = Enriched(cs[n], r, i)
      PROVE  Good
  <2>1. /\ d \in Filed /\ d.activity = cs[n].activity \cup {r} /\ d.links = cs[n].links
        /\ d.attachments = cs[n].attachments
    BY <1>2, <1>3, EntriesAre
  <2> HIDE DEF cs, ds, n
  <2>2. /\ ds \in Stores /\ Grows(cs, ds) /\ Holds(ds, n, r)
        /\ Mutual(cs) => Mutual(ds)
        /\ Adds(cs, ds, n, d)
    <3>1. cs \in Stores /\ n \in DOMAIN cs /\ ds = [cs EXCEPT ![n] = d]
      BY <1>1, <1>2, <1>3
    <3> QED BY <2>1, <3>1, EditIs
  <2>3. ASSUME NEW b, NEW x, Lists(ds, b, x)
        PROVE  Lists(cs, b, x)
    <3>1. CASE b[1] = n /\ b[2] \in DOMAIN d.attachments /\ d.attachments[b[2]] = x
      <4>1. /\ b[1] \in DOMAIN cs /\ b[2] \in DOMAIN cs[b[1]].attachments
            /\ cs[b[1]].attachments[b[2]] = x
        BY <1>2, <1>3, <2>1, <3>1
      <4> QED BY <4>1 DEF Lists
    <3> QED BY <2>2, <2>3, <3>1 DEF Adds
  <2> QED BY <2>2, <2>3
<1>4. CASE q.op = "attach"
  <2> DEFINE d == WithAttachment(cs[n], r)
             l == Len(cs[n].attachments)
  <2>1. n \in DOMAIN cs /\ cs[n] \in Filed /\ n \in Nat
    BY <1>2, <1>4
  <2>2. /\ d \in Filed /\ d.activity = cs[n].activity \cup {r} /\ d.links = cs[n].links
        /\ d.attachments = Append(cs[n].attachments, r)
    BY <2>1, AttachedIs
  <2>3. ds = [cs EXCEPT ![n] = d]
    BY <1>4 DEF Changed
  <2> HIDE DEF d, cs, ds, n
  <2>4. /\ ds \in Stores /\ Grows(cs, ds) /\ Holds(ds, n, r)
        /\ Mutual(cs) => Mutual(ds)
        /\ Adds(cs, ds, n, d)
    BY <1>1, <2>1, <2>2, <2>3, EditIs
  <2>5. ASSUME NEW b \in Nat \X Nat, NEW x, b[1] = n,
               b[2] \in DOMAIN d.attachments, d.attachments[b[2]] = x
        PROVE  Lists(cs, b, x) \/ (b = Draw(q) /\ x = r)
    <3>1. cs[n].attachments \in Seq(Requests)
      BY <2>1 DEF Filed
    <3>2. /\ l \in Nat /\ DOMAIN cs[n].attachments = 1..l
          /\ DOMAIN d.attachments = 1..l + 1 /\ d.attachments[l + 1] = r
          /\ \A i \in 1..l : d.attachments[i] = cs[n].attachments[i]
      BY <2>2, <3>1, AppendIs
    <3> HIDE DEF l
    <3>3. CASE b[2] = l + 1
      <4>1. b = <<n, l + 1>>
        BY <2>5, <3>3
      <4>2. Draw(q) = b
        BY <4>1 DEF Draw, l, cs, n
      <4>3. x = r
        BY <2>5, <3>2, <3>3
      <4> QED BY <4>2, <4>3
    <3>4. CASE b[2] # l + 1
      <4>1. b[2] \in 1..l
        BY <2>5, <3>2, <3>4
      <4>2. b[2] \in DOMAIN cs[b[1]].attachments /\ cs[b[1]].attachments[b[2]] = x
        BY <2>5, <3>2, <4>1
      <4> QED BY <2>1, <2>5, <4>2 DEF Lists
    <3> QED BY <3>3, <3>4
  <2> QED BY <1>4, <2>4, <2>5 DEF Adds
<1>5. CASE q.op = "create"
  <2>1. n = NextCase(cs) /\ ds = Created(cs, r, n)
    BY <1>5 DEF Fit, Changed
  <2>2. ds \in Stores /\ n \notin DOMAIN cs
    BY <1>1, <2>1, StoreNext
  <2>3. /\ DOMAIN ds = DOMAIN cs \cup {n} /\ ds[n] = Bare(r)
        /\ \A k \in DOMAIN cs : ds[k] = cs[k]
    BY <2>1, <2>2 DEF Created
  <2>4. /\ Bare(r).activity = {r} /\ Bare(r).links = {}
        /\ Bare(r).attachments = <<>>
    BY DEF Bare
  <2> HIDE DEF ds, cs, n
  <2>5. Grows(cs, ds) /\ Holds(ds, n, r)
    BY <2>3, <2>4 DEF Grows, Holds
  <2>6. ASSUME Mutual(cs)
        PROVE  Mutual(ds)
    <3>1. \A k \in DOMAIN cs : \A m \in ds[k].links : m \in DOMAIN ds /\ k \in ds[m].links
      BY <2>3, <2>6 DEF Mutual
    <3> QED BY <2>3, <2>4, <3>1 DEF Mutual
  <2>7. ASSUME NEW b, NEW x, Lists(ds, b, x)
        PROVE  Lists(cs, b, x)
    <3>1. DOMAIN <<>> = {}
      OBVIOUS
    <3>2. b[1] # n
      BY <2>3, <2>4, <2>7, <3>1 DEF Lists
    <3> QED BY <2>3, <2>7, <3>2 DEF Lists
  <2> QED BY <2>2, <2>5, <2>6, <2>7
<1>6. CASE q.op = "link"
  <2> DEFINE m == q.item
             c == [Noted(cs[n], r) EXCEPT !.links = @ \cup {m}]
             e == [cs[m] EXCEPT !.links = @ \cup {n}]
  <2>1. /\ n \in DOMAIN cs /\ m \in DOMAIN cs /\ m # n
        /\ n \in Nat /\ m \in Nat /\ cs[n] \in Filed /\ cs[m] \in Filed
    BY <1>1, <1>6, StoreIs DEF Fit
  <2>2. Noted(cs[n], r) \in Filed
        /\ Noted(cs[n], r).activity = cs[n].activity \cup {r}
        /\ Noted(cs[n], r).links = cs[n].links
        /\ Noted(cs[n], r).attachments = cs[n].attachments
    BY <2>1, EntriesAre
  <2>3. /\ c \in Filed /\ c.activity = cs[n].activity \cup {r} /\ c.links = cs[n].links \cup {m}
        /\ c.attachments = cs[n].attachments
    BY <2>1, <2>2 DEF Filed
  <2>4. /\ e \in Filed /\ e.activity = cs[m].activity /\ e.links = cs[m].links \cup {n}
        /\ e.attachments = cs[m].attachments
    BY <2>1 DEF Filed
  <2>5. ds = [cs EXCEPT ![n] = c, ![m] = e]
    <3>1. ds = Linked(cs, r, n, m)
      BY <1>6 DEF Changed
    <3>2. cs \in [DOMAIN cs -> Filed]
      BY <1>1 DEF Stores
    <3> QED BY <2>1, <3>1, <3>2 DEF Linked
  <2> HIDE DEF c, e, ds, cs, n, m
  <2>6. ds \in Stores /\ DOMAIN ds = DOMAIN cs
    <3>1. [cs EXCEPT ![n] = c] \in Stores /\ DOMAIN [cs EXCEPT ![n] = c] = DOMAIN cs
      BY <1>1, <2>1, <2>3, StoreExcept
    <3> QED BY <2>1, <2>4, <2>5, <3>1, StoreExcept
  <2>7. /\ ds[n] = c /\ ds[m] = e
        /\ \A k \in DOMAIN cs : k # n /\ k # m => ds[k] = cs[k]
    BY <1>1, <2>1, <2>5 DEF Stores
  <2>8. \A k \in DOMAIN cs : cs[k].activity \subseteq ds[k].activity
                             /\ cs[k].links \subseteq ds[k].links
                             /\ ds[k].attachments = cs[k].attachments
    BY <2>3, <2>4, <2>7
  <2>9. Grows(cs, ds) /\ Holds(ds, n, r)
    BY <2>1, <2>3, <2>6, <2>7, <2>8 DEF Grows, Holds
  <2>10. ASSUME Mutual(cs)
         PROVE  Mutual(ds)
    <3> SUFFICES ASSUME NEW i \in DOMAIN cs, NEW j \in ds[i].links
                 PROVE  j \in DOMAIN cs /\ i \in ds[j].links
      BY <2>6 DEF Mutual
    <3>1. CASE j \in cs[i].links
      <4>1. j \in DOMAIN cs /\ i \in cs[j].links
        BY <2>10, <3>1 DEF Mutual
      <4> QED BY <2>8, <4>1
    <3>2. CASE j \notin cs[i].links
      <4>1. (i = n /\ j = m) \/ (i = m /\ j = n)
        BY <2>3, <2>4, <2>7, <3>2
      <4> QED BY <2>1, <2>3, <2>4, <2>7, <4>1
    <3> QED BY <3>1, <3>2
  <2>11. ASSUME NEW b, NEW x, Lists(ds, b, x)
         PROVE  Lists(cs, b, x)
    BY <2>6, <2>8, <2>11 DEF Lists
  <2> QED BY <2>6, <2>9, <2>10, <2>11
<1>7. CASE q.op \notin {"attach", "create", "link"}
  <2>1. PICK d : ds = [cs EXCEPT ![n] = d]
                 /\ \/ d = Noted(cs[n], r)
                    \/ d = WithObservable(cs[n], r)
                    \/ \E i \in DOMAIN cs[n].observables : d = Enriched(cs[n], r, i)
    <3>1. CASE q.op = "observable"
      BY <3>1 DEF Changed
    <3>2. CASE q.op = "enrich"
      BY <3>2 DEF Changed, Fit
    <3>3. CASE q.op \notin {"observable", "enrich"}
      BY <1>7, <3>3 DEF Changed
    <3> QED BY <3>1, <3>2, <3>3
  <2> QED BY <1>3, <1>7, <2>1
<1> QED BY <1>4, <1>5, <1>6, <1>7

-----------------------------------------------------------------------------
LEMMA StartIs ==
    /\ Start \in Stores /\ Mutual(Start)
    /\ \A b, x : ~Lists(Start, b, x)
<1> DEFINE C == [activity : {{}}, observables : Seq({"none", "advisory"}),
                 attachments : {<<>>}, links : SUBSET DOMAIN Start]
<1>1. Start \in Seq(C)
  BY StartAssumption
<1>2. Len(Start) \in Nat /\ Start \in [1..Len(Start) -> C] /\ DOMAIN Start \subseteq Nat
  <2> HIDE DEF C
  <2>1. Len(Start) \in Nat /\ DOMAIN Start = 1..Len(Start)
    BY <1>1
  <2>2. \A n \in 1..Len(Start) : Start[n] \in C
    BY <1>1, <2>1
  <2>3. Start = [n \in DOMAIN Start |-> Start[n]]
    BY <1>1
  <2> QED BY <2>1, <2>2, <2>3
<1>3. ASSUME NEW c \in C
      PROVE  c \in Filed /\ c.attachments = <<>>
  <2>1. <<>> \in Seq(Requests)
    OBVIOUS
  <2>2. {} \in SUBSET Requests /\ SUBSET DOMAIN Start \subseteq SUBSET Nat
    BY <1>2
  <2> QED BY <1>3, <2>1, <2>2 DEF Filed
<1> HIDE DEF C
<1>4. Start \in Stores
  <2>1. PICK k \in Nat : k = Len(Start)
    BY <1>2
  <2>2. Start \in [1..k -> Filed]
    BY <1>2, <1>3, <2>1
  <2> QED BY <2>2 DEF Stores
<1>5. \A n \in DOMAIN Start : DOMAIN Start[n].attachments = {}
  BY <1>2, <1>3
<1>6. \A n \in DOMAIN Start : Start[n].links \subseteq DOMAIN Start
  BY <1>2 DEF C
<1>7. Mutual(Start)
  BY <1>6, StartAssumption DEF Mutual
<1> QED BY <1>4, <1>5, <1>7 DEF Lists

LEMMA FileInitIs == FileInit => FileInv
<1> SUFFICES ASSUME FileInit
             PROVE  FileInv
  OBVIOUS
<1> USE DEF FileInit
<1>1. Idle \in Handlers
  BY NoCasesIs DEF Handlers, Idle, Steps, Ops, Notes, OfItems, Reads
<1>2. /\ caseFile.form = "json" /\ caseFile.cases = Start
      /\ caseFile = [form |-> "json", cases |-> Start]
  BY DEF Json
<1>3. \A r \in Requests : request[r] = Idle
  OBVIOUS
<1>4. /\ Idle.at = "unsent" /\ Idle.op = "comment" /\ Idle.answer = 0
      /\ Idle.copy = NoCases
  BY DEF Idle
<1>5. DOMAIN blobs = {}
  OBVIOUS
<1>6. \A b, x : ~Lists(NoCases, b, x)
  BY NoCasesIs DEF Lists
<1>7. FileTypeOK
  BY <1>1, <1>2, <1>5, StartIs DEF FileTypeOK
<1>8. MutualOK
  BY <1>2, <1>3, <1>4, StartIs, NoCasesIs DEF MutualOK, Mutual
<1>9. WorkOK
  BY <1>3, <1>4 DEF WorkOK
<1>10. BlobsOK
  BY <1>3, <1>4, <1>5 DEF BlobsOK
<1>11. ListedOK
  BY <1>2, <1>3, <1>4, <1>6, StartIs DEF ListedOK, Listed
<1>12. ReadOK
  BY <1>3, <1>4 DEF ReadOK
<1>13. RecordOK
  BY <1>3, <1>4 DEF RecordOK, Made
<1> QED BY <1>7, <1>8, <1>9, <1>10, <1>11, <1>12, <1>13 DEF FileInv

-----------------------------------------------------------------------------
(* Handlers that end without a change: q is what p has come to. A reader has  *)
(* been given a file that is there.                                          *)
Given(q) ==
    LET b == <<q.case, q.item>> IN b \in DOMAIN blobs /\ q.got = <<blobs[b]>>

Ends(p, q) ==
    /\ p.at \notin {"unsent", "over"} /\ q.at = "over"
    /\ q.op = p.op /\ q.case = p.case /\ q.item = p.item
    /\ q.copy = IF p.op \in Reads \cup {"attach"} THEN p.copy ELSE NoCases
    /\ q.answer \in {200, 201} => q.op \in Reads /\ Given(q)

Quiet ==
    /\ request' \in [Requests -> Handlers]
    /\ \A r \in Requests : request'[r] = request[r] \/ Ends(request[r], request'[r])
    /\ UNCHANGED <<caseFile, blobs, overtaken>>

LEMMA FileQuietKeeps ==
    ASSUME FileInv, Quiet
    PROVE  FileInv'
<1> USE DEF Quiet
<1>1. \A r \in Requests :
         /\ request'[r].op = request[r].op /\ request'[r].case = request[r].case
         /\ request'[r].item = request[r].item
         /\ request[r].at = "over" => request'[r] = request[r]
         /\ request[r].at # "unsent" => request'[r].at # "unsent"
         /\ request'[r].at \notin {"unsent", "over"} => request'[r] = request[r]
         /\ request[r].op \in Reads \cup {"attach"} => request'[r].copy = request[r].copy
         /\ request'[r].copy = request[r].copy \/ request'[r].copy = NoCases
  BY DEF Ends
<1>2. \A b, x : ~Lists(NoCases, b, x)
  BY NoCasesIs DEF Lists
<1>3. \A r \in Requests : Made(r)' => request'[r] = request[r]
  BY DEF Made, Ends
<1>4. \A r \in Requests : Made(r) => request'[r] = request[r]
  <2> SUFFICES ASSUME NEW r \in Requests, Made(r)
               PROVE  request'[r] = request[r]
    OBVIOUS
  <2>1. request[r].at = "over"
    BY DEF FileInv, WorkOK, Made
  <2> QED BY <1>1, <2>1
<1>5. FileTypeOK'
  BY DEF FileInv, FileTypeOK
<1>6. MutualOK'
  <2>1. Mutual(NoCases)
    BY NoCasesIs DEF Mutual
  <2>2. MutualOK
    BY DEF FileInv
  <2>3. \A r \in Requests : Mutual(request'[r].copy)
    BY <1>1, <2>1, <2>2 DEF MutualOK
  <2> QED BY <2>2, <2>3 DEF MutualOK
<1>7. WorkOK'
  <2> SUFFICES ASSUME NEW r \in Requests
               PROVE  LET q == request'[r]
                      IN  /\ q.at \notin {"unsent", "over"} => Fit(q)
                          /\ q.at \in {"opened", "stored"} => q.op = "attach"
                          /\ q.at = "truncated" => q.op \notin Reads
                          /\ q.at # "over" => q.answer = 0
    BY DEF WorkOK
  <2>1. CASE request'[r] = request[r]
    BY <2>1 DEF FileInv, WorkOK
  <2>2. CASE request'[r].at = "over"
    BY <2>2
  <2> QED BY <2>1, <2>2 DEF Ends
<1>8. \A f, b : f.by \in Requests /\ Drawn(f, b) => Drawn(f, b)'
  BY <1>1 DEF Drawn, Draw
<1>9. \A b, x : Whole(b, x)' <=> Whole(b, x)
  BY DEF Whole
<1>10. \A b \in DOMAIN blobs : blobs[b] \in Files /\ blobs[b].by \in Requests
  BY DEF FileInv, FileTypeOK, Files
<1>11. BlobsOK'
  <2>1. \A b \in DOMAIN blobs : Drawn(blobs[b], b)'
    BY <1>8, <1>10 DEF FileInv, BlobsOK
  <2>2. ASSUME NEW r \in Requests, request'[r].op = "attach"
        PROVE  /\ request'[r].at = "opened" => Draw(request'[r]) \in DOMAIN blobs
               /\ request'[r].at \in {"stored", "truncated"} => Whole(Draw(request'[r]), r)
    <3>1. CASE request'[r] = request[r]
      BY <2>2, <3>1 DEF FileInv, BlobsOK
    <3>2. CASE request'[r].at = "over"
      BY <3>2
    <3> QED BY <3>1, <3>2 DEF Ends
  <2> QED BY <1>9, <2>1, <2>2 DEF BlobsOK
<1>12. ListedOK'
  <2> SUFFICES ASSUME NEW b \in Nat \X Nat, NEW x \in Requests, Listed(b, x)'
               PROVE  request'[x].at = "over" /\ Whole(b, x)'
    BY DEF ListedOK
  <2>1. Listed(b, x)
    BY <1>1, <1>2 DEF Listed
  <2>2. request[x].at = "over" /\ Whole(b, x)
    BY <2>1 DEF FileInv, ListedOK
  <2> QED BY <1>1, <1>9, <2>2
<1>13. ReadOK'
  <2> SUFFICES ASSUME NEW r \in Requests, request'[r].op \in Reads, request'[r].answer = 200
               PROVE  \E f \in Files, b \in Nat \X Nat, x \in Requests : Got(request[r], f, b, x)'
    BY DEF ReadOK
  <2>1. request[r] \in Handlers /\ request[r].op \in Reads
    BY <1>1 DEF FileInv, FileTypeOK
  <2>2. CASE request'[r] = request[r]
    <3>1. PICK f \in Files, b \in Nat \X Nat, x \in Requests : Got(request[r], f, b, x)
      BY <2>1, <2>2 DEF FileInv, ReadOK
    <3>2. f.by \in Requests
      BY DEF Files
    <3>3. Got(request[r], f, b, x)'
      BY <1>8, <2>2, <3>1, <3>2 DEF Got
    <3> QED BY <3>3
  <2>3. CASE Ends(request[r], request'[r])
    <3>1. Fit(request[r])
      BY <2>3 DEF Ends, FileInv, WorkOK
    <3>2. PICK b : b = <<request[r].case, request[r].item>>
      OBVIOUS
    <3>3. PICK x : x = request[r].copy[request[r].case].attachments[request[r].item]
      OBVIOUS
    <3>4. /\ b \in Nat \X Nat /\ x \in Requests /\ Lists(request[r].copy, b, x)
      <4>1. request[r].case \in DOMAIN request[r].copy
            /\ request[r].item \in DOMAIN request[r].copy[request[r].case].attachments
        BY <2>1, <3>1 DEF Fit, Reads
      <4>2. request[r].copy[request[r].case].attachments \in Seq(Requests)
        BY <2>1, <4>1, StoreIs DEF Handlers, Filed
      <4> QED BY <2>1, <3>2, <3>3, <4>1, <4>2 DEF Lists, Handlers
    <3>5. Whole(b, x)
      BY <3>4 DEF FileInv, ListedOK, Listed
    <3>6. /\ request'[r].case = request[r].case /\ request'[r].item = request[r].item
          /\ request'[r].copy = request[r].copy
      BY <1>1, <2>1
    <3>7. b \in DOMAIN blobs /\ request'[r].got = <<blobs[b]>>
      BY <2>1, <2>3, <3>2, <3>6 DEF Ends, Given
    <3>8. PICK f \in Files : f = blobs[b]
      BY <1>10, <3>7
    <3>9. f.by \in Requests /\ Drawn(f, b)
      BY <1>10, <3>7, <3>8 DEF FileInv, BlobsOK
    <3>10. f.by = x => f.whole
      BY <3>5, <3>8 DEF Whole
    <3>11. Got(request[r], f, b, x)'
      BY <1>8, <3>2, <3>4, <3>6, <3>7, <3>8, <3>9, <3>10 DEF Got
    <3> QED BY <3>4, <3>11
  <2> QED BY <2>2, <2>3
<1>14. RecordOK'
  <2> SUFFICES ASSUME Undisturbed', NEW r \in Requests, Made(r)'
               PROVE  /\ caseFile.form = "json" => Holds(caseFile.cases, request'[r].case, r)
                      /\ \A s \in Underway' \ overtaken : Holds(request'[s].copy, request'[r].case, r)
    BY DEF RecordOK
  <2>1. request'[r] = request[r] /\ Made(r)
    BY <1>3 DEF Made
  <2>2. Undisturbed
    <3>1. \A s \in Requests : Made(s) => Made(s)'
      BY <1>4 DEF Made
    <3> QED BY <3>1 DEF Undisturbed
  <2>3. /\ caseFile.form = "json" => Holds(caseFile.cases, request[r].case, r)
        /\ \A s \in Underway \ overtaken : Holds(request[s].copy, request[r].case, r)
    BY <2>1, <2>2 DEF FileInv, RecordOK
  <2>4. \A s \in Underway' : s \in Underway /\ request'[s] = request[s]
    BY <1>1 DEF Underway
  <2> QED BY <2>1, <2>3, <2>4
<1> QED BY <1>5, <1>6, <1>7, <1>11, <1>12, <1>13, <1>14 DEF FileInv

LEMMA AnsweredEnds ==
    ASSUME NEW q \in Handlers, q.at \notin {"unsent", "over"}, NEW code \in Nat \ {200, 201}
    PROVE  Answered(q, code) \in Handlers /\ Ends(q, Answered(q, code))
  BY AnsweredIs DEF Ends

LEMMA DeclineIsQuiet ==
    ASSUME FileInv, NEW r \in Requests, Decline(r) \/ TooLarge(r)
    PROVE  Quiet
<1>1. request \in [Requests -> Handlers]
  BY DEF FileInv, FileTypeOK
<1>2. PICK code \in Nat \ {200, 201} : request' = [request EXCEPT ![r] = Answered(@, code)]
  BY DEF Decline, TooLarge
<1>3. request[r].at = "loaded" /\ UNCHANGED <<caseFile, blobs, overtaken>>
  BY DEF Decline, TooLarge
<1>4. Answered(request[r], code) \in Handlers /\ Ends(request[r], Answered(request[r], code))
  BY <1>1, <1>3, AnsweredEnds
<1> QED BY <1>1, <1>2, <1>3, <1>4 DEF Quiet

LEMMA FetchIsQuiet ==
    ASSUME FileInv, NEW r \in Requests, Fetch(r)
    PROVE  Quiet
<1> DEFINE q == request[r]
           b == <<q.case, q.item>>
           a == Answered(q, 200)
           given == [a EXCEPT !.got = Stored(q)]
<1>1. request \in [Requests -> Handlers] /\ q \in Handlers
  BY DEF FileInv, FileTypeOK
<1>2. /\ q.at = "loaded" /\ q.op \in Reads /\ UNCHANGED <<caseFile, blobs, overtaken>>
      /\ request' = [request EXCEPT ![r] = IF q.op = "inspect" THEN Inspected(q) ELSE Downloaded(q)]
  BY DEF Fetch
<1>3. b \in DOMAIN blobs
  <2>1. Fit(q)
    BY <1>2 DEF FileInv, WorkOK
  <2>2. q.case \in DOMAIN q.copy /\ q.item \in DOMAIN q.copy[q.case].attachments
    BY <1>2, <2>1 DEF Fit, Reads
  <2>3. q.copy[q.case].attachments \in Seq(Requests)
    BY <1>1, <2>2, StoreIs DEF Handlers, Filed
  <2>4. PICK x \in Requests : x = q.copy[q.case].attachments[q.item]
    BY <2>2, <2>3
  <2>5. b \in Nat \X Nat /\ Lists(q.copy, b, x)
    BY <1>1, <2>2, <2>3, <2>4 DEF Lists, Handlers
  <2>6. Whole(b, x)
    BY <2>5 DEF FileInv, ListedOK, Listed
  <2> QED BY <2>6 DEF Whole
<1>4. Stored(q) = <<blobs[b]>> /\ Stored(q) # <<>> /\ blobs[b] \in Files
  BY <1>3 DEF Stored, FileInv, FileTypeOK
<1>5. request' = [request EXCEPT ![r] = given]
  BY <1>2, <1>4 DEF Inspected, Downloaded
<1>6. /\ a \in Handlers /\ a.at = "over" /\ a.answer = 200
      /\ a.op = q.op /\ a.case = q.case /\ a.item = q.item
      /\ a.copy = IF q.op \in Reads \cup {"attach"} THEN q.copy ELSE NoCases
  BY <1>1, AnsweredIs
<1> HIDE DEF a
<1>7. given \in Handlers /\ given.got = <<blobs[b]>>
      /\ given.at = a.at /\ given.answer = a.answer /\ given.op = a.op
      /\ given.case = a.case /\ given.item = a.item /\ given.copy = a.copy
  BY <1>4, <1>6 DEF Handlers
<1> HIDE DEF given
<1>8. Ends(q, given)
  BY <1>2, <1>3, <1>6, <1>7 DEF Ends, Given
<1> QED BY <1>1, <1>2, <1>5, <1>7, <1>8 DEF Quiet

LEMMA DieIsQuiet ==
    ASSUME FileInv, Die
    PROVE  Quiet
<1>1. request \in [Requests -> Handlers]
  BY DEF FileInv, FileTypeOK
<1>2. ASSUME NEW r \in Underway
      PROVE  Answered(request[r], 0) \in Handlers /\ Ends(request[r], Answered(request[r], 0))
  BY <1>1, AnsweredEnds DEF Underway
<1> QED BY <1>1, <1>2 DEF Die, Quiet

(* What a request has become when its handler has loaded the cases.          *)
Begun(p) ==
    /\ p \in Handlers /\ p.answer \notin {200, 201}
    /\ p.copy \in {caseFile.cases, NoCases}
    /\ \/ p.at = "over"
       \/ p.at = "loaded" /\ p.copy = caseFile.cases /\ p.answer = 0 /\ Fit(p)

LEMMA SendBegins ==
    ASSUME FileTypeOK, NEW r \in Requests, NEW op \in Asked, NEW n \in Named, NEW item \in Named,
           Send(r, op, n, item)
    PROVE  /\ Begun(request'[r])
           /\ request' = [request EXCEPT ![r] = request'[r]]
<1>1. op \in Ops /\ n \in Nat /\ item \in Nat
  BY CaseFileAssumption
<1>2. caseFile.cases \in Stores /\ request \in [Requests -> Handlers]
  BY DEF FileTypeOK
<1>3. NextCase(caseFile.cases) \in Nat
  BY <1>2, StoreNext
<1> DEFINE c == IF op = "create" THEN NextCase(caseFile.cases) ELSE n
           q == [Idle EXCEPT !.at = "loaded", !.op = op, !.copy = caseFile.cases, !.case = c, !.item = item]
<1>4. c \in Nat
  BY <1>1, <1>3
<1> HIDE DEF c
<1>5. /\ q \in Handlers /\ q.at = "loaded" /\ q.op = op /\ q.copy = caseFile.cases
      /\ q.case = c /\ q.answer = 0
  BY <1>1, <1>2, <1>4 DEF Handlers, Idle, Steps
<1>6. request' = [request EXCEPT ![r] =
              CASE op = "create" -> q
                [] q.case \notin DOMAIN q.copy -> Answered(q, 404)
                [] Unfit(q) -> Answered(q, 400)
                [] Unlisted(q) -> Answered(q, 404)
                [] OTHER -> q]
  BY DEF Send, Readable, c
<1> HIDE DEF q
<1>7. \A code \in {400, 404} : Begun(Answered(q, code))
  <2> SUFFICES ASSUME NEW code \in {400, 404}
               PROVE  Begun(Answered(q, code))
    OBVIOUS
  <2>1. /\ Answered(q, code) \in Handlers /\ Answered(q, code).at = "over"
        /\ Answered(q, code).answer = code /\ Answered(q, code).copy \in {q.copy, NoCases}
    BY <1>5, AnsweredIs
  <2> QED BY <1>5, <2>1 DEF Begun
<1>8. CASE request'[r] = q /\ op = "create"
  <2>1. Fit(q)
    BY <1>5, <1>8 DEF Fit, c, Reads
  <2> QED BY <1>2, <1>5, <1>6, <1>8, <2>1 DEF Begun
<1>9. CASE request'[r] = q /\ q.case \in DOMAIN q.copy /\ ~Unfit(q) /\ ~Unlisted(q) /\ op # "create"
  <2>1. Fit(q)
    BY <1>5, <1>9 DEF Fit, Unfit, Unlisted
  <2> QED BY <1>2, <1>5, <1>6, <1>9, <2>1 DEF Begun
<1>10. CASE \E code \in {400, 404} : request'[r] = Answered(q, code)
  BY <1>2, <1>6, <1>7, <1>10
<1>11. \/ request'[r] = q /\ op = "create"
       \/ request'[r] = q /\ q.case \in DOMAIN q.copy /\ ~Unfit(q) /\ ~Unlisted(q) /\ op # "create"
       \/ \E code \in {400, 404} : request'[r] = Answered(q, code)
  BY <1>2, <1>6
<1> QED BY <1>8, <1>9, <1>10, <1>11

LEMMA FileSendKeeps ==
    ASSUME FileInv, NEW r \in Requests, Asks(r)
    PROVE  FileInv'
<1>1. PICK op \in Asked, n \in Named, item \in Named : Send(r, op, n, item)
  BY DEF Asks
<1>2. FileTypeOK /\ MutualOK /\ WorkOK /\ BlobsOK /\ ListedOK /\ ReadOK /\ RecordOK
  BY DEF FileInv
<1>3. Begun(request'[r]) /\ request' = [request EXCEPT ![r] = request'[r]]
  BY <1>1, <1>2, SendBegins
<1>4. /\ request[r].at = "unsent" /\ UNCHANGED <<caseFile, blobs>>
      /\ overtaken' = IF caseFile.form = "json" THEN overtaken ELSE overtaken \cup {r}
  BY <1>1 DEF Send
<1>5. request \in [Requests -> Handlers] /\ request' \in [Requests -> Handlers]
      /\ \A s \in Requests \ {r} : request'[s] = request[s]
  BY <1>2, <1>3 DEF FileTypeOK, Begun
<1>6. FileTypeOK'
  BY <1>2, <1>4, <1>5 DEF FileTypeOK
<1>7. MutualOK'
  <2>1. Mutual(NoCases)
    BY NoCasesIs DEF Mutual
  <2>2. \A s \in Requests : Mutual(request'[s].copy)
    BY <1>2, <1>3, <1>5, <2>1 DEF MutualOK, Begun
  <2> QED BY <1>2, <1>4, <2>2 DEF MutualOK
<1>8. WorkOK'
  BY <1>2, <1>3, <1>5 DEF WorkOK, Begun
<1>9. \A f, b : f.by \in Requests /\ Drawn(f, b) => Drawn(f, b)'
  BY <1>4, <1>5 DEF Drawn, Draw
<1>10. \A b \in DOMAIN blobs : blobs[b].by \in Requests
  BY <1>2 DEF FileTypeOK, Files
<1>11. BlobsOK'
  <2>1. \A b \in DOMAIN blobs : Drawn(blobs[b], b)'
    BY <1>2, <1>4, <1>9, <1>10 DEF BlobsOK
  <2>2. ASSUME NEW s \in Requests, request'[s].op = "attach"
        PROVE  /\ request'[s].at = "opened" => Draw(request'[s]) \in DOMAIN blobs
               /\ request'[s].at \in {"stored", "truncated"} => Whole(Draw(request'[s]), s)
    <3>1. CASE s = r
      BY <1>3, <3>1 DEF Begun
    <3>2. CASE s # r
      <4>1. request'[s] = request[s]
        BY <1>5, <3>2
      <4> QED BY <1>2, <2>2, <4>1 DEF BlobsOK
    <3> QED BY <3>1, <3>2
  <2>3. \A b, s : Whole(b, s)' <=> Whole(b, s)
    BY <1>4 DEF Whole
  <2> QED BY <2>1, <2>2, <2>3, <1>4 DEF BlobsOK
<1>12. \A b, x : Listed(b, x)' => Listed(b, x)
  <2>1. \A b, x : ~Lists(NoCases, b, x)
    BY NoCasesIs DEF Lists
  <2> QED BY <1>3, <1>4, <1>5, <2>1 DEF Listed, Begun
<1>13. ListedOK'
  BY <1>2, <1>4, <1>5, <1>12 DEF ListedOK, Whole
<1>14. ReadOK'
  <2> SUFFICES ASSUME NEW s \in Requests, request'[s].op \in Reads, request'[s].answer = 200
               PROVE  \E f \in Files, b \in Nat \X Nat, x \in Requests : Got(request[s], f, b, x)'
    BY DEF ReadOK
  <2>1. s # r
    BY <1>3 DEF Begun
  <2>2. PICK f \in Files, b \in Nat \X Nat, x \in Requests : Got(request[s], f, b, x)
    BY <1>2, <1>5, <2>1 DEF ReadOK
  <2>3. Got(request[s], f, b, x)'
    BY <1>5, <1>9, <2>1, <2>2 DEF Got, Files
  <2> QED BY <2>3
<1>15. RecordOK'
  <2> SUFFICES ASSUME Undisturbed', NEW x \in Requests, Made(x)'
               PROVE  /\ caseFile'.form = "json" => Holds(caseFile'.cases, request'[x].case, x)
                      /\ \A s \in Underway' \ overtaken' : Holds(request'[s].copy, request'[x].case, x)
    BY DEF RecordOK
  <2>1. x # r
    BY <1>3 DEF Made, Begun
  <2>2. Made(x)
    BY <1>5, <2>1 DEF Made
  <2>3. Undisturbed
    <3>1. ~Made(r)
      BY <1>2, <1>4 DEF WorkOK, Made
    <3> QED BY <1>4, <1>5, <3>1 DEF Undisturbed, Made
  <2>4. /\ caseFile.form = "json" => Holds(caseFile.cases, request[x].case, x)
        /\ \A s \in Underway \ overtaken : Holds(request[s].copy, request[x].case, x)
    BY <1>2, <2>2, <2>3 DEF RecordOK
  <2>5. request'[x] = request[x]
    BY <1>5, <2>1
  <2>6. ASSUME NEW s \in Underway' \ overtaken'
        PROVE  Holds(request'[s].copy, request[x].case, x)
    <3>1. CASE s = r
      <4>1. caseFile.form = "json"
        BY <1>4, <2>6, <3>1
      <4>2. request'[r].copy = caseFile.cases
        BY <1>3, <2>6, <3>1 DEF Begun, Underway
      <4> QED BY <2>4, <3>1, <4>1, <4>2
    <3>2. CASE s # r
      <4>1. s \in Underway \ overtaken /\ request'[s] = request[s]
        BY <1>4, <1>5, <2>6, <3>2 DEF Underway
      <4> QED BY <2>4, <4>1
    <3> QED BY <3>1, <3>2
  <2> QED BY <1>4, <2>4, <2>5, <2>6
<1> QED BY <1>6, <1>7, <1>8, <1>11, <1>13, <1>14, <1>15 DEF FileInv

LEMMA StepsAre ==
    ASSUME request \in [Requests -> Handlers], NEW r \in Requests, NEW at \in Steps,
           request' = [request EXCEPT ![r].at = at]
    PROVE  /\ request' \in [Requests -> Handlers]
           /\ \A s \in Requests : /\ request'[s].op = request[s].op /\ request'[s].case = request[s].case
                                  /\ request'[s].item = request[s].item /\ request'[s].copy = request[s].copy
                                  /\ request'[s].answer = request[s].answer /\ request'[s].got = request[s].got
           /\ \A s \in Requests \ {r} : request'[s] = request[s]
           /\ request'[r].at = at
<1> DEFINE q == [request[r] EXCEPT !.at = at]
<1>1. q \in Handlers
  BY DEF Handlers
<1>2. /\ q.op = request[r].op /\ q.case = request[r].case /\ q.item = request[r].item
      /\ q.copy = request[r].copy /\ q.answer = request[r].answer /\ q.got = request[r].got
      /\ q.at = at
  BY DEF Handlers
<1>3. request' = [request EXCEPT ![r] = q]
  OBVIOUS
<1> HIDE DEF q
<1>4. request' \in [Requests -> Handlers] /\ request'[r] = q
      /\ \A s \in Requests \ {r} : request'[s] = request[s]
  BY <1>1, <1>3
<1> QED BY <1>2, <1>4

(* The bytes of an attachment, as far as they have come, from one that has    *)
(* not saved the case yet.                                                    *)
LEMMA BytesKeep ==
    ASSUME FileInv, NEW r \in Requests, OpenBlob(r) \/ WriteBlob(r)
    PROVE  FileInv'
<1> DEFINE d == Draw(request[r])
<1>1. FileTypeOK /\ MutualOK /\ WorkOK /\ BlobsOK /\ ListedOK /\ ReadOK /\ RecordOK
  BY DEF FileInv
<1>2. PICK at \in {"opened", "stored"}, whole \in BOOLEAN :
         /\ Bytes(d, r, whole) /\ request' = [request EXCEPT ![r].at = at]
         /\ at = "stored" => whole
  BY DEF OpenBlob, WriteBlob
<1>3. request[r].at \in {"loaded", "opened"} /\ request[r].op = "attach"
      /\ UNCHANGED <<caseFile, overtaken>>
  BY <1>1 DEF OpenBlob, WriteBlob, WorkOK
<1>4. request \in [Requests -> Handlers]
  BY <1>1 DEF FileTypeOK
<1>5. /\ request' \in [Requests -> Handlers]
      /\ \A s \in Requests : /\ request'[s].op = request[s].op /\ request'[s].case = request[s].case
                             /\ request'[s].item = request[s].item /\ request'[s].copy = request[s].copy
                             /\ request'[s].answer = request[s].answer /\ request'[s].got = request[s].got
      /\ \A s \in Requests \ {r} : request'[s] = request[s]
      /\ request'[r].at = at
  BY <1>2, <1>4, StepsAre DEF Steps
<1>6. Fit(request[r]) /\ request[r].case \in DOMAIN request[r].copy
  BY <1>1, <1>3 DEF WorkOK, Fit
<1>7. d \in Nat \X Nat
  BY <1>4, <1>6, DrawIs
<1>8. /\ DOMAIN blobs' = DOMAIN blobs \cup {d}
      /\ blobs'[d] = [by |-> r, whole |-> whole]
      /\ \A b \in DOMAIN blobs \ {d} : blobs'[b] = blobs[b]
      /\ blobs' = [k \in DOMAIN blobs \cup {d} |-> IF k = d THEN [by |-> r, whole |-> whole] ELSE blobs[k]]
  BY <1>2 DEF Bytes
<1> HIDE DEF d
<1>9. FileTypeOK'
  BY <1>1, <1>3, <1>5, <1>7, <1>8 DEF FileTypeOK, Files
<1>10. MutualOK'
  BY <1>1, <1>3, <1>5 DEF MutualOK
<1>11. WorkOK'
  BY <1>1, <1>3, <1>5, <1>6 DEF WorkOK, Fit
<1>12. \A s \in Requests : Draw(request'[s]) = Draw(request[s])
  BY <1>5 DEF Draw
<1>13. \A f, b : f.by \in Requests /\ Drawn(f, b) => Drawn(f, b)'
  BY <1>3, <1>5, <1>12 DEF Drawn
<1>14. \A b, x : x # r /\ Whole(b, x) => Whole(b, x)'
  BY <1>8 DEF Whole
<1>15. BlobsOK'
  <2>1. ASSUME NEW b \in DOMAIN blobs'
        PROVE  Drawn(blobs[b], b)'
    <3>1. CASE b = d
      <4>1. blobs'[b].by = r
        BY <1>8, <3>1
      <4>2. request'[r].at # "unsent" /\ request'[r].op = "attach"
            /\ request'[r].case \in DOMAIN request'[r].copy /\ Draw(request'[r]) = b
        BY <1>3, <1>5, <1>6, <1>12, <3>1 DEF d
      <4> QED BY <4>1, <4>2 DEF Drawn
    <3>2. CASE b # d
      <4>1. b \in DOMAIN blobs /\ blobs'[b] = blobs[b] /\ blobs[b].by \in Requests
        BY <1>1, <1>8, <2>1, <3>2 DEF FileTypeOK, Files
      <4>2. Drawn(blobs[b], b)
        BY <1>1, <4>1 DEF BlobsOK
      <4> QED BY <1>5, <1>13, <4>1, <4>2, <1>3, <1>12 DEF Drawn
    <3> QED BY <3>1, <3>2
  <2>2. ASSUME NEW s \in Requests, request'[s].op = "attach"
        PROVE  /\ request'[s].at = "opened" => Draw(request[s]) \in DOMAIN blobs'
               /\ request'[s].at \in {"stored", "truncated"} => Whole(Draw(request[s]), s)'
    <3>1. CASE s = r
      <4>1. d \in DOMAIN blobs'
        BY <1>8
      <4>2. request'[s].at = "stored" => blobs'[d].whole
        BY <1>2, <1>5, <1>8, <3>1
      <4> QED BY <1>5, <1>12, <3>1, <4>1, <4>2 DEF Whole, d
    <3>2. CASE s # r
      <4>1. request'[s] = request[s]
        BY <1>5, <3>2
      <4> QED BY <1>1, <1>8, <1>12, <1>14, <2>2, <3>2, <4>1 DEF BlobsOK
    <3> QED BY <3>1, <3>2
  <2> QED BY <1>12, <2>1, <2>2 DEF BlobsOK
<1>16. ListedOK'
  <2> SUFFICES ASSUME NEW b \in Nat \X Nat, NEW x \in Requests, Listed(b, x)'
               PROVE  request'[x].at = "over" /\ Whole(b, x)'
    BY DEF ListedOK
  <2>1. Listed(b, x)
    BY <1>3, <1>5 DEF Listed
  <2>2. request[x].at = "over" /\ Whole(b, x)
    BY <1>1, <2>1 DEF ListedOK
  <2>3. x # r
    BY <1>3, <2>2
  <2> QED BY <1>5, <1>14, <2>2, <2>3
<1>17. ReadOK'
  <2> SUFFICES ASSUME NEW s \in Requests, request'[s].op \in Reads, request'[s].answer = 200
               PROVE  \E f \in Files, b \in Nat \X Nat, x \in Requests : Got(request[s], f, b, x)'
    BY DEF ReadOK
  <2>1. PICK f \in Files, b \in Nat \X Nat, x \in Requests : Got(request[s], f, b, x)
    BY <1>1, <1>5 DEF ReadOK
  <2>2. Got(request[s], f, b, x)'
    BY <1>5, <1>13, <2>1 DEF Got, Files
  <2> QED BY <2>2
<1>18. RecordOK'
  <2>1. \A s \in Requests : Made(s)' <=> Made(s)
    BY <1>5 DEF Made
  <2>2. Undisturbed' => Undisturbed
    BY <1>3, <2>1 DEF Undisturbed
  <2>3. Underway' = Underway
    BY <1>3, <1>5 DEF Underway
  <2>4. Underway \subseteq Requests
    BY DEF Underway
  <2> QED BY <1>1, <1>3, <1>5, <2>1, <2>2, <2>3, <2>4 DEF RecordOK
<1> QED BY <1>9, <1>10, <1>11, <1>15, <1>16, <1>17, <1>18 DEF FileInv

LEMMA TruncateKeeps ==
    ASSUME FileInv, NEW r \in Requests, Truncate(r)
    PROVE  FileInv'
<1>1. FileTypeOK /\ MutualOK /\ WorkOK /\ BlobsOK /\ ListedOK /\ ReadOK /\ RecordOK
  BY DEF FileInv
<1>2. /\ Ready(request[r]) /\ caseFile' = Torn("empty")
      /\ request' = [request EXCEPT ![r].at = "truncated"]
      /\ overtaken' = overtaken \cup (Underway \ {r}) /\ UNCHANGED blobs
  BY DEF Truncate, Outrun
<1>3. request \in [Requests -> Handlers]
  BY <1>1 DEF FileTypeOK
<1>4. /\ request' \in [Requests -> Handlers]
      /\ \A s \in Requests : /\ request'[s].op = request[s].op /\ request'[s].case = request[s].case
                             /\ request'[s].item = request[s].item /\ request'[s].copy = request[s].copy
                             /\ request'[s].answer = request[s].answer /\ request'[s].got = request[s].got
      /\ \A s \in Requests \ {r} : request'[s] = request[s]
      /\ request'[r].at = "truncated"
  BY <1>2, <1>3, StepsAre DEF Steps
<1>5. /\ request[r].at \in {"loaded", "stored"} /\ request[r].op \notin Reads
      /\ request[r].op = "attach" => request[r].at = "stored"
  BY <1>1, <1>2 DEF Ready, WorkOK, Reads
<1>6. caseFile'.form = "empty" /\ caseFile'.cases = NoCases
      /\ caseFile' \in [form : {"json", "empty", "garbled"}, cases : Stores]
  BY <1>2, NoCasesIs DEF Torn
<1>7. FileTypeOK'
  BY <1>1, <1>2, <1>4, <1>6 DEF FileTypeOK
<1>8. MutualOK'
  BY <1>1, <1>4, <1>6, NoCasesIs DEF MutualOK, Mutual
<1>9. WorkOK'
  BY <1>1, <1>4, <1>5 DEF WorkOK, Fit
<1>10. \A s \in Requests : Draw(request'[s]) = Draw(request[s])
  BY <1>4 DEF Draw
<1>11. \A f, b : f.by \in Requests /\ Drawn(f, b) => Drawn(f, b)'
  BY <1>4, <1>10 DEF Drawn
<1>12. \A b, x : Whole(b, x)' <=> Whole(b, x)
  BY <1>2 DEF Whole
<1>13. BlobsOK'
  <2>1. \A b \in DOMAIN blobs : Drawn(blobs[b], b)'
    BY <1>1, <1>2, <1>11 DEF BlobsOK, FileTypeOK, Files
  <2>2. ASSUME NEW s \in Requests, request'[s].op = "attach"
        PROVE  /\ request'[s].at = "opened" => Draw(request[s]) \in DOMAIN blobs
               /\ request'[s].at \in {"stored", "truncated"} => Whole(Draw(request[s]), s)
    BY <1>1, <1>4, <1>5, <2>2 DEF BlobsOK
  <2> QED BY <1>2, <1>10, <1>12, <2>1, <2>2 DEF BlobsOK
<1>14. ListedOK'
  <2> SUFFICES ASSUME NEW b \in Nat \X Nat, NEW x \in Requests, Listed(b, x)'
               PROVE  request'[x].at = "over" /\ Whole(b, x)'
    BY DEF ListedOK
  <2>1. Listed(b, x)
    BY <1>4, <1>6, NoCasesIs DEF Listed, Lists
  <2>2. request[x].at = "over" /\ Whole(b, x)
    BY <1>1, <2>1 DEF ListedOK
  <2> QED BY <1>4, <1>5, <1>12, <2>2
<1>15. ReadOK'
  <2> SUFFICES ASSUME NEW s \in Requests, request'[s].op \in Reads, request'[s].answer = 200
               PROVE  \E f \in Files, b \in Nat \X Nat, x \in Requests : Got(request[s], f, b, x)'
    BY DEF ReadOK
  <2>1. PICK f \in Files, b \in Nat \X Nat, x \in Requests : Got(request[s], f, b, x)
    BY <1>1, <1>4 DEF ReadOK
  <2>2. Got(request[s], f, b, x)'
    BY <1>4, <1>11, <2>1 DEF Got, Files
  <2> QED BY <2>2
<1>16. RecordOK'
  <2> SUFFICES ASSUME Undisturbed', NEW x \in Requests, Made(x)', NEW s \in Underway' \ overtaken'
               PROVE  Holds(request'[s].copy, request'[x].case, x)
    BY <1>6 DEF RecordOK
  <2>1. Made(x)
    BY <1>4 DEF Made
  <2>2. Undisturbed
    BY <1>2, <1>4 DEF Undisturbed, Made
  <2>3. s = r /\ s \in Underway \ overtaken
    BY <1>2, <1>4, <1>5 DEF Underway
  <2> QED BY <1>1, <1>4, <2>1, <2>2, <2>3 DEF RecordOK
<1> QED BY <1>7, <1>8, <1>9, <1>13, <1>14, <1>15, <1>16 DEF FileInv

LEMMA FileWriteKeeps ==
    ASSUME FileInv, NEW r \in Requests, Write(r)
    PROVE  FileInv'
<1> DEFINE q == request[r]
<1>1. FileTypeOK /\ MutualOK /\ WorkOK /\ BlobsOK /\ ListedOK /\ ReadOK /\ RecordOK
  BY DEF FileInv
<1>2. /\ q.at = "truncated"
      /\ caseFile' = Json(Changed(q, r)) \/ caseFile' = Torn("garbled")
      /\ request' = [request EXCEPT ![r] = Answered(q, Code(q.op))]
      /\ overtaken' = overtaken \cup (Underway \ {r}) /\ UNCHANGED blobs
  BY DEF Write, Outrun
<1>3. request \in [Requests -> Handlers] /\ q \in Handlers
  BY <1>1 DEF FileTypeOK
<1>4. Code(q.op) \in {200, 201}
  BY DEF Code
<1>5. Fit(q) /\ q.op \notin Reads
  BY <1>1, <1>2 DEF WorkOK
<1>6. /\ request' \in [Requests -> Handlers]
      /\ \A s \in Requests : /\ request'[s].op = request[s].op /\ request'[s].case = request[s].case
                             /\ request'[s].item = request[s].item
                             /\ request[s].op \in Reads \cup {"attach"} => request'[s].copy = request[s].copy
                             /\ request'[s].copy \in {request[s].copy, NoCases}
      /\ \A s \in Requests \ {r} : request'[s] = request[s]
      /\ request'[r].at = "over" /\ request'[r].answer \in {200, 201}
  <2>1. Code(q.op) \in Nat
    BY <1>4
  <2>2. LET a == Answered(q, Code(q.op))
        IN  /\ a \in Handlers /\ a.at = "over" /\ a.answer = Code(q.op)
            /\ a.op = q.op /\ a.case = q.case /\ a.item = q.item /\ a.got = q.got
            /\ a.copy = IF q.op \in Reads \cup {"attach"} THEN q.copy ELSE NoCases
    BY <1>3, <2>1, AnsweredIs
  <2> QED BY <1>2, <1>3, <1>4, <2>2
<1>7. /\ Changed(q, r) \in Stores /\ Grows(q.copy, Changed(q, r))
      /\ Holds(Changed(q, r), q.case, r)
      /\ Mutual(q.copy) => Mutual(Changed(q, r))
      /\ \A b \in Nat \X Nat, x \in Requests : Lists(Changed(q, r), b, x) =>
            Lists(q.copy, b, x) \/ (q.op = "attach" /\ b = Draw(q) /\ x = r)
  BY <1>3, <1>5, ChangedIs
<1>8. \/ caseFile'.form = "json" /\ caseFile'.cases = Changed(q, r)
      \/ caseFile'.form = "garbled" /\ caseFile'.cases = NoCases
  BY <1>2 DEF Json, Torn
<1>9. caseFile' \in [form : {"json", "empty", "garbled"}, cases : Stores]
  BY <1>2, <1>7, NoCasesIs DEF Json, Torn
<1>10. FileTypeOK'
  BY <1>1, <1>2, <1>6, <1>9 DEF FileTypeOK
<1>11. MutualOK'
  <2>1. Mutual(NoCases)
    BY NoCasesIs DEF Mutual
  <2>2. \A s \in Requests : Mutual(request[s].copy)
    BY <1>1 DEF MutualOK
  <2>3. \A s \in Requests : Mutual(request'[s].copy)
    BY <1>6, <2>1, <2>2
  <2> QED BY <1>7, <1>8, <2>1, <2>2, <2>3 DEF MutualOK
<1>12. WorkOK'
  BY <1>1, <1>6 DEF WorkOK
<1>13. \A f, b : f.by \in Requests /\ Drawn(f, b) => Drawn(f, b)'
  <2>1. ASSUME NEW s \in Requests, request[s].op = "attach"
        PROVE  /\ request'[s].copy = request[s].copy /\ Draw(request'[s]) = Draw(request[s])
               /\ request[s].at # "unsent" => request'[s].at # "unsent"
    BY <1>6, <2>1 DEF Draw
  <2> QED BY <1>6, <2>1 DEF Drawn
<1>14. \A b, x : Whole(b, x)' <=> Whole(b, x)
  BY <1>2 DEF Whole
<1>15. BlobsOK'
  <2>1. \A b \in DOMAIN blobs : Drawn(blobs[b], b)'
    BY <1>1, <1>2, <1>13 DEF BlobsOK, FileTypeOK, Files
  <2>2. ASSUME NEW s \in Requests, request'[s].op = "attach"
        PROVE  /\ request'[s].at = "opened" => Draw(request'[s]) \in DOMAIN blobs
               /\ request'[s].at \in {"stored", "truncated"} => Whole(Draw(request'[s]), s)
    BY <1>1, <1>6, <2>2 DEF BlobsOK
  <2> QED BY <1>2, <1>14, <2>1, <2>2 DEF BlobsOK
<1>16. ListedOK'
  <2> SUFFICES ASSUME NEW b \in Nat \X Nat, NEW x \in Requests, Listed(b, x)'
               PROVE  request'[x].at = "over" /\ Whole(b, x)
    BY <1>14 DEF ListedOK
  <2>1. Listed(b, x) \/ (q.op = "attach" /\ b = Draw(q) /\ x = r)
    <3>1. ~Lists(NoCases, b, x)
      BY NoCasesIs DEF Lists
    <3>2. CASE Lists(caseFile'.cases, b, x)
      BY <1>7, <1>8, <3>1, <3>2 DEF Listed
    <3>3. CASE \E s \in Requests : Lists(request'[s].copy, b, x)
      BY <1>6, <3>1, <3>3 DEF Listed
    <3> QED BY <3>2, <3>3 DEF Listed
  <2>2. CASE Listed(b, x)
    BY <1>1, <1>6, <2>2 DEF ListedOK
  <2>3. CASE q.op = "attach" /\ b = Draw(q) /\ x = r
    BY <1>1, <1>2, <1>6, <2>3 DEF BlobsOK
  <2> QED BY <2>1, <2>2, <2>3
<1>17. ReadOK'
  <2> SUFFICES ASSUME NEW s \in Requests, request'[s].op \in Reads, request'[s].answer = 200
               PROVE  \E f \in Files, b \in Nat \X Nat, x \in Requests : Got(request[s], f, b, x)'
    BY DEF ReadOK
  <2>1. request'[s] = request[s]
    BY <1>5, <1>6
  <2>2. PICK f \in Files, b \in Nat \X Nat, x \in Requests : Got(request[s], f, b, x)
    BY <1>1, <2>1 DEF ReadOK
  <2>3. Got(request[s], f, b, x)'
    BY <1>13, <2>1, <2>2 DEF Got, Files
  <2> QED BY <2>3
<1>18. RecordOK'
  <2> SUFFICES ASSUME Undisturbed', NEW x \in Requests, Made(x)'
               PROVE  /\ caseFile'.form = "json" => Holds(caseFile'.cases, request'[x].case, x)
                      /\ \A s \in Underway' \ overtaken' : Holds(request'[s].copy, request'[x].case, x)
    BY DEF RecordOK
  <2>1. Made(r)' /\ r \in Underway
    BY <1>2, <1>5, <1>6 DEF Made, Underway
  <2>2. r \notin overtaken /\ Undisturbed
    BY <1>2, <1>6, <2>1 DEF Undisturbed, Made
  <2>3. Underway' \ overtaken' = {}
    BY <1>2, <1>6 DEF Underway
  <2>4. Holds(Changed(q, r), request[x].case, x)
    <3>1. CASE x = r
      BY <1>7, <3>1
    <3>2. CASE x # r
      <4>1. Made(x)
        BY <1>6, <3>2 DEF Made
      <4>2. Holds(q.copy, request[x].case, x)
        BY <1>1, <2>1, <2>2, <4>1 DEF RecordOK
      <4> QED BY <1>7, <4>2 DEF Grows, Holds
    <3> QED BY <3>1, <3>2
  <2> QED BY <1>6, <1>8, <2>3, <2>4
<1> QED BY <1>10, <1>11, <1>12, <1>15, <1>16, <1>17, <1>18 DEF FileInv

-----------------------------------------------------------------------------
LEMMA FileNextKeeps == FileInv /\ [FileNext]_fileVars => FileInv'
<1> SUFFICES ASSUME FileInv, [FileNext]_fileVars
             PROVE  FileInv'
  OBVIOUS
<1>1. ASSUME NEW r \in Requests, Asks(r)
      PROVE  FileInv'
  BY <1>1, FileSendKeeps
<1>2. ASSUME NEW r \in Requests, Decline(r) \/ TooLarge(r)
      PROVE  FileInv'
  BY <1>2, DeclineIsQuiet, FileQuietKeeps
<1>3. ASSUME NEW r \in Requests, Fetch(r)
      PROVE  FileInv'
  BY <1>3, FetchIsQuiet, FileQuietKeeps
<1>4. ASSUME NEW r \in Requests, OpenBlob(r) \/ WriteBlob(r)
      PROVE  FileInv'
  BY <1>4, BytesKeep
<1>5. ASSUME NEW r \in Requests, Truncate(r)
      PROVE  FileInv'
  BY <1>5, TruncateKeeps
<1>6. ASSUME NEW r \in Requests, Write(r)
      PROVE  FileInv'
  BY <1>6, FileWriteKeeps
<1>7. CASE Die
  BY <1>7, DieIsQuiet, FileQuietKeeps
<1>8. CASE UNCHANGED fileVars
  <2>1. Quiet
    BY <1>8 DEF fileVars, Quiet, FileInv, FileTypeOK
  <2> QED BY <2>1, FileQuietKeeps
<1> QED BY <1>1, <1>2, <1>3, <1>4, <1>5, <1>6, <1>7, <1>8 DEF FileNext

(* A place that is drawn is not listed in the copy it was drawn from. *)
LEMMA DrawnIsItsFile ==
    ASSUME FileTypeOK, NEW f \in Files, NEW n \in Nat, NEW k \in Nat, NEW x \in Requests,
           Drawn(f, <<n, k>>), f.by = x => f.whole
    PROVE  IsItsFile(f, x, n, k)
<1>1. CASE f.by = x
  <2>1. f = [by |-> x, whole |-> TRUE]
    BY <1>1 DEF Files
  <2> QED BY <2>1 DEF IsItsFile
<1>2. CASE f.by # x
  <2> DEFINE q == request[f.by]
  <2>1. q \in Handlers /\ q.case \in DOMAIN q.copy /\ Draw(q) = <<n, k>>
    BY DEF FileTypeOK, Files, Drawn
  <2>2. /\ q.case = n /\ k \notin DOMAIN q.copy[n].attachments
    BY <2>1, DrawIs
  <2> QED BY <1>2, <2>2 DEF IsItsFile
<1> QED BY <1>1, <1>2

LEMMA FileInvHolds == FileInv => CaseFilesHold
<1> SUFFICES ASSUME FileInv
             PROVE  CaseFilesHold
  OBVIOUS
<1> DEFINE onFile == caseFile.cases
<1>1. FileTypeOK /\ MutualOK /\ BlobsOK /\ ListedOK /\ ReadOK /\ RecordOK
  BY DEF FileInv
<1>2. onFile \in Stores
  BY <1>1 DEF FileTypeOK
<1>3. ASSUME NEW n \in DOMAIN onFile, NEW k \in DOMAIN onFile[n].attachments
      PROVE  /\ <<n, k>> \in DOMAIN blobs
             /\ IsItsFile(blobs[<<n, k>>], onFile[n].attachments[k], n, k)
  <2>1. onFile[n].attachments \in Seq(Requests) /\ n \in Nat
    BY <1>2, StoreIs DEF Filed
  <2>2. PICK x \in Requests : x = onFile[n].attachments[k]
    BY <2>1
  <2>3. k \in Nat /\ <<n, k>> \in Nat \X Nat
    BY <2>1
  <2>4. Lists(onFile, <<n, k>>, x)
    BY <2>2 DEF Lists
  <2>5. Whole(<<n, k>>, x)
    BY <1>1, <2>3, <2>4 DEF ListedOK, Listed
  <2>6. /\ <<n, k>> \in DOMAIN blobs
        /\ blobs[<<n, k>>].by = x => blobs[<<n, k>>].whole
    BY <2>5 DEF Whole
  <2>7. blobs[<<n, k>>] \in Files /\ Drawn(blobs[<<n, k>>], <<n, k>>)
    BY <1>1, <2>6 DEF FileTypeOK, BlobsOK
  <2> QED BY <1>1, <2>1, <2>2, <2>3, <2>6, <2>7, DrawnIsItsFile
<1>4. ASSUME NEW r \in Requests, request[r].op \in Reads, request[r].answer = 200
      PROVE  LET q == request[r]
             IN  /\ q.got # <<>>
                 /\ IsItsFile(q.got[1], q.copy[q.case].attachments[q.item], q.case, q.item)
  <2>1. PICK f \in Files, b \in Nat \X Nat, x \in Requests : Got(request[r], f, b, x)
    BY <1>1, <1>4 DEF ReadOK
  <2>2. /\ b = <<request[r].case, request[r].item>> /\ request[r].got = <<f>>
        /\ Drawn(f, b) /\ (f.by = x => f.whole)
        /\ request[r].copy[request[r].case].attachments[request[r].item] = x
    BY <2>1 DEF Got, Lists
  <2>3. request[r].case \in Nat /\ request[r].item \in Nat
    BY <1>1 DEF FileTypeOK, Handlers
  <2>4. IsItsFile(f, x, request[r].case, request[r].item)
    BY <1>1, <2>2, <2>3, DrawnIsItsFile
  <2> QED BY <2>2, <2>4
<1>5. \A n \in DOMAIN onFile : \A m \in onFile[n].links : m \in DOMAIN onFile /\ n \in onFile[m].links
  BY <1>1 DEF MutualOK, Mutual
<1>6. ASSUME NEW r \in Requests, Made(r), \A s \in overtaken : ~Made(s), caseFile.form = "json"
      PROVE  request[r].case \in DOMAIN onFile /\ r \in onFile[request[r].case].activity
  BY <1>1, <1>6 DEF RecordOK, Undisturbed, Holds
<1> QED BY <1>3, <1>4, <1>5, <1>6 DEF CaseFilesHold, Readable

(* What is on file is what was put there, whatever the requests overlap with *)
(* and wherever the console dies: attachments have their bytes, links are of  *)
(* both cases, and what was answered as recorded is on file unless one that   *)
(* was overtaken has saved over it (serve.py, soc.py and case_store.py).      *)
THEOREM CaseFilesAreTrue == FileSpec => []CaseFilesHold
<1>1. FileSpec => []FileInv
  BY FileInitIs, FileNextKeeps, PTL DEF FileSpec
<1> QED BY <1>1, FileInvHolds, PTL
=============================================================================
