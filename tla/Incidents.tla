----------------------------- MODULE Incidents -----------------------------
(***************************************************************************)
(* The incident and case stores of console/soc.py.  Every analysis and     *)
(* every listing rebuilds the incidents of the run in the console and      *)
(* carries the analyst's part of them over (_merge_incidents); every       *)
(* incident is given a case (ensure_incident_cases), and every case is     *)
(* copied onto the incidents it links, or onto a manual incident of its    *)
(* own (migrate_cases_to_incidents).  A request is one step here.          *)
(***************************************************************************)
EXTENDS Integers, Sequences, FiniteSets, Functions

CONSTANTS
    Derived,        \* ids derive_incidents computes from findings
    Runs,           \* what it derives of each run: a set of sets of ids
    Moves, Statuses,   \* what requests move incidents, and cases, to
    Dispositions, None,
    MaxCases, MaxEdits, MaxDecisions   \* bounds

States == {"new", "triaged", "investigating", "escalated", "resolved", "closed"}
Terminal == {"resolved", "closed"}

ASSUME IncidentsAssumption ==
    /\ Runs \subseteq SUBSET Derived
    /\ Moves \subseteq States /\ Statuses \subseteq States
    /\ None \notin Dispositions
    /\ {MaxCases, MaxEdits, MaxDecisions} \subseteq Nat
    /\ Derived \cap Nat = {}

VARIABLES
    incidents,   \* incidents.json, by id; n is the manual incident of case-n
    cases,       \* cases.json: case-n is cases[n]
    run,         \* the incidents of the run in the console
    decisions    \* how many moves the analyst has made of incidents

vars == <<incidents, cases, run, decisions>>

Manual == 1..MaxCases
Ids == Derived \cup Manual

Case == [id : Manual, status : States, links : SUBSET Ids, edits : 0..MaxEdits]

Marks == [action : {"set", "cleared"}, disposition : Dispositions]

Incident ==
    [state : States, acknowledgedAt : BOOLEAN, resolvedAt : BOOLEAN,
     disposition : Dispositions \cup {None}, dispositionHistory : Seq(Marks),
     cases : SUBSET Case]

(* What an id that was not in the store before defaults to.                 *)
Unseen(state) ==
    [state |-> state, acknowledgedAt |-> FALSE, resolvedAt |-> FALSE,
     disposition |-> None, dispositionHistory |-> <<>>, cases |-> {}]

Prev(incs, i, state) == IF i \in DOMAIN incs THEN incs[i] ELSE Unseen(state)

-----------------------------------------------------------------------------
(* Mutants: a field that is not carried over. *)
CarriedWithoutHistory(prev) == [prev EXCEPT !.dispositionHistory = <<>>]
CarriedUnacknowledged(prev) == [prev EXCEPT !.acknowledgedAt = FALSE]
CarriedCaseless(prev) == [prev EXCEPT !.cases = {}]

(* _merge_incidents: a derived incident is a new dict, with what prev has.  *)
Carried(prev) ==
    [Unseen("new") EXCEPT
        !.state = prev.state,
        !.acknowledgedAt = prev.acknowledgedAt,
        !.resolvedAt = prev.resolvedAt,
        !.cases = prev.cases,
        !.disposition = prev.disposition,
        !.dispositionHistory = prev.dispositionHistory]

Merged(r) ==
    [i \in DOMAIN incidents \cup r |->
        IF i \in r THEN Carried(Prev(incidents, i, "new")) ELSE incidents[i]]

(* migrate_cases_to_incidents, over the cases in the order of their ids.  A *)
(* case that links no incident of the store is homeless: its manual         *)
(* incident is rebuilt with its copy alone, and holds the copies of the     *)
(* later cases that link it.  A link that resolves to a manual incident     *)
(* resolved when it was made.                                               *)
Linking(cs, i) == {n \in DOMAIN cs : i \in cs[n].links}

Absorbed(incs, cs) ==
    LET homeless == {n \in DOMAIN cs : cs[n].links \cap DOMAIN incs = {}}
        Bucket(i) ==
            IF i \in homeless
            THEN {cs[n] : n \in {i} \cup {k \in Linking(cs, i) : k > i}}
            ELSE {c \in incs[i].cases : c.id \notin Linking(cs, i)}
                 \cup {cs[n] : n \in Linking(cs, i)}
    IN  [i \in DOMAIN incs \cup homeless |->
            [Prev(incs, i, cs[i].status) EXCEPT !.cases = Bucket(i)]]

NewCase(n, links) == [id |-> n, status |-> "new", links |-> links, edits |-> 0]

(* ensure_incident_cases: one case for every derived incident of incs that  *)
(* no case links; then one for each of more.                                *)
Uncased(incs) == {i \in DOMAIN incs \cap Derived : Linking(cases, i) = {}}

EnsureCases(incs, more) ==
    \E k \in 0..MaxCases : \E order \in Bijection(1..k, Uncased(incs)) :
        LET wanted == order \o more
            opened == cases \o [j \in DOMAIN wanted |-> NewCase(Len(cases) + j, {wanted[j]})]
        IN  /\ Len(opened) <= MaxCases
            /\ cases' = opened
            /\ incidents' = IF wanted = <<>> THEN incs ELSE Absorbed(incs, opened)

-----------------------------------------------------------------------------
Init ==
    /\ incidents = <<>>
    /\ cases = <<>>
    /\ run = {}
    /\ decisions = 0

(* analyze.publish: sync_incidents, then ensure_incident_cases.             *)
Publish(r) ==
    /\ run' = r
    /\ EnsureCases(Merged(r), <<>>)
    /\ UNCHANGED decisions

(* _open_run shows a saved run and touches neither store.                   *)
OpenRun(r) ==
    /\ run' = r
    /\ UNCHANGED <<incidents, cases, decisions>>

ListIncidents ==
    /\ incidents' = Merged(run)
    /\ UNCHANGED <<cases, run, decisions>>

ListCases ==
    /\ EnsureCases(incidents, <<>>)
    /\ UNCHANGED <<run, decisions>>

(* set_incident_state: "the ONLY path that writes disposition".             *)
Moved(inc, s, d) ==
    LET cleared == d = None /\ s \notin Terminal /\ inc.disposition # None
    IN  [inc EXCEPT
            !.state = s,
            !.acknowledgedAt = inc.acknowledgedAt \/ s # "new",
            !.resolvedAt = s \in Terminal,
            !.disposition = IF d # None THEN d ELSE IF cleared THEN None ELSE inc.disposition,
            !.dispositionHistory =
                IF d # None THEN Append(inc.dispositionHistory, [action |-> "set", disposition |-> d])
                ELSE IF cleared THEN Append(inc.dispositionHistory,
                                            [action |-> "cleared", disposition |-> inc.disposition])
                ELSE inc.dispositionHistory]

SetIncidentState(i, s, d) ==
    /\ i \in DOMAIN incidents
    /\ d # None => s = "closed"
    /\ decisions < MaxDecisions
    /\ decisions' = decisions + 1
    /\ incidents' = [incidents EXCEPT ![i] = Moved(incidents[i], s, d)]
    /\ UNCHANGED <<cases, run>>

(* The incidents a payload may name: a manual one only once it exists.      *)
Nameable == Derived \cup (DOMAIN incidents \cap Manual)

Store(cs) ==
    /\ cases' = cs
    /\ incidents' = Absorbed(incidents, cs)
    /\ UNCHANGED <<run, decisions>>

CreateCase(links) ==
    /\ Len(cases) < MaxCases
    /\ links \subseteq Nameable
    /\ Store(Append(cases, NewCase(Len(cases) + 1, links)))

(* patch_case, or any other addition to the case.                           *)
EditCase(n, status, links) ==
    /\ n \in DOMAIN cases
    /\ cases[n].edits < MaxEdits
    /\ links \subseteq Nameable
    /\ Store([cases EXCEPT ![n] = [id |-> n, status |-> status, links |-> links,
                                  edits |-> cases[n].edits + 1]])

(* open_incident_case lists the cases, and opens one for i if none links it *)
(* then: a derived incident has got its case from the listing.              *)
OpenIncidentCase(i) ==
    /\ i \in DOMAIN incidents
    /\ EnsureCases(incidents, IF i \in Manual /\ Linking(cases, i) = {} THEN <<i>> ELSE <<>>)
    /\ UNCHANGED <<run, decisions>>

Next ==
    \/ \E r \in Runs : Publish(r) \/ OpenRun(r)
    \/ ListIncidents
    \/ ListCases
    \/ \E i \in Ids, s \in Moves, d \in Dispositions \cup {None} : SetIncidentState(i, s, d)
    \/ \E links \in SUBSET Ids : CreateCase(links)
    \/ \E n \in Manual, status \in Statuses, links \in SUBSET Ids : EditCase(n, status, links)
    \/ \E i \in Ids : OpenIncidentCase(i)

Spec == Init /\ [][Next]_vars
-----------------------------------------------------------------------------
TypeOK ==
    /\ DOMAIN incidents \subseteq Ids
    /\ \A i \in DOMAIN incidents : incidents[i] \in Incident
    /\ cases \in Seq(Case)
    /\ Len(cases) <= MaxCases
    /\ run \subseteq Derived
    /\ decisions \in 0..MaxDecisions

(* "it MUST be carried across every re-derivation here - otherwise the next *)
(* analyze silently drops it": analyses, listings, openings of runs, cases  *)
(* and their absorption leave every word of the analyst's on an incident;   *)
(* set_incident_state alone changes it, one incident at a time, and only    *)
(* adds to the history.                                                     *)
In(i) == i \in DOMAIN incidents

Record ==
    INSTANCE AnalystRecord WITH
        Ids <- Ids, States <- States, Terminal <- Terminal,
        Dispositions <- Dispositions, None <- None,
        standing <- [i \in Ids |-> IF In(i) THEN incidents[i].state ELSE "absent"],
        holding <- [i \in Ids |-> IF In(i) THEN incidents[i].disposition ELSE None],
        trail <- [i \in Ids |-> IF In(i) THEN incidents[i].dispositionHistory ELSE <<>>]

ImplementsRecord == Record!RecordSpec

(* A disposition in force is the last of the history, on an incident that   *)
(* is resolved or closed, after any number of analyses and reopenings.      *)
DispositionIsClosed == Record!Coherent

(* "Timestamps record what actually happened": an incident the rules found  *)
(* has a resolvedAt exactly while it is resolved or closed, and has been    *)
(* acknowledged if it ever left new.  (A manual incident may be seeded      *)
(* closed, by a case, without either.)                                      *)
TimestampsAreHonest ==
    \A i \in DOMAIN incidents \cap Derived :
        /\ incidents[i].resolvedAt <=> incidents[i].state \in Terminal
        /\ incidents[i].state # "new" => incidents[i].acknowledgedAt

(* "so the case's title/notes/assignee/lifecycle are never dropped": what   *)
(* cases.json says of a case, some incident says as well.                   *)
Hosted(n) == \E i \in DOMAIN incidents : cases[n] \in incidents[i].cases

(* So it is, of a case that links no manual incident of a later one.        *)
CaseIsHosted ==
    \A n \in DOMAIN cases : Hosted(n) \/ \E i \in cases[n].links \cap Manual : i > n
=============================================================================
