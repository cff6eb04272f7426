---------------------------- MODULE Eligibility ----------------------------
(***************************************************************************)
(* Which responses the rules allow: adapter.adapt numbers the findings of  *)
(* a report and hydrates the lines they cite from the log, derive_incidents*)
(* clusters them into incidents, sync_incidents keeps those in the store   *)
(* across runs, and runbooks.eligible answers for one incident and one     *)
(* runbook from the findings of the run that is loaded.                    *)
(***************************************************************************)
EXTENDS Report

CONSTANTS Runbooks,      \* the shipped ones: [rules, kinds, evidence, floor]
          Circumstances, \* of a run: what the model said, whether the log is
                         \* still readable, and org_context.json [whole, assets]
          Seed,          \* DEFAULT_SEED's assets
          Gap,           \* CLUSTER_GAP_SECONDS
          MaxRead,       \* bound: lines of a log that is analysed
          Reanalysed,    \* bound: the first logs after which a second is read
          MaxLater       \* bound: lines of that one

ASSUME EligibilityAssumption ==
    /\ Gap \in Nat /\ MaxRead \in Nat /\ MaxLater \in Nat
    /\ \A b \in Runbooks : b.floor \in Severities
    \* As shipped: no runbook answers an incident of a rule without an entity,
    \* and rb-block-ip.yaml has these.
    /\ \A b \in Runbooks : "rule" \notin b.kinds
    /\ \A b \in Runbooks : b.kinds = {"ip"} =>
          b.rules \subseteq {"auth_bruteforce", "auth_bruteforce_success", "possible_break_in"}
    /\ \A c \in Circumstances : c.said \subseteq ModelFindings /\ c.readable \in BOOLEAN
    /\ \A c \in Circumstances : IsFiniteSet(c.said)

VARIABLES run,           \* the run that is loaded, with the incidents derived from it
          store          \* incidents.json

analysisVars == <<log, run, store>>

NoRun == [log |-> <<>>, said |-> {}, readable |-> FALSE, report |-> <<>>, events |-> <<>>,
          org |-> Seed, findings |-> {}, incidents |-> {}]

-----------------------------------------------------------------------------
(* adapt.  _line_numbers takes the timeline's lines and the two ends of a   *)
(* range written "lines 2-7"; only those the log still has are shown.       *)
\* Mutant: the whole range.
WholeRange(g) ==
    ToSet(g.timeline) \cup IF g.evidence.words = "lines" THEN g.evidence.first..g.evidence.last ELSE {}

LineNumbers(g) ==
    ToSet(g.timeline) \cup IF g.evidence.words = "lines" THEN {g.evidence.first, g.evidence.last} ELSE {}

Shown(r, g) == IF r.readable THEN LineNumbers(g) \cap DOMAIN r.log ELSE {}

\* _target_host: of the first line shown that names one.
TargetHost(r, g) ==
    LET named == {n \in Shown(r, g) : HostOf[r.log[n]] # NoHost}
    IN  IF named # {} THEN HostOf[r.log[SetMin(named)]] ELSE g.host

\* The stamp is that of the last event of the timeline.
Stamp(r, g) == IF g.timeline = <<>> THEN NoTime ELSE r.log[g.timeline[Len(g.timeline)]].at

\* Without a line to show, the evidence is shown as one, whose number is "".
\* Lines are numbered from 1.
Excerpt == 0

AdaptedFinding(r, g, k, shown) ==
    [id |-> <<g.source, k>>, type |-> g.type, sev |-> g.severity, ip |-> g.ip,
     host |-> TargetHost(r, g), stamp |-> Stamp(r, g), on |-> g.on,
     occurrences |-> g.occurrences,
     lines |-> IF shown # {} THEN shown ELSE {Excerpt}]

Adapted(r) ==
    {AdaptedFinding(r, r.report[k], k, Shown(r, r.report[k])) : k \in DOMAIN r.report}

(* _events: a line a finding sits on takes the severity of the first        *)
(* finding of the report that cites it, any other that of its own level.    *)
LevelBucket(level) ==
    CASE level = "CRIT" -> "critical"
      [] level = "ERROR" -> "high"
      [] level = "WARN" -> "medium"
      [] level = "INFO" -> "info"
      [] OTHER -> "unknown"

Citers(r, n) == {k \in DOMAIN r.report : n \in LineNumbers(r.report[k])}

Event(finding, bucket) == [finding |-> finding, bucket |-> bucket]

\* Mutant: the finding that was put last.
EventOfLast(r, n) ==
    IF Citers(r, n) = {} THEN Event(0, LevelBucket(r.log[n].level))
    ELSE Event(SetMax(Citers(r, n)), r.report[SetMax(Citers(r, n))].severity)

EventOf(r, n) ==
    IF Citers(r, n) = {} THEN Event(0, LevelBucket(r.log[n].level))
    ELSE Event(SetMin(Citers(r, n)), r.report[SetMin(Citers(r, n))].severity)

Events(r) == [n \in IF r.readable THEN DOMAIN r.log ELSE {} |-> EventOf(r, n)]

-----------------------------------------------------------------------------
(* org_context: how critical the tagged assets are, and what that makes of  *)
(* an incident.  A file that cannot be read is the seed again.              *)
Levels == {"crown-jewel", "standard", "low"}
DefaultLevel == "standard"

\* As shipped.
ASSUME SeedAssumption == \A n \in DOMAIN Seed : Seed[n] \in Levels

OrgContext(file) ==
    IF file.whole
    THEN [n \in DOMAIN file.assets |->
            IF file.assets[n] \in Levels THEN file.assets[n] ELSE DefaultLevel]
    ELSE Seed

Matrix ==
    [critical |-> [crown |-> 1, standard |-> 1, low |-> 2],
     high |-> [crown |-> 1, standard |-> 2, low |-> 3],
     medium |-> [crown |-> 2, standard |-> 3, low |-> 4],
     low |-> [crown |-> 3, standard |-> 4, low |-> 4],
     info |-> [crown |-> 4, standard |-> 4, low |-> 4]]

PriorityOf(severity, level) ==
    Matrix[severity][IF level = "crown-jewel" THEN "crown" ELSE level]

\* Any asset that is tagged determines it before all that are not.
Criticality(org, assets) ==
    LET tagged == {org[n] : n \in assets \cap DOMAIN org}
    IN  IF tagged = {} THEN DefaultLevel
        ELSE IF "crown-jewel" \in tagged THEN "crown-jewel"
        ELSE IF "standard" \in tagged THEN "standard" ELSE "low"

Assets(entity, c) ==
    ({entity[1]} \cup UNION {{f.host, f.ip} : f \in c}) \ {NoHost, Unknown}

-----------------------------------------------------------------------------
(* derive_incidents.                                                        *)
Entity(f) ==
    IF f.ip \in IPv4 THEN <<f.ip, "ip">>
    ELSE IF f.host # NoHost THEN <<f.host, "host">>
    ELSE <<f.type, "rule">>

\* A chain of findings no two neighbours of which are further apart than Gap.
Chained(stamped, f, g) ==
    \A s \in {h.stamp : h \in stamped} :
        (f.stamp <= s /\ s < g.stamp) \/ (g.stamp <= s /\ s < f.stamp) =>
            \E h \in stamped : h.stamp - s \in 1..Gap

Timed(members) == {f \in members : f.stamp # NoTime}

\* Mutant: an unstamped finding is kept only where nothing is stamped.
ChainsOfStamped(members) ==
    LET stamped == Timed(members)
    IN  IF stamped = {} THEN {members} ELSE {{g \in stamped : Chained(stamped, f, g)} : f \in stamped}

\* Unstamped findings join the first chain.
Chains(members) ==
    LET stamped == Timed(members)
        first == {f \in stamped : \A g \in stamped : Chained(stamped, f, g) \/ f.stamp < g.stamp}
        Joined(c) == IF c = first THEN c \cup (members \ stamped) ELSE c
    IN  IF stamped = {} THEN {members}
        ELSE {Joined({g \in stamped : Chained(stamped, f, g)}) : f \in stamped}

\* Lone findings of low severity become one cluster.
RolledUp(chains) ==
    LET lone == {c \in chains : Cardinality(c) = 1 /\ \A f \in c : f.sev \in {"low", "info"}}
    IN  IF Cardinality(lone) > 1 THEN (chains \ lone) \cup {UNION lone} ELSE chains

Incident(org, entity, c) ==
    LET stamps == {f.stamp : f \in Timed(c)}
        worst == Worst({f.sev : f \in c})
    IN  [entity |-> entity[1], kind |-> entity[2], ids |-> {f.id : f \in c},
         severity |-> worst,
         priority |-> PriorityOf(worst, Criticality(org, Assets(entity, c))),
         first |-> IF stamps = {} THEN NoTime ELSE SetMin(stamps),
         last |-> IF stamps = {} THEN NoTime ELSE SetMax(stamps)]

Derived(findings, org) ==
    LET Of(e) == {f \in findings : Entity(f) = e}
    IN  UNION {{Incident(org, e, c) : c \in RolledUp(Chains(Of(e)))} : e \in {Entity(f) : f \in findings}}

\* The id of an incident is a digest of these; runs of a file with the same
\* name on the same day share their runId.
SameId(i, j) ==
    /\ i.entity = j.entity /\ i.kind = j.kind
    /\ i.first = j.first /\ i.ids = j.ids

\* _merge_incidents, for the fields eligibility reads.
Merged(incidents) ==
    incidents \cup {i \in store : \A j \in incidents : ~SameId(i, j)}

-----------------------------------------------------------------------------
(* runbooks.eligible, over the findings of the loaded run with the ids the  *)
(* incident names (_incident_members; all of them when it names none).      *)
Members(i) == {f \in run.findings : f.id \in i.ids}

Have(i) ==
    (IF i.kind = "ip" THEN {"entity_kind:ip"} ELSE {})
    \cup (IF i.first # NoTime /\ i.last # NoTime THEN {"timestamps"} ELSE {})
    \cup (IF \E f \in Members(i) : f.lines # {} THEN {"record_refs"} ELSE {})
    \cup (IF Members(i) # {} THEN {"occurrences"} ELSE {})

\* Mutant: the rule and the evidence are asked for, the floor is not.
NoFloor(book, i) ==
    /\ \E f \in Members(i) : f.type \in book.rules
    /\ i.kind \in book.kinds
    /\ book.evidence \subseteq Have(i)

Missing(book, i) ==
    (IF \E f \in Members(i) : f.type \in book.rules THEN {} ELSE {"trigger.rule_ids"})
    \cup (IF i.kind \in book.kinds THEN {} ELSE {"trigger.entity_types"})
    \cup (IF Rank[i.severity] <= Rank[book.floor] THEN {} ELSE {"severity_floor"})
    \cup (book.evidence \ Have(i))

Eligible(book, i) == Missing(book, i) = {}

\* create_approval turns the number of every line shown into an integer.
Refs(i) == UNION {f.lines : f \in Members(i)}

Creates(i) == Excerpt \notin Refs(i)

-----------------------------------------------------------------------------
AnalysisInit == LogInit /\ run = NoRun /\ store = {}

ReadLine ==
    /\ run # NoRun => /\ run.log \in Reanalysed /\ run.said = {} /\ run.readable
                       /\ store = run.incidents /\ Len(log) < MaxLater
    /\ LogNext
    /\ UNCHANGED <<run, store>>

\* The report of the log, and what the console makes of it.
Analyzed(c) ==
    [log |-> log, said |-> c.said, readable |-> c.readable, report |-> ReportOf(log, c.said)]

Opened(r, c) ==
    LET findings == Adapted(r)
        org == OrgContext(c.org)
    IN  [log |-> r.log, said |-> r.said, readable |-> r.readable, report |-> r.report,
         events |-> Events(r), findings |-> findings, org |-> org,
         incidents |-> Derived(findings, org)]

RunOf(c) == Opened(Analyzed(c), c)

\* A run is published: the console opens its state, and every list of
\* incidents syncs the store first.
Publish(c) ==
    /\ log # <<>> /\ Len(log) <= MaxRead
    /\ run' = RunOf(c)
    /\ store' = Merged(run'.incidents)
    /\ log' = <<>>

AnalysisNext == ReadLine \/ \E c \in Circumstances : Publish(c)

AnalysisSpec == AnalysisInit /\ [][AnalysisNext]_analysisVars

-----------------------------------------------------------------------------
\* No finding is lost between the report and the incidents and none is
\* counted twice, whichever of them have a time; an incident is about one
\* entity, as severe as its worst finding, and spans no longer silence than
\* the documented 30 minutes unless it rolls up lone low findings. Among its
\* findings no tagged asset asks for a higher priority than it has.
EveryFindingHasOneIncident ==
    \A f \in run.findings :
        LET of == {i \in run.incidents : f.id \in i.ids}
        IN  /\ Cardinality(of) = 1
            /\ \A i \in of :
                /\ <<i.entity, i.kind>> = Entity(f)
                /\ Rank[i.severity] <= Rank[f.sev]
                /\ \A n \in ({f.host, f.ip} \cap DOMAIN run.org) \ {NoHost, Unknown} :
                     i.priority <= PriorityOf(f.sev, run.org[n])
                /\ f.stamp # NoTime => f.stamp \in i.first..i.last
                /\ \A g \in Timed(Members(i)) :
                     f.stamp # NoTime /\ g.stamp - f.stamp > Gap =>
                        \/ \E h \in Timed(Members(i)) : h.stamp - f.stamp \in 1..Gap
                        \/ i.severity \in {"low", "info"}

\* The findings of an incident are the rules' own.
ByRulesAlone(i) == \A f \in Members(i) : f.id[1] = "detector"

Attacked(i) ==
    \/ Cardinality({n \in DOMAIN run.log : /\ run.log[n].ip = i.entity
                                           /\ AuthSource[run.log[n]] \in Failures
                                              \/ "auth_failed" \in run.log[n].text}) >= MinFailures
    \/ \E n \in DOMAIN run.log : run.log[n].ip = i.entity /\ "break_in" \in run.log[n].text

\* "Rules own eligibility": an incident of the loaded run that may be answered
\* by a block of its address is one whose log shows that address fail to log
\* in often enough, or flagged as a break-in, and one of its rules is as
\* severe as the floor. It is not so of an incident a finding of the model
\* joined, whose type and severity are read as a rule's, nor of one of an
\* earlier run, whose finding ids name findings of the loaded one.
BlockIsEarned ==
    \A book \in Runbooks : \A i \in run.incidents :
        book.kinds = {"ip"} /\ Eligible(book, i) /\ ByRulesAlone(i) =>
            /\ Attacked(i)
            /\ \E f \in Findings(run.log) :
                 Rank[f.severity] <= Rank[book.floor] /\ AddressIn(run.log, f) = i.entity
=============================================================================
