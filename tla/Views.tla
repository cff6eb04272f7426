------------------------------- MODULE Views -------------------------------
(***************************************************************************)
(* What the console shows of the loaded run and the incident store: the    *)
(* events of the log under their buckets, the Overview, the assets, the    *)
(* attempts on an entity over the saved runs, and the showcase the copilot *)
(* selects for a question.  Each counts the findings for itself.           *)
(***************************************************************************)
EXTENDS Advice

CONSTANTS Hour,        \* the width of a bin of the time chart
          MostItems    \* the findings a showcase lists

ASSUME ViewsAssumption == MostItems \in Nat /\ Hour \in Nat \ {0}

\* No rule has the name of an address.
ASSUME NamesAssumption ==
    {"auth_bruteforce", "auth_bruteforce_success", "generic_auth_failure"} \cap IPv4 = {}

Total(S, Of(_)) == SumFunction([x \in S |-> Of(x)])

Occurrences(f) == f.occurrences

-----------------------------------------------------------------------------
(* overview_state.  Notes (INFO) are no alerts; a finding without a stamp   *)
(* is in no bin of the time chart, which has one for each hour.             *)
Alerts == Severities \ {"info"}

SevCounts(findings) == [s \in Alerts |-> Cardinality({f \in findings : f.sev = s})]

OccCounts(findings) == [s \in Alerts |-> Total({f \in findings : f.sev = s}, Occurrences)]

Bins(findings) ==
    LET binned == {f \in Timed(findings) : f.sev \in Alerts}
    IN  [h \in {f.stamp \div Hour : f \in binned} |->
            OccCounts({f \in binned : f.stamp \div Hour = h})]

Overview(r) ==
    LET counts == SevCounts(r.findings)
    IN  [total |-> Total(Alerts, LAMBDA s : counts[s]), counts |-> counts,
         matching |-> OccCounts(r.findings), bins |-> Bins(r.findings)]

-----------------------------------------------------------------------------
(* derive_assets: the hosts of the events, and the hosts and addresses of   *)
(* the findings. The risk is in halves: the tags weigh 2, 1 and 1/2.        *)
Weight == [critical |-> 10, high |-> 5, medium |-> 2, low |-> 1, info |-> 0]

Multiplied(level) == CASE level = "crown-jewel" -> 4 [] level = "standard" -> 2 [] OTHER -> 1

Asset(r, name, about) ==
    LET tag == IF name \in DOMAIN r.org THEN r.org[name] ELSE DefaultLevel
    IN  [findings |-> Cardinality(about),
         events |-> Cardinality({n \in DOMAIN r.events : HostOf[r.log[n]] = name}),
         risk |-> Total(about, LAMBDA f : Weight[f.sev] * Multiplied(tag)),
         worst |-> IF about = {} THEN {} ELSE {Worst({f.sev : f \in about})}]

DeriveAssets(r) ==
    LET hosts == {HostOf[r.log[n]] : n \in DOMAIN r.events} \cup {f.host : f \in r.findings}
        ips == {f.ip : f \in r.findings} \cap IPv4
    IN  [a \in {<<h, "host">> : h \in hosts \ {NoHost}} \cup {<<x, "ip">> : x \in ips} |->
            Asset(r, a[1], {f \in r.findings : IF a[2] = "ip" THEN f.ip = a[1] ELSE f.host = a[1]})]

\* metrics: an asset is at risk when its worst finding is HIGH or worse.
AtRisk(assets) ==
    Cardinality({a \in DOMAIN assets : assets[a].worst \cap {"critical", "high"} # {}})

AssetsAtRisk(r) == AtRisk(DeriveAssets(r))

-----------------------------------------------------------------------------
(* entity_attempt_series over the runs of the history, oldest first: a run  *)
(* without such a finding of the entity is no point.                        *)
BruteRules == {"auth_bruteforce", "auth_bruteforce_success", "generic_auth_failure"}

Attempts(r, name) ==
    LET hits == {f \in r.findings : Entity(f)[1] = name /\ f.type \in BruteRules}
    IN  IF hits = {} THEN <<>> ELSE <<Total(hits, Occurrences)>>

AttemptSeries(runs, name) ==
    LET points == FlattenSeq([k \in DOMAIN runs |-> Attempts(runs[k], name)])
    IN  [available |-> Len(points) >= 2, points |-> points,
         direction |-> CASE Len(points) < 2 -> "n/a"
                         [] points[Len(points)] > points[1] -> "up"
                         [] points[Len(points)] < points[1] -> "down"
                         [] OTHER -> "flat"]

-----------------------------------------------------------------------------
(* build_view: an entity that is named comes first, then the dashboard, the *)
(* incidents, the findings. A finding without a host shows its address as   *)
(* one, or a dash; a line that is shown highlights the address it has.      *)
ShownHost(f) == IF f.host # NoHost THEN f.host ELSE IF f.ip # Unknown THEN f.ip ELSE NoHost

Highlighted(f) == {x \in {f.ip} \ {Unknown} : \E n \in f.lines \ {Excerpt} : run.log[n].ip = x}

Tokens(f) == {ShownHost(f)} \cup Highlighted(f)

\* _findings_view and _entity_view cite them all, and list the worst.
FindingsView(type, findings) ==
    [type |-> type, cited |-> Cardinality(findings),
     items |-> {f \in findings :
                   Cardinality({g \in findings : Rank[g.sev] < Rank[f.sev]}) < MostItems}]

\* _incidents_view lists the incidents of the store, after a sync.
IncidentsView(severities) ==
    LET listed == {i \in Merged(run.incidents) : i.severity \in severities}
    IN  [type |-> "incidents", cited |-> Total(listed, LAMBDA i : Cardinality(i.ids)),
         items |-> listed]

DashboardView ==
    [type |-> "dashboard", cited |-> Cardinality(run.findings),
     items |-> {<<SevCounts(run.findings), AssetsAtRisk(run)>>}]

NoView == [type |-> "none", cited |-> 0, items |-> {}]

\* A question names tokens, asks for a kind of view, and for a level or any.
Question(names, asks, levels) == [names |-> names, asks |-> asks, levels |-> levels]

BuildView(question) ==
    LET named == question.names \cap UNION {Tokens(f) : f \in run.findings}
    IN  IF run = NoRun THEN NoView
        ELSE IF named # {}
        THEN LET name == CHOOSE x \in named : TRUE
             IN  FindingsView("entity", {f \in run.findings : name \in Tokens(f)})
        ELSE CASE question.asks = "dashboard" -> DashboardView
               [] question.asks = "incidents" -> IncidentsView(question.levels)
               [] question.asks = "findings" ->
                    FindingsView("findings", {f \in run.findings : f.sev \in question.levels})
               [] OTHER -> NoView

-----------------------------------------------------------------------------
IncidentsOf(entity) == {i \in run.incidents : <<i.entity, i.kind>> = entity}

SpokenOf(x) == BuildView(Question({x}, "nothing", {}))

AddressesAgree(assets) ==
    \A a \in {e \in DOMAIN assets : e[2] = "ip"} :
        /\ assets[a].findings = Total(IncidentsOf(a), LAMBDA i : Cardinality(i.ids))
        /\ assets[a].worst = {Worst({i.severity : i \in IncidentsOf(a)})}
        /\ run.readable =>
             SpokenOf(a[1]).cited >=
                Cardinality({f \in run.findings : f.ip = a[1] /\ f.id[1] = "detector"})

\* A failed attempt counts once, whichever rules report it; entities are told
\* apart by their names, and a host that bears the address would be taken for it.
AttemptsAreLines(points, x) ==
    LET told == {f \in run.findings : f.id[1] = "llm" /\ f.ip = x}
    IN  points # <<>> /\ x \notin {f.host : f \in run.findings} =>
            points[1] <= Cardinality({n \in DOMAIN run.log : run.log[n].ip = x}) + Cardinality(told)

OverviewAgrees(shown, assets) ==
    /\ \A i \in run.incidents : i.severity \in Alerts => shown.counts[i.severity] > 0
    /\ \A s \in Alerts :
         Total(DOMAIN shown.bins, LAMBDA h : shown.bins[h][s])
         + OccCounts(run.findings \ Timed(run.findings))[s] = shown.matching[s]
    /\ Cardinality({<<i.entity, i.kind>> : i \in
            {j \in run.incidents : j.severity \in {"critical", "high"} /\ j.kind # "rule"}})
         <= AtRisk(assets)

EventsAgree ==
    \A f \in run.findings : \A n \in f.lines \cap DOMAIN run.events :
        /\ run.events[n].finding # 0
        /\ f.id[1] = "detector" => Rank[run.events[n].bucket] <= Rank[f.sev]

AssetsAgree(assets) == AddressesAgree(assets) /\ OverviewAgrees(Overview(run), assets)

ViewsAgree ==
    /\ EventsAgree
    /\ AssetsAgree(DeriveAssets(run))
    /\ \A x \in IPv4 : AttemptsAreLines(AttemptSeries(<<run>>, x).points, x)
    /\ Total(IncidentsView(Severities).items \cap run.incidents, LAMBDA i : Cardinality(i.ids))
         = Cardinality(run.findings)

\* "Nothing here invents a verdict": every finding is in one incident, and
\* every screen counts the same ones, with the same severity.
EveryFindingIsCounted == EveryFindingHasOneIncident /\ ViewsAgree
=============================================================================
