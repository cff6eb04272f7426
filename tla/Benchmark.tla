----------------------------- MODULE Benchmark -----------------------------
(***************************************************************************)
(* The referee of tools/efficacy_harness.py: the report of a generated log *)
(* is scored against the lines its manifest declares malicious, once with  *)
(* every finding the rules produced and once with those the learned model  *)
(* keeps; what the model dropped is published beside the scores.           *)
(***************************************************************************)
EXTENDS Report

CONSTANTS Systems,      \* learned systems: the <<type, occurrences, band>> a model keeps
          MaxScored     \* bound: lines of a log that is scored

ASSUME BenchmarkAssumption == MaxScored \in Nat

\* CRITICALITY_DOMAIN; the host of a scenario is of one band.
Bands == {"low", "standard", "crown-jewel"}

\* cited_line_numbers: the timeline and every range written in the prose,
\* which here may also read "source lines: 2-7"; a range that runs backwards
\* leaves its first number. The line of the success after a brute force is
\* written out. cites_raw: single records quote the text of their line.
CitedLines(l, g) ==
    LET e == g.evidence
        range == CASE e.words = "none" -> {}
                   [] e.first <= e.last -> e.first..e.last
                   [] OTHER -> {e.first}
        quoted == IF e.words = "none" /\ g.type # "zk_instability"
                  THEN {i \in DOMAIN l : l[i] = l[SetMin(g.on)]} ELSE {}
        success == IF g.type = "auth_bruteforce_success" THEN {SetMin(Compromises(l, g.ip))} ELSE {}
    IN  ToSet(g.timeline) \cup range \cup quoted \cup success

Citing(l, g) ==
    [type |-> g.type, on |-> g.on, severity |-> g.severity, cites |-> CitedLines(l, g),
     occurrences |-> g.occurrences]

\* The report of one log, each finding with what it cites. Only the rules'
\* findings: the benchmark runs the analyzer with --rules-only.
ReportFor(l) == {Citing(l, Reported(l, f)) : f \in Deduped(l)}

Hits(g, malicious) == g.cites \cap malicious

Ratio(n, d) == [of |-> n, among |-> d]

\* score: a ratio of nothing is published as zero, with a flag.
Score(true, false, detected, malicious) ==
    [true_positives |-> true, precision |-> Ratio(true, true + false),
     recall |-> Ratio(detected, malicious),
     precision_defined |-> true + false > 0, recall_defined |-> malicious > 0]

\* finding_level_recall
FindingRecall(kept, reference) ==
    [kept |-> kept, total |-> reference, recall_defined |-> reference > 0]

\* diff, for one collection of findings.
Scored(collection, malicious) ==
    LET true == {g \in collection : Hits(g, malicious) # {}}
        covered == UNION {Hits(g, malicious) : g \in true}
    IN  [findings |-> Cardinality(collection),
         totals |-> Score(Cardinality(true), Cardinality(collection \ true),
                          Cardinality(covered), Cardinality(malicious)),
         false_positives |-> collection \ true,
         misses |-> malicious \ covered,
         per_rule |-> [t \in {g.type : g \in collection} |->
                          Cardinality({g \in true : g.type = t})]]

\* opinion: the host, and so its band, is that of the whole scenario.
ModelPositive(system, g, band) == <<g.type, g.occurrences, band>> \in system

\* learned_findings: one opinion per finding, those labelled confirmed stay.
KeptBy(system, manifest, report) == {g \in report : ModelPositive(system, g, manifest.band)}

\* dropped_true_findings. Mutant: only those whose lines no kept finding
\* covers, the loss that line-level recall sees.
DroppedAndUncovered(system, manifest, report) ==
    LET kept == KeptBy(system, manifest, report)
    IN  {g \in report \ kept :
            Hits(g, manifest.malicious) \ UNION {Hits(k, manifest.malicious) : k \in kept} # {}}

Dropped(system, manifest, report) ==
    {g \in report \ KeptBy(system, manifest, report) : Hits(g, manifest.malicious) # {}}

\* finding_recall_by_rule, against what the rules produced.
RecallByRule(reference, system) ==
    [t \in {r \in DOMAIN reference : reference[r] > 0} |->
        FindingRecall(IF t \in DOMAIN system THEN system[t] ELSE 0, reference[t])]

ScorePair(manifest, report, system) ==
    LET rules == Scored(report, manifest.malicious)
        learned == Scored(KeptBy(system, manifest, report), manifest.malicious)
        reference == rules.totals.true_positives
    IN  [manifest |-> manifest, report |-> report, rules |-> rules, learned |-> learned,
         rules_by_rule |-> RecallByRule(rules.per_rule, rules.per_rule),
         by_rule |-> RecallByRule(rules.per_rule, learned.per_rule),
         finding_recall |-> FindingRecall(learned.totals.true_positives, reference),
         dropped |-> Dropped(system, manifest, report)]

-----------------------------------------------------------------------------
(* A whole run of the benchmark: a sequence of scenarios, each a manifest   *)
(* with the report of its log, and what is published of it.                 *)
SumOver(entries, Of(_)) == SumFunction([k \in DOMAIN entries |-> Of(entries[k])])

\* merge_finding_recall_by_rule: the pairs are summed, never the ratios.
MergeByRule(entries) ==
    LET kept(t, e) == IF t \in DOMAIN e THEN e[t].kept ELSE 0
        total(t, e) == IF t \in DOMAIN e THEN e[t].total ELSE 0
    IN  [t \in UNION {DOMAIN entries[k] : k \in DOMAIN entries} |->
            FindingRecall(SumOver(entries, LAMBDA e : kept(t, e)),
                          SumOver(entries, LAMBDA e : total(t, e)))]

ScoreManifests(pairs, system) ==
    [k \in DOMAIN pairs |-> ScorePair(pairs[k].manifest, pairs[k].report, system)]

\* criticality_sensitivity: the findings kept rightly and those dropped
\* rightly, opined on again with the host in each band.
Judged(system, e, kept) ==
    {g \in e.report : /\ (Hits(g, e.manifest.malicious) # {}) = kept
                      /\ ModelPositive(system, g, e.manifest.band) = kept}

Robust(system, g) == Cardinality({ModelPositive(system, g, b) : b \in Bands}) = 1

Bucket(system, entries, kept) ==
    LET judged(e) == Judged(system, e, kept)
    IN  [total |-> SumOver(entries, LAMBDA e : Cardinality(judged(e))),
         robust |-> SumOver(entries, LAMBDA e : Cardinality({g \in judged(e) : Robust(system, g)})),
         flipping |-> SumOver(entries, LAMBDA e : Cardinality({g \in judged(e) : ~Robust(system, g)})),
         kept_at |-> [b \in Bands |->
            SumOver(entries, LAMBDA e :
                Cardinality({g \in judged(e) : ModelPositive(system, g, b)}))]]

CriticalitySensitivity(system, entries) ==
    [true_detections |-> Bucket(system, entries, TRUE),
     suppressions |-> Bucket(system, entries, FALSE)]

\* evaluate. A dropped finding is published with the scenario it is of.
Evaluate(pairs, system) ==
    LET published == ScoreManifests(pairs, system)
        falseOf(s, k) == Cardinality(published[k][s].false_positives)
        dropped == UNION {{<<k, g>> : g \in published[k].dropped} : k \in DOMAIN published}
        reference == SumOver(published, LAMBDA e : e.rules.totals.true_positives)
        rules == MergeByRule([k \in DOMAIN published |-> published[k].rules_by_rule])
        learned == MergeByRule([k \in DOMAIN published |-> published[k].by_rule])
    IN  [scenarios |-> published,
         finding_level_recall |->
            FindingRecall(SumOver(published, LAMBDA e : e.learned.totals.true_positives), reference),
         dropped |-> dropped,
         by_rule |-> [t \in DOMAIN rules |->
            [total |-> rules[t].total, learned |-> learned[t],
             dropped |-> Cardinality({d \in dropped : d[2].type = t})]],
         false_positives |-> [s \in {"rules", "learned"} |->
            [total |-> SumFunction([k \in DOMAIN published |-> falseOf(s, k)]),
             by_format |-> [f \in {published[k].manifest.format : k \in DOMAIN published} |->
                LET of == {k \in DOMAIN published : published[k].manifest.format = f}
                IN  SumFunction([k \in of |-> falseOf(s, k)])]]],
         misses |-> [s \in {"rules", "learned"} |->
            SumOver(published, LAMBDA e : Cardinality(e[s].misses))],
         sensitivity |-> CriticalitySensitivity(system, published)]

-----------------------------------------------------------------------------
Manifest(malicious, band, format) == [malicious |-> malicious, band |-> band, format |-> format]

(* One log under two manifests, on hosts of two bands.                      *)
PairsOf(l, report) ==
    {<<[manifest |-> Manifest(m, "standard", "canonical"), report |-> report],
       [manifest |-> Manifest(DOMAIN l \ m, "crown-jewel", "rfc3164"), report |-> report]>> :
        m \in SUBSET DOMAIN l}

BenchmarksOf(l) == PairsOf(l, ReportFor(l))

ScenarioIsWhole(e) ==
    /\ e.finding_recall.kept + Cardinality(e.dropped) = e.finding_recall.total
    /\ e.rules.misses \subseteq e.learned.misses
    /\ e.learned.false_positives \subseteq e.rules.false_positives
    /\ e.learned.totals.recall_defined = e.rules.totals.recall_defined
    /\ e.learned.findings = 0 <=> ~e.learned.totals.precision_defined

SensitivityIsOfThisRun(run) ==
    LET kept == run.sensitivity.true_detections
        quiet == run.sensitivity.suppressions
        false == run.false_positives
        sound(e) == e.report \ (e.dropped \cup e.rules.false_positives)
    IN  /\ kept.total = run.finding_level_recall.kept
        /\ quiet.total = false["rules"].total - false["learned"].total
        /\ \A p \in {kept, quiet} : p.robust + p.flipping = p.total
        /\ \A b \in Bands :
             /\ kept.kept_at[b] \in kept.robust..kept.total
             /\ quiet.kept_at[b] \in 0..quiet.flipping
             /\ kept.kept_at[b] >= SumOver(run.scenarios, LAMBDA e :
                    IF e.manifest.band = b THEN Cardinality(sound(e)) ELSE 0)

RunIsWhole(run) ==
    /\ \A k \in DOMAIN run.scenarios : ScenarioIsWhole(run.scenarios[k])
    /\ run.finding_level_recall.kept + Cardinality(run.dropped) = run.finding_level_recall.total
    /\ \A t \in DOMAIN run.by_rule :
         run.by_rule[t].learned.kept + run.by_rule[t].dropped = run.by_rule[t].total
    /\ \A s \in {"rules", "learned"} :
         LET f == run.false_positives[s]
         IN  SumFunction(f.by_format) = f.total
    /\ run.misses["rules"] <= run.misses["learned"]
    /\ SensitivityIsOfThisRun(run)

\* "drop a finding whose cited malicious lines another kept finding also
\* covers, and the line is still detected while the finding is gone ... it can
\* never again be invisible": whatever the model keeps and whichever lines
\* are malicious, the true findings kept and the dropped ones that are listed
\* make up the reference, in every scenario, in all and for every rule class;
\* the learned system covers no line and raises no alarm the rules do not;
\* the totals are those of the formats; and the counterfactual is of the
\* findings of this run, none of whose decisions it turns at their own band.
LossIsPublished ==
    Len(log) <= MaxScored => \A system \in Systems, pairs \in BenchmarksOf(log) :
        RunIsWhole(Evaluate(pairs, system))
=============================================================================
