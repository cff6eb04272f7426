------------------------------- MODULE Report -------------------------------
(***************************************************************************)
(* The report log_analyzer.run writes of a log: its findings, each with    *)
(* the lines it cites.  rule_context.enrich rebuilds the timeline of every *)
(* finding from the records that were left after deduplication; a range of *)
(* lines stands in the evidence of some.  The console and the benchmark    *)
(* read the citations by rules of their own.                               *)
(***************************************************************************)
EXTENDS Detection

CONSTANTS HostOf,        \* by line: the host it names, or NoHost
          NoHost,
          UnknownHost,   \* the word "unknown" a rule writes for no host
          ModelFindings  \* what the model may report, as findings

\* A finding of the model cites at most a range of lines in its prose.
ASSUME ReportAssumption ==
    /\ Lines \subseteq DOMAIN HostOf
    /\ \A f \in ModelFindings : f.severity \in Severities

-----------------------------------------------------------------------------
(* timeline_for.  A line with the same raw text is found at its first       *)
(* record; lines the rules cannot tell apart have the same text.            *)
RecordOf(l, r) ==
    LET same == {i \in Kept(l) : l[i] = r} IN IF same = {} THEN <<>> ELSE <<SetMin(same)>>

(* _auth_events: the first failure, the one that crosses the threshold, the *)
(* last, and the success; failures without a time are not there.            *)
Milestones(fails, success) ==
    CASE fails = <<>> -> <<>>
      [] Len(fails) \in 1..MinFailures - 1 -> <<Head(fails)>> \o success
      [] Len(fails) = MinFailures -> <<Head(fails), fails[MinFailures]>> \o success
      [] OTHER -> <<Head(fails), fails[MinFailures], fails[Len(fails)]>> \o success

Earliest(s) == IF s = <<>> THEN <<>> ELSE <<Head(s)>>

AuthEvents(l, f) ==
    Milestones(Sorted(l, Fails(l, f.about)),
               IF f.type = "auth_bruteforce_success" THEN Earliest(Sorted(l, Compromises(l, f.about)))
               ELSE <<>>)

FirstAndLast(s) == IF Len(s) > 1 THEN <<Head(s), s[Len(s)]>> ELSE s

InFile(lns) ==
    [k \in 1..Cardinality(lns) |-> CHOOSE j \in lns : Cardinality({i \in lns : i < j}) = k - 1]

\* Lines without a time come after the others.
ByTime(l, lns) == Sorted(l, lns) \o InFile({i \in lns : l[i].at = NoTime})

Counted == DOMAIN GenericBase \cup DOMAIN ZkThresholds \cup {"zk_instability"}

Timeline(l, f) ==
    CASE f.type \in {"auth_bruteforce", "auth_bruteforce_success"} -> AuthEvents(l, f)
      [] f.type = "error_rate_spike" -> FirstAndLast(Sorted(l, f.on))
      [] f.type = "possible_break_in" -> FirstAndLast(ByTime(l, f.on \cap Kept(l)))
      [] f.type \in Counted -> <<>>
      [] OTHER -> RecordOf(l, l[SetMin(f.on)])

\* The range of lines in the evidence, as "lines 2-7" or as "source lines: 2-7".
Evidence(l, f) ==
    CASE f.type \in {"auth_bruteforce", "auth_bruteforce_success"} ->
            [words |-> "lines", first |-> SetMin(f.on), last |-> SetMax(f.on)]
      [] f.type = "error_rate_spike" ->
            LET window == Sorted(l, f.on)
            IN  [words |-> "lines", first |-> Head(window), last |-> window[Len(window)]]
      [] f.type \in Counted \ {"zk_instability"} ->
            [words |-> "source lines", first |-> SetMin(f.on), last |-> SetMax(f.on)]
      [] OTHER -> [words |-> "none", first |-> 0, last |-> 0]

\* The address of an outbound connection is the one it goes to; the others'
\* is the source the rule counts by.
AddressIn(l, f) ==
    IF f.type = "suspicious_outbound" THEN l[SetMin(f.on)].ip ELSE f.about

SingleRecord == {"critical_service_event", "disk_pressure", "suspicious_outbound",
                 "windows_event", "infra", "threat", "ioc_observed"}

\* entities["host"]: single records name theirs, or say that it is unknown.
HostIn(l, f) ==
    IF f.type \in SingleRecord
    THEN LET named == HostOf[l[SetMin(f.on)]] IN IF named = NoHost THEN UnknownHost ELSE named
    ELSE NoHost

(* dedupe_anomalies: of findings of one type whose summaries read the same,  *)
(* the first stays, with the number of them.  A spike's summary has the     *)
(* number of its errors; a single record's what its rule writes of it.      *)
Summary(l, f) ==
    LET r == l[SetMin(f.on)]
    IN  CASE f.type = "error_rate_spike" -> <<Cardinality(f.on)>>
          [] f.type = "suspicious_outbound" -> <<r.ip>>
          [] f.type = "critical_service_event" -> <<HostIn(l, f), Message[r]>>
          [] f.type = "windows_event" -> <<HostIn(l, f), r.eid, r.text>>
          [] f.type = "infra" -> <<HostIn(l, f), r.eid, f.severity>>
          [] OTHER -> <<HostIn(l, f), f.severity>>

Alike(l, f) ==
    IF f.type \in SingleRecord \cup {"error_rate_spike"}
    THEN {g \in Findings(l) : g.type = f.type /\ Summary(l, g) = Summary(l, f)}
    ELSE {f}

Sooner(l, g, f) ==
    IF f.type = "error_rate_spike" THEN Before(l, Head(Sorted(l, g.on)), Head(Sorted(l, f.on)))
    ELSE SetMin(g.on) < SetMin(f.on)

Deduped(l) == {f \in Findings(l) : \A g \in Alike(l, f) : ~Sooner(l, g, f)}

\* Rules that group lines say how many; any other finding is one, or as many
\* as were alike.
Occurring(l, f) ==
    IF f.type \in Counted \cup {"windows_cbs"} THEN Cardinality(f.on) ELSE Cardinality(Alike(l, f))

Reported(l, f) ==
    [source |-> "detector", type |-> f.type, severity |-> f.severity,
     ip |-> AddressIn(l, f), host |-> HostIn(l, f),
     timeline |-> Timeline(l, f), evidence |-> Evidence(l, f), on |-> f.on,
     occurrences |-> Occurring(l, f)]

\* restates_detector: the model's finding names an address a rule reported.
Restates(l, f) == f.named # Unknown /\ f.named \in {AddressIn(l, g) : g \in Findings(l)}

ByModel(f) ==
    [source |-> "llm", type |-> f.type, severity |-> f.severity,
     ip |-> f.about, host |-> NoHost,
     timeline |-> <<>>, evidence |-> f.evidence, on |-> {}, occurrences |-> 1]

(* The rules' findings by severity, then the model's.                       *)
InOrder(F) ==
    LET Of(s) == SetToSeq({f \in F : f.severity = s})
    IN  Of("critical") \o Of("high") \o Of("medium") \o Of("low") \o Of("info")

ReportOf(l, said) ==
    InOrder({Reported(l, f) : f \in Deduped(l)})
    \o InOrder({ByModel(f) : f \in {g \in said : ~Restates(l, g)}})

=============================================================================
