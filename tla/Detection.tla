----------------------------- MODULE Detection -----------------------------
(***************************************************************************)
(* The deterministic rules: what log_analyzer.run hands its parsed records *)
(* to before any model is asked.  rules_syslog.canonicalize translates     *)
(* login messages, rules_syslog.detect_extra and the generic and ZooKeeper *)
(* rules of log_analyzer read the result, dedupe_auth_attempts drops       *)
(* companion lines, and anomaly_detector.detect reads what is left.        *)
(*                                                                         *)
(* The log grows by a line at a time, so that what is found of a log can   *)
(* be compared with what is found of a longer one.  A line is what the     *)
(* rules tell apart of it: its text is the set of the rules' patterns that *)
(* match it.  A finding has a type, a severity, the address it is about    *)
(* and the lines it rests on.                                              *)
(***************************************************************************)
EXTENDS Integers, Sequences, FiniteSets, SequencesExt

CONSTANTS
    Lines,           \* the lines a log may have
    IPv4,            \* the addresses the rules' patterns read
    Unknown,         \* no address, "-" or a loopback address
    NoTime,          \* of a line whose timestamp was not parsed
    MaxLines,        \* bound on the length of a log
    MinFailures, FailureWindow, SuccessWindow,   \* brute force
    MinErrors, ErrorWindow,                      \* error bursts
    CbsVolume,       \* CBS_VOLUME_HIGH
    Often,           \* how many lines promote a generic finding
    GenericBase,     \* by generic rule: its severity
    ZkThresholds,    \* by ZooKeeper rule: <<count, severity>> pairs, the highest first
    ZkMany, ZkSome   \* the counts of the ZooKeeper correlation

ASSUME DetectionAssumption ==
    /\ {MaxLines, MinFailures, MinErrors, Often, CbsVolume, ZkMany, ZkSome} \subseteq Nat \ {0}
    /\ {FailureWindow, SuccessWindow, ErrorWindow} \subseteq Nat
    /\ NoTime \notin Nat /\ Unknown \notin IPv4
    /\ ZkSome <= ZkMany
    /\ \A r \in Lines : r.at \in Nat \cup {NoTime}
    /\ IsFiniteSet(DOMAIN GenericBase) /\ IsFiniteSet(DOMAIN ZkThresholds)
    /\ (DOMAIN GenericBase \cup DOMAIN ZkThresholds)
         \cap {"auth_bruteforce", "auth_bruteforce_success", "possible_break_in",
               "error_rate_spike", "critical_service_event", "disk_pressure", "suspicious_outbound",
               "windows_event", "infra", "threat", "ioc_observed"} = {}

VARIABLE log

Severities == {"critical", "high", "medium", "low", "info"}
Rank == [critical |-> 0, high |-> 1, medium |-> 2, low |-> 3, info |-> 4]

SetMin(S) == CHOOSE x \in S : \A y \in S : x <= y
SetMax(S) == CHOOSE x \in S : \A y \in S : y <= x

Worst(sevs) == CHOOSE s \in sevs : \A t \in sevs : Rank[s] <= Rank[t]

Finding(type, severity, about, on) ==
    [type |-> type, severity |-> severity, about |-> about, on |-> on]

Lns(l, Test(_)) == {i \in DOMAIN l : Test(l[i])}

-----------------------------------------------------------------------------
(* canonical_form: the vocabularies in the order they are tried.            *)
Vocabularies == <<"failed_password", "invalid_user", "pam_failure", "accepted_password",
                  "windows_4625", "windows_4624", "csv_fail", "csv_ok">>

Speaks(r, v) ==
    CASE v = "windows_4625" -> r.eid = "logon_failed" /\ r.ip # Unknown
      [] v = "windows_4624" -> r.eid = "logon" /\ r.ip # Unknown
      [] v \in {"csv_fail", "csv_ok"} -> v \in r.text /\ r.ip \in IPv4
      [] OTHER -> v \in r.text

AuthSource ==
    [r \in Lines |-> LET spoken == {k \in DOMAIN Vocabularies : Speaks(r, Vocabularies[k])}
                    IN  IF spoken = {} THEN "none" ELSE Vocabularies[SetMin(spoken)]]

Failures == {"failed_password", "invalid_user", "pam_failure", "windows_4625", "csv_fail"}
Successes == {"accepted_password", "windows_4624", "csv_ok"}

(* canonicalize: a translated message reads "auth failed for user ..." or   *)
(* "auth success for user ..."; raw stays.                                  *)
Message ==
    [r \in Lines |-> CASE AuthSource[r] \in Failures -> {"auth_failed", "generic_auth_failure"}
                      [] AuthSource[r] \in Successes -> {"auth_success"}
                      [] OTHER -> r.text]

(* dedupe_auth_attempts: the lines that stay.                               *)
Companions == {"invalid_user", "pam_failure"}

Anchored(l) ==
    {<<l[i].ip, l[i].pid>> : i \in Lns(l, LAMBDA r : AuthSource[r] = "failed_password")}

(* Mutant: a failed password is dropped with its companions. *)
KeptNoAnchor(l) ==
    Lns(l, LAMBDA r : ~(AuthSource[r] \in Failures /\ <<r.ip, r.pid>> \in Anchored(l)))

Kept(l) ==
    Lns(l, LAMBDA r : ~(AuthSource[r] \in Companions /\ <<r.ip, r.pid>> \in Anchored(l)))

-----------------------------------------------------------------------------
(* anomaly_detector.  The stamps of some lines in order of time: a line     *)
(* stands behind as many as come before it.                                 *)
Before(l, i, j) == l[i].at < l[j].at \/ (l[i].at = l[j].at /\ i < j)

Sorted(l, lns) ==
    LET stamped == {i \in lns : l[i].at # NoTime}
    IN  [k \in 1..Cardinality(stamped) |->
            CHOOSE j \in stamped : Cardinality({i \in stamped : Before(l, i, j)}) = k - 1]

Stamps(l, lns) == LET s == Sorted(l, lns) IN [k \in DOMAIN s |-> l[s[k]].at]

(* The two pointers of detect_auth_bruteforce: the last of the window moves *)
(* by one, the first as far as it must.                                     *)
Peak(times) ==
    LET Slide[j \in 0..Len(times)] ==
            IF j = 0 THEN [first |-> 1, peak |-> 0]
            ELSE LET was == Slide[j - 1]
                     first == CHOOSE i \in was.first..j :
                                /\ times[j] - times[i] <= FailureWindow
                                /\ \A k \in was.first..(i - 1) : times[j] - times[k] > FailureWindow
                     size == j - first + 1
                 IN  [first |-> first, peak |-> IF size > was.peak THEN size ELSE was.peak]
    IN  Slide[Len(times)].peak

Fails(l, ip) == {i \in Kept(l) : "auth_failed" \in Message[l[i]] /\ l[i].ip = ip}

(* A success that follows the last of the failures closely.                 *)
Compromises(l, ip) ==
    LET times == Stamps(l, Fails(l, ip))
    IN  {i \in Kept(l) :
            /\ "auth_success" \in Message[l[i]] /\ l[i].ip = ip /\ l[i].at # NoTime
            /\ times # <<>> /\ l[i].at - times[Len(times)] \in 0..SuccessWindow}

BruteForce(l) ==
    {LET times == Stamps(l, Fails(l, ip))
         quick == times = <<>> \/ Peak(times) >= MinFailures
     IN  IF Compromises(l, ip) # {}
         THEN Finding("auth_bruteforce_success", "critical", ip, Fails(l, ip))
         ELSE Finding("auth_bruteforce", IF quick THEN "high" ELSE "medium", ip, Fails(l, ip)) :
     ip \in {x \in IPv4 : Cardinality(Fails(l, x)) >= MinFailures}}

(* detect_critical_and_resource and detect_suspicious_ports.                *)
Resources(l) ==
    {Finding("critical_service_event", IF "exhausted" \in Message[l[i]] THEN "critical" ELSE "high",
             Unknown, {i}) : i \in {j \in Kept(l) : l[j].level = "CRIT"}}
    \cup {Finding("disk_pressure", IF "disk_90" \in Message[l[i]] THEN "high" ELSE "medium",
                  Unknown, {i}) : i \in {j \in Kept(l) : Message[l[j]] \cap {"disk_80", "disk_90"} # {}}}
    \cup {Finding("suspicious_outbound", "high", Unknown, {i}) :
            i \in {j \in Kept(l) : "bad_port" \in Message[l[j]]}}

(* detect_error_bursts: a window is opened at every error in order of time; *)
(* one that starts no later in the file than the last spike ended is passed *)
(* over.                                                                    *)
ErrorsFrom(l, errs, k) ==
    {m \in k..Len(errs) : l[errs[m]].at - l[errs[k]].at <= ErrorWindow}

Spike(l, errs, k) ==
    Finding("error_rate_spike", "medium", Unknown, {errs[m] : m \in ErrorsFrom(l, errs, k)})

SpikesAmong(l, errs) ==
    LET Sweep[k \in 0..Len(errs)] ==
            IF k = 0 THEN [upto |-> 0, spikes |-> {}]
            ELSE IF \/ Cardinality(ErrorsFrom(l, errs, k)) < MinErrors
                    \/ errs[k] <= Sweep[k - 1].upto
            THEN Sweep[k - 1]
            ELSE [upto |-> errs[SetMax(ErrorsFrom(l, errs, k))],
                  spikes |-> Sweep[k - 1].spikes \cup {Spike(l, errs, k)}]
    IN  Sweep[Len(errs)].spikes

Errors(l) == {i \in Kept(l) : l[i].level \in {"ERROR", "CRIT"}}

(* Mutant: the errors are read in the order of the file. *)
SpikesUnsorted(l) ==
    SpikesAmong(l, SelectSeq([i \in DOMAIN l |-> i],
                             LAMBDA i : i \in Errors(l) /\ l[i].at # NoTime))

Spikes(l) == SpikesAmong(l, Sorted(l, Errors(l)))

Detect(l) == BruteForce(l) \cup Resources(l) \cup Spikes(l)

-----------------------------------------------------------------------------
(* rules_syslog.detect_extra, over the lines before companions are dropped. *)
BreakIns(l) ==
    {Finding("possible_break_in", "medium", ip, {i \in DOMAIN l : "break_in" \in l[i].text /\ l[i].ip = ip}) :
        ip \in {l[i].ip : i \in Lns(l, LAMBDA r : "break_in" \in r.text)} \ {Unknown}}

WindowsRules ==
    [audit_cleared |-> "critical", service_installed |-> "high", user_created |-> "high",
     user_deleted |-> "medium", group_add |-> "high", lockout |-> "medium", process_create |-> "medium"]

Windows(l) ==
    {Finding("windows_event", WindowsRules[l[i].eid], Unknown, {i}) :
        i \in Lns(l, LAMBDA r : /\ r.eid \in DOMAIN WindowsRules
                                /\ r.eid = "process_create" => "lolbin" \in r.text)}

(* detect_windows_cbs: one finding per kind, channel and signature; lines   *)
(* with the same text have the same signature.                              *)
CbsKind(r) ==
    IF "hresult" \in r.text THEN "hresult"
    ELSE IF "cbs_fail" \in r.text THEN "failure"
    ELSE IF "cbs_warning" \in r.text \/ r.level = "WARN" THEN "warning"
    ELSE IF r.level \in {"ERROR", "CRIT"} THEN "failure" ELSE "none"

CbsSeverity(l, group, kind) ==
    LET levels == {l[i].level : i \in group}
    IN  IF "CRIT" \in levels THEN "critical"
        ELSE IF "ERROR" \in levels THEN "high"
        ELSE IF kind = "hresult"
        THEN IF Cardinality(group) >= CbsVolume /\ \A i \in group : "store_hresult" \in l[i].text
             THEN "high" ELSE "medium"
        ELSE IF kind = "warning" /\ "WARN" \notin levels THEN "low" ELSE "medium"

OfCbs(r) == r.channel = "CBS"

Cbs(l) ==
    LET shown == Lns(l, LAMBDA r : OfCbs(r) /\ CbsKind(r) # "none")
        Group(i) == {j \in shown : CbsKind(l[j]) = CbsKind(l[i]) /\ l[j].text = l[i].text}
    IN  {Finding("windows_cbs", CbsSeverity(l, Group(i), CbsKind(l[i])), Unknown, Group(i)) : i \in shown}

(* detect_infrastructure_alerts: a structured severity, else the text's,    *)
(* for a line that no dedicated rule owns.                                  *)
StructuredSeverity ==
    [CRIT |-> "critical", ERROR |-> "high", WARN |-> "medium", INFO |-> "low", NONE |-> "info"]

InfraSeverity(r) ==
    LET said == {s \in Severities : ("infra_" \o s) \in r.text}
    IN  IF r.level # "NONE" THEN StructuredSeverity[r.level]
        ELSE IF said # {} THEN Worst(said) ELSE "info"

(* _is_dedicated_auth_input.                                                *)
LoginLine(r) ==
    \/ AuthSource[r] # "none"
    \/ r.text \cap {"auth_failed", "auth_success", "break_in", "auth_failure_text"} # {}

InfraAlert(i, r) ==
    Finding("infra", InfraSeverity(r), Unknown, {i})

Infra(l) ==
    {InfraAlert(i, l[i]) : i \in Lns(l, LAMBDA r :
        /\ ~OfCbs(r) /\ r.format # "bgl" /\ r.text # {}
        /\ InfraSeverity(r) # "info"
        /\ r.eid \notin DOMAIN WindowsRules
        /\ ~LoginLine(r)
        /\ InfraSeverity(r) = "low" => "watchword" \in r.text)}

(* detect_threats takes the first pattern in its table that matches, and    *)
(* the table has the severe ones first; detect_iocs wants an indicator and  *)
(* a context.                                                               *)
Threats(l) ==
    LET said(r) == {s \in Severities : ("threat_" \o s) \in r.text}
    IN  {Finding("threat", Worst(said(l[i])), Unknown, {i}) : i \in Lns(l, LAMBDA r : said(r) # {})}

Iocs(l) ==
    {Finding("ioc_observed", "medium", Unknown, {i}) :
        i \in Lns(l, LAMBDA r : {"ioc_context", "indicator"} \subseteq r.text)}

DetectExtra(l) == BreakIns(l) \cup Windows(l) \cup Cbs(l) \cup Infra(l) \cup Threats(l) \cup Iocs(l)

-----------------------------------------------------------------------------
(* log_analyzer: the ZooKeeper rules and the generic ones.                  *)
ZkHits(l, rule) == Lns(l, LAMBDA r : rule \in Message[r])

ZkSeverity(count, thresholds) ==
    LET met == SelectSeq(thresholds, LAMBDA t : count >= t[1])
    IN  IF met = <<>> THEN "info" ELSE Head(met)[2]

ZkFindings(l) ==
    {Finding(rule, ZkSeverity(Cardinality(ZkHits(l, rule)), ZkThresholds[rule]), Unknown, ZkHits(l, rule)) :
        rule \in {r \in DOMAIN ZkThresholds : ZkHits(l, r) # {}}}

ZkInstability(l) ==
    LET broken == ZkHits(l, "zk_broken")
        churn == UNION {ZkHits(l, r) : r \in DOMAIN ZkThresholds \cap {"zk_exit", "zk_interrupt", "zk_queue"}}
        Both(n) == Cardinality(broken) >= n /\ Cardinality(churn) >= n
        severity == IF Both(ZkMany) THEN "critical" ELSE IF Both(ZkSome) THEN "high" ELSE "medium"
    IN  IF broken # {} /\ churn # {}
        THEN {Finding("zk_instability", severity, Unknown, broken \cup churn)}
        ELSE {}

Promoted == [info |-> "low", low |-> "medium", medium |-> "high", high |-> "critical", critical |-> "critical"]

GenericHits(l, rule) == Lns(l, LAMBDA r : ~OfCbs(r) /\ rule \in Message[r])

Generic(l) ==
    {Finding(rule,
             IF Cardinality(GenericHits(l, rule)) >= Often THEN Promoted[GenericBase[rule]] ELSE GenericBase[rule],
             Unknown, GenericHits(l, rule)) :
        rule \in {r \in DOMAIN GenericBase : GenericHits(l, r) # {}}}

(* What the deterministic pass of log_analyzer.run reports of a log.        *)
Findings(l) == Detect(l) \cup DetectExtra(l) \cup ZkFindings(l) \cup ZkInstability(l) \cup Generic(l)

-----------------------------------------------------------------------------
LogInit == log = <<>>

Read(r) ==
    /\ Len(log) < MaxLines
    /\ log' = Append(log, r)

LogNext == \E r \in Lines : Read(r)

LogSpec == LogInit /\ [][LogNext]_log

-----------------------------------------------------------------------------
(* Brute force against a definition without canonical text, companions or   *)
(* pointers.  Whoever guesses MinFailures passwords is reported; whoever is  *)
(* reported failed that often; the finding is high when, and only when,     *)
(* that many failures lie in one window, or none has a time.  A guess is a  *)
(* failed password, or any other failure in a line that does not read as a  *)
(* companion of one or as a success as well.                                *)
Failed(r) == r.text \cap {"csv_fail", "auth_failed"} # {} \/ r.eid = "logon_failed"

ReadsOtherwise(r) ==
    r.text \cap (Companions \cup {"accepted_password", "csv_ok"}) # {} \/ r.eid = "logon"

Guesses(ip) ==
    {i \in DOMAIN log : /\ log[i].ip = ip
                        /\ \/ "failed_password" \in log[i].text
                           \/ Failed(log[i]) /\ ~ReadsOtherwise(log[i])}

Tries(ip) ==
    {i \in DOMAIN log : /\ log[i].ip = ip
                        /\ \/ log[i].text \cap (Companions \cup {"failed_password"}) # {}
                           \/ Failed(log[i])}

Dense(lns) ==
    \E t \in {log[i].at : i \in lns} \ {NoTime} :
        Cardinality({i \in lns : log[i].at # NoTime /\ log[i].at - t \in 0..FailureWindow}) >= MinFailures

Untimed(lns) == \A i \in lns : log[i].at = NoTime

Attacks(ip) == {f \in BruteForce(log) : f.about = ip}

AttackersReported ==
    \A ip \in IPv4 :
        /\ Cardinality(Attacks(ip)) <= 1
        /\ Cardinality(Guesses(ip)) >= MinFailures => Attacks(ip) # {}
        /\ Attacks(ip) # {} => Cardinality(Tries(ip)) >= MinFailures
        /\ \A f \in Attacks(ip) :
            /\ Dense(Guesses(ip)) => f.severity \in {"critical", "high"}
            /\ f.severity = "high" => Dense(Tries(ip)) \/ Untimed(Guesses(ip))

(* The errors a window opened at one holds: those that come no sooner, and  *)
(* soon enough.                                                             *)
Burst(i) ==
    {j \in Errors(log) : /\ log[j].at # NoTime /\ ~Before(log, j, i)
                         /\ log[j].at - log[i].at <= ErrorWindow}

Bursts == {i \in Errors(log) : log[i].at # NoTime /\ Cardinality(Burst(i)) >= MinErrors}

(* A spike that begins sooner in time reaches further down the file.        *)
Passed(i) ==
    \E f \in Spikes(log) : \E first, last \in f.on :
        /\ Before(log, first, i)
        /\ \A j \in f.on : ~Before(log, last, j)
        /\ i <= last

InOrderOfTime ==
    \A i, j \in DOMAIN log :
        i < j /\ log[i].at # NoTime /\ log[j].at # NoTime => log[i].at <= log[j].at

(* A spike is a burst, whatever the order of the lines in the file.  A burst *)
(* is a spike, or stands in the file above the end of one that begins       *)
(* before it: detect_error_bursts compares lines where it means times, and  *)
(* a later burst written further up is lost.  In a log in order of time     *)
(* such a burst begins in that spike, and no error is in two spikes.        *)
BurstIsReported ==
    /\ \A f \in Spikes(log) : \E i \in Bursts : f.on = Burst(i)
    /\ \A i \in Bursts : Passed(i) \/ \E f \in Spikes(log) : f.on = Burst(i)
    /\ InOrderOfTime => \A f, g \in Spikes(log) : f = g \/ f.on \cap g.on = {}

=============================================================================
