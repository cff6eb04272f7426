---------------------------- MODULE MCDetection ----------------------------
(* Detection over logs of up to four lines of the kinds below, and the      *)
(* incidents and responses of logs of up to three, with the                 *)
(* thresholds of the rules scaled down to two lines and a window of one.    *)
EXTENDS Views, Benchmark

CONSTANTS a, b, h

Line(text, ip, pid, at, level) ==
    [text |-> text, ip |-> ip, pid |-> pid, at |-> at, level |-> level,
     eid |-> "none", channel |-> "none", format |-> "syslog"]

Password == {"failed_password", "auth_failure_text"}

SomeLines ==
    {Line(Password, a, 1, t, "WARN") : t \in {0, 1, 3}}
    \cup {Line(Password, a, 2, NoTime, "WARN"),
          Line({"invalid_user", "auth_failure_text", "threat_high"}, a, 1, 0, "INFO"),
          Line({"auth_failure_text", "infra_medium"}, Unknown, 1, 0, "NONE"),
          Line({"csv_fail", "infra_high"}, b, 0, 2, "ERROR"),
          Line({"accepted_password"}, a, 2, 3, "INFO"),
          Line({"infra_high"}, Unknown, 0, 0, "ERROR"),
          Line({"exhausted", "generic_fatal_error"}, Unknown, 0, 2, "CRIT"),
          Line({"zk_broken"}, Unknown, 0, NoTime, "WARN"),
          Line({"zk_exit", "threat_medium"}, Unknown, 0, NoTime, "WARN"),
          [Line({"failed", "infra_medium"}, a, 0, 1, "NONE") EXCEPT !.eid = "logon_failed"],
          [Line({"infra_high"}, Unknown, 0, 1, "ERROR") EXCEPT !.eid = "service_installed"],
          Line({"break_in"}, b, 0, 3, "WARN"),
          Line({"bad_port"}, b, 0, 0, "INFO"),
          [Line({"hresult", "store_hresult", "generic_fatal_error"}, Unknown, 0, 1, "INFO")
              EXCEPT !.channel = "CBS"]}

OneRule == [generic_auth_failure |-> "medium", generic_fatal_error |-> "critical"]
ZkRules == [zk_broken |-> <<<<2, "high">>, <<1, "medium">>>>, zk_exit |-> <<<<2, "medium">>, <<1, "low">>>>]
Both == {a, b}

(* Two runbooks as shipped: a block of an address and a draft notification. *)
Books ==
    {[rules |-> {"auth_bruteforce", "auth_bruteforce_success", "possible_break_in"},
      kinds |-> {"ip"}, evidence |-> {"entity_kind:ip", "record_refs", "timestamps", "occurrences"},
      floor |-> "high"],
     [rules |-> {"auth_bruteforce", "auth_bruteforce_success", "possible_break_in",
                 "generic_auth_failure", "critical_service_event", "error_rate_spike"},
      kinds |-> {"ip", "user", "host"}, evidence |-> {"record_refs"}, floor |-> "low"]}

Told(form, ranking, justified) == [form |-> form, ranking |-> ranking, justified |-> justified]

SomeReplies ==
    {Told(form, <<>>, {}) : form \in Forms}
    \cup {Told("object", r, {NotShipped}) : r \in SeqOf(Books \cup {NotShipped}, 2)}

Hosts == [r \in SomeLines |-> IF r.pid # 0 \/ r.level \in {"ERROR", "CRIT"} THEN h ELSE NoHost]

Nowhere == [words |-> "none", first |-> 0, last |-> 0]

Brute == [type |-> "auth_bruteforce", severity |-> "high", about |-> a, named |-> Unknown,
          evidence |-> Nowhere]
Intruder == [type |-> "security", severity |-> "critical", about |-> b, named |-> b,
             evidence |-> [words |-> "lines", first |-> 1, last |-> 2]]

Said == {Brute, Intruder}

(* No file, or one with a level that is none and one that is low. *)
SeedAssets == h :> "crown-jewel"
NoOrg == [whole |-> FALSE, assets |-> <<>>]
SomeOrg == [whole |-> TRUE, assets |-> h :> "low" @@ a :> "precious"]

Case(said, readable, org) == [said |-> said, readable |-> readable, org |-> org]
Cases ==
    {Case({}, TRUE, SomeOrg), Case({Intruder}, TRUE, SomeOrg),
     Case(Said, TRUE, NoOrg), Case({Brute}, FALSE, SomeOrg)}

Models ==
    {{}, {<<"generic_auth_failure", 2, "standard">>, <<"infra", 1, "low">>,
          <<"infra", 1, "crown-jewel">>},
     {<<"auth_bruteforce", 1, "standard">>, <<"auth_bruteforce", 1, "low">>,
      <<"windows_event", 1, "crown-jewel">>, <<"auth_bruteforce_success", 1, "standard">>,
      <<"auth_bruteforce_success", 1, "crown-jewel">>}}

FirstRuns ==
    {<<Line({"bad_port"}, b, 0, 0, "INFO")>>,
     <<Line({"break_in"}, b, 0, 3, "WARN"), Line({"bad_port"}, b, 0, 0, "INFO")>>,
     <<Line(Password, a, 1, 0, "WARN"), Line(Password, a, 1, 1, "WARN")>>}
=============================================================================
