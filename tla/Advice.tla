------------------------------- MODULE Advice -------------------------------
(***************************************************************************)
(* What the console offers of the runbooks, in three places that must not  *)
(* contradict each other: the Runbook tab scans the incidents derived from *)
(* the loaded run, the Response panel recommends for one incident of the   *)
(* store, with a ranking by the model, and a case file requests an approval*)
(* for what the tab showed. An earlier run may be reopened without a sync. *)
(***************************************************************************)
EXTENDS Eligibility

CONSTANTS Replies,     \* what the model may answer: [form, ranking, justified]
          NotShipped   \* a runbook id that is none

Forms == {"late", "raises", "garbled", "array", "number", "object"}

ASSUME AdviceAssumption ==
    /\ \A p \in Replies : p.form \in Forms /\ p.ranking \in Seq(Runbooks \cup {NotShipped})
    /\ NotShipped \notin Runbooks

VARIABLE before        \* a run that is in the history and can be opened

adviceVars == <<analysisVars, before>>

-----------------------------------------------------------------------------
(* copilot_runbook_scan: a row names the first incident that is eligible, or*)
(* the first that misses least; any of those, as they are not ordered here. *)
Fewest(book, incidents) ==
    {i \in incidents : \A j \in incidents :
        Cardinality(Missing(book, i)) <= Cardinality(Missing(book, j))}

Row(eligible, missing, incidents) ==
    [eligible |-> eligible, missing |-> missing, incidents |-> incidents]

\* Each row is eligible, what it misses, and the incidents it may name.
Scan(book) ==
    LET derived == run.incidents
        fit == {i \in derived : Eligible(book, i)}
    IN  CASE derived = {} -> {Row(FALSE, {"no derived incident on this run"}, {})}
          [] fit # {} -> {Row(TRUE, {}, {i}) : i \in fit}
          [] OTHER -> {Row(FALSE, Missing(book, i), {i}) : i \in Fewest(book, derived)}

-----------------------------------------------------------------------------
(* recommend_runbooks                                                       *)
EligibleRunbooks(i) == {book \in Runbooks : Eligible(book, i)}

Advisory(status, ranking, justified) ==
    [status |-> status, ranking |-> ranking, justified |-> justified]

\* "FILTER to the eligible set", the first of each.
Filtered(eligible, ranking) ==
    LET firsts == {k \in DOMAIN ranking :
                     ranking[k] \in eligible /\ \A j \in 1..k - 1 : ranking[j] # ranking[k]}
    IN  [k \in DOMAIN InFile(firsts) |-> ranking[InFile(firsts)[k]]]

\* A ranking that is a number cannot be looped over, which nobody catches.
Advised(eligible, reply) ==
    LET ranking == Filtered(eligible, reply.ranking)
        justified == reply.justified \cap eligible
    IN  IF eligible = {} THEN Advisory("absent", <<>>, {})
        ELSE IF reply.form \in {"late", "raises"} THEN Advisory("timed_out", <<>>, {})
        ELSE IF reply.form = "number" THEN Advisory("raised", <<>>, {})
        ELSE IF reply.form \in {"garbled", "array"} \/ (ranking = <<>> /\ justified = {})
        THEN Advisory("absent", <<>>, {})
        ELSE Advisory("complete", ranking, justified)

\* recommend_for_incident; get_incident reads the store.
Known(i) == {s \in store : SameId(s, i)}

-----------------------------------------------------------------------------
(* create_approval, and request_case_approval before it.  links: the first  *)
(* incident the case links, or none.                                        *)
CreateApproval(i, book) ==
    IF Known(i) = {} THEN [status |-> 404, refs |-> {}]
    ELSE LET s == CHOOSE k \in Known(i) : TRUE
         IN  IF ~Eligible(book, s) THEN [status |-> 409, refs |-> {}]
             ELSE IF ~Creates(s) THEN [status |-> 500, refs |-> {}]
             ELSE [status |-> 201, refs |-> Refs(s)]

\* The row always names an incident when it is eligible: the case's own links
\* are asked for only when it does not.
RequestCaseApproval(book, row) ==
    IF ~row.eligible THEN [status |-> 409, refs |-> {}]
    ELSE CreateApproval(CHOOSE i \in row.incidents : TRUE, book)

-----------------------------------------------------------------------------
AdviceInit == AnalysisInit /\ before = NoRun

\* A saved run is opened: it is shown again, and the store is left as it is.
Reopen ==
    /\ before # NoRun /\ run # before
    /\ run' = before
    /\ UNCHANGED <<log, store, before>>

AdviceNext ==
    \/ ReadLine /\ UNCHANGED before
    \/ (\E c \in Circumstances : Publish(c)) /\ before' = run
    \/ Reopen

AdviceSpec == AdviceInit /\ [][AdviceNext]_adviceVars

-----------------------------------------------------------------------------
\* No finding of the incident lost all its lines as companions of another's.
OnKeptLines(i) == \A f \in Members(i) : f.on \cap Kept(run.log) # {}

\* What the tab shows eligible can be requested, for the incident it names,
\* whose recommendation lists it too; "record_refs means exactly at least one
\* member finding carries a real record ref, never a reconstruction": the
\* approval's evidence is then lines of the log, each about the address the
\* response is about. What the tab shows as missing is missing of every
\* incident, and no reply of the model adds a runbook to the eligible ones or
\* ranks one twice. Not so of a log that cannot be read any more, nor of a
\* finding of the model that cites no line, nor of a rule's own whose lines
\* were all dropped as companions: there the excerpt passes for a record and
\* create_approval raises. Nor of a run that was reopened after
\* another analysis of its file that day, which left an incident of its own
\* under the id in the store: create_approval asks about that one.
OfferIsGood(book, row) ==
    \A i \in row.incidents \cap store : ByRulesAlone(i) /\ OnKeptLines(i) /\ run.readable =>
        LET asked == RequestCaseApproval(book, row)
        IN  /\ asked.status = 201 /\ asked.refs # {}
            /\ \A n \in asked.refs : i.kind = "ip" => run.log[n].ip = i.entity
            /\ \A s \in Known(i) : book \in EligibleRunbooks(s)

RefusalIsGood(book, row) ==
    /\ row.missing # {}
    /\ \A i \in run.incidents : book \notin EligibleRunbooks(i)

RankingIsBounded(eligible) ==
    \A reply \in Replies :
        LET advised == Advised(eligible, reply)
        IN  /\ ToSet(advised.ranking) \cup advised.justified \subseteq eligible
            /\ Len(advised.ranking) = Cardinality(ToSet(advised.ranking))

OffersAgree ==
    /\ \A book \in Runbooks : \A row \in Scan(book) :
         IF row.eligible THEN OfferIsGood(book, row) ELSE RefusalIsGood(book, row)
    /\ \A eligible \in {EligibleRunbooks(i) : i \in store} : RankingIsBounded(eligible)
=============================================================================
