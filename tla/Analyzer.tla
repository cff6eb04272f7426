------------------------------ MODULE Analyzer ------------------------------
(***************************************************************************)
(* One run of log_analyzer after the rules have spoken (Detection): which  *)
(* chunks of the log the model is shown, the pool that asks it, the second *)
(* pass that asks once more for each finding left without prose, and the   *)
(* unprimed pass of compare.py over the same chunks.  The model answers in *)
(* any order and with anything.                                            *)
(*                                                                         *)
(* A chunk is its index, a finding its position in the list of the rules'  *)
(* findings.  Prose is what attaching it looks at: the rule it is said to  *)
(* be about and the words it is written in, addresses and hosts among      *)
(* them.                                                                   *)
(***************************************************************************)
EXTENDS Integers, Sequences, FiniteSets, FiniteSetsExt

CONSTANTS
    Inputs,       \* [chunks, deep, compare, rules], rules a sequence of
                  \* [type, ident, rank, at]: at is the set of chunks a finding points into
    Cached,       \* what .compare_cache.json may hold of a run's chunks
    Explanations, \* what a reply may explain: sequences of texts [rule, words]
    Inside,       \* the pairs <<x, y>> of words where x is a part of y:
                  \* 10.0.0.1 is inside 10.0.0.12
    NoRule, NoIdent, None,
    GAP_FILL_MAX_CHUNKS, EAGER_EXPLANATIONS, SECOND_PASS_MAX,
    LLM_RETRIES, LLM_WORKERS

ASSUME AnalyzerAssumption ==
    /\ {GAP_FILL_MAX_CHUNKS, EAGER_EXPLANATIONS, SECOND_PASS_MAX, LLM_RETRIES} \subseteq Nat
    /\ LLM_WORKERS \in Nat \ {0}

\* Findings are listed, and point into chunks there are.
ASSUME InputsAssumption ==
    \A log \in Inputs :
        /\ log.chunks \in Nat
        /\ Len(log.rules) \in Nat /\ DOMAIN log.rules = 1..Len(log.rules)
        /\ \A j \in DOMAIN log.rules : log.rules[j].at \subseteq 1..log.chunks

VARIABLES
    input,
    stage,        \* "explain", "reask", "compare", "final", or "raised", "aborted"
    jobs,         \* what the pool was given, in order: [chunk, about, attempt, reply, taken]
    prose,        \* explanations: by finding, its text and where it comes from
    notes,        \* the chunks with an analyzer_error among llm_findings
    alone         \* the unprimed pass: by chunk, a status and the findings it names

driverVars == <<input, stage, jobs, prose, notes, alone>>

Rules == input.rules
Found == DOMAIN Rules
Chunks == 1..input.chunks

-----------------------------------------------------------------------------
(* What the model is shown.                                                 *)
FindingChunks == UNION {Rules[j].at : j \in Found}

GapFill == input.deep \/ input.chunks <= GAP_FILL_MAX_CHUNKS

(* sorted(anomalies, key=severity_rank)[:EAGER_EXPLANATIONS].               *)
Top ==
    {j \in Found :
        Cardinality({k \in Found : \/ Rules[k].rank < Rules[j].rank
                                   \/ Rules[k].rank = Rules[j].rank /\ k < j}) < EAGER_EXPLANATIONS}

Selected ==
    IF GapFill THEN Chunks ELSE {Max(Rules[j].at) : j \in {k \in Top : Rules[k].at # {}}}

Deferred == FindingChunks \ Selected

(* by_chunk: the findings of a chunk, in their order.                       *)
Here(c) == {j \in Found : c \in Rules[j].at}

Siblings(c, j) == {k \in Here(c) : Rules[k].type = Rules[j].type}

(* about is the finding asked for alone, 0 for a chunk.                     *)
Job(c, j) == [chunk |-> c, about |-> j, attempt |-> 1, reply |-> "pending", taken |-> FALSE]

Least(m, n) == IF m < n THEN m ELSE n

(* What is asked, by chunk and then by finding.                             *)
Earlier(a, b) == a[1] < b[1] \/ (a[1] = b[1] /\ a[2] < b[2])

InOrder(asks) ==
    [n \in 1..Cardinality(asks) |->
        CHOOSE a \in asks : Cardinality({b \in asks : Earlier(b, a)}) = n - 1]

ChunkJobs == LET order == InOrder(Selected \X {0}) IN [n \in DOMAIN order |-> Job(order[n][1], 0)]

Silence == [j \in Found |-> None]

DriverInit ==
    /\ input \in Inputs
    /\ stage = "explain"
    /\ jobs = ChunkJobs
    /\ prose = Silence
    /\ notes = {}
    /\ alone = <<>>

-----------------------------------------------------------------------------
(* The pool runs the first LLM_WORKERS of the jobs not yet answered.        *)
Unanswered == {k \in DOMAIN jobs : jobs[k].reply = "pending"}
InFlight == {k \in Unanswered : Cardinality({i \in Unanswered : i < k}) < LLM_WORKERS}

(* analyze_chunk: a useless reply (unparseable, off-schema) is asked for    *)
(* again LLM_RETRIES times, a failed call is not.  validate_response looks  *)
(* at findings only: an "odd" reply passes, though its explanations are not *)
(* a list of objects.  A reply json.loads breaks on otherwise (nested too   *)
(* deeply, a number too long) raises in the worker.                         *)
Failures == {"useless", "error"}

Replied(k, kind) ==
    IF kind = "useless" /\ jobs[k].attempt <= LLM_RETRIES
    THEN [jobs EXCEPT ![k].attempt = @ + 1]
    ELSE [jobs EXCEPT ![k].reply = kind]

Answer(k) ==
    /\ stage \in {"explain", "reask", "raised"}
    /\ k \in InFlight
    /\ \E kind \in Failures \cup {"good", "odd", "raises"} : jobs' = Replied(k, kind)
    /\ UNCHANGED <<input, stage, prose, notes, alone>>

-----------------------------------------------------------------------------
(* The main thread takes the replies as they complete.  An explanation goes *)
(* to the findings of the chunk with its rule, or to the only one there is  *)
(* when it names no rule; to none whose address it does not name; and the   *)
(* first one stays.                                                         *)
Told(c, text, asked) == [text |-> text, chunk |-> c, asked |-> asked]

\* What is written is told from nothing written.
ASSUME ExplanationsAssumption ==
    \A says \in Explanations :
        /\ DOMAIN says \subseteq Nat
        /\ None \notin [text : {says[i] : i \in DOMAIN says}, chunk : Nat, asked : Nat]

Targets(c, text) ==
    LET ruled == {j \in Here(c) : Rules[j].type = text.rule}
    IN  IF ruled # {} THEN ruled
        ELSE IF text.rule = NoRule /\ Cardinality(Here(c)) = 1 THEN Here(c)
        ELSE {}

(* "ident not in text" looks for a part of the text, not for a word of it.  *)
Words(text, j) == Rules[j].ident = NoIdent \/ Rules[j].ident \in text.words
Within(text, j) == \E word \in text.words : <<Rules[j].ident, word>> \in Inside
Names(text, j) == Words(text, j) \/ Within(text, j)

(* What of a list of explanations is said of finding j.                     *)
Fit(c, j, says) == {i \in DOMAIN says : j \in Targets(c, says[i]) /\ Names(says[i], j)}

Attach(c, says) ==
    [j \in Found |-> IF prose[j] = None /\ Fit(c, j, says) # {}
                     THEN Told(c, says[Min(Fit(c, j, says))], 0) ELSE prose[j]]

(* How a chunk that failed is noted.                                        *)
(* Mutant: a failed call is taken for a chunk with nothing to say. *)
NotedIfRead(c, kind) == IF kind = "useless" THEN notes \cup {c} ELSE notes

Noted(c, kind) == IF kind \in Failures THEN notes \cup {c} ELSE notes

(* What the model wrote is chosen when it is read: nothing looks before.  A *)
(* worker that raised is printed and passed over.                           *)
Ready(k) == jobs[k].reply # "pending" /\ ~jobs[k].taken
Taken(k) == jobs' = [jobs EXCEPT ![k].taken = TRUE]

HandleReply(k) ==
    /\ stage = "explain"
    /\ Ready(k) /\ jobs[k].reply # "odd"
    /\ Taken(k)
    /\ notes' = Noted(jobs[k].chunk, jobs[k].reply)
    /\ IF jobs[k].reply = "good"
       THEN \E says \in Explanations : prose' = Attach(jobs[k].chunk, says)
       ELSE UNCHANGED prose
    /\ UNCHANGED <<input, stage, alone>>

(* ex.get of what is no dict raises out of the loop; leaving the pool's     *)
(* block waits for the jobs it was given.                                   *)
HandleOdd(k) ==
    /\ stage = "explain"
    /\ Ready(k) /\ jobs[k].reply = "odd"
    /\ stage' = "raised"
    /\ UNCHANGED <<input, jobs, prose, notes, alone>>

Abort ==
    /\ stage = "raised" /\ Unanswered = {}
    /\ stage' = "aborted"
    /\ UNCHANGED <<input, jobs, prose, notes, alone>>

-----------------------------------------------------------------------------
(* The second pass asks for each finding of a selected chunk that has no    *)
(* prose, once for every such chunk, SECOND_PASS_MAX times at most, always  *)
(* showing the first of the finding's selected chunks.                      *)
Over == \A k \in DOMAIN jobs : jobs[k].taken

Missing == InOrder({p \in Selected \X Found : p[2] \in Here(p[1]) /\ prose[p[2]] = None})

FirstShown(j) == Min(Selected \cap Rules[j].at)

Retry(missing) ==
    [n \in 1..Least(Len(missing), SECOND_PASS_MAX) |-> Job(FirstShown(missing[n][2]), missing[n][2])]

Reask ==
    /\ stage = "explain" /\ Over
    /\ stage' = "reask"
    /\ jobs' = jobs \o Retry(Missing)
    /\ UNCHANGED <<input, prose, notes, alone>>

(* explain_single: the first text that is not of another rule and, if the   *)
(* chunk has another finding of the same rule, names this one.  An odd list *)
(* raises in the worker, and the finding keeps what it has.                 *)
(* Mutant: siblings are not looked for. *)
AnswersUnchecked(c, j, says) == {i \in DOMAIN says : says[i].rule \in {NoRule, Rules[j].type}}

Answers(c, j, says) ==
    {i \in DOMAIN says : /\ says[i].rule \in {NoRule, Rules[j].type}
                         /\ Siblings(c, j) # {j} => Names(says[i], j)}

ToldAlone(c, j, says) ==
    IF Answers(c, j, says) = {} THEN prose
    ELSE [prose EXCEPT ![j] = Told(c, says[Min(Answers(c, j, says))], j)]

HandleSingle(k) ==
    /\ stage = "reask"
    /\ Ready(k)
    /\ Taken(k)
    /\ IF jobs[k].reply = "good"
       THEN \E says \in Explanations : prose' = ToldAlone(jobs[k].chunk, jobs[k].about, says)
       ELSE UNCHANGED prose
    /\ UNCHANGED <<input, stage, notes, alone>>

-----------------------------------------------------------------------------
(* compare.run_llm_alone: the selected chunks once more, without the rules; *)
(* one answer for each that is not in the cache.                            *)
Usable == {"ok", "ok-after-retry"}

StartCompare ==
    /\ stage = "reask" /\ Over
    /\ IF input.compare
       THEN /\ stage' = "compare"
            /\ \E cache \in Cached : alone' = [c \in Selected \cap DOMAIN cache |-> cache[c]]
       ELSE stage' = "final" /\ UNCHANGED alone
    /\ UNCHANGED <<input, jobs, prose, notes>>

(* _analyze_one.  What came empty after a nudge is no evidence; "failed"    *)
(* stands for api-error, unparseable and off-schema.                        *)
Rated(status, hits) == [status |-> status, hits |-> hits]

Ratings ==
    {Rated(s, {}) : s \in {"failed", "degraded-empty"}}
    \cup {Rated("ok", hits) : hits \in SUBSET Found}
    \cup {Rated("ok-after-retry", hits) : hits \in SUBSET Found \ {{}}}

RateAlone(c) ==
    /\ stage = "compare"
    /\ c \in Selected \ DOMAIN alone
    /\ \E rating \in Ratings :
          alone' = [d \in DOMAIN alone \cup {c} |-> IF d = c THEN rating ELSE alone[d]]
    /\ UNCHANGED <<input, stage, jobs, prose, notes>>

WriteReport ==
    /\ stage = "compare" /\ DOMAIN alone = Selected
    /\ stage' = "final"
    /\ UNCHANGED <<input, jobs, prose, notes, alone>>

(* compare.align: what the report says of finding j.                        *)
CoverageOk == \A c \in Selected : alone[c].status \in Usable

Verdict(j) ==
    CASE \E c \in Selected : j \in alone[c].hits -> "RATED"
      [] \A c \in Selected : j \notin alone[c].hits -> IF CoverageOk THEN "MISSED" ELSE "UNKNOWN"

-----------------------------------------------------------------------------
Take(k) == HandleReply(k) \/ HandleOdd(k) \/ HandleSingle(k)

MainStep == Abort \/ Reask \/ StartCompare \/ WriteReport

DriverNext ==
    \/ \E k \in DOMAIN jobs : Answer(k) \/ Take(k)
    \/ \E c \in Chunks : RateAlone(c)
    \/ MainStep

DriverSpec == DriverInit /\ [][DriverNext]_driverVars

-----------------------------------------------------------------------------
(* "Prose about the wrong host is worse than no prose": what a finding is   *)
(* explained with was written about a chunk the finding is in, is not about *)
(* another rule, and names the finding's own address or host, unless it was *)
(* asked about this finding alone where no other of its rule could be meant *)
(* -- or, which the code does not mean, unless a word it does name has the  *)
(* finding's address for a part of it, as 10.0.0.12 has 10.0.0.1.           *)
ProseIsOwn ==
    \A j \in Found : prose[j] # None =>
        /\ prose[j].chunk \in Rules[j].at
        /\ prose[j].text.rule = Rules[j].type
              \/ (prose[j].text.rule = NoRule /\ (prose[j].asked = j \/ Here(prose[j].chunk) = {j}))
        /\ Words(prose[j].text, j)
              \/ (\E word \in prose[j].text.words :
                    word # Rules[j].ident /\ <<Rules[j].ident, word>> \in Inside)
              \/ (prose[j].asked = j /\ Siblings(prose[j].chunk, j) = {j})

(* "a false all-clear on a log full of real events": a chunk that the model *)
(* gave no usable answer about is in the report as not analyzed -- unless   *)
(* reading the answer raised in the worker, which only the console's log    *)
(* of the run shows.                                                        *)
(* "prose we meant to have": a finding of a chunk the model was shown has   *)
(* prose, or was asked about by itself, or fell to the cap.                 *)
(* "a chunk the model failed to answer is UNKNOWN, never missed": a finding *)
(* is reported missed only if every chunk of it that was shown was rated.   *)
FailuresAreReported ==
    /\ stage \in {"compare", "final"} =>
         /\ \A c \in Selected :
              c \in notes \/ \E k \in DOMAIN jobs :
                  jobs[k].chunk = c /\ jobs[k].about = 0 /\ jobs[k].reply \in {"good", "raises"}
         /\ \A j \in Found :
              \/ Rules[j].at \cap Selected = {} \/ prose[j] # None
              \/ \E k \in DOMAIN jobs : jobs[k].about = j
              \/ Cardinality({k \in DOMAIN jobs : jobs[k].about # 0}) = SECOND_PASS_MAX
    /\ stage = "final" /\ input.compare =>
         \A j \in Found : Verdict(j) = "MISSED" =>
            \A c \in Rules[j].at \cap Selected : alone[c].status \in Usable

=============================================================================
