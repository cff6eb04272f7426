----------------------------- MODULE RunReview -----------------------------
(***************************************************************************)
(* The run on display and the review of it, console/serve.py.  One worker  *)
(* thread analyses a log and publishes it as STATE, twice: rules only, and *)
(* again when the model is through; requests mark findings, ask for        *)
(* explanations, reopen saved runs.  STATE is a reference to a dict, which *)
(* whoever holds it may change; CURRENT_RUN_FILE names the saved run that  *)
(* STATE came from.  Neither has a lock.                                   *)
(*                                                                         *)
(* The actions are the accesses to the two globals, to a dict they refer   *)
(* to, to JOB and to the files of .runs; any thread moves at any time.     *)
(* Four variables of no consequence remember which races there have been.  *)
(***************************************************************************)
EXTENDS Integers, FiniteSets

CONSTANTS
    Analyses,     \* the analyses asked for; each names the run it makes
    Past,         \* those of them that were over and saved before the server started
    Requests,     \* the other requests, one thread each
    Logs,         \* the log files there are
    Verdicts,     \* what a finding may be marked: tp, fp
    FindingIds,   \* the ids of findings, the same in every run: f1, f2, ...
    Moved,        \* those that name another finding once the model's are merged in
    None,
    MaxThreads,   \* bound on the analyses and other requests sent
    MaxRestarts   \* bound on restarts of the server

ASSUME RunReviewAssumption ==
    /\ Analyses \cap Requests = {}
    /\ None \notin Analyses \cup Requests \cup Verdicts
    /\ Past \subseteq Analyses /\ Moved \subseteq FindingIds
    /\ {MaxThreads, MaxRestarts} \subseteq Nat

Stages == {"rules", "full"}
NoMarks == [i \in FindingIds |-> None]

(* What a dict, or a file of .runs, says. *)
Content == [run: Analyses \cup {None}, stage: Stages,
            marks: [FindingIds -> Verdicts \cup {None}], explained: SUBSET FindingIds]
Report(run, stage, marks) ==
    [run |-> run, stage |-> stage, marks |-> marks, explained |-> {}]
Nothing == Report(None, "full", NoMarks)

(* The dicts that STATE has referred to, by who made them. *)
Published(x, s) == <<x, s>>
Opened(r) == <<r, "opened">>
Idle == <<None, "idle">>
Restored == <<None, "restored">>
Dicts == {Published(x, s) : x \in Analyses, s \in Stages}
         \cup {Opened(r) : r \in Requests} \cup {Idle, Restored}

Actors == Analyses \cup Requests
Over == {"over", "refused", "unstarted", "answered", "failed", "unsaved", "killed"}
Resting == Over \cup {"unsent", "analyzing", "explaining", "ask"}
PCs == Resting \cup {"accept", "begin", "carry", "show", "save", "name", "finish",
                     "copy", "put", "persist", "aim", "dump", "write", "attach"}

VARIABLES
    state, file,   \* STATE and CURRENT_RUN_FILE
    dict,          \* by dict: what it says
    history,       \* .runs: by run, what its file says, None if there is none
    job,           \* JOB["status"]
    log,           \* by analysis: the log it reads
    pc, stage,     \* by actor; by analysis: what it publishes
    local,         \* by request: its local variables
    meant,         \* the verdicts that reviewers gave, on findings
    restarts,
    crossed, strayed, clobbered, doubled   \* which races there have been

world == <<log, meant, restarts>>
races == <<crossed, strayed, clobbered, doubled>>
vars == <<state, file, dict, history, job, log, pc, stage, local, meant, restarts, races>>

(* The finding, the dict it was found in, its verdict, the new marks; the    *)
(* file, and what is to be written to it.                                    *)
Local == [id: FindingIds \cup {None}, ref: Dicts, verdict: Verdicts \cup {None},
          marks: [FindingIds -> Verdicts \cup {None}],
          dest: Analyses \cup {None}, text: Content]
Blank == [id |-> None, ref |-> Idle, verdict |-> None, marks |-> NoMarks,
          dest |-> None, text |-> Nothing]

(* What main starts with: the last of the saved runs, or nothing. *)
Startup(h) ==
    IF \A x \in Analyses : h[x] = None
    THEN {[state |-> Idle, file |-> None, dict |-> [d \in Dicts |-> Nothing]]}
    ELSE {[state |-> Restored, file |-> x,
           dict |-> [d \in Dicts |-> IF d = Restored THEN h[x] ELSE Nothing]] :
             x \in {y \in Analyses : h[y] # None}}

Init ==
    /\ history = [x \in Analyses |->
                     IF x \in Past THEN Report(x, "full", NoMarks) ELSE None]
    /\ \E s \in Startup(history) : state = s.state /\ file = s.file /\ dict = s.dict
    /\ job = "idle"
    /\ log \in [Analyses -> Logs]
    /\ pc = [a \in Actors |-> IF a \in Past THEN "over" ELSE "unsent"]
    /\ stage = [x \in Analyses |-> "rules"]
    /\ local = [r \in Requests |-> Blank]
    /\ meant = {}
    /\ restarts = 0
    /\ crossed = FALSE /\ strayed = FALSE /\ clobbered = FALSE /\ doubled = FALSE

Saved == {x \in Analyses : history[x] # None}

(* The finding that an id names in a report: the same one in both reports   *)
(* on a log unless it has moved.                                            *)
FindingOf(c, i) == <<log[c.run], i, IF i \in Moved THEN c.stage ELSE "both">>

At(a, label) == pc[a] = label
Arrives(a) ==
    /\ pc[a] = "unsent"
    /\ Cardinality({b \in Actors \ Past : pc[b] # "unsent"}) < MaxThreads
Goto(a, label) == pc' = [pc EXCEPT ![a] = label]
Keep(r, new) == local' = [local EXCEPT ![r] = new]
Answer(r, outcome) == Goto(r, outcome) /\ Keep(r, Blank)

-----------------------------------------------------------------------------
(***************************************************************************)
(* POST /api/analyze, and the worker thread it starts.                     *)
(***************************************************************************)

PostAnalyze(x) ==
    /\ Arrives(x)
    /\ Goto(x, IF job = "running" THEN "refused" ELSE "accept")
    /\ UNCHANGED <<state, file, dict, history, job, stage, local, world>>

(* Thread.start may raise: there is no thread to begin.                     *)
Accept(x) ==
    /\ At(x, "accept")
    /\ job' = "running"
    /\ Goto(x, "begin") \/ Goto(x, "unstarted")
    /\ UNCHANGED <<state, file, dict, history, stage, local, world>>

Begin(x) ==
    /\ At(x, "begin")
    /\ job' = "running"
    /\ Goto(x, "analyzing")
    /\ UNCHANGED <<state, file, dict, history, stage, local, world>>

(* Mutant: the file of the run before stays the current one. *)
DetachNot(x, s) ==
    /\ At(x, "analyzing") \/ (At(x, "explaining") /\ s = "full")
    /\ stage' = [stage EXCEPT ![x] = s]
    /\ Goto(x, "carry")
    /\ UNCHANGED <<state, file, dict, history, job, local, world>>

(* publish, once the analyzer has a report: the rules-only one first, if    *)
(* the model is to explain it.                                              *)
Detach(x, s) ==
    /\ At(x, "analyzing") \/ (At(x, "explaining") /\ s = "full")
    /\ stage' = [stage EXCEPT ![x] = s]
    /\ file' = None
    /\ Goto(x, "carry")
    /\ UNCHANGED <<state, dict, history, job, local, world>>

(* Mutant: marks follow the ids. *)
CarriedById(c, new) ==
    [i \in FindingIds |->
        IF c.run # None /\ log[c.run] = log[new.run] THEN c.marks[i] ELSE None]

(* carry_marks: a mark is kept if its id still names a finding of the same  *)
(* title in a report on the same log.                                       *)
Carried(c, new) ==
    [i \in FindingIds |->
        IF c.run # None /\ FindingOf(c, i) = FindingOf(new, i) THEN c.marks[i] ELSE None]

CarryMarks(x) ==
    LET new == Report(x, stage[x], NoMarks) IN
    /\ At(x, "carry")
    /\ dict' = [dict EXCEPT ![Published(x, stage[x])] =
                   [new EXCEPT !.marks = Carried(dict[state], new)]]
    /\ Goto(x, "show")
    /\ UNCHANGED <<state, file, history, job, stage, local, world>>

ShowReport(x) ==
    /\ At(x, "show")
    /\ state' = Published(x, stage[x])
    /\ Goto(x, IF stage[x] = "rules" THEN "explaining" ELSE "save")
    /\ UNCHANGED <<file, dict, history, job, stage, local, world>>

(* save_run: the name is fresh, and is the current one once the file is     *)
(* written; a disk that refuses leaves the run without a file.              *)
SaveRun(x) ==
    /\ At(x, "save")
    /\ \/ history' = [history EXCEPT ![x] = dict[Published(x, "full")]] /\ Goto(x, "name")
       \/ UNCHANGED history /\ Goto(x, "finish")
    /\ UNCHANGED <<state, file, dict, job, stage, local, world>>

NameRun(x) ==
    /\ At(x, "name")
    /\ file' = x
    /\ Goto(x, "finish")
    /\ UNCHANGED <<state, dict, history, job, stage, local, world>>

Finish(x) ==
    /\ At(x, "finish")
    /\ job' = "done"
    /\ Goto(x, "over")
    /\ UNCHANGED <<state, file, dict, history, stage, local, world>>

(* Mutant: a failure ends the worker and nothing else. *)
FailSilently(x) ==
    /\ \E label \in {"analyzing", "explaining", "carry", "save"} : At(x, label)
    /\ Goto(x, "over")
    /\ UNCHANGED <<state, file, dict, history, job, stage, local, world>>

(* The source cannot be read, the analyzer fails, its report is no report. *)
Fail(x) ==
    /\ \E label \in {"analyzing", "explaining", "carry", "save"} : At(x, label)
    /\ job' = "error"
    /\ Goto(x, "over")
    /\ UNCHANGED <<state, file, dict, history, stage, local, world>>

-----------------------------------------------------------------------------
(***************************************************************************)
(* _mark.  The request carries an id; what the reviewer meant is taken to  *)
(* be the finding of that id in the run on display when it arrives.        *)
(***************************************************************************)
Mark(r, i, v) ==
    /\ Arrives(r)
    /\ dict[state].run # None
    /\ Keep(r, [Blank EXCEPT !.id = i, !.ref = state, !.verdict = v])
    /\ meant' = IF v = None THEN meant ELSE meant \cup {<<FindingOf(dict[state], i), v>>}
    /\ Goto(r, "copy")
    /\ UNCHANGED <<state, file, dict, history, job, stage, log, restarts>>

CopyMarks(r) ==
    /\ At(r, "copy")
    /\ Keep(r, [local[r] EXCEPT !.marks =
                   [dict[state].marks EXCEPT ![local[r].id] = local[r].verdict]])
    /\ Goto(r, "put")
    /\ UNCHANGED <<state, file, dict, history, job, stage, world>>

PutMarks(r) ==
    /\ At(r, "put")
    /\ dict' = [dict EXCEPT ![state].marks = local[r].marks]
    /\ Goto(r, "persist")
    /\ UNCHANGED <<state, file, history, job, stage, local, world>>

(* Mutant: "the work survived a refresh but vanished the moment the run was *)
(* reopened from history".                                                  *)
PersistLive(r) ==
    /\ At(r, "persist")
    /\ Answer(r, "answered")
    /\ UNCHANGED <<state, file, dict, history, job, stage, world>>

(* persist_state asks whether there is a CURRENT_RUN_FILE, reads it again,   *)
(* which raises if there is none any more, then STATE, and writes.  A write  *)
(* that the disk refuses is not reported.                                    *)
Persist(r) ==
    /\ At(r, "persist")
    /\ IF file = None THEN Answer(r, "answered") ELSE Goto(r, "aim") /\ Keep(r, Blank)
    /\ UNCHANGED <<state, file, dict, history, job, stage, world>>

Aim(r) ==
    /\ At(r, "aim")
    /\ IF file = None THEN Answer(r, "failed")
       ELSE Goto(r, "dump") /\ Keep(r, [Blank EXCEPT !.dest = file])
    /\ UNCHANGED <<state, file, dict, history, job, stage, world>>

Dump(r) ==
    /\ At(r, "dump")
    /\ Keep(r, [local[r] EXCEPT !.text = dict[state]])
    /\ Goto(r, "write")
    /\ UNCHANGED <<state, file, dict, history, job, stage, world>>

WriteBack(r) ==
    /\ At(r, "write")
    /\ \/ history' = [history EXCEPT ![local[r].dest] = local[r].text] /\ Answer(r, "answered")
       \/ UNCHANGED history /\ Answer(r, "unsaved")
    /\ UNCHANGED <<state, file, dict, job, stage, world>>

(***************************************************************************)
(* _explain and _explain_stream keep the finding while the model answers.  *)
(***************************************************************************)
Explain(r, i) ==
    /\ Arrives(r)
    /\ dict[state].run # None /\ i \notin dict[state].explained
    /\ Keep(r, [Blank EXCEPT !.id = i, !.ref = state])
    /\ Goto(r, "ask")
    /\ UNCHANGED <<state, file, dict, history, job, stage, world>>

PutExplanation(r) ==
    /\ At(r, "ask")
    /\ dict' = [dict EXCEPT ![local[r].ref].explained = @ \cup {local[r].id}]
    /\ Goto(r, "persist")
    /\ UNCHANGED <<state, file, history, job, stage, local, world>>

(* No answer, or a client that has gone away; what was sent is written down. *)
NoExplanation(r) ==
    /\ At(r, "ask")
    /\ Answer(r, "answered") \/ (Goto(r, "persist") /\ Keep(r, Blank))
    /\ UNCHANGED <<state, file, dict, history, job, stage, world>>

(***************************************************************************)
(* _open_run and /api/reset: STATE first, CURRENT_RUN_FILE after it.       *)
(***************************************************************************)

OpenRun(r, x) ==
    /\ Arrives(r)
    /\ x \in Saved
    /\ dict' = [dict EXCEPT ![Opened(r)] = history[x]]
    /\ Keep(r, [Blank EXCEPT !.dest = x])
    /\ Goto(r, "show")
    /\ UNCHANGED <<state, file, history, job, stage, world>>

ShowRun(r) ==
    /\ At(r, "show")
    /\ state' = Opened(r)
    /\ Goto(r, "attach")
    /\ UNCHANGED <<file, dict, history, job, stage, local, world>>

Reset(r) ==
    /\ Arrives(r)
    /\ dict' = [dict EXCEPT ![Idle] = Nothing]
    /\ state' = Idle
    /\ Goto(r, "attach")
    /\ UNCHANGED <<file, history, job, stage, local, world>>

Attach(r) ==
    /\ At(r, "attach")
    /\ file' = local[r].dest
    /\ Answer(r, "answered")
    /\ UNCHANGED <<state, dict, history, job, stage, world>>

-----------------------------------------------------------------------------
(* The server is stopped, or dies; main restores a saved run. *)
Restart ==
    /\ restarts < MaxRestarts
    /\ restarts' = restarts + 1
    /\ pc' = [a \in Actors |->
                 IF pc[a] \in (Over \ {"unstarted"}) \cup {"unsent"} THEN pc[a] ELSE "killed"]
    /\ job' = "idle"
    /\ local' = [r \in Requests |-> Blank]
    /\ stage' = [x \in Analyses |-> "rules"]
    /\ \E s \in Startup(history) : state' = s.state /\ file' = s.file /\ dict' = s.dict
    /\ UNCHANGED <<history, log, meant>>

Work(x) ==
    \/ Accept(x) \/ Begin(x)
    \/ \E s \in Stages : Detach(x, s)
    \/ CarryMarks(x) \/ ShowReport(x)
    \/ SaveRun(x) \/ NameRun(x)
    \/ Finish(x) \/ Fail(x)

Serve(r) ==
    \/ CopyMarks(r) \/ PutMarks(r)
    \/ Persist(r) \/ Aim(r) \/ Dump(r) \/ WriteBack(r)
    \/ PutExplanation(r) \/ NoExplanation(r)
    \/ ShowRun(r) \/ Attach(r)

-----------------------------------------------------------------------------
(***************************************************************************)
(* The races.  The run on display is exchanged in two stores, of STATE and *)
(* of CURRENT_RUN_FILE; a worker's two publishes are two exchanges.        *)
(***************************************************************************)
Exchanging(a) ==
    \/ pc[a] \in {"carry", "save", "name", "attach"}
    \/ pc[a] = "show" /\ a \in Analyses

Saving(r) == pc[r] \in {"persist", "aim", "dump", "write"}

(* An exchange within another, or while persist_state has read one of the    *)
(* two and not the other.                                                    *)
Cross == \E a, b \in Actors : a # b /\ Exchanging(a) /\ (Exchanging(b) \/ pc[b] = "dump")

(* The display changes while a mark is on its way to it.                     *)
Stray == \E r \in Requests : pc[r] \in {"copy", "put"} /\ local[r].ref # state

(* Two requests persist at once, or one while a run is read from its file or *)
(* its file is yet to be named.                                              *)
Clobber ==
    \E r \in Requests, a \in Actors :
        /\ r # a /\ Saving(r)
        /\ pc[a] \in {"name", "attach"} \/ (a \in Requests /\ (Saving(a) \/ pc[a] = "show"))

(* Two posts, of which neither has said that it runs, have seen no other.    *)
Double == \E x, y \in Analyses : x # y /\ pc[x] = "accept" /\ pc[y] = "accept"

Remember ==
    /\ crossed' = (crossed \/ Cross')
    /\ strayed' = (strayed \/ Stray')
    /\ clobbered' = (clobbered \/ Clobber')
    /\ doubled' = (doubled \/ Double')

-----------------------------------------------------------------------------
Step ==
    \/ \E x \in Analyses : PostAnalyze(x) \/ Work(x)
    \/ \E r \in Requests, i \in FindingIds :
          Explain(r, i) \/ \E v \in Verdicts \cup {None} : Mark(r, i, v)
    \/ \E r \in Requests, x \in Analyses : OpenRun(r, x)
    \/ \E r \in Requests : Reset(r) \/ Serve(r)
    \/ Restart

Next == Step /\ Remember

Spec == Init /\ [][Next]_vars

(* A worker that runs goes on; the analyzer and the model come to an end.   *)
FairSpec == Spec /\ \A x \in Analyses : WF_pc(Work(x))

-----------------------------------------------------------------------------
(* "a new run ... is emphatically not the previous run": the file of a run   *)
(* holds that run's report, the whole of it, until two exchanges of the run  *)
(* on display cross each other or a write in between.                        *)
HistoryIsOwn ==
    crossed \/ \A x \in Saved : history[x].run = x /\ history[x].stage = "full"

(* "silently moving one to another finding is not" recoverable: a mark, on   *)
(* display or on disk, is a verdict some reviewer gave on that very finding, *)
(* until the display changes under a mark that is being made.                *)
MarksAreMeant ==
    strayed \/ \A c \in {dict[state]} \cup {history[x] : x \in Saved} : \A i \in FindingIds :
        c.run # None /\ c.marks[i] # None => <<FindingOf(c, i), c.marks[i]>> \in meant

(* "Anything a reviewer adds after the analyzer finishes" is in the file of  *)
(* the run on display once the request is answered, unless the disk refused, *)
(* the run's file was another's for a moment, or two were at it at once.     *)
ReviewOnDisk ==
    (\A a \in Actors : pc[a] \in Resting) /\ file # None =>
        \/ history[file] = dict[state]
        \/ \E r \in Requests : pc[r] = "unsaved"
        \/ crossed \/ clobbered

(* "an analysis is already running": no two workers at a time, and JOB says  *)
(* so while there is one, unless two posts were checked at once; and JOB     *)
(* leaves "running" again however an analysis ends, or none would ever be    *)
(* accepted after it, unless its thread could not be started.                *)
Working == {x \in Analyses : pc[x] \notin Over \cup {"unsent", "accept"}}

JobIsTrue ==
    /\ [](doubled \/ \A x, y \in Working : x = y /\ job = "running")
    /\ job = "running" ~> job # "running" \/ \E x \in Analyses : pc[x] = "unstarted"
=============================================================================
