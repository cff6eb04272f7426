-------------------------- MODULE RunReviewProofs --------------------------
(***************************************************************************)
(* The theorems of the run on display and its review, for any analyses,    *)
(* requests and findings and any interleaving of their threads.            *)
(*                                                                         *)
(* STATE and CURRENT_RUN_FILE are stored one after the other and a request *)
(* reads them one after the other, so nothing can be said of the two once  *)
(* two exchanges of the run on display have crossed; until then they       *)
(* disagree only while one thread is about to store the second.  The       *)
(* invariant has a part that no race breaks, and one for each race that is *)
(* to be kept out.                                                         *)
(***************************************************************************)
EXTENDS RunReview, TLAPS

GlobalsType ==
    /\ state \in Dicts
    /\ file \in Analyses \cup {None}
    /\ dict \in [Dicts -> Content]
    /\ history \in [Analyses -> Content \cup {None}]
    /\ log \in [Analyses -> Logs]
ThreadsType ==
    /\ pc \in [Actors -> PCs]
    /\ stage \in [Analyses -> Stages]
    /\ local \in [Requests -> Local]
    /\ \A r \in Requests : pc[r] = "ask" => local[r].id \in FindingIds
    /\ {crossed, strayed, clobbered, doubled} \subseteq BOOLEAN

TypeOK == GlobalsType /\ ThreadsType

(* A race that there is, is remembered. *)
Recorded ==
    /\ Cross => crossed
    /\ Stray => strayed
    /\ Clobber => clobbered
    /\ Double => doubled

(* The dict of an analysis says what that analysis found, or nothing yet. *)
DictsOwn ==
    \A x \in Analyses, s \in Stages :
        dict[Published(x, s)].run # None =>
            dict[Published(x, s)].run = x /\ dict[Published(x, s)].stage = s

(* Whatever the races: what a worker is still to show is on display nowhere, *)
(* and the file that it is still to save is one that nobody knows of.        *)
Unsaved == {"unsent", "accept", "begin", "analyzing", "explaining", "carry", "show", "save"}
WorkerOK(x) ==
    /\ pc[x] \in {"unsent", "accept", "begin", "analyzing"} =>
          \A s \in Stages : state # Published(x, s)
    /\ pc[x] = "explaining" => state # Published(x, "full")
    /\ pc[x] = "carry" => state # Published(x, stage[x])
    /\ pc[x] \in {"show", "save", "name"} => dict[Published(x, stage[x])].run = x
    /\ pc[x] \in {"save", "name"} => stage[x] = "full"
    /\ pc[x] \in Unsaved =>
          history[x] = None /\ file # x /\ \A r \in Requests : local[r].dest # x

Orderly ==
    /\ DictsOwn
    /\ \A x \in Analyses : WorkerOK(x)
    /\ \A r \in Requests : /\ pc[r] = "unsent" => local[r] = Blank /\ state # Opened(r)
                           /\ pc[r] = "show" => local[r].dest # None

(* The whole report of a run. *)
IsOf(c, x) == c.run = x /\ c.stage = "full"

(* As long as no two exchanges have crossed, the current file is that of the *)
(* run on display unless somebody who has changed STATE has yet to change    *)
(* CURRENT_RUN_FILE, and so is what is on its way to a file.                 *)
FileIsOfState ==
    file # None /\ (\A r \in Requests : pc[r] # "attach") => IsOf(dict[state], file)

Publishing(x) ==
    /\ pc[x] \in {"carry", "show", "save", "name"} => file = None
    /\ pc[x] \in {"save", "name"} => state = Published(x, "full")

Holding(r) ==
    /\ pc[r] = "show" => IsOf(dict[Opened(r)], local[r].dest)
    /\ pc[r] = "attach" => local[r].dest = None \/ IsOf(dict[state], local[r].dest)
    /\ pc[r] = "dump" => IsOf(dict[state], local[r].dest)
    /\ pc[r] = "write" => IsOf(local[r].text, local[r].dest)

Uncrossed ==
    /\ \A x \in Saved : IsOf(history[x], x)
    /\ FileIsOfState
    /\ \A x \in Analyses : Publishing(x)
    /\ \A r \in Requests : Holding(r)

(* If besides no two have been at a file at once, the current file holds     *)
(* what is on display, unless somebody has yet to write it.                  *)
Behind == {"persist", "aim", "dump", "write", "attach", "unsaved"}
Synced ==
    file # None /\ (\A r \in Requests : pc[r] \notin Behind) => history[file] = dict[state]

InStep(r) ==
    /\ pc[r] = "show" => history[local[r].dest] = dict[Opened(r)]
    /\ pc[r] = "attach" => local[r].dest = None \/ history[local[r].dest] = dict[state]
    /\ pc[r] = "dump" => file \in {None, local[r].dest}
    /\ pc[r] = "write" =>
          file = None \/ (file = local[r].dest /\ local[r].text = dict[state])

Unclobbered ==
    /\ Synced
    /\ \A x \in Analyses : pc[x] = "name" => history[x] = dict[state]
    /\ \A r \in Requests : InStep(r)

(* As long as the display has not changed under a mark, every mark in a dict,*)
(* in a file or on its way to one is a verdict on that very finding.         *)
MarksMeant(c, marks) ==
    \A i \in FindingIds :
        c.run # None /\ marks[i] # None => <<FindingOf(c, i), marks[i]>> \in meant
Meant(c) == MarksMeant(c, c.marks)

Unstrayed ==
    /\ \A d \in Dicts : Meant(dict[d])
    /\ \A x \in Saved : Meant(history[x])
    /\ \A r \in Requests :
          /\ Meant(local[r].text)
          /\ pc[r] = "copy" /\ dict[state].run # None /\ local[r].verdict # None =>
                <<FindingOf(dict[state], local[r].id), local[r].verdict>> \in meant
          /\ pc[r] = "put" => MarksMeant(dict[state], local[r].marks)

IInv ==
    /\ TypeOK /\ Recorded /\ Orderly
    /\ crossed \/ Uncrossed
    /\ crossed \/ clobbered \/ Unclobbered
    /\ strayed \/ Unstrayed

-----------------------------------------------------------------------------
(* What main starts with. *)
LEMMA StartsWith ==
    ASSUME NEW s \in Startup(history), history \in [Analyses -> Content \cup {None}]
    PROVE  \/ /\ Saved = {} /\ s.state = Idle /\ s.file = None
              /\ s.dict = [d \in Dicts |-> Nothing]
           \/ \E x \in Saved :
                 /\ s.state = Restored /\ s.file = x
                 /\ s.dict = [d \in Dicts |-> IF d = Restored THEN history[x] ELSE Nothing]
<1>1. CASE \A x \in Analyses : history[x] = None
  BY <1>1 DEF Startup, Saved
<1>2. CASE ~ \A x \in Analyses : history[x] = None
  <2>1. PICK x \in {y \in Analyses : history[y] # None} :
            s = [state |-> Restored, file |-> x,
                 dict |-> [d \in Dicts |-> IF d = Restored THEN history[x] ELSE Nothing]]
    BY <1>2 DEF Startup
  <2> QED BY <2>1 DEF Saved
<1> QED BY <1>1, <1>2

LEMMA DictKinds ==
    /\ Idle \in Dicts /\ Restored \in Dicts
    /\ \A x \in Analyses, s \in Stages :
          /\ Published(x, s) \in Dicts
          /\ Published(x, s) # Idle /\ Published(x, s) # Restored
          /\ \A r \in Requests : Published(x, s) # Opened(r)
          /\ \A y \in Analyses, t \in Stages :
                Published(x, s) = Published(y, t) => x = y /\ s = t
    /\ \A r \in Requests :
          /\ Opened(r) \in Dicts
          /\ Opened(r) # Idle /\ Opened(r) # Restored
          /\ \A q \in Requests : Opened(r) = Opened(q) => r = q
  BY DEF Dicts, Idle, Restored, Published, Opened, Stages

LEMMA ReportTypes ==
    /\ Nothing \in Content /\ Nothing.run = None /\ Nothing.marks = NoMarks
    /\ \A x \in Analyses, s \in Stages, m \in [FindingIds -> Verdicts \cup {None}] :
          /\ Report(x, s, m) \in Content
          /\ Report(x, s, m).run = x /\ Report(x, s, m).stage = s /\ Report(x, s, m).marks = m
    /\ NoMarks \in [FindingIds -> Verdicts \cup {None}]
    /\ Blank \in Local
<1>1. NoMarks \in [FindingIds -> Verdicts \cup {None}]
  BY DEF NoMarks
<1> QED BY <1>1, DictKinds DEF Nothing, Report, Content, Stages, Blank, Local

(* Every thread is an analysis or a request, and not both. *)
LEMMA Kinds ==
    /\ \A x \in Analyses : x \in Actors /\ x \notin Requests
    /\ \A r \in Requests : r \in Actors /\ r \notin Analyses
    /\ None \notin Analyses /\ None \notin Verdicts
  BY RunReviewAssumption DEF Actors

-----------------------------------------------------------------------------
LEMMA Start ==
    Init => IInv
<1> SUFFICES ASSUME Init PROVE IInv
  OBVIOUS
<1>1. history \in [Analyses -> Content \cup {None}]
  BY ReportTypes DEF Init, Stages
<1>2. \A x \in Saved : x \in Analyses /\ IsOf(history[x], x) /\ Meant(history[x])
  BY ReportTypes DEF Init, IsOf, Saved, Meant, MarksMeant, NoMarks, Stages
<1>3. PICK s \in Startup(history) : state = s.state /\ file = s.file /\ dict = s.dict
  BY DEF Init
<1>4. /\ GlobalsType /\ DictsOwn /\ \A d \in Dicts : Meant(dict[d])
      /\ file # None => file \in Saved /\ dict[state] = history[file]
  <2>1. CASE /\ Saved = {} /\ s.state = Idle /\ s.file = None
             /\ s.dict = [d \in Dicts |-> Nothing]
    BY <1>1, <1>2, <1>3, <2>1, DictKinds, ReportTypes
    DEF Init, GlobalsType, DictsOwn, Meant, MarksMeant
  <2>2. CASE \E x \in Saved :
                 /\ s.state = Restored /\ s.file = x
                 /\ s.dict = [d \in Dicts |-> IF d = Restored THEN history[x] ELSE Nothing]
    <3>1. PICK x \in Saved :
                 /\ s.state = Restored /\ s.file = x
                 /\ s.dict = [d \in Dicts |-> IF d = Restored THEN history[x] ELSE Nothing]
      BY <2>2
    <3>2. x \in Analyses /\ history[x] \in Content
      BY <1>1 DEF Saved
    <3>3. GlobalsType
      BY <1>1, <1>3, <3>1, <3>2, DictKinds, ReportTypes DEF Init, GlobalsType
    <3>4. DictsOwn
      BY <1>3, <3>1, DictKinds, ReportTypes DEF DictsOwn
    <3>5. \A d \in Dicts : Meant(dict[d])
      BY <1>2, <1>3, <3>1, ReportTypes DEF Meant, MarksMeant
    <3> QED BY <1>2, <1>3, <3>1, <3>3, <3>4, <3>5, DictKinds
  <2> QED BY <1>1, <2>1, <2>2, StartsWith
<1>5. ThreadsType
  BY ReportTypes, RunReviewAssumption DEF Init, ThreadsType, PCs, Resting, Over, Stages, Actors
<1>6. /\ \A a \in Actors : pc[a] \in {"over", "unsent"}
      /\ \A r \in Requests : pc[r] = "unsent" /\ local[r] = Blank
      /\ \A x \in Analyses : history[x] = None \/ pc[x] = "over"
  BY RunReviewAssumption DEF Init, Actors
<1>7. state = Idle \/ state = Restored
  BY <1>1, <1>3, StartsWith
<1>8. Orderly
  <2>1. \A x \in Analyses : history[x] = None => file # x
    BY <1>4, Kinds DEF Saved
  <2>2. \A x \in Analyses : WorkerOK(x)
    BY <1>6, <1>7, <2>1, DictKinds, Kinds DEF WorkerOK, Unsaved, Blank
  <2> QED BY <1>4, <1>6, <1>7, <2>2, DictKinds DEF Orderly
<1>9. Recorded
  BY <1>6, Kinds DEF Recorded, Cross, Stray, Clobber, Double, Exchanging, Saving
<1>10. Uncrossed
  <2>1. FileIsOfState
    BY <1>2, <1>4 DEF FileIsOfState
  <2>2. \A x \in Analyses : Publishing(x)
    BY <1>6, Kinds DEF Publishing
  <2>3. \A r \in Requests : Holding(r)
    BY <1>6 DEF Holding
  <2> QED BY <1>2, <2>1, <2>2, <2>3 DEF Uncrossed
<1>11. Unclobbered
  BY <1>4, <1>6, Kinds DEF Unclobbered, Synced, InStep
<1>12. Unstrayed
  BY <1>2, <1>4, <1>6, ReportTypes DEF Unstrayed, Meant, MarksMeant, Blank
<1> QED BY <1>4, <1>5, <1>8, <1>9, <1>10, <1>11, <1>12 DEF IInv, TypeOK

-----------------------------------------------------------------------------
(* The steps, by what they change of the globals, the dicts and the files. *)
Quiet ==
    \/ \E x \in Analyses : PostAnalyze(x) \/ Accept(x) \/ Begin(x) \/ Finish(x) \/ Fail(x)
    \/ \E r \in Requests, i \in FindingIds :
          Explain(r, i) \/ \E v \in Verdicts \cup {None} : Mark(r, i, v)
    \/ \E r \in Requests : CopyMarks(r) \/ Persist(r) \/ Aim(r) \/ Dump(r) \/ NoExplanation(r)

Telling ==
    \/ \E x \in Analyses : CarryMarks(x)
    \/ \E r \in Requests : PutMarks(r) \/ PutExplanation(r) \/ Reset(r)
    \/ \E r \in Requests, x \in Analyses : OpenRun(r, x)

Pointing ==
    \/ \E x \in Analyses : ShowReport(x) \/ NameRun(x) \/ \E s \in Stages : Detach(x, s)
    \/ \E r \in Requests : ShowRun(r) \/ Attach(r)

Writing == (\E x \in Analyses : SaveRun(x)) \/ \E r \in Requests : WriteBack(r)

LEMMA Steps ==
    ASSUME Step
    PROVE  Quiet \/ Telling \/ Pointing \/ Writing \/ Restart
  BY DEF Step, Work, Serve, Quiet, Telling, Pointing, Writing

LEMMA QuietChanges ==
    ASSUME Quiet
    PROVE  UNCHANGED <<state, file, dict, history, log, restarts, stage>> /\ meant \subseteq meant'
<1>1. CASE \E x \in Analyses : PostAnalyze(x) \/ Accept(x) \/ Begin(x) \/ Finish(x) \/ Fail(x)
  BY <1>1 DEF PostAnalyze, Accept, Begin, Finish, Fail, world
<1>2. CASE \E r \in Requests, i \in FindingIds :
               Explain(r, i) \/ \E v \in Verdicts \cup {None} : Mark(r, i, v)
  BY <1>2 DEF Explain, Mark, world
<1>3. CASE \E r \in Requests :
               CopyMarks(r) \/ Persist(r) \/ Aim(r) \/ Dump(r) \/ NoExplanation(r)
  BY <1>3 DEF CopyMarks, Persist, Aim, Dump, NoExplanation, world
<1> QED BY <1>1, <1>2, <1>3 DEF Quiet

(* Nobody but a reviewer who marks adds to what was meant, and no step takes *)
(* from it.                                                                  *)
LEMMA NothingForgotten ==
    ASSUME Step
    PROVE  log' = log /\ meant \subseteq meant'
<1>1. CASE Telling
  BY <1>1 DEF Telling, CarryMarks, PutMarks, PutExplanation, Reset, OpenRun, world
<1>2. CASE Pointing
  BY <1>2 DEF Pointing, ShowReport, NameRun, Detach, ShowRun, Attach, world
<1>3. CASE Writing
  BY <1>3 DEF Writing, SaveRun, WriteBack, world
<1>4. CASE Restart
  BY <1>4 DEF Restart
<1> QED BY <1>1, <1>2, <1>3, <1>4, QuietChanges, Steps

(* After a restart every thread that was running is gone. *)
LEMMA RestartRests ==
    ASSUME Restart, TypeOK
    PROVE  /\ pc' \in [Actors -> PCs]
           /\ \A a \in Actors : pc'[a] \in Over \cup {"unsent"} /\ pc'[a] \in Resting
           /\ \A a \in Actors : pc'[a] = "unsent" => pc[a] = "unsent"
           /\ \A a \in Actors : pc[a] = "unsent" => pc'[a] = "unsent"
           /\ \A a \in Actors : pc'[a] = "unsaved" => pc[a] = "unsaved"
  BY DEF Restart, TypeOK, ThreadsType, PCs, Resting, Over

(* A restart shows a saved run and names its file, or neither. *)
LEMMA RestartShows ==
    ASSUME TypeOK, Restart
    PROVE  /\ file' = None \/ (file' \in Saved /\ dict'[state'] = history[file'])
           /\ state' = Idle \/ state' = Restored
           /\ \A d \in Dicts : d # Restored => dict'[d] = Nothing
           /\ \A d \in Dicts : dict'[d] = Nothing \/ \E x \in Saved : dict'[d] = history[x]
           /\ history' = history
<1>1. history \in [Analyses -> Content \cup {None}]
  BY DEF TypeOK, GlobalsType
<1>2. PICK s \in Startup(history) : state' = s.state /\ file' = s.file /\ dict' = s.dict
  BY DEF Restart
<1>3. history' = history
  BY DEF Restart
<1>4. CASE /\ Saved = {} /\ s.state = Idle /\ s.file = None
           /\ s.dict = [d \in Dicts |-> Nothing]
  BY <1>2, <1>3, <1>4
<1>5. CASE \E x \in Saved :
               /\ s.state = Restored /\ s.file = x
               /\ s.dict = [d \in Dicts |-> IF d = Restored THEN history[x] ELSE Nothing]
  BY <1>2, <1>3, <1>5, DictKinds
<1> QED BY <1>1, <1>4, <1>5, StartsWith

(* Otherwise one thread moves, and it does move. *)
LEMMA OneMoves ==
    ASSUME Step, TypeOK
    PROVE  \/ Restart
           \/ \E a \in Actors, label \in PCs : pc[a] # label /\ pc' = [pc EXCEPT ![a] = label]
<1>1. CASE \E x \in Analyses : PostAnalyze(x) \/ Accept(x) \/ Begin(x) \/ Finish(x) \/ Fail(x)
  BY <1>1 DEF PostAnalyze, Accept, Begin, Finish, Fail, Arrives, At, Goto,
              Actors, PCs, Resting, Over
<1>2. CASE \E x \in Analyses : CarryMarks(x) \/ ShowReport(x) \/ SaveRun(x) \/ NameRun(x)
  BY <1>2 DEF CarryMarks, ShowReport, SaveRun, NameRun, At, Goto, Actors, PCs, Resting, Over
<1>3. CASE \E x \in Analyses, s \in Stages : Detach(x, s)
  BY <1>3 DEF Detach, At, Goto, Actors, PCs, Resting, Over
<1>4. CASE \E r \in Requests, i \in FindingIds :
               Explain(r, i) \/ \E v \in Verdicts \cup {None} : Mark(r, i, v)
  BY <1>4 DEF Explain, Mark, Arrives, Goto, Actors, PCs, Resting, Over
<1>5. CASE \E r \in Requests : CopyMarks(r) \/ Dump(r) \/ PutMarks(r) \/ PutExplanation(r)
  BY <1>5 DEF CopyMarks, Dump, PutMarks, PutExplanation, At, Goto, Actors, PCs, Resting, Over
<1>6. CASE \E r \in Requests : Persist(r) \/ Aim(r) \/ WriteBack(r) \/ NoExplanation(r)
  BY <1>6 DEF Persist, Aim, WriteBack, NoExplanation, At, Goto, Answer,
              Actors, PCs, Resting, Over
<1>7. CASE \E r \in Requests : Reset(r) \/ ShowRun(r) \/ Attach(r)
  BY <1>7 DEF Reset, ShowRun, Attach, Arrives, At, Goto, Answer, Actors, PCs, Resting, Over
<1>8. CASE \E r \in Requests, x \in Analyses : OpenRun(r, x)
  BY <1>8 DEF OpenRun, Arrives, Goto, Actors, PCs, Resting, Over
<1> QED BY <1>1, <1>2, <1>3, <1>4, <1>5, <1>6, <1>7, <1>8 DEF Step, Work, Serve

-----------------------------------------------------------------------------
LEMMA Answered ==
    ASSUME TypeOK, NEW r \in Requests, NEW outcome, outcome # "ask", Answer(r, outcome)
    PROVE  /\ local' \in [Requests -> Local]
           /\ \A q \in Requests : pc'[q] = "ask" => local'[q].id \in FindingIds
<1>0. /\ local \in [Requests -> Local] /\ pc \in [Actors -> PCs] /\ r \in Actors
      /\ \A q \in Requests : q \in Actors
      /\ \A q \in Requests : pc[q] = "ask" => local[q].id \in FindingIds
  BY DEF TypeOK, ThreadsType, Actors
<1>1. local' = [local EXCEPT ![r] = Blank] /\ pc' = [pc EXCEPT ![r] = outcome]
  BY DEF Answer, Goto, Keep
<1>2. local' \in [Requests -> Local]
  BY <1>0, <1>1, ReportTypes
<1>3. \A q \in Requests : q = r \/ (pc'[q] = pc[q] /\ local'[q] = local[q])
  BY <1>0, <1>1
<1>4. pc'[r] = outcome
  BY <1>0, <1>1
<1> QED BY <1>0, <1>2, <1>3, <1>4

LEMMA LocalStep ==
    ASSUME TypeOK, Step
    PROVE  /\ stage' \in [Analyses -> Stages] /\ local' \in [Requests -> Local]
           /\ \A r \in Requests : pc'[r] = "ask" => local'[r].id \in FindingIds
<1> USE DEF TypeOK, ThreadsType, GlobalsType
<1>0. Requests \subseteq Actors /\ Analyses \subseteq Actors /\ Analyses \cap Requests = {}
  BY RunReviewAssumption DEF Actors
<1>1. CASE Quiet
  <2>1. CASE \E x \in Analyses : PostAnalyze(x) \/ Accept(x) \/ Begin(x) \/ Finish(x) \/ Fail(x)
    BY <1>0, <2>1 DEF PostAnalyze, Arrives, Accept, Begin, Finish, Fail, At, Goto
  <2>2. CASE \E r \in Requests, i \in FindingIds : Explain(r, i)
    <3>1. PICK r \in Requests, i \in FindingIds : Explain(r, i)
      BY <2>2
    <3>2. [Blank EXCEPT !.id = i, !.ref = state] \in Local
      BY ReportTypes DEF Blank, Local
    <3> QED BY <1>0, <3>1, <3>2 DEF Explain, Arrives, Goto, Keep, Local
  <2>3. CASE \E r \in Requests, i \in FindingIds, v \in Verdicts \cup {None} : Mark(r, i, v)
    <3>1. PICK r \in Requests, i \in FindingIds, v \in Verdicts \cup {None} : Mark(r, i, v)
      BY <2>3
    <3>2. [Blank EXCEPT !.id = i, !.ref = state, !.verdict = v] \in Local
      BY ReportTypes DEF Blank, Local
    <3> QED BY <1>0, <3>1, <3>2 DEF Mark, Arrives, Goto, Keep
  <2>4. CASE \E r \in Requests : CopyMarks(r)
    <3>1. PICK r \in Requests : CopyMarks(r)
      BY <2>4
    <3>2. [dict[state].marks EXCEPT ![local[r].id] = local[r].verdict]
              \in [FindingIds -> Verdicts \cup {None}]
      BY DEF Content, Local
    <3>3. \A m \in [FindingIds -> Verdicts \cup {None}] : [local[r] EXCEPT !.marks = m] \in Local
      BY DEF Local
    <3> QED BY <1>0, <3>1, <3>2, <3>3 DEF CopyMarks, At, Goto, Keep
  <2>5. CASE \E r \in Requests : Persist(r)
    BY <1>0, <2>5, ReportTypes DEF Persist, At, Goto, Keep, Answer
  <2>6. CASE \E r \in Requests : Aim(r)
    <3>1. PICK r \in Requests : Aim(r)
      BY <2>6
    <3>2. [Blank EXCEPT !.dest = file] \in Local
      BY ReportTypes DEF Blank, Local
    <3>3. CASE Answer(r, "failed")
      BY <3>1, <3>3, Answered DEF Aim
    <3>4. CASE Goto(r, "dump") /\ Keep(r, [Blank EXCEPT !.dest = file])
      BY <1>0, <3>1, <3>2, <3>4 DEF Aim, Goto, Keep
    <3> QED BY <3>1, <3>3, <3>4 DEF Aim
  <2>7. CASE \E r \in Requests : Dump(r)
    <3>1. PICK r \in Requests : Dump(r)
      BY <2>7
    <3>2. [local[r] EXCEPT !.text = dict[state]] \in Local
      BY DEF Local
    <3> QED BY <1>0, <3>1, <3>2 DEF Dump, At, Goto, Keep
  <2>8. CASE \E r \in Requests : NoExplanation(r)
    <3>1. PICK r \in Requests : NoExplanation(r)
      BY <2>8
    <3>2. CASE Answer(r, "answered")
      BY <3>1, <3>2, Answered DEF NoExplanation
    <3>3. CASE Goto(r, "persist") /\ Keep(r, Blank)
      BY <1>0, <3>1, <3>3, ReportTypes DEF NoExplanation, Goto, Keep
    <3> QED BY <3>1, <3>2, <3>3 DEF NoExplanation
  <2> QED BY <1>1, <2>1, <2>2, <2>3, <2>4, <2>5, <2>6, <2>7, <2>8 DEF Quiet
<1>2. CASE Telling
  <2>1. CASE \E x \in Analyses : CarryMarks(x)
    BY <1>0, <2>1 DEF CarryMarks, At, Goto
  <2>2. CASE \E r \in Requests : PutMarks(r) \/ PutExplanation(r) \/ Reset(r)
    BY <1>0, <2>2 DEF PutMarks, PutExplanation, Reset, Arrives, At, Goto
  <2>3. CASE \E r \in Requests, x \in Analyses : OpenRun(r, x)
    <3>1. PICK r \in Requests, x \in Analyses : OpenRun(r, x)
      BY <2>3
    <3>2. [Blank EXCEPT !.dest = x] \in Local
      BY ReportTypes DEF Blank, Local
    <3> QED BY <1>0, <3>1, <3>2 DEF OpenRun, Arrives, Goto, Keep
  <2> QED BY <1>2, <2>1, <2>2, <2>3 DEF Telling
<1>3. CASE Pointing
  <2>1. CASE \E x \in Analyses : ShowReport(x) \/ NameRun(x) \/ \E s \in Stages : Detach(x, s)
    BY <1>0, <2>1 DEF ShowReport, NameRun, Detach, At, Goto
  <2>2. CASE \E r \in Requests : ShowRun(r) \/ Attach(r)
    <3>1. CASE \E r \in Requests : ShowRun(r)
      BY <1>0, <3>1 DEF ShowRun, At, Goto
    <3>2. CASE \E r \in Requests : Attach(r)
      BY <3>2, Answered DEF Attach
    <3> QED BY <2>2, <3>1, <3>2
  <2> QED BY <1>3, <2>1, <2>2 DEF Pointing
<1>4. CASE Writing
  <2>1. CASE \E x \in Analyses : SaveRun(x)
    BY <1>0, <2>1 DEF SaveRun, At, Goto
  <2>2. CASE \E r \in Requests : WriteBack(r)
    <3>1. PICK r \in Requests : Answer(r, "answered") \/ Answer(r, "unsaved")
      BY <2>2 DEF WriteBack
    <3>2. stage' = stage
      BY <2>2 DEF WriteBack
    <3> QED BY <3>1, <3>2, Answered
  <2> QED BY <1>4, <2>1, <2>2 DEF Writing
<1>5. CASE Restart
  BY <1>0, <1>5, RestartRests, ReportTypes DEF Restart, Stages, Over
<1> QED BY <1>1, <1>2, <1>3, <1>4, <1>5, Steps

LEMMA CarriedTypes ==
    ASSUME TypeOK, NEW c \in Content, NEW new
    PROVE  Carried(c, new) \in [FindingIds -> Verdicts \cup {None}]
  BY DEF Carried, Content

LEMMA GlobalsStep ==
    ASSUME TypeOK, Step
    PROVE  GlobalsType'
<1> USE DEF TypeOK, GlobalsType
<1>0. log' \in [Analyses -> Logs]
  BY NothingForgotten
<1>1. CASE Quiet
  BY <1>1, QuietChanges
<1>2. CASE Telling
  <2>1. CASE \E x \in Analyses : CarryMarks(x)
    <3>1. PICK x \in Analyses : CarryMarks(x)
      BY <2>1
    <3>2. stage[x] \in Stages
      BY DEF ThreadsType
    <3> DEFINE new == Report(x, stage[x], NoMarks)
    <3>3. new \in Content
      BY <3>2, ReportTypes
    <3>4. Carried(dict[state], new) \in [FindingIds -> Verdicts \cup {None}]
      BY CarriedTypes
    <3>5. [new EXCEPT !.marks = Carried(dict[state], new)] \in Content
      <4> HIDE DEF new
      <4> QED BY <3>3, <3>4 DEF Content
    <3> QED BY <1>0, <3>1, <3>5 DEF CarryMarks
  <2>2. CASE \E r \in Requests : PutMarks(r)
    <3>1. PICK r \in Requests : PutMarks(r)
      BY <2>2
    <3>2. local[r].marks \in [FindingIds -> Verdicts \cup {None}]
      BY DEF ThreadsType, Local
    <3>3. [dict[state] EXCEPT !.marks = local[r].marks] \in Content
      BY <3>2 DEF Content
    <3> QED BY <1>0, <3>1, <3>3 DEF PutMarks
  <2>3. CASE \E r \in Requests : PutExplanation(r)
    <3>1. PICK r \in Requests : PutExplanation(r)
      BY <2>3
    <3>2. local[r].id \in FindingIds /\ local[r].ref \in Dicts
      BY <3>1 DEF ThreadsType, Local, PutExplanation, At
    <3>3. \A c \in Content : [c EXCEPT !.explained = c.explained \cup {local[r].id}] \in Content
      BY <3>2 DEF Content
    <3> QED BY <1>0, <3>1, <3>2, <3>3 DEF PutExplanation
  <2>4. CASE \E r \in Requests : Reset(r)
    BY <1>0, <2>4, ReportTypes, DictKinds DEF Reset
  <2>5. CASE \E r \in Requests, x \in Analyses : OpenRun(r, x)
    BY <1>0, <2>5, DictKinds DEF OpenRun, Saved
  <2> QED BY <1>2, <2>1, <2>2, <2>3, <2>4, <2>5 DEF Telling
<1>3. CASE Pointing
  <2>1. CASE \E x \in Analyses : ShowReport(x) \/ NameRun(x) \/ \E s \in Stages : Detach(x, s)
    BY <1>0, <2>1, DictKinds DEF ShowReport, NameRun, Detach, ThreadsType
  <2>2. CASE \E r \in Requests : ShowRun(r) \/ Attach(r)
    BY <1>0, <2>2, DictKinds DEF ShowRun, Attach, ThreadsType, Local
  <2> QED BY <1>3, <2>1, <2>2 DEF Pointing
<1>4. CASE Writing
  <2>1. CASE \E x \in Analyses : SaveRun(x)
    BY <1>0, <2>1, DictKinds DEF SaveRun, Stages
  <2>2. CASE \E r \in Requests : WriteBack(r)
    <3>1. PICK r \in Requests : WriteBack(r)
      BY <2>2
    <3>2. local[r].text \in Content
      BY DEF ThreadsType, Local
    <3> QED BY <1>0, <3>1, <3>2 DEF WriteBack
  <2> QED BY <1>4, <2>1, <2>2 DEF Writing
<1>5. CASE Restart
  <2>1. \A d \in Dicts : dict'[d] \in Content
    BY <1>5, RestartShows, ReportTypes DEF Saved
  <2>2. \E f : dict' = [d \in Dicts |-> f[d]]
    <3>1. PICK s \in Startup(history) : dict' = s.dict
      BY <1>5 DEF Restart
    <3> QED BY <3>1, StartsWith
  <2> QED BY <1>0, <1>5, <2>1, <2>2, RestartShows, DictKinds DEF Saved
<1> QED BY <1>1, <1>2, <1>3, <1>4, <1>5, Steps

LEMMA TypeStep ==
    ASSUME TypeOK, Next
    PROVE  TypeOK'
<1>1. Step /\ {crossed', strayed', clobbered', doubled'} \subseteq BOOLEAN
  BY DEF Next, Remember, TypeOK, ThreadsType
<1>2. pc' \in [Actors -> PCs]
  BY <1>1, OneMoves, RestartRests DEF TypeOK, ThreadsType
<1> QED BY <1>1, <1>2, LocalStep, GlobalsStep DEF TypeOK, ThreadsType

-----------------------------------------------------------------------------
(***************************************************************************)
(* What a step changes, and who is where when it does.                     *)
(***************************************************************************)
LEMMA StateMoves ==
    ASSUME TypeOK, Step, ~Restart
    PROVE  \/ state' = state /\ ~ \E r \in Requests : Reset(r)
           \/ \E x \in Analyses : /\ pc[x] = "show" /\ state' = Published(x, stage[x])
                                  /\ pc'[x] # "show" /\ UNCHANGED <<file, dict, history, local>>
           \/ \E r \in Requests : /\ pc[r] = "show" /\ pc'[r] = "attach" /\ state' = Opened(r)
                                  /\ UNCHANGED <<file, dict, history, local>>
           \/ \E r \in Requests : /\ pc[r] = "unsent" /\ pc'[r] = "attach" /\ state' = Idle
                                  /\ dict' = [dict EXCEPT ![Idle] = Nothing]
                                  /\ UNCHANGED <<file, history, local>>
<1> USE Kinds DEF TypeOK, ThreadsType
<1>r. ASSUME NEW r \in Requests, Reset(r)
      PROVE  /\ pc[r] = "unsent" /\ pc'[r] = "attach" /\ state' = Idle
             /\ dict' = [dict EXCEPT ![Idle] = Nothing]
             /\ UNCHANGED <<file, history, local>>
  BY <1>r DEF Reset, Arrives, Goto
<1>1. CASE Quiet \/ Writing
  BY <1>1, <1>r, QuietChanges DEF Writing, SaveRun, WriteBack
<1>2. ASSUME Telling, ~ \E r \in Requests : Reset(r)
      PROVE  state' = state
  BY <1>2 DEF Telling, CarryMarks, PutMarks, PutExplanation, OpenRun
<1>3. CASE \E x \in Analyses : ShowReport(x)
  BY <1>3 DEF ShowReport, At, Goto
<1>4. CASE \E r \in Requests : ShowRun(r)
  BY <1>4 DEF ShowRun, At, Goto
<1>5. CASE \/ \E x \in Analyses : NameRun(x) \/ \E s \in Stages : Detach(x, s)
           \/ \E r \in Requests : Attach(r)
  BY <1>5, <1>r DEF NameRun, Detach, Attach
<1> QED BY <1>r, <1>1, <1>2, <1>3, <1>4, <1>5, Steps DEF Pointing

LEMMA FileMoves ==
    ASSUME TypeOK, Step, ~Restart
    PROVE  \/ file' = file
           \/ file' = None
           \/ \E x \in Analyses : /\ pc[x] = "name" /\ pc'[x] = "finish" /\ file' = x
                                  /\ UNCHANGED <<state, dict, history, local>>
           \/ \E r \in Requests : /\ pc[r] = "attach" /\ pc'[r] = "answered"
                                  /\ file' = local[r].dest /\ UNCHANGED <<state, dict, history>>
<1> USE Kinds DEF TypeOK, ThreadsType
<1>1. CASE Quiet \/ Telling \/ Writing
  BY <1>1, QuietChanges DEF Telling, CarryMarks, PutMarks, PutExplanation, Reset, OpenRun,
                            Writing, SaveRun, WriteBack
<1>2. CASE \E x \in Analyses : NameRun(x)
  BY <1>2 DEF NameRun, At, Goto
<1>3. CASE \E r \in Requests : Attach(r)
  BY <1>3 DEF Attach, At, Answer, Goto
<1>4. CASE \/ \E x \in Analyses : ShowReport(x) \/ \E s \in Stages : Detach(x, s)
           \/ \E r \in Requests : ShowRun(r)
  BY <1>4 DEF ShowReport, Detach, ShowRun
<1> QED BY <1>1, <1>2, <1>3, <1>4, Steps DEF Pointing

LEMMA HistoryMoves ==
    ASSUME TypeOK, Step
    PROVE  \/ history' = history
           \/ \E x \in Analyses : /\ pc[x] = "save" /\ pc' = [pc EXCEPT ![x] = "name"]
                                  /\ history' = [history EXCEPT ![x] = dict[Published(x, "full")]]
                                  /\ UNCHANGED <<state, file, dict, stage, local>>
           \/ \E r \in Requests : /\ pc[r] = "write" /\ pc' = [pc EXCEPT ![r] = "answered"]
                                  /\ history' = [history EXCEPT ![local[r].dest] = local[r].text]
                                  /\ UNCHANGED <<state, file, dict, stage>>
<1>1. CASE Quiet \/ Telling \/ Pointing \/ Restart
  BY <1>1, QuietChanges DEF Telling, CarryMarks, PutMarks, PutExplanation, Reset, OpenRun,
                            Pointing, ShowReport, NameRun, Detach, ShowRun, Attach, Restart
<1>2. CASE \E x \in Analyses : SaveRun(x)
  BY <1>2 DEF SaveRun, At, Goto
<1>3. CASE \E r \in Requests : WriteBack(r)
  BY <1>3 DEF WriteBack, At, Answer, Goto
<1> QED BY <1>1, <1>2, <1>3, Steps DEF Writing

(* A thread that does not move keeps its variables, and a request knows only *)
(* of files that are there and of the current one.                           *)
LEMMA LocalMoves ==
    ASSUME TypeOK, Step, ~Restart
    PROVE  /\ \A x \in Analyses : pc'[x] = pc[x] => stage'[x] = stage[x]
           /\ \A r \in Requests : pc'[r] = pc[r] => local'[r] = local[r]
           /\ \A r \in Requests : \/ local'[r].dest \in {None, local[r].dest, file}
                                  \/ local'[r].dest \in Saved
<1> USE Kinds DEF TypeOK, ThreadsType
<1>a. ASSUME NEW r \in Requests, NEW new, Keep(r, new), pc'[r] # pc[r], stage' = stage,
             new.dest \in {None, local[r].dest, file} \/ new.dest \in Saved
      PROVE  /\ \A x \in Analyses : pc'[x] = pc[x] => stage'[x] = stage[x]
             /\ \A q \in Requests : pc'[q] = pc[q] => local'[q] = local[q]
             /\ \A q \in Requests : \/ local'[q].dest \in {None, local[q].dest, file}
                                    \/ local'[q].dest \in Saved
  BY <1>a DEF Keep
<1>1. CASE \E x \in Analyses : PostAnalyze(x) \/ Accept(x) \/ Begin(x) \/ Finish(x) \/ Fail(x)
  BY <1>1 DEF PostAnalyze, Accept, Begin, Finish, Fail
<1>2. CASE \E x \in Analyses : CarryMarks(x) \/ ShowReport(x) \/ SaveRun(x) \/ NameRun(x)
  BY <1>2 DEF CarryMarks, ShowReport, SaveRun, NameRun
<1>3. CASE \E x \in Analyses, s \in Stages : Detach(x, s)
  BY <1>3 DEF Detach, At, Goto
<1>4. CASE \E r \in Requests : PutMarks(r) \/ PutExplanation(r) \/ Reset(r) \/ ShowRun(r)
  BY <1>4 DEF PutMarks, PutExplanation, Reset, ShowRun
<1>5. ASSUME NEW r \in Requests, NEW i \in FindingIds, Explain(r, i)
      PROVE  pc'[r] # pc[r] /\ stage' = stage /\ \E new : Keep(r, new) /\ new.dest = None
  <2>1. [Blank EXCEPT !.id = i, !.ref = state].dest = None
    BY DEF Blank
  <2> HIDE DEF Blank
  <2> QED BY <1>5, <2>1 DEF Explain, Arrives, Goto
<1>6. ASSUME NEW r \in Requests, NEW i \in FindingIds, NEW v \in Verdicts \cup {None}, Mark(r, i, v)
      PROVE  pc'[r] # pc[r] /\ stage' = stage /\ \E new : Keep(r, new) /\ new.dest = None
  <2>1. [Blank EXCEPT !.id = i, !.ref = state, !.verdict = v].dest = None
    BY DEF Blank
  <2> HIDE DEF Blank
  <2> QED BY <1>6, <2>1 DEF Mark, Arrives, Goto
<1>7. ASSUME NEW r \in Requests, NEW x \in Analyses, OpenRun(r, x)
      PROVE  pc'[r] # pc[r] /\ stage' = stage /\ \E new : Keep(r, new) /\ new.dest \in Saved
  BY <1>7 DEF OpenRun, Arrives, Goto, Blank
<1>8. ASSUME NEW r \in Requests, CopyMarks(r) \/ Dump(r)
      PROVE  pc'[r] # pc[r] /\ stage' = stage /\ \E new : Keep(r, new) /\ new.dest = local[r].dest
  <2>1. \A m : [local[r] EXCEPT !.marks = m].dest = local[r].dest
    BY DEF Local
  <2>2. \A c : [local[r] EXCEPT !.text = c].dest = local[r].dest
    BY DEF Local
  <2>3. CASE CopyMarks(r)
    BY <2>1, <2>3 DEF CopyMarks, At, Goto
  <2>4. CASE Dump(r)
    BY <2>2, <2>4 DEF Dump, At, Goto
  <2> QED BY <1>8, <2>3, <2>4
<1>9. ASSUME NEW r \in Requests,
             Persist(r) \/ Aim(r) \/ WriteBack(r) \/ NoExplanation(r) \/ Attach(r)
      PROVE  pc'[r] # pc[r] /\ stage' = stage /\ \E new : Keep(r, new) /\ new.dest \in {None, file}
  <2>1. Blank.dest = None /\ [Blank EXCEPT !.dest = file].dest = file
    BY DEF Blank
  <2> HIDE DEF Blank
  <2>2. CASE Persist(r)
    BY <2>1, <2>2 DEF Persist, At, Answer, Goto
  <2>3. CASE Aim(r)
    BY <2>1, <2>3 DEF Aim, At, Answer, Goto
  <2>4. CASE WriteBack(r) \/ NoExplanation(r) \/ Attach(r)
    BY <2>1, <2>4 DEF WriteBack, NoExplanation, Attach, At, Answer, Goto
  <2> QED BY <1>9, <2>2, <2>3, <2>4
<1>10. CASE \E r \in Requests, i \in FindingIds :
               Explain(r, i) \/ \E v \in Verdicts \cup {None} : Mark(r, i, v)
  BY <1>a, <1>5, <1>6, <1>10
<1>11. CASE \E r \in Requests, x \in Analyses : OpenRun(r, x)
  BY <1>a, <1>7, <1>11
<1>12. CASE \E r \in Requests : CopyMarks(r) \/ Dump(r)
  BY <1>a, <1>8, <1>12
<1>13. CASE \E r \in Requests :
                Persist(r) \/ Aim(r) \/ WriteBack(r) \/ NoExplanation(r) \/ Attach(r)
  BY <1>a, <1>9, <1>13
<1> QED BY <1>1, <1>2, <1>3, <1>4, <1>10, <1>11, <1>12, <1>13 DEF Step, Work, Serve

LEMMA Annotated ==
    ASSUME TypeOK, NEW r \in Requests, PutMarks(r) \/ PutExplanation(r), NEW d \in Dicts
    PROVE  dict'[d].run = dict[d].run /\ dict'[d].stage = dict[d].stage
<1>1. dict[d] \in Content /\ dict \in [Dicts -> Content]
  BY DEF TypeOK, GlobalsType
<1>2. CASE PutMarks(r)
  BY <1>1, <1>2 DEF PutMarks, Content
<1>3. CASE PutExplanation(r)
  BY <1>1, <1>3 DEF PutExplanation, Content
<1> QED BY <1>2, <1>3

(* A dict changes its run and stage only before it is shown, and otherwise   *)
(* at the hands of a request that goes on to persist it.                     *)
LEMMA DictKeeps ==
    ASSUME TypeOK, Step, ~Restart, ~ \E r \in Requests : Reset(r),
           NEW d \in Dicts,
           \A x \in Analyses : pc[x] = "carry" => d # Published(x, stage[x]),
           \A r \in Requests : pc[r] = "unsent" => d # Opened(r)
    PROVE  /\ dict'[d].run = dict[d].run /\ dict'[d].stage = dict[d].stage
           /\ dict'[d] = dict[d] \/ \E r \in Requests : pc'[r] = "persist" /\ pc[r] # "persist"
<1> USE Kinds DEF TypeOK, ThreadsType, GlobalsType
<1>1. CASE Quiet \/ Pointing \/ Writing
  <2>1. dict' = dict
    BY <1>1, QuietChanges DEF Pointing, ShowReport, NameRun, Detach, ShowRun, Attach,
                              Writing, SaveRun, WriteBack
  <2> QED BY <2>1
<1>2. CASE \E x \in Analyses : CarryMarks(x)
  BY <1>2 DEF CarryMarks, At
<1>3. CASE \E r \in Requests, x \in Analyses : OpenRun(r, x)
  BY <1>3 DEF OpenRun, Arrives
<1>4. CASE \E r \in Requests : PutMarks(r) \/ PutExplanation(r)
  <2>1. dict'[d].run = dict[d].run /\ dict'[d].stage = dict[d].stage
    BY <1>4, Annotated
  <2>2. \E r \in Requests : pc'[r] = "persist" /\ pc[r] # "persist"
    BY <1>4 DEF PutMarks, PutExplanation, At, Goto
  <2> QED BY <2>1, <2>2
<1> QED BY <1>1, <1>2, <1>3, <1>4, Steps DEF Telling

LEMMA WorkerMoves ==
    ASSUME TypeOK, Step, ~Restart, NEW x \in Analyses, pc'[x] # pc[x]
    PROVE  PostAnalyze(x) \/ Work(x)
<1> USE Kinds
<1>1. ASSUME NEW y \in Analyses, PostAnalyze(y) \/ Work(y), y # x
      PROVE  pc'[x] = pc[x]
  BY <1>1 DEF PostAnalyze, Work, Accept, Begin, Detach, CarryMarks, ShowReport, SaveRun,
              NameRun, Finish, Fail, Goto, TypeOK, ThreadsType
<1>2. ASSUME NEW r \in Requests, NEW i \in FindingIds,
             Explain(r, i) \/ \E v \in Verdicts \cup {None} : Mark(r, i, v)
      PROVE  pc'[x] = pc[x]
  BY <1>2 DEF Explain, Mark, Goto, TypeOK, ThreadsType
<1>3. ASSUME NEW r \in Requests, NEW y \in Analyses, OpenRun(r, y)
      PROVE  pc'[x] = pc[x]
  BY <1>3 DEF OpenRun, Goto, TypeOK, ThreadsType
<1>4. ASSUME NEW r \in Requests, Reset(r) \/ Serve(r)
      PROVE  pc'[x] = pc[x]
  BY <1>4 DEF Reset, Serve, CopyMarks, PutMarks, Persist, Aim, Dump, WriteBack, PutExplanation,
              NoExplanation, ShowRun, Attach, Answer, Goto, TypeOK, ThreadsType
<1> QED BY <1>1, <1>2, <1>3, <1>4 DEF Step

LEMMA RequestMoves ==
    ASSUME TypeOK, Step, ~Restart, NEW r \in Requests, pc'[r] # pc[r]
    PROVE  \/ \E i \in FindingIds : Explain(r, i) \/ \E v \in Verdicts \cup {None} : Mark(r, i, v)
           \/ \E x \in Analyses : OpenRun(r, x)
           \/ Reset(r) \/ Serve(r)
<1> USE Kinds
<1>1. ASSUME NEW x \in Analyses, PostAnalyze(x) \/ Work(x)
      PROVE  pc'[r] = pc[r]
  BY <1>1 DEF PostAnalyze, Work, Accept, Begin, Detach, CarryMarks, ShowReport, SaveRun,
              NameRun, Finish, Fail, Goto, TypeOK, ThreadsType
<1>2. ASSUME NEW q \in Requests, NEW i \in FindingIds, q # r,
             Explain(q, i) \/ \E v \in Verdicts \cup {None} : Mark(q, i, v)
      PROVE  pc'[r] = pc[r]
  BY <1>2 DEF Explain, Mark, Goto, TypeOK, ThreadsType
<1>3. ASSUME NEW q \in Requests, NEW y \in Analyses, q # r, OpenRun(q, y)
      PROVE  pc'[r] = pc[r]
  BY <1>3 DEF OpenRun, Goto, TypeOK, ThreadsType
<1>4. ASSUME NEW q \in Requests, q # r, Reset(q) \/ Serve(q)
      PROVE  pc'[r] = pc[r]
  BY <1>4 DEF Reset, Serve, CopyMarks, PutMarks, Persist, Aim, Dump, WriteBack, PutExplanation,
              NoExplanation, ShowRun, Attach, Answer, Goto, TypeOK, ThreadsType
<1> QED BY <1>1, <1>2, <1>3, <1>4 DEF Step

(* Nobody goes back to being unsent. *)
LEMMA Sent ==
    ASSUME TypeOK, Step, NEW a \in Actors, pc'[a] = "unsent"
    PROVE  pc[a] = "unsent"
<1>1. CASE Restart
  BY <1>1, RestartRests
<1>2. CASE a \in Analyses /\ ~Restart
  <2>1. SUFFICES ASSUME pc[a] # "unsent" PROVE FALSE
    OBVIOUS
  <2>2. PostAnalyze(a) \/ Work(a)
    BY <1>2, <2>1, WorkerMoves
  <2> QED BY <2>2 DEF PostAnalyze, Work, Accept, Begin, Detach, CarryMarks, ShowReport, SaveRun,
              NameRun, Finish, Fail, Goto, TypeOK, ThreadsType
<1>3. CASE a \in Requests /\ ~Restart
  <2>1. SUFFICES ASSUME pc[a] # "unsent" PROVE FALSE
    OBVIOUS
  <2>2. Serve(a)
    BY <1>3, <2>1, RequestMoves DEF Explain, Mark, OpenRun, Reset, Arrives
  <2> QED BY <2>2 DEF Serve, CopyMarks, PutMarks, Persist, Aim, Dump, WriteBack,
              PutExplanation, NoExplanation, ShowRun, Attach, Answer, Goto, TypeOK, ThreadsType
<1> QED BY <1>1, <1>2, <1>3 DEF Actors

-----------------------------------------------------------------------------
LEMMA DictsStep ==
    ASSUME TypeOK, DictsOwn, Step
    PROVE  DictsOwn'
<1> USE DEF TypeOK, GlobalsType, ThreadsType
<1>1. CASE Quiet \/ Pointing \/ Writing
  <2>1. dict' = dict
    BY <1>1, QuietChanges DEF Pointing, ShowReport, NameRun, Detach, ShowRun, Attach,
                              Writing, SaveRun, WriteBack
  <2> QED BY <2>1 DEF DictsOwn
<1>2. CASE \E x \in Analyses : CarryMarks(x)
  <2>1. PICK x \in Analyses : CarryMarks(x)
    BY <1>2
  <2>2. stage[x] \in Stages
    OBVIOUS
  <2> DEFINE new == Report(x, stage[x], NoMarks)
             told == [new EXCEPT !.marks = Carried(dict[state], new)]
  <2>3. told.run = x /\ told.stage = stage[x]
    BY DEF Report
  <2>4. dict' = [dict EXCEPT ![Published(x, stage[x])] = told]
    BY <2>1 DEF CarryMarks
  <2> HIDE DEF told
  <2> QED BY <2>2, <2>3, <2>4, DictKinds DEF DictsOwn
<1>3. CASE \E r \in Requests : PutMarks(r) \/ PutExplanation(r)
  <2>1. \A d \in Dicts : dict'[d].run = dict[d].run /\ dict'[d].stage = dict[d].stage
    BY <1>3, Annotated
  <2> QED BY <2>1, DictKinds DEF DictsOwn
<1>4. CASE \E r \in Requests : Reset(r)
  BY <1>4, DictKinds DEF Reset, DictsOwn
<1>5. CASE \E r \in Requests, x \in Analyses : OpenRun(r, x)
  BY <1>5, DictKinds DEF OpenRun, DictsOwn
<1>6. CASE Restart
  BY <1>6, RestartShows, DictKinds, ReportTypes DEF DictsOwn
<1> QED BY <1>1, <1>2, <1>3, <1>4, <1>5, <1>6, Steps DEF Telling

(* A worker that does not move keeps what it counts on. *)
LEMMA WorkerRests ==
    ASSUME TypeOK, Orderly, Step, ~Restart, NEW x \in Analyses, pc'[x] = pc[x]
    PROVE  WorkerOK(x)'
<1> USE Kinds DEF TypeOK, GlobalsType, ThreadsType
<1>0. WorkerOK(x) /\ stage'[x] = stage[x] /\ stage[x] \in Stages
  BY LocalMoves DEF Orderly
<1>1. ASSUME NEW s \in Stages, state # Published(x, s)
      PROVE  state' # Published(x, s)
  BY <1>1, StateMoves, DictKinds
<1>2. ASSUME pc[x] \in {"show", "save", "name"}
      PROVE  dict'[Published(x, stage[x])].run = dict[Published(x, stage[x])].run
  <2> DEFINE d == Published(x, stage[x])
  <2>1. CASE \E r \in Requests : Reset(r)
    <3>1. d # Idle
      BY <1>0, DictKinds
    <3> QED BY <2>1, <3>1 DEF Reset
  <2>2. CASE ~ \E r \in Requests : Reset(r)
    <3>1. /\ d \in Dicts
          /\ \A y \in Analyses : pc[y] = "carry" => d # Published(y, stage[y])
          /\ \A r \in Requests : pc[r] = "unsent" => d # Opened(r)
      BY <1>0, <1>2, DictKinds
    <3> HIDE DEF d
    <3>2. dict'[d].run = dict[d].run
      BY ONLY <2>2, <3>1, DictKeeps, TypeOK, Step, ~Restart
    <3> QED BY <3>2 DEF d
  <2> QED BY <2>1, <2>2
<1>3. ASSUME pc[x] \in Unsaved
      PROVE  history'[x] = None /\ file' # x /\ \A r \in Requests : local'[r].dest # x
  <2>1. history[x] = None /\ file # x /\ \A r \in Requests : local[r].dest # x
    BY <1>0, <1>3 DEF WorkerOK
  <2>2. history'[x] = None
    <3>1. \A y \in Analyses : pc[y] = "save" /\ pc' = [pc EXCEPT ![y] = "name"] => y # x
      OBVIOUS
    <3> QED BY <2>1, <3>1, HistoryMoves
  <2>3. file' # x
    <3>1. \A y \in Analyses : pc[y] = "name" => y # x
      BY <1>3 DEF Unsaved
    <3> QED BY <2>1, <3>1, FileMoves
  <2>4. \A r \in Requests : local'[r].dest # x
    BY <2>1, LocalMoves DEF Saved
  <2> QED BY <2>2, <2>3, <2>4
<1>4. "full" \in Stages
  BY DEF Stages
<1> QED BY <1>0, <1>1, <1>2, <1>3, <1>4 DEF WorkerOK

LEMMA WorkersStep ==
    ASSUME TypeOK, Orderly, Step, NEW x \in Analyses
    PROVE  WorkerOK(x)'
<1> USE Kinds DEF TypeOK, GlobalsType, ThreadsType
<1>0. WorkerOK(x) /\ stage[x] \in Stages
  BY DEF Orderly
<1>1. CASE Restart
  <2>1. pc'[x] \in Over \cup {"unsent"} /\ (pc'[x] = "unsent" => pc[x] = "unsent")
    BY <1>1, RestartRests
  <2>2. \A s \in Stages : state' # Published(x, s)
    BY <1>1, RestartShows, DictKinds
  <2>3. pc[x] = "unsent" => history'[x] = None /\ file' # x
    BY <1>0, <1>1, RestartShows DEF WorkerOK, Unsaved, Saved
  <2>4. \A r \in Requests : local'[r].dest # x
    BY <1>1 DEF Restart, Blank
  <2> QED BY <2>1, <2>2, <2>3, <2>4 DEF WorkerOK, Unsaved, Over
<1>2. CASE ~Restart /\ pc'[x] = pc[x]
  BY <1>2, WorkerRests
<1>a. ASSUME UNCHANGED <<state, history, local>>, file' \in {file, None}
      PROVE  /\ \A s \in Stages : state # Published(x, s) => state' # Published(x, s)
             /\ pc[x] \in Unsaved =>
                    history'[x] = None /\ file' # x /\ \A r \in Requests : local'[r].dest # x
  BY <1>0, <1>a DEF WorkerOK
<1>3. CASE PostAnalyze(x) \/ Accept(x) \/ Begin(x) \/ Finish(x) \/ Fail(x) \/ NameRun(x)
  <2>1. PICK label \in PCs :
            /\ pc'[x] = label
            /\ \/ /\ label \in {"accept", "begin", "analyzing"} 
                  /\ pc[x] \in {"unsent", "accept", "begin"}
                  /\ UNCHANGED <<state, file, history, local>>
               \/ label \in {"refused", "unstarted", "over", "finish"}
    BY <1>3 DEF PostAnalyze, Accept, Begin, Finish, Fail, NameRun, Arrives, At, Goto,
                PCs, Resting, Over
  <2> QED BY <1>0, <1>a, <2>1 DEF WorkerOK, Unsaved
<1>4. ASSUME NEW s \in Stages, Detach(x, s)
      PROVE  WorkerOK(x)'
  <2>1. /\ pc'[x] = "carry" /\ stage'[x] = s /\ file' = None
        /\ UNCHANGED <<state, history, local>>
        /\ pc[x] \in Unsaved
    BY <1>4 DEF Detach, At, Goto, Unsaved
  <2>2. state # Published(x, s)
    BY <1>0, <1>4 DEF WorkerOK, Detach, At
  <2> QED BY <1>a, <2>1, <2>2 DEF WorkerOK
<1>5. CASE CarryMarks(x)
  <2>1. /\ pc[x] = "carry" /\ pc'[x] = "show" /\ UNCHANGED <<state, file, history, local, stage>>
    BY <1>5 DEF CarryMarks, At, Goto
  <2>2. dict'[Published(x, stage[x])].run = x
    BY <1>5, DictKinds DEF CarryMarks, Report
  <2> QED BY <1>a, <2>1, <2>2 DEF WorkerOK, Unsaved
<1>6. CASE ShowReport(x)
  <2>1. /\ pc[x] = "show" /\ pc'[x] = IF stage[x] = "rules" THEN "explaining" ELSE "save"
        /\ state' = Published(x, stage[x]) /\ UNCHANGED <<dict, file, history, local, stage>>
    BY <1>6 DEF ShowReport, At, Goto
  <2>2. /\ dict[Published(x, stage[x])].run = x
        /\ history[x] = None /\ file # x /\ \A r \in Requests : local[r].dest # x
    BY <1>0, <2>1 DEF WorkerOK, Unsaved
  <2>3. CASE stage[x] = "rules"
    <3>1. state' # Published(x, "full")
      BY <2>1, <2>3, DictKinds DEF Stages
    <3> QED BY <2>1, <2>2, <2>3, <3>1 DEF WorkerOK
  <2>4. CASE stage[x] = "full"
    BY <2>1, <2>2, <2>4 DEF WorkerOK
  <2> QED BY <1>0, <2>3, <2>4 DEF Stages
<1>7. CASE SaveRun(x)
  <2>1. /\ pc[x] = "save" /\ pc'[x] \in {"name", "finish"} /\ UNCHANGED <<dict, stage>>
    BY <1>7 DEF SaveRun, At, Goto
  <2> QED BY <1>0, <2>1 DEF WorkerOK, Unsaved
<1> QED BY <1>1, <1>2, <1>3, <1>4, <1>5, <1>6, <1>7, WorkerMoves DEF Work

LEMMA OrderlyStep ==
    ASSUME TypeOK, Orderly, Step
    PROVE  Orderly'
<1>1. DictsOwn'
  BY DictsStep DEF Orderly
<1>2. ASSUME NEW r \in Requests, pc'[r] = "unsent"
      PROVE  local'[r] = Blank /\ state' # Opened(r)
  <2>1. CASE Restart
    BY <2>1, RestartShows, DictKinds DEF Restart
  <2>2. CASE ~Restart
    <3>1. pc[r] = "unsent"
      BY <1>2, <2>2, Sent, Kinds
    <3>2. local[r] = Blank /\ state # Opened(r)
      BY <3>1 DEF Orderly
    <3>3. \A q \in Requests : pc[q] = "show" => q # r
      BY <3>1
    <3>4. state' # Opened(r)
      BY <2>2, <3>2, <3>3, StateMoves, DictKinds DEF TypeOK, ThreadsType
    <3> QED BY <1>2, <2>2, <3>1, <3>2, <3>4, LocalMoves
  <2> QED BY <2>1, <2>2
<1>3. ASSUME NEW r \in Requests, pc'[r] = "show"
      PROVE  local'[r].dest # None
  <2>1. ~Restart
    BY <1>3, RestartRests, Kinds DEF Over
  <2>2. CASE pc[r] = "show"
    BY <1>3, <2>1, <2>2, LocalMoves DEF Orderly
  <2>3. CASE \E x \in Analyses : OpenRun(r, x)
    <3>1. PICK x \in Analyses : OpenRun(r, x)
      BY <2>3
    <3>2. local' = [local EXCEPT ![r] = [Blank EXCEPT !.dest = x]]
      BY <3>1 DEF OpenRun, Keep
    <3>3. [Blank EXCEPT !.dest = x].dest = x
      BY DEF Blank
    <3> QED BY <3>2, <3>3, Kinds DEF TypeOK, ThreadsType
  <2>4. CASE pc[r] # "show"
    <3>1. CASE Reset(r) \/ \E i \in FindingIds :
                   Explain(r, i) \/ \E v \in Verdicts \cup {None} : Mark(r, i, v)
      BY <1>3, <3>1, Kinds DEF Reset, Explain, Mark, Goto, TypeOK, ThreadsType
    <3>2. CASE Serve(r)
      BY <1>3, <3>2, Kinds DEF Serve, CopyMarks, PutMarks, Persist, Aim, Dump, WriteBack,
         PutExplanation, NoExplanation, ShowRun, Attach, Answer, Goto, TypeOK, ThreadsType
    <3> QED BY <1>3, <2>1, <2>3, <2>4, <3>1, <3>2, RequestMoves
  <2> QED BY <2>2, <2>4
<1> QED BY <1>1, <1>2, <1>3, WorkersStep DEF Orderly

-----------------------------------------------------------------------------
(***************************************************************************)
(* While a thread exchanges the run on display, or has read the file it is *)
(* to write and not yet STATE, and no other exchanges it, STATE stays, and *)
(* the current file stays or is nobody's.                                  *)
(***************************************************************************)
LEMMA Undisturbed ==
    ASSUME TypeOK, Orderly, Step, ~Restart, ~Cross, ~Cross',
           NEW a \in Actors, Exchanging(a) \/ pc[a] = "dump", pc'[a] = pc[a]
    PROVE  /\ state' = state /\ file' \in {file, None}
           /\ dict'[state].run = dict[state].run /\ dict'[state].stage = dict[state].stage
           /\ \/ dict'[state] = dict[state]
              \/ \E r \in Requests : pc'[r] = "persist" /\ pc[r] # "persist"
           /\ \A x \in Analyses : pc[x] = "save" => x = a
           /\ ~ \E r \in Requests : Reset(r)
<1> USE Kinds
<1>1. ASSUME NEW b \in Actors, Exchanging(b)
      PROVE  b = a
  BY <1>1 DEF Cross
<1>2. ASSUME NEW b \in Actors, Exchanging(b)'
      PROVE  b = a
  <2>1. Exchanging(a)' \/ pc'[a] = "dump"
    BY DEF Exchanging
  <2> QED BY <1>2, <2>1 DEF Cross
<1>3. \A r \in Requests : pc'[r] = "attach" => r = a
  BY <1>2 DEF Exchanging
<1>4. state' = state /\ ~ \E r \in Requests : Reset(r)
  <2>1. \A x \in Analyses : pc[x] = "show" /\ pc'[x] # "show" => FALSE
    BY <1>1 DEF Exchanging
  <2>2. \A r \in Requests : pc[r] # "attach" /\ pc'[r] = "attach" => FALSE
    BY <1>3
  <2> QED BY <2>1, <2>2, StateMoves
<1>5. file' \in {file, None}
  <2>1. \A x \in Analyses : pc[x] = "name" /\ pc'[x] = "finish" => FALSE
    BY <1>1 DEF Exchanging
  <2>2. \A r \in Requests : pc[r] = "attach" /\ pc'[r] = "answered" => FALSE
    BY <1>1 DEF Exchanging
  <2> QED BY <2>1, <2>2, FileMoves
<1>6. \A x \in Analyses : pc[x] \in {"carry", "save"} => x = a
  BY <1>1 DEF Exchanging
<1>7. state \in Dicts
  BY DEF TypeOK, GlobalsType
<1>8. \A x \in Analyses : pc[x] = "carry" => state # Published(x, stage[x])
  BY DEF Orderly, WorkerOK
<1>9. \A r \in Requests : pc[r] = "unsent" => state # Opened(r)
  BY DEF Orderly
<1> QED BY <1>4, <1>5, <1>6, <1>7, <1>8, <1>9, DictKeeps

(* As long as no exchanges have crossed they do not in the step either. *)
LEMMA Uncrossing ==
    ASSUME Next, IInv, ~crossed'
    PROVE  Uncrossed /\ ~Cross /\ ~Cross' /\ ~crossed
<1>1. ~crossed /\ ~Cross'
  BY DEF Next, Remember, IInv, TypeOK, ThreadsType
<1> QED BY <1>1 DEF IInv, Recorded

LEMMA HistoryStep ==
    ASSUME IInv, Next, ~crossed'
    PROVE  \A x \in Saved' : IsOf(history'[x], x)
<1> USE Kinds DEF IInv, TypeOK, GlobalsType, ThreadsType
<1>0. Uncrossed /\ Step
  BY Uncrossing DEF Next
<1>1. ASSUME NEW x \in Analyses, pc[x] = "save",
             history' = [history EXCEPT ![x] = dict[Published(x, "full")]]
      PROVE  \A y \in Saved' : IsOf(history'[y], y)
  <2>1. dict[Published(x, "full")].run = x
    BY <1>1 DEF Orderly, WorkerOK
  <2>2. dict[Published(x, "full")].stage = "full"
    BY <2>1 DEF Orderly, DictsOwn, Stages
  <2> QED BY <1>0, <1>1, <2>1, <2>2 DEF Uncrossed, Saved, IsOf
<1>2. ASSUME NEW r \in Requests, pc[r] = "write",
             history' = [history EXCEPT ![local[r].dest] = local[r].text]
      PROVE  \A y \in Saved' : IsOf(history'[y], y)
  <2>1. IsOf(local[r].text, local[r].dest)
    BY <1>0, <1>2 DEF Uncrossed, Holding
  <2> QED BY <1>0, <1>2, <2>1 DEF Uncrossed, Saved
<1>3. CASE history' = history
  BY <1>0, <1>3 DEF Uncrossed, Saved
<1> QED BY <1>0, <1>1, <1>2, <1>3, HistoryMoves

LEMMA PublishingStep ==
    ASSUME IInv, Next, ~crossed', NEW x \in Analyses
    PROVE  Publishing(x)'
<1> USE Kinds DEF IInv, TypeOK, GlobalsType, ThreadsType
<1>0. Publishing(x) /\ Step /\ Orderly /\ ~Cross /\ ~Cross'
  BY Uncrossing DEF Next, Uncrossed
<1>1. CASE Restart
  BY <1>1, RestartRests DEF Publishing, Over
<1>2. CASE ~Restart /\ pc'[x] = pc[x]
  <2>1. CASE Exchanging(x)
    <3>1. state' = state /\ file' \in {file, None}
      BY <1>0, <1>2, <2>1, Undisturbed
    <3> QED BY <1>0, <1>2, <3>1 DEF Publishing
  <2>2. CASE ~Exchanging(x)
    BY <1>2, <2>2 DEF Exchanging, Publishing
  <2> QED BY <2>1, <2>2
<1>3. ASSUME NEW s \in Stages, Detach(x, s)
      PROVE  Publishing(x)'
  BY <1>3 DEF Detach, Goto, Publishing
<1>4. CASE CarryMarks(x)
  BY <1>0, <1>4 DEF CarryMarks, At, Goto, Publishing
<1>5. CASE ShowReport(x)
  <2>1. stage[x] = "rules" \/ stage[x] = "full"
    BY DEF Stages
  <2> QED BY <1>0, <1>5, <2>1 DEF ShowReport, At, Goto, Publishing
<1>6. CASE SaveRun(x)
  BY <1>0, <1>6 DEF SaveRun, At, Goto, Publishing
<1>7. CASE PostAnalyze(x) \/ Accept(x) \/ Begin(x) \/ NameRun(x) \/ Finish(x) \/ Fail(x)
  BY <1>7 DEF PostAnalyze, Accept, Begin, NameRun, Finish, Fail, Goto, Publishing
<1> QED BY <1>0, <1>1, <1>2, <1>3, <1>4, <1>5, <1>6, <1>7, WorkerMoves DEF Work

LEMMA FileStep ==
    ASSUME IInv, Next, ~crossed'
    PROVE  FileIsOfState'
<1> USE Kinds DEF IInv, TypeOK, GlobalsType, ThreadsType
<1>0. Uncrossed /\ Step /\ Orderly /\ ~Cross /\ ~Cross'
  BY Uncrossing DEF Next
<1>1. CASE Restart
  <2>1. file' = None \/ (file' \in Saved /\ dict'[state'] = history[file'])
    BY <1>1, RestartShows
  <2> QED BY <1>0, <2>1 DEF Uncrossed, FileIsOfState
<1>2. CASE ~Restart /\ \E r \in Requests : pc'[r] = "attach"
  BY <1>2 DEF FileIsOfState
<1>3. ASSUME ~Restart, \A r \in Requests : pc'[r] # "attach", file' = file, state' = state,
             ~ \E r \in Requests : Reset(r), \A r \in Requests : pc[r] # "attach"
      PROVE  FileIsOfState'
  <2>1. /\ \A x \in Analyses : pc[x] = "carry" => state # Published(x, stage[x])
        /\ \A r \in Requests : pc[r] = "unsent" => state # Opened(r)
    BY DEF Orderly, WorkerOK
  <2>2. dict'[state].run = dict[state].run /\ dict'[state].stage = dict[state].stage
    BY <1>0, <1>3, <2>1, DictKeeps
  <2> QED BY <1>0, <1>3, <2>2 DEF Uncrossed, FileIsOfState, IsOf
<1>4. ASSUME NEW x \in Analyses, pc[x] = "name", file' = x, UNCHANGED <<state, dict>>
      PROVE  FileIsOfState'
  <2>1. state = Published(x, "full") /\ dict[Published(x, "full")].run = x
    BY <1>0, <1>4 DEF Uncrossed, Publishing, Orderly, WorkerOK
  <2>2. dict[state].stage = "full"
    BY <2>1 DEF Orderly, DictsOwn, Stages
  <2> QED BY <1>4, <2>1, <2>2 DEF FileIsOfState, IsOf
<1>5. ASSUME NEW r \in Requests, pc[r] = "attach", file' = local[r].dest, UNCHANGED <<state, dict>>
      PROVE  FileIsOfState'
  <2>1. local[r].dest = None \/ IsOf(dict[state], local[r].dest)
    BY <1>0, <1>5 DEF Uncrossed, Holding
  <2> QED BY <1>5, <2>1 DEF FileIsOfState
<1>6. CASE file' = None
  BY <1>6 DEF FileIsOfState
<1>7. ASSUME NEW x \in Analyses, pc[x] = "show", file' = file
      PROVE  FileIsOfState'
  BY <1>0, <1>7 DEF Uncrossed, Publishing, FileIsOfState
<1>8. CASE ~Restart /\ (\A r \in Requests : pc'[r] # "attach") /\ file' = file
  <2>1. CASE \E r \in Requests : pc[r] = "attach"
    <3>1. PICK r \in Requests : pc[r] = "attach"
      BY <2>1
    <3>2. Attach(r)
      BY <1>0, <1>8, <3>1, RequestMoves
      DEF Explain, Mark, OpenRun, Reset, Arrives, Serve, CopyMarks, PutMarks, Persist, Aim, Dump,
          WriteBack, PutExplanation, NoExplanation, ShowRun, At
    <3> QED BY <1>5, <3>1, <3>2 DEF Attach
  <2>2. CASE \A r \in Requests : pc[r] # "attach"
    BY <1>0, <1>3, <1>7, <1>8, <2>2, StateMoves
  <2> QED BY <2>1, <2>2
<1> QED BY <1>0, <1>1, <1>2, <1>4, <1>5, <1>6, <1>8, FileMoves

LEMMA HoldingStep ==
    ASSUME IInv, Next, ~crossed', NEW r \in Requests
    PROVE  Holding(r)'
<1> USE Kinds DEF IInv, TypeOK, GlobalsType, ThreadsType
<1>0. Uncrossed /\ Holding(r) /\ Step /\ Orderly /\ ~Cross /\ ~Cross'
  BY Uncrossing DEF Next, Uncrossed
<1>1. CASE Restart
  BY <1>1, RestartRests DEF Holding, Over
<1>2. CASE ~Restart /\ pc'[r] = pc[r]
  <2>0. local'[r] = local[r]
    BY <1>0, <1>2, LocalMoves
  <2>1. CASE pc[r] = "show"
    <3>1. dict'[Opened(r)].run = dict[Opened(r)].run /\ dict'[Opened(r)].stage = dict[Opened(r)].stage
      <4>1. CASE \E q \in Requests : Reset(q)
        BY <4>1, DictKinds DEF Reset
      <4>2. CASE ~ \E q \in Requests : Reset(q)
        <5>1. /\ Opened(r) \in Dicts
              /\ \A x \in Analyses : pc[x] = "carry" => Opened(r) # Published(x, stage[x])
              /\ \A q \in Requests : pc[q] = "unsent" => Opened(r) # Opened(q)
          BY <2>1, DictKinds
        <5> QED BY <1>0, <1>2, <4>2, <5>1, DictKeeps
      <4> QED BY <4>1, <4>2
    <3> QED BY <1>0, <1>2, <2>0, <2>1, <3>1 DEF Holding, IsOf
  <2>2. CASE pc[r] \in {"attach", "dump"}
    <3>1. /\ state' = state
          /\ dict'[state].run = dict[state].run /\ dict'[state].stage = dict[state].stage
      BY <1>0, <1>2, <2>2, Undisturbed DEF Exchanging
    <3> QED BY <1>0, <1>2, <2>0, <2>2, <3>1 DEF Holding, IsOf
  <2>3. CASE pc[r] \notin {"show", "attach", "dump"}
    BY <1>0, <1>2, <2>0, <2>3 DEF Holding
  <2> QED BY <2>1, <2>2, <2>3
<1>3. ASSUME NEW i \in FindingIds, Explain(r, i) \/ \E v \in Verdicts \cup {None} : Mark(r, i, v)
      PROVE  Holding(r)'
  BY <1>3 DEF Explain, Mark, Goto, Holding
<1>4. ASSUME NEW x \in Analyses, OpenRun(r, x)
      PROVE  Holding(r)'
  <2>1. /\ pc'[r] = "show" /\ x \in Saved /\ dict' = [dict EXCEPT ![Opened(r)] = history[x]]
        /\ local' = [local EXCEPT ![r] = [Blank EXCEPT !.dest = x]]
    BY <1>4 DEF OpenRun, Goto, Keep
  <2>2. local'[r].dest = x
    BY <2>1 DEF Blank
  <2>3. dict'[Opened(r)] = history[x]
    BY <2>1, DictKinds
  <2> QED BY <1>0, <2>1, <2>2, <2>3 DEF Holding, Uncrossed
<1>5. CASE Reset(r)
  <2>1. pc'[r] = "attach" /\ local'[r].dest = None
    BY <1>5 DEF Reset, Arrives, Goto, Orderly, Blank
  <2> QED BY <2>1 DEF Holding
<1>6. CASE Aim(r)
  <2>1. CASE file = None
    BY <1>6, <2>1 DEF Aim, Answer, Goto, Holding
  <2>2. CASE file # None
    <3>1. /\ pc[r] = "aim" /\ pc' = [pc EXCEPT ![r] = "dump"] /\ UNCHANGED <<state, dict>>
          /\ local' = [local EXCEPT ![r] = [Blank EXCEPT !.dest = file]]
      BY <1>6, <2>2 DEF Aim, At, Goto, Keep
    <3>2. local'[r].dest = file
      BY <3>1 DEF Blank
    <3>3. ASSUME NEW q \in Requests, pc[q] = "attach"
          PROVE  FALSE
      BY <1>0, <3>1, <3>3 DEF Cross, Exchanging
    <3>4. IsOf(dict[state], file)
      BY <1>0, <2>2, <3>3 DEF Uncrossed, FileIsOfState
    <3> QED BY <3>1, <3>2, <3>4 DEF Holding
  <2> QED BY <2>1, <2>2
<1>7. CASE Dump(r)
  <2>1. /\ pc[r] = "dump" /\ pc'[r] = "write"
        /\ local' = [local EXCEPT ![r] = [local[r] EXCEPT !.text = dict[state]]]
    BY <1>7 DEF Dump, At, Goto, Keep
  <2>2. local'[r].dest = local[r].dest /\ local'[r].text = dict[state]
    BY <2>1 DEF Local
  <2> QED BY <1>0, <2>1, <2>2 DEF Holding
<1>8. CASE ShowRun(r)
  BY <1>0, <1>8 DEF ShowRun, At, Goto, Holding
<1>9. CASE \/ CopyMarks(r) \/ PutMarks(r) \/ Persist(r) \/ WriteBack(r)
           \/ PutExplanation(r) \/ NoExplanation(r) \/ Attach(r)
  <2>1. pc'[r] \in {"put", "persist", "aim", "answered", "unsaved"}
    BY <1>9 DEF CopyMarks, PutMarks, Persist, WriteBack, PutExplanation, NoExplanation, Attach,
                Answer, Goto
  <2> QED BY <2>1 DEF Holding
<1> QED BY <1>0, <1>1, <1>2, <1>3, <1>4, <1>5, <1>6, <1>7, <1>8, <1>9, RequestMoves DEF Serve

LEMMA UncrossedStep ==
    ASSUME IInv, Next, ~crossed'
    PROVE  Uncrossed'
  BY HistoryStep, PublishingStep, FileStep, HoldingStep DEF Uncrossed

-----------------------------------------------------------------------------
(***************************************************************************)
(* While no two are at a file at once, what a thread knows to be in it     *)
(* stays there and stays on display.                                       *)
(***************************************************************************)
LEMMA Unclobbering ==
    ASSUME Next, IInv, ~crossed', ~clobbered'
    PROVE  Uncrossed /\ Unclobbered /\ ~Cross /\ ~Cross' /\ ~Clobber /\ ~Clobber'
<1>1. ~clobbered /\ ~Clobber'
  BY DEF Next, Remember, IInv, TypeOK, ThreadsType
<1> QED BY <1>1, Uncrossing DEF IInv, Recorded

(* The file of a run that is being opened, reopened or named, and the dict   *)
(* that is to be shown with it.                                              *)
LEMMA Unread ==
    ASSUME TypeOK, Orderly, Step, ~Restart, ~Cross, ~Clobber, ~Clobber',
           NEW a \in Actors, pc[a] \in {"name", "attach"} \/ (a \in Requests /\ pc[a] = "show"),
           pc'[a] = pc[a]
    PROVE  /\ \A r \in Requests : ~(pc'[r] = "persist" /\ pc[r] # "persist")
           /\ \A x \in Analyses : history'[x] = history[x] \/ pc[x] = "save"
<1> USE Kinds DEF TypeOK, GlobalsType, ThreadsType
<1>1. ASSUME NEW r \in Requests, Saving(r) PROVE FALSE
  <2>1. r # a
    BY <1>1 DEF Saving
  <2> QED BY <1>1, <2>1 DEF Clobber
<1>2. ASSUME NEW r \in Requests, Saving(r)' PROVE FALSE
  <2>1. r # a
    BY <1>2 DEF Saving
  <2> QED BY <1>2, <2>1 DEF Clobber
<1>3. \A r \in Requests : pc'[r] # "persist" /\ pc[r] # "write"
  BY <1>1, <1>2 DEF Saving
<1> QED BY <1>3, HistoryMoves

LEMMA SyncedStep ==
    ASSUME IInv, Next, ~crossed', ~clobbered'
    PROVE  Synced'
<1> USE Kinds DEF IInv, TypeOK, GlobalsType, ThreadsType
<1>0. /\ Uncrossed /\ Unclobbered /\ Step /\ Orderly
      /\ ~Cross /\ ~Cross' /\ ~Clobber /\ ~Clobber'
  BY Unclobbering DEF Next
<1>1. CASE Restart
  BY <1>1, RestartShows DEF Synced
<1>2. CASE (\E r \in Requests : pc'[r] \in Behind) \/ file' = None
  BY <1>2 DEF Synced
<1>3. ASSUME NEW x \in Analyses, pc[x] = "name", file' = x, UNCHANGED <<state, dict, history>>
      PROVE  Synced'
  BY <1>0, <1>3 DEF Unclobbered, Synced
<1>4. ASSUME NEW r \in Requests, pc[r] = "attach", file' = local[r].dest,
             UNCHANGED <<state, dict, history>>
      PROVE  Synced'
  <2>1. InStep(r)
    BY <1>0 DEF Unclobbered
  <2> QED BY <1>4, <2>1 DEF InStep, Synced
<1>5. ASSUME ~Restart, \A r \in Requests : pc'[r] \notin Behind, file' # None, file' = file
      PROVE  Synced'
  <2>1. ASSUME NEW r \in Requests, pc[r] \in {"persist", "aim", "dump", "attach", "unsaved"}
        PROVE  Attach(r)
    <3>1. Serve(r)
      BY <1>0, <1>5, <2>1, RequestMoves DEF Behind, Explain, Mark, OpenRun, Reset, Arrives
    <3>2. pc[r] # "unsaved"
      BY <2>1, <3>1 DEF Serve, CopyMarks, PutMarks, Persist, Aim, Dump, WriteBack,
             PutExplanation, NoExplanation, ShowRun, Attach, At
    <3>3. pc[r] = "attach" => Attach(r)
      BY <3>1 DEF Serve, CopyMarks, PutMarks, Persist, Aim, Dump, WriteBack,
             PutExplanation, NoExplanation, ShowRun, At
    <3>4. pc[r] # "dump"
      BY <1>5, <3>1 DEF Serve, CopyMarks, PutMarks, Persist, Aim, Dump, WriteBack,
             PutExplanation, NoExplanation, ShowRun, Attach, At, Goto, Behind
    <3>5. pc[r] # "persist"
      BY <1>5, <3>1 DEF Serve, CopyMarks, PutMarks, Persist, Aim, Dump, WriteBack,
             PutExplanation, NoExplanation, ShowRun, Attach, At, Goto, Behind
    <3>6. pc[r] # "aim"
      BY <1>5, <3>1 DEF Serve, CopyMarks, PutMarks, Persist, Aim, Dump, WriteBack,
             PutExplanation, NoExplanation, ShowRun, Attach, At, Goto, Behind
    <3> QED BY <2>1, <3>2, <3>3, <3>4, <3>5, <3>6
  <2>2. CASE \E r \in Requests : pc[r] \in {"persist", "aim", "dump", "attach", "unsaved"}
    BY <1>4, <2>1, <2>2 DEF Attach, At
  <2>3. CASE \E r \in Requests : pc[r] = "write"
    <3>1. PICK r \in Requests : pc[r] = "write"
      BY <2>3
    <3>2. Serve(r)
      BY <1>0, <1>5, <3>1, RequestMoves DEF Behind, Explain, Mark, OpenRun, Reset, Arrives
    <3>3. WriteBack(r)
      BY <3>1, <3>2 DEF Serve, CopyMarks, PutMarks, Persist, Aim, Dump,
             PutExplanation, NoExplanation, ShowRun, Attach, At
    <3>4. pc'[r] # "unsaved"
      BY <1>5 DEF Behind
    <3>5. /\ history' = [history EXCEPT ![local[r].dest] = local[r].text]
          /\ UNCHANGED <<state, dict>>
      BY <3>1, <3>3, <3>4 DEF WriteBack, Answer, Goto
    <3>6. InStep(r)
      BY <1>0 DEF Unclobbered
    <3>7. file = local[r].dest /\ local[r].text = dict[state]
      BY <1>5, <3>1, <3>6 DEF InStep
    <3> QED BY <1>5, <3>5, <3>7 DEF Synced
  <2>4. CASE \A r \in Requests : pc[r] \notin Behind
    <3>1. history[file] = dict[state]
      BY <1>0, <1>5, <2>4 DEF Unclobbered, Synced
    <3>2. \A x \in Analyses : pc[x] \notin {"show", "save"}
      BY <1>0, <1>5 DEF Uncrossed, Publishing
    <3>3. history' = history
      BY <1>0, <2>4, <3>2, HistoryMoves DEF Behind
    <3>4. state' = state /\ ~ \E r \in Requests : Reset(r)
      BY <1>0, <1>5, <3>2, StateMoves DEF Behind
    <3>5. /\ \A x \in Analyses : pc[x] = "carry" => state # Published(x, stage[x])
          /\ \A r \in Requests : pc[r] = "unsent" => state # Opened(r)
      BY DEF Orderly, WorkerOK
    <3>6. dict'[state] = dict[state]
      BY <1>0, <1>5, <3>4, <3>5, DictKeeps DEF Behind
    <3> QED BY <1>5, <3>1, <3>3, <3>4, <3>6 DEF Synced
  <2> QED BY <2>2, <2>3, <2>4 DEF Behind
<1> QED BY <1>0, <1>1, <1>2, <1>3, <1>4, <1>5, FileMoves

LEMMA NamingStep ==
    ASSUME IInv, Next, ~crossed', ~clobbered', NEW x \in Analyses, pc'[x] = "name"
    PROVE  history'[x] = dict'[state']
<1> USE Kinds DEF IInv, TypeOK, GlobalsType, ThreadsType
<1>0. /\ Uncrossed /\ Unclobbered /\ Step /\ Orderly
      /\ ~Cross /\ ~Cross' /\ ~Clobber /\ ~Clobber'
  BY Unclobbering DEF Next
<1>1. ~Restart
  BY RestartRests DEF Over
<1>2. CASE pc[x] = "name"
  <2>1. state' = state /\ (dict'[state] = dict[state] \/ \E r \in Requests :
            pc'[r] = "persist" /\ pc[r] # "persist") /\ \A y \in Analyses : pc[y] = "save" => y = x
    BY <1>0, <1>1, <1>2, Undisturbed DEF Exchanging
  <2>2. /\ \A r \in Requests : ~(pc'[r] = "persist" /\ pc[r] # "persist")
        /\ \A y \in Analyses : history'[y] = history[y] \/ pc[y] = "save"
    BY <1>0, <1>1, <1>2, Unread
  <2> QED BY <1>0, <1>2, <2>1, <2>2 DEF Unclobbered
<1>3. CASE pc[x] # "name"
  <2>1. SaveRun(x)
    BY <1>0, <1>1, <1>3, WorkerMoves
    DEF PostAnalyze, Work, Accept, Begin, Detach, CarryMarks, ShowReport, NameRun, Finish, Fail, Goto
  <2>2. state = Published(x, "full")
    BY <1>0, <2>1 DEF SaveRun, At, Uncrossed, Publishing
  <2>3. history' = [history EXCEPT ![x] = dict[Published(x, "full")]] /\ UNCHANGED <<state, dict>>
    BY <2>1 DEF SaveRun, Goto
  <2> QED BY <2>2, <2>3
<1> QED BY <1>2, <1>3

LEMMA InStepStep ==
    ASSUME IInv, Next, ~crossed', ~clobbered', NEW r \in Requests
    PROVE  InStep(r)'
<1> USE Kinds DEF IInv, TypeOK, GlobalsType, ThreadsType
<1>0. /\ Uncrossed /\ Unclobbered /\ InStep(r) /\ Step /\ Orderly
      /\ ~Cross /\ ~Cross' /\ ~Clobber /\ ~Clobber'
  BY Unclobbering DEF Next, Unclobbered
<1>1. CASE Restart
  BY <1>1, RestartRests DEF InStep, Over
<1>2. CASE ~Restart /\ pc'[r] = pc[r]
  <2>0. local'[r] = local[r]
    BY <1>0, <1>2, LocalMoves
  <2>1. CASE pc[r] = "show"
    <3>1. history'[local[r].dest] = history[local[r].dest]
      <4>0. local[r].dest \in Analyses
        BY <2>1 DEF Orderly, Local
      <4>1. \A x \in Analyses : pc[x] = "save" => local[r].dest # x
        BY DEF Orderly, WorkerOK, Unsaved
      <4>2. \A q \in Requests : pc[q] # "write"
        BY <1>0, <2>1 DEF Clobber, Saving
      <4> QED BY <1>0, <4>0, <4>1, <4>2, HistoryMoves
    <3>2. dict'[Opened(r)] = dict[Opened(r)]
      <4>1. CASE \E q \in Requests : Reset(q)
        BY <4>1, DictKinds DEF Reset
      <4>2. CASE ~ \E q \in Requests : Reset(q)
        <5>1. /\ Opened(r) \in Dicts
              /\ \A x \in Analyses : pc[x] = "carry" => Opened(r) # Published(x, stage[x])
              /\ \A q \in Requests : pc[q] = "unsent" => Opened(r) # Opened(q)
          BY <2>1, DictKinds
        <5>2. \A q \in Requests : ~(pc'[q] = "persist" /\ pc[q] # "persist")
          BY <1>0, <1>2, <2>1, Unread
        <5> QED BY <1>0, <1>2, <4>2, <5>1, <5>2, DictKeeps
      <4> QED BY <4>1, <4>2
    <3> QED BY <1>0, <1>2, <2>0, <2>1, <3>1, <3>2 DEF InStep
  <2>2. CASE pc[r] = "attach"
    <3>1. /\ state' = state
          /\ dict'[state] = dict[state] \/ \E q \in Requests : pc'[q] = "persist" /\ pc[q] # "persist"
          /\ \A x \in Analyses : pc[x] = "save" => x = r
      BY <1>0, <1>2, <2>2, Undisturbed DEF Exchanging
    <3>2. /\ \A q \in Requests : ~(pc'[q] = "persist" /\ pc[q] # "persist")
          /\ \A x \in Analyses : history'[x] = history[x] \/ pc[x] = "save"
      BY <1>0, <1>2, <2>2, Unread
    <3>3. local[r].dest \in Analyses \cup {None}
      BY DEF Local
    <3> QED BY <1>0, <1>2, <2>0, <2>2, <3>1, <3>2, <3>3 DEF InStep
  <2>3. CASE pc[r] = "dump"
    <3>1. file' \in {file, None}
      BY <1>0, <1>2, <2>3, Undisturbed
    <3> QED BY <1>0, <1>2, <2>0, <2>3, <3>1 DEF InStep
  <2>4. CASE pc[r] = "write"
    <3>1. \A q \in Requests : pc'[q] # "attach" /\ pc[q] # "attach"
      BY <1>0, <1>2, <2>4 DEF Clobber, Saving
    <3>2. \A x \in Analyses : pc[x] # "name"
      BY <1>0, <2>4 DEF Clobber, Saving
    <3>3. file' \in {file, None}
      BY <1>0, <1>2, <3>1, <3>2, FileMoves
    <3>4. CASE file = None \/ file' = None
      BY <1>2, <2>4, <3>3, <3>4 DEF InStep
    <3>5. CASE file # None /\ file' # None
      <4>1. \A x \in Analyses : pc[x] # "show"
        BY <1>0, <3>5 DEF Uncrossed, Publishing
      <4>2. state' = state /\ ~ \E q \in Requests : Reset(q)
        BY <1>0, <1>2, <3>1, <4>1, StateMoves
      <4>3. /\ \A x \in Analyses : pc[x] = "carry" => state # Published(x, stage[x])
            /\ \A q \in Requests : pc[q] = "unsent" => state # Opened(q)
        BY DEF Orderly, WorkerOK
      <4>4. \A q \in Requests : pc'[q] = "persist" => pc[q] = "persist"
        BY <1>0, <1>2, <2>4 DEF Clobber, Saving
      <4>5. dict'[state] = dict[state]
        BY <1>0, <1>2, <4>2, <4>3, <4>4, DictKeeps
      <4> QED BY <1>0, <1>2, <2>0, <2>4, <3>3, <3>5, <4>2, <4>5 DEF InStep
    <3> QED BY <3>4, <3>5
  <2>5. CASE pc[r] \notin {"show", "attach", "dump", "write"}
    BY <1>2, <2>5 DEF InStep
  <2> QED BY <2>1, <2>2, <2>3, <2>4, <2>5
<1>3. ASSUME NEW i \in FindingIds, Explain(r, i) \/ \E v \in Verdicts \cup {None} : Mark(r, i, v)
      PROVE  InStep(r)'
  BY <1>3 DEF Explain, Mark, Goto, InStep
<1>4. ASSUME NEW x \in Analyses, OpenRun(r, x)
      PROVE  InStep(r)'
  <2>1. /\ pc'[r] = "show" /\ dict' = [dict EXCEPT ![Opened(r)] = history[x]]
        /\ local' = [local EXCEPT ![r] = [Blank EXCEPT !.dest = x]] /\ history' = history
    BY <1>4 DEF OpenRun, Goto, Keep
  <2>2. local'[r].dest = x
    BY <2>1 DEF Blank
  <2>3. dict'[Opened(r)] = history[x]
    BY <2>1, DictKinds
  <2> QED BY <2>1, <2>2, <2>3 DEF InStep
<1>5. CASE Reset(r)
  <2>1. pc'[r] = "attach" /\ local'[r].dest = None
    BY <1>5 DEF Reset, Arrives, Goto, Orderly, Blank
  <2> QED BY <2>1 DEF InStep
<1>6. CASE Aim(r)
  <2>1. CASE file = None
    BY <1>6, <2>1 DEF Aim, Answer, Goto, InStep
  <2>2. CASE file # None
    <3>1. /\ pc'[r] = "dump" /\ file' = file
          /\ local' = [local EXCEPT ![r] = [Blank EXCEPT !.dest = file]]
      BY <1>6, <2>2 DEF Aim, Goto, Keep
    <3>2. local'[r].dest = file
      BY <3>1 DEF Blank
    <3> QED BY <3>1, <3>2 DEF InStep
  <2> QED BY <2>1, <2>2
<1>7. CASE Dump(r)
  <2>1. /\ pc[r] = "dump" /\ pc'[r] = "write" /\ UNCHANGED <<state, file, dict>>
        /\ local' = [local EXCEPT ![r] = [local[r] EXCEPT !.text = dict[state]]]
    BY <1>7 DEF Dump, At, Goto, Keep
  <2>2. local'[r].dest = local[r].dest /\ local'[r].text = dict[state]
    BY <2>1 DEF Local
  <2> QED BY <1>0, <2>1, <2>2 DEF InStep
<1>8. CASE ShowRun(r)
  BY <1>0, <1>8 DEF ShowRun, At, Goto, InStep
<1>9. CASE \/ CopyMarks(r) \/ PutMarks(r) \/ Persist(r) \/ WriteBack(r)
           \/ PutExplanation(r) \/ NoExplanation(r) \/ Attach(r)
  <2>1. pc'[r] \in {"put", "persist", "aim", "answered", "unsaved"}
    BY <1>9 DEF CopyMarks, PutMarks, Persist, WriteBack, PutExplanation, NoExplanation, Attach,
                Answer, Goto
  <2> QED BY <2>1 DEF InStep
<1> QED BY <1>0, <1>1, <1>2, <1>3, <1>4, <1>5, <1>6, <1>7, <1>8, <1>9, RequestMoves DEF Serve

LEMMA UnclobberedStep ==
    ASSUME IInv, Next, ~crossed', ~clobbered'
    PROVE  Unclobbered'
  BY SyncedStep, NamingStep, InStepStep DEF Unclobbered

-----------------------------------------------------------------------------
(***************************************************************************)
(* While the display does not change under a mark, the mark lands on the   *)
(* finding that it was given for.                                          *)
(***************************************************************************)
LEMMA Unstraying ==
    ASSUME Next, IInv, ~strayed'
    PROVE  Unstrayed /\ ~Stray /\ ~Stray'
<1>1. ~strayed /\ ~Stray'
  BY DEF Next, Remember, IInv, TypeOK, ThreadsType
<1> QED BY <1>1 DEF IInv, Recorded

LEMMA DictsMeant ==
    ASSUME IInv, Next, ~strayed'
    PROVE  (\A d \in Dicts : Meant(dict[d]))'
<1> USE Kinds DEF IInv, TypeOK, GlobalsType, ThreadsType
<1>0. Unstrayed /\ ~Stray /\ Step
  BY Unstraying DEF Next
<1>1. log' = log /\ meant \subseteq meant'
  BY <1>0, NothingForgotten
<1>a. ASSUME \A d \in Dicts : Meant(dict'[d])
      PROVE  (\A d \in Dicts : Meant(dict[d]))'
  BY ONLY <1>1, <1>a DEF Meant, MarksMeant, FindingOf
<1>b. (\A d \in Dicts : Meant(dict[d])) /\ (\A x \in Saved : Meant(history[x])) /\ Meant(Nothing)
  BY <1>0, ReportTypes DEF Unstrayed, Meant, MarksMeant
<1>2. CASE Quiet \/ Pointing \/ Writing
  <2>1. dict' = dict
    BY <1>2, QuietChanges DEF Pointing, ShowReport, NameRun, Detach, ShowRun, Attach,
                              Writing, SaveRun, WriteBack
  <2> QED BY <1>a, <1>b, <2>1
<1>3. ASSUME NEW x \in Analyses, CarryMarks(x)
      PROVE  \A d \in Dicts : Meant(dict'[d])
  <2> DEFINE new == Report(x, stage[x], NoMarks)
             told == [new EXCEPT !.marks = Carried(dict[state], new)]
  <2>1. dict' = [dict EXCEPT ![Published(x, stage[x])] = told]
    BY <1>3 DEF CarryMarks
  <2>2. /\ told.marks = Carried(dict[state], new)
        /\ told.run = new.run /\ told.stage = new.stage
    BY DEF Report
  <2>3. ASSUME NEW i \in FindingIds, told.run # None, told.marks[i] # None
        PROVE  <<FindingOf(told, i), told.marks[i]>> \in meant
    <3>1. /\ dict[state].run # None /\ FindingOf(dict[state], i) = FindingOf(new, i)
          /\ told.marks[i] = dict[state].marks[i]
      BY <2>2, <2>3 DEF Carried
    <3>2. FindingOf(told, i) = FindingOf(new, i)
      BY <2>2 DEF FindingOf
    <3>3. <<FindingOf(dict[state], i), dict[state].marks[i]>> \in meant
      BY <1>b, <2>3, <3>1 DEF Meant, MarksMeant
    <3> QED BY <3>1, <3>2, <3>3
  <2>4. Meant(told)
    BY <2>3 DEF Meant, MarksMeant
  <2> HIDE DEF told
  <2> QED BY <1>b, <2>1, <2>4
<1>4. ASSUME NEW r \in Requests, PutMarks(r)
      PROVE  \A d \in Dicts : Meant(dict'[d])
  <2> DEFINE marked == [dict[state] EXCEPT !.marks = local[r].marks]
  <2>1. dict' = [dict EXCEPT ![state] = marked] /\ pc[r] = "put"
    BY <1>4 DEF PutMarks, At
  <2>2. /\ marked.marks = local[r].marks
        /\ marked.run = dict[state].run /\ marked.stage = dict[state].stage
    BY DEF Content
  <2>3. MarksMeant(dict[state], local[r].marks)
    BY <1>0, <2>1 DEF Unstrayed
  <2> HIDE DEF marked
  <2>4. Meant(marked)
    BY ONLY <2>2, <2>3 DEF Meant, MarksMeant, FindingOf
  <2> QED BY <1>b, <2>1, <2>4
<1>5. ASSUME NEW r \in Requests, PutExplanation(r)
      PROVE  \A d \in Dicts : Meant(dict'[d])
  <2>1. \A d \in Dicts : /\ dict'[d].run = dict[d].run /\ dict'[d].stage = dict[d].stage
                         /\ dict'[d].marks = dict[d].marks
    BY <1>5 DEF PutExplanation, Content
  <2> QED BY ONLY <1>b, <2>1 DEF Meant, MarksMeant, FindingOf
<1>6. ASSUME NEW r \in Requests, Reset(r)
      PROVE  \A d \in Dicts : Meant(dict'[d])
  BY <1>b, <1>6 DEF Reset
<1>7. ASSUME NEW r \in Requests, NEW x \in Analyses, OpenRun(r, x)
      PROVE  \A d \in Dicts : Meant(dict'[d])
  BY <1>b, <1>7 DEF OpenRun
<1>8. CASE Restart
  BY <1>a, <1>b, <1>8, RestartShows
<1> QED BY <1>0, <1>a, <1>2, <1>3, <1>4, <1>5, <1>6, <1>7, <1>8, Steps DEF Telling

LEMMA FilesMeant ==
    ASSUME IInv, Next, ~strayed'
    PROVE  (\A x \in Saved : Meant(history[x]))'
<1> USE Kinds DEF IInv, TypeOK, GlobalsType, ThreadsType
<1>0. Unstrayed /\ Step
  BY Unstraying DEF Next
<1>1. log' = log /\ meant \subseteq meant'
  BY <1>0, NothingForgotten
<1>a. ASSUME \A x \in Analyses : history'[x] # None => Meant(history'[x])
      PROVE  (\A x \in Saved : Meant(history[x]))'
  BY ONLY <1>1, <1>a DEF Meant, MarksMeant, FindingOf, Saved
<1>b. /\ \A d \in Dicts : Meant(dict[d])
      /\ \A x \in Analyses : history[x] # None => Meant(history[x])
      /\ \A r \in Requests : Meant(local[r].text)
  BY <1>0 DEF Unstrayed, Saved
<1>2. CASE history' = history
  BY <1>a, <1>b, <1>2
<1>3. ASSUME NEW x \in Analyses, history' = [history EXCEPT ![x] = dict[Published(x, "full")]]
      PROVE  \A y \in Analyses : history'[y] # None => Meant(history'[y])
  BY <1>b, <1>3, DictKinds DEF Stages
<1>4. ASSUME NEW r \in Requests, history' = [history EXCEPT ![local[r].dest] = local[r].text]
      PROVE  \A y \in Analyses : history'[y] # None => Meant(history'[y])
  BY <1>b, <1>4
<1> QED BY <1>0, <1>a, <1>2, <1>3, <1>4, HistoryMoves

(* What a request is about to store. *)
Marking(r) ==
    /\ Meant(local[r].text)
    /\ pc[r] = "copy" /\ dict[state].run # None /\ local[r].verdict # None =>
          <<FindingOf(dict[state], local[r].id), local[r].verdict>> \in meant
    /\ pc[r] = "put" => MarksMeant(dict[state], local[r].marks)

LEMMA MarkingStep ==
    ASSUME IInv, Next, ~strayed', NEW r \in Requests
    PROVE  Marking(r)'
<1> USE Kinds DEF IInv, TypeOK, GlobalsType, ThreadsType
<1>0. Unstrayed /\ Marking(r) /\ ~Stray /\ ~Stray' /\ Step /\ Orderly
  BY Unstraying DEF Next, Unstrayed, Marking
<1>1. log' = log /\ meant \subseteq meant'
  BY <1>0, NothingForgotten
<1>a. ASSUME Meant(local'[r].text),
             pc'[r] = "copy" /\ dict'[state'].run # None /\ local'[r].verdict # None =>
                 <<FindingOf(dict'[state'], local'[r].id), local'[r].verdict>> \in meant',
             pc'[r] = "put" => MarksMeant(dict'[state'], local'[r].marks)
      PROVE  Marking(r)'
  BY ONLY <1>1, <1>a DEF Marking, Meant, MarksMeant, FindingOf
<1>2. Meant(Blank.text) /\ Meant(local[r].text)
  BY <1>0, ReportTypes DEF Blank, Meant, MarksMeant, Marking
<1>b. ASSUME pc'[r] \notin {"copy", "put"}, local'[r].text \in {local[r].text, Blank.text}
      PROVE  Marking(r)'
  BY <1>2, <1>a, <1>b
<1>3. CASE Restart
  BY <1>b, <1>3, RestartRests DEF Restart, Over
<1>4. CASE ~Restart /\ pc'[r] = pc[r]
  <2>1. local'[r] = local[r]
    BY <1>0, <1>4, LocalMoves
  <2>2. CASE pc[r] \notin {"copy", "put"}
    BY <1>b, <1>4, <2>1, <2>2
  <2>3. CASE pc[r] \in {"copy", "put"}
    <3>1. state' = state
      BY <1>0, <1>4, <2>1, <2>3 DEF Stray
    <3>2. CASE \E q \in Requests : Reset(q)
      <4>1. state = Idle /\ dict' = [dict EXCEPT ![Idle] = Nothing]
        BY <3>1, <3>2 DEF Reset
      <4>2. dict'[state'].run = None
        BY <3>1, <4>1, ReportTypes
      <4>3. MarksMeant(dict'[state'], local'[r].marks)
        BY <4>2 DEF MarksMeant
      <4> QED BY <1>2, <1>a, <2>1, <4>2, <4>3
    <3>3. CASE ~ \E q \in Requests : Reset(q)
      <4>1. /\ \A x \in Analyses : pc[x] = "carry" => state # Published(x, stage[x])
            /\ \A q \in Requests : pc[q] = "unsent" => state # Opened(q)
        BY <1>0 DEF Orderly, WorkerOK
      <4>2. dict'[state].run = dict[state].run /\ dict'[state].stage = dict[state].stage
        BY <1>0, <1>4, <3>3, <4>1, DictKeeps
      <4>3. \A i : FindingOf(dict'[state], i) = FindingOf(dict[state], i)
        BY <4>2 DEF FindingOf
      <4>4. pc[r] = "put" => MarksMeant(dict'[state], local[r].marks)
        BY <1>0, <4>2, <4>3 DEF Marking, MarksMeant
      <4>5. pc[r] = "copy" /\ dict[state].run # None /\ local[r].verdict # None =>
                <<FindingOf(dict'[state], local[r].id), local[r].verdict>> \in meant'
        BY <1>0, <1>1, <4>3 DEF Marking
      <4> QED BY <1>2, <1>4, <1>a, <2>1, <3>1, <4>2, <4>4, <4>5
    <3> QED BY <3>2, <3>3
  <2> QED BY <2>2, <2>3
<1>5. ASSUME NEW i \in FindingIds, NEW v \in Verdicts \cup {None}, Mark(r, i, v)
      PROVE  Marking(r)'
  <2> DEFINE new == [Blank EXCEPT !.id = i, !.ref = state, !.verdict = v]
  <2>1. /\ pc'[r] = "copy" /\ state' = state /\ dict' = dict
        /\ local' = [local EXCEPT ![r] = new]
        /\ v # None => <<FindingOf(dict[state], i), v>> \in meant'
    BY <1>5 DEF Mark, Goto, Keep
  <2>2. new.id = i /\ new.verdict = v /\ new.text = Blank.text
    BY DEF Blank
  <2> HIDE DEF new
  <2>3. local'[r] = new
    BY <2>1
  <2> QED BY <1>2, <1>a, <2>1, <2>2, <2>3
<1>6. ASSUME NEW i \in FindingIds, Explain(r, i)
      PROVE  Marking(r)'
  <2>1. [Blank EXCEPT !.id = i, !.ref = state].text = Blank.text
    BY DEF Blank
  <2> HIDE DEF Blank
  <2> QED BY <1>b, <1>6, <2>1 DEF Explain, Goto, Keep
<1>7. ASSUME NEW x \in Analyses, OpenRun(r, x)
      PROVE  Marking(r)'
  <2>1. [Blank EXCEPT !.dest = x].text = Blank.text
    BY DEF Blank
  <2> HIDE DEF Blank
  <2> QED BY <1>b, <1>7, <2>1 DEF OpenRun, Goto, Keep
<1>8. CASE CopyMarks(r)
  <2> DEFINE marks == [dict[state].marks EXCEPT ![local[r].id] = local[r].verdict]
             new == [local[r] EXCEPT !.marks = marks]
  <2>1. /\ pc[r] = "copy" /\ pc'[r] = "put" /\ UNCHANGED <<state, dict>>
        /\ local' = [local EXCEPT ![r] = new]
    BY <1>8 DEF CopyMarks, At, Goto, Keep
  <2>2. new.marks = marks /\ new.text = local[r].text
    BY DEF Local
  <2>3. ASSUME NEW i \in FindingIds, dict[state].run # None, marks[i] # None
        PROVE  <<FindingOf(dict[state], i), marks[i]>> \in meant
    <3>1. CASE i = local[r].id
      <4>1. marks[i] = local[r].verdict
        BY <3>1 DEF Content
      <4> QED BY <1>0, <2>1, <2>3, <3>1, <4>1 DEF Marking
    <3>2. CASE i # local[r].id
      <4>1. marks[i] = dict[state].marks[i]
        BY <3>2 DEF Content
      <4> QED BY <1>0, <2>3, <4>1 DEF Unstrayed, Meant, MarksMeant
    <3> QED BY <3>1, <3>2
  <2>4. MarksMeant(dict[state], marks)
    BY <2>3 DEF MarksMeant
  <2> HIDE DEF marks, new
  <2>5. local'[r] = new
    BY <2>1
  <2> QED BY <1>2, <1>a, <2>1, <2>2, <2>4, <2>5
<1>9. CASE Dump(r)
  <2> DEFINE new == [local[r] EXCEPT !.text = dict[state]]
  <2>1. pc'[r] = "write" /\ local' = [local EXCEPT ![r] = new]
    BY <1>9 DEF Dump, Goto, Keep
  <2>2. new.text = dict[state]
    BY DEF Local
  <2>3. Meant(dict[state])
    BY <1>0 DEF Unstrayed
  <2> HIDE DEF new
  <2>4. local'[r] = new
    BY <2>1
  <2> QED BY <1>a, <2>1, <2>2, <2>3, <2>4
<1>10. CASE Aim(r)
  <2>1. [Blank EXCEPT !.dest = file].text = Blank.text
    BY DEF Blank
  <2> HIDE DEF Blank
  <2> QED BY <1>b, <1>10, <2>1 DEF Aim, Answer, Goto, Keep
<1>11. CASE Persist(r) \/ WriteBack(r) \/ NoExplanation(r) \/ Attach(r)
  <2>1. pc'[r] \in {"answered", "aim", "unsaved", "persist"} /\ local'[r] = Blank
    BY <1>11 DEF Persist, WriteBack, NoExplanation, Attach, Answer, Goto, Keep
  <2> QED BY <1>b, <2>1
<1>12. CASE PutMarks(r) \/ PutExplanation(r) \/ Reset(r) \/ ShowRun(r)
  <2>1. pc'[r] \in {"persist", "attach"} /\ local' = local
    BY <1>12 DEF PutMarks, PutExplanation, Reset, ShowRun, Goto
  <2> QED BY <1>b, <2>1
<1> QED BY <1>0, <1>3, <1>4, <1>5, <1>6, <1>7, <1>8, <1>9, <1>10, <1>11, <1>12, RequestMoves DEF Serve

LEMMA UnstrayedStep ==
    ASSUME IInv, Next, ~strayed'
    PROVE  Unstrayed'
<1>1. /\ (\A d \in Dicts : Meant(dict[d]))'
      /\ (\A x \in Saved : Meant(history[x]))'
  BY DictsMeant, FilesMeant
<1>2. (\A r \in Requests : Marking(r))'
  BY MarkingStep
<1> QED BY ONLY <1>1, <1>2 DEF Unstrayed, Marking

-----------------------------------------------------------------------------
LEMMA StepKeeps ==
    ASSUME IInv, [Next]_vars
    PROVE  IInv'
<1>1. CASE Next
  <2>1. Step /\ TypeOK /\ Orderly
    BY <1>1 DEF Next, IInv
  <2>2. TypeOK' /\ Orderly'
    BY <1>1, <2>1, TypeStep, OrderlyStep
  <2>3. Recorded'
    BY <1>1 DEF Next, Remember, Recorded
  <2>4. crossed' \in BOOLEAN /\ clobbered' \in BOOLEAN /\ strayed' \in BOOLEAN
    BY <2>2 DEF TypeOK, ThreadsType
  <2>5. crossed' \/ Uncrossed'
    BY <1>1, UncrossedStep
  <2>6. crossed' \/ clobbered' \/ Unclobbered'
    BY <1>1, UnclobberedStep
  <2>7. strayed' \/ Unstrayed'
    BY <1>1, UnstrayedStep
  <2> QED BY <2>2, <2>3, <2>5, <2>6, <2>7 DEF IInv
<1>2. CASE UNCHANGED vars
  <2>1. TypeOK'
    BY <1>2 DEF vars, races, IInv, TypeOK, GlobalsType, ThreadsType
  <2>2. Recorded'
    BY <1>2 DEF vars, races, IInv, Recorded, Cross, Stray, Clobber, Double, Exchanging, Saving
  <2>3. Orderly'
    BY <1>2 DEF vars, IInv, Orderly, DictsOwn, WorkerOK
  <2>4. crossed' \/ Uncrossed'
    BY <1>2 DEF vars, races, IInv, Uncrossed, FileIsOfState, Publishing, Holding, Saved
  <2>5. crossed' \/ clobbered' \/ Unclobbered'
    BY <1>2 DEF vars, races, IInv, Unclobbered, Synced, InStep
  <2>6. strayed' \/ Unstrayed'
    BY <1>2 DEF vars, races, world, IInv, Unstrayed, Meant, MarksMeant, FindingOf, Saved
  <2> QED BY <2>1, <2>2, <2>3, <2>4, <2>5, <2>6 DEF IInv
<1> QED BY <1>1, <1>2

THEOREM Invariance ==
    Spec => []IInv
  BY Start, StepKeeps, PTL DEF Spec

(* The file of a run holds that run's own report, the whole of it, whatever  *)
(* requests persist into it, whichever run was published or reopened in      *)
(* between, and across restarts, as long as no thread stores STATE or        *)
(* CURRENT_RUN_FILE while another is between its stores of the two or has    *)
(* read one of them and not yet the other: persist_state, save_run,          *)
(* _open_run.                                                                *)
THEOREM FilesAreOfTheirRuns ==
    Spec => []HistoryIsOwn
<1>1. IInv => HistoryIsOwn
  BY DEF IInv, Uncrossed, IsOf, HistoryIsOwn
<1> QED BY <1>1, Invariance, PTL

(* A mark never moves to another finding: not when it is carried over to the *)
(* next run on a log or from the rules-only report to the full one, not when *)
(* a run is reopened or restored, not by a mark made at the same time, as    *)
(* long as the display does not change between a request's arrival and its   *)
(* mark: carry_marks, _mark.                                                 *)
THEOREM MarksStayOnTheirFindings ==
    Spec => []MarksAreMeant
<1>1. IInv => MarksAreMeant
  BY DEF IInv, TypeOK, GlobalsType, Unstrayed, Meant, MarksMeant, MarksAreMeant
<1> QED BY <1>1, Invariance, PTL

(* When every request is answered, what is on display of a run that has a    *)
(* file is what its file holds, unless the disk refused a write, exchanges   *)
(* crossed, or two persisted at once or one while a run was being opened or  *)
(* its file named: persist_state after every mark and explanation.           *)
THEOREM ReviewReachesDisk ==
    Spec => []ReviewOnDisk
<1>1. IInv => ReviewOnDisk
  <2> SUFFICES ASSUME IInv, \A a \in Actors : pc[a] \in Resting, file # None,
                      ~ \E r \in Requests : pc[r] = "unsaved", ~crossed, ~clobbered
               PROVE  history[file] = dict[state]
    BY DEF ReviewOnDisk, IInv, TypeOK, ThreadsType
  <2>1. \A r \in Requests : pc[r] \notin Behind
    BY DEF Actors, Resting, Over, Behind
  <2> QED BY <2>1 DEF IInv, Unclobbered, Synced
<1> QED BY <1>1, Invariance, PTL

(* JOB, which a request reads and a worker writes: an analysis is accepted   *)
(* while there is no other, unless two posts read it before either wrote it. *)
JobOK ==
    /\ \A x, y \in Working : x = y /\ job = "running"
    /\ \A x \in Analyses : pc[x] = "accept" => job # "running"

LEMMA JobStep ==
    ASSUME IInv, JobOK, Next, ~doubled'
    PROVE  JobOK'
<1> USE Kinds DEF IInv, TypeOK, ThreadsType
<1>0. Step /\ ~Double
  BY DEF Next, Remember, Recorded
<1>a. ASSUME job' = job, \A x \in Analyses : pc'[x] = pc[x]
      PROVE  JobOK'
  BY <1>a DEF JobOK, Working
<1>b. ASSUME NEW x \in Analyses, x \in Working, NEW label, pc' = [pc EXCEPT ![x] = label],
             \/ job' \in {job, "running"} /\ label \notin Over \cup {"unsent", "accept"}
             \/ job' # "running" /\ label \in Over
      PROVE  JobOK'
  <2>1. "accept" \notin Over
    BY DEF Over
  <2> QED BY <1>b, <2>1 DEF JobOK, Working
<1>1. ASSUME NEW x \in Analyses, PostAnalyze(x)
      PROVE  JobOK'
  <2>1. /\ job' = job /\ pc[x] = "unsent"
        /\ pc' = [pc EXCEPT ![x] = IF job = "running" THEN "refused" ELSE "accept"]
    BY <1>1 DEF PostAnalyze, Arrives, Goto
  <2> QED BY <2>1 DEF JobOK, Working, Over
<1>2. ASSUME NEW x \in Analyses, Accept(x)
      PROVE  JobOK'
  <2>1. PICK label \in {"begin", "unstarted"} :
            job' = "running" /\ pc[x] = "accept" /\ pc' = [pc EXCEPT ![x] = label]
    BY <1>2 DEF Accept, At, Goto
  <2>2. Working = {}
    BY <2>1 DEF JobOK
  <2>3. \A y \in Analyses : y # x => pc'[y] # "accept"
    BY <1>0, <2>1 DEF Double
  <2> QED BY <2>1, <2>2, <2>3 DEF JobOK, Working
<1>3. ASSUME NEW x \in Analyses, Finish(x) \/ Fail(x)
      PROVE  JobOK'
  <2>1. /\ job' # "running" /\ pc' = [pc EXCEPT ![x] = "over"] /\ x \in Working
    BY <1>3 DEF Finish, Fail, At, Goto, Working, Over
  <2> QED BY <1>b, <2>1 DEF Over
<1>4. ASSUME NEW x \in Analyses,
             \/ Begin(x) \/ CarryMarks(x) \/ ShowReport(x) \/ SaveRun(x) \/ NameRun(x)
             \/ \E s \in Stages : Detach(x, s)
      PROVE  JobOK'
  <2>1. PICK label \in {"analyzing", "carry", "show", "explaining", "save", "name", "finish"} :
            job' \in {job, "running"} /\ x \in Working /\ pc' = [pc EXCEPT ![x] = label]
    BY <1>4 DEF Begin, CarryMarks, ShowReport, SaveRun, NameRun, Detach, At, Goto, Working, Over
  <2> QED BY <1>b, <2>1 DEF Over
<1>5. ASSUME NEW r \in Requests, NEW i \in FindingIds,
             Explain(r, i) \/ \E v \in Verdicts \cup {None} : Mark(r, i, v)
      PROVE  JobOK'
  BY <1>a, <1>5 DEF Explain, Mark, Goto
<1>6. ASSUME NEW r \in Requests, NEW x \in Analyses, OpenRun(r, x)
      PROVE  JobOK'
  BY <1>a, <1>6 DEF OpenRun, Goto
<1>7. ASSUME NEW r \in Requests, Reset(r) \/ Serve(r)
      PROVE  JobOK'
  BY <1>a, <1>7 DEF Reset, Serve, CopyMarks, PutMarks, Persist, Aim, Dump, WriteBack,
         PutExplanation, NoExplanation, ShowRun, Attach, Goto, Answer
<1>8. CASE Restart
  BY <1>8, RestartRests DEF Restart, JobOK, Working, Over
<1> QED BY <1>0, <1>1, <1>2, <1>3, <1>4, <1>5, <1>6, <1>7, <1>8 DEF Step, Work

(* "an analysis is already running": no two workers at a time, and JOB says  *)
(* so as long as there is one, unless two posts were checked at once, before *)
(* either of them had said that it runs; the first half of JobIsTrue.        *)
THEOREM OneWorker ==
    Spec => [](doubled \/ \A x, y \in Working : x = y /\ job = "running")
<1>1. Init => JobOK
  BY Kinds, RunReviewAssumption DEF Init, JobOK, Working, Over, Actors
<1>2. IInv /\ (doubled \/ JobOK) /\ [Next]_vars => doubled' \/ JobOK'
  <2> SUFFICES ASSUME IInv, doubled \/ JobOK, [Next]_vars, ~doubled'
               PROVE  JobOK'
    BY DEF IInv, TypeOK, ThreadsType
  <2>1. CASE UNCHANGED vars
    BY <2>1 DEF vars, races, JobOK, Working
  <2>2. CASE Next
    <3>1. ~doubled
      BY <2>2 DEF Next, Remember, IInv, TypeOK, ThreadsType
    <3> QED BY <2>2, <3>1, JobStep
  <2> QED BY <2>1, <2>2
<1>3. JobOK => \A x, y \in Working : x = y /\ job = "running"
  BY DEF JobOK
<1> QED BY <1>1, <1>2, <1>3, Invariance, PTL DEF Spec
=============================================================================
