------------------------------ MODULE Efficacy ------------------------------
(***************************************************************************)
(* The measurement GET/POST /api/efficacy offers: one background job of    *)
(* the console runs the referee, which loads a model of its own, checks it *)
(* against its provenance and drives the analyzer for minutes; the last    *)
(* run that ended is kept in efficacy.json. Meanwhile requests use the     *)
(* cache the job resets, the model is retrained, and the console may be    *)
(* restarted.                                                              *)
(***************************************************************************)
EXTENDS SecondOpinion

CONSTANTS Overlapping,  \* versions trained on what the benchmark shows
          MaxRuns,      \* bound: measurements started
          MaxRestarts,  \* bound: restarts of the console
          MaxBeside     \* bound: requests under way at once, one fewer with
                        \* each measurement

ASSUME EfficacyAssumption ==
    /\ Overlapping \subseteq Nat
    /\ MaxRuns \in Nat /\ MaxRestarts \in Nat /\ MaxBeside \in Nat

VARIABLES job,          \* _STATE: [status, run]
          loaded,       \* _LOADED
          stored,       \* efficacy.json: NoRun, a run, or Cut
          model,        \* the LearnedSystem of the job: [est, prov], 0 if none
          result,       \* the summary evaluate() returned
          started,      \* measurements started
          restarts,
          moved,        \* history: measurements the model file changed under,
                        \* between the hash and pickle.load
          ended,        \* history: the last run that was published
          unsaved       \* history: since then a save failed or was cut

measurement == <<job, loaded, stored, model, result, started, restarts, moved, ended, unsaved>>
everything == <<vars, measurement>>

NoRun == [no |-> 0, est |-> 0, prov |-> 0]
Cut == [no |-> -1, est |-> 0, prov |-> 0]     \* truncated, not JSON yet
NoModel == [est |-> 0, prov |-> 0]
Idle == [status |-> "idle", run |-> NoRun]

EfficacyInit ==
    /\ Init
    /\ job = Idle /\ loaded = FALSE /\ stored = NoRun
    /\ model = NoModel /\ result = NoRun
    /\ started = 0 /\ restarts = 0
    /\ moved = {} /\ ended = 0 /\ unsaved = FALSE

-----------------------------------------------------------------------------
(* Requests.                                                               *)

\* snapshot(): the first one that finds nothing in memory looks on disk.
Get ==
    /\ ~loaded /\ job.status = "idle"
    /\ loaded' = TRUE
    /\ job' = IF stored.no > 0 THEN [status |-> "done", run |-> stored] ELSE job
    /\ UNCHANGED <<vars, stored, model, result, started, restarts, moved, ended, unsaved>>

\* start(): while one is running the answer is 409.
Post ==
    /\ started < MaxRuns /\ Cardinality(Underway) < MaxBeside - started
    /\ job.status # "running"
    /\ job' = [status |-> "running", run |-> NoRun]
    /\ started' = started + 1
    /\ Goto(Bench, "idle", "resetting")
    /\ UNCHANGED <<Disk, cache, seen, mine, sidecar, raced>>
    /\ UNCHANGED <<loaded, stored, model, result, restarts, moved, ended, unsaved>>

-----------------------------------------------------------------------------
(* work(): evaluate() loads the model past the cache that it resets.       *)

BenchReset ==
    /\ Goto(Bench, "resetting", "read")
    /\ cache' = Cleared
    /\ UNCHANGED <<Disk, seen, mine, sidecar, raced>>
    /\ UNCHANGED <<job, loaded, stored, model, result, started, restarts, moved, ended, unsaved>>

\* Whatever load_model raises is the reason the learned half has none;
\* SecondOpinion has the steps of load_model.
LoadModel ==
    /\ at[Bench] \in {"keep", "fail", "refused"}
    /\ model' = IF at[Bench] = "keep" THEN [est |-> mine[Bench], prov |-> sidecar[Bench]] ELSE NoModel
    /\ Goto(Bench, at[Bench], "asserting")
    /\ mine' = [mine EXCEPT ![Bench] = 0]
    /\ sidecar' = [sidecar EXCEPT ![Bench] = 0]
    /\ UNCHANGED <<Disk, cache, seen, raced>>
    /\ UNCHANGED <<job, loaded, stored, result, started, restarts, moved, ended, unsaved>>

Fail ==
    /\ at' = [at EXCEPT ![Bench] = "idle"]
    /\ job' = [status |-> "error", run |-> NoRun]
    /\ loaded' = TRUE
    /\ model' = NoModel
    /\ UNCHANGED <<Disk, cache, seen, mine, sidecar, raced>>
    /\ UNCHANGED <<stored, result, started, restarts, moved, ended, unsaved>>

\* assert_fresh, against what the provenance in hand says it was trained on.
AssertFresh ==
    \/ /\ model.prov \notin Overlapping
       /\ Goto(Bench, "asserting", "measuring")
       /\ UNCHANGED <<Disk, cache, seen, mine, sidecar, raced, measurement>>
    \/ /\ at[Bench] = "asserting" /\ model.prov \in Overlapping
       /\ Fail

\* Mutant: describe() asks the model directory again.
MeasureDescribingDisk ==
    /\ Goto(Bench, "measuring", "writing")
    /\ result' = [no |-> started, est |-> model.est, prov |-> IF model = NoModel THEN 0 ELSE prov]
    /\ model' = NoModel
    /\ UNCHANGED <<Disk, cache, seen, mine, sidecar, raced>>
    /\ UNCHANGED <<job, loaded, stored, started, restarts, moved, ended, unsaved>>

\* The scores, and describe(): the model that scored and its provenance.
Measure ==
    /\ Goto(Bench, "measuring", "writing")
    /\ result' = [no |-> started, est |-> model.est, prov |-> model.prov]
    /\ model' = NoModel
    /\ UNCHANGED <<Disk, cache, seen, mine, sidecar, raced>>
    /\ UNCHANGED <<job, loaded, stored, started, restarts, moved, ended, unsaved>>

\* The generator, the analyzer or the referee raised.
MeasureRaises == at[Bench] = "measuring" /\ Fail

\* Mutant: the run is done before it is written.
PersistOpensDone ==
    /\ Goto(Bench, "writing", "filling")
    /\ stored' = Cut
    /\ job' = [status |-> "done", run |-> result]
    /\ ended' = result.no
    /\ UNCHANGED <<Disk, cache, seen, mine, sidecar, raced>>
    /\ UNCHANGED <<loaded, model, result, started, restarts, moved, unsaved>>

\* _persist: write_text truncates the file, then fills it. An OSError at
\* either step is swallowed.
PersistOpens ==
    /\ \/ /\ Goto(Bench, "writing", "filling")
          /\ stored' = Cut
          /\ UNCHANGED unsaved
       \/ /\ Goto(Bench, "writing", "publishing")
          /\ unsaved' = TRUE
          /\ UNCHANGED stored
    /\ UNCHANGED <<Disk, cache, seen, mine, sidecar, raced>>
    /\ UNCHANGED <<job, loaded, model, result, started, restarts, moved, ended>>

PersistFills ==
    /\ Goto(Bench, "filling", "publishing")
    /\ \/ stored' = result /\ unsaved' = FALSE
       \/ unsaved' = TRUE /\ UNCHANGED stored
    /\ UNCHANGED <<Disk, cache, seen, mine, sidecar, raced>>
    /\ UNCHANGED <<job, loaded, model, result, started, restarts, moved, ended>>

Publish ==
    /\ Goto(Bench, "publishing", "idle")
    /\ job' = [status |-> "done", run |-> result]
    /\ loaded' = TRUE
    /\ ended' = result.no
    /\ result' = NoRun
    /\ UNCHANGED <<Disk, cache, seen, mine, sidecar, raced>>
    /\ UNCHANGED <<stored, model, started, restarts, moved, unsaved>>

-----------------------------------------------------------------------------
\* The console is killed at any moment and started again.
Restart ==
    /\ restarts < MaxRestarts
    /\ restarts' = restarts + 1
    /\ job' = Idle /\ loaded' = FALSE
    /\ model' = NoModel /\ result' = NoRun
    /\ unsaved' = (unsaved \/ (stored = Cut /\ ended < started))
    /\ cache' = Empty
    /\ at' = [r \in Loaders |-> "idle"]
    /\ seen' = [r \in Loaders |-> NoKey]
    /\ mine' = [r \in Loaders |-> 0]
    /\ sidecar' = [r \in Loaders |-> 0]
    /\ UNCHANGED <<Disk, raced, stored, started, moved, ended>>

\* Requests for an opinion and trainings go on beside the measurement.
Beside ==
    /\ OpinionNext
    /\ Cardinality({r \in Requests : at'[r] # "idle"}) <= MaxBeside - started
    /\ moved' = IF at[Bench] = "load" /\ file' # file THEN moved \cup {started} ELSE moved
    /\ UNCHANGED <<job, loaded, stored, model, result, started, restarts, ended, unsaved>>

EfficacyNext ==
    \/ Beside
    \/ Get \/ Post \/ BenchReset \/ LoadModel \/ AssertFresh
    \/ Measure \/ MeasureRaises \/ PersistOpens \/ PersistFills \/ Publish
    \/ Restart

EfficacySpec == EfficacyInit /\ [][EfficacyNext]_everything

-----------------------------------------------------------------------------
\* "the model provenance every published number must carry" is that of the
\* model that was scored, which was not trained on what it is scored on,
\* however often the model was retrained during the minutes of a run, before
\* it was shown, or across a restart (unless it was replaced in the instant
\* between the hash and pickle.load of this run).
BenchmarkIsOfItsModel ==
    \A run \in {job.run, stored} :
        run.no > 0 =>
            /\ run.prov \notin Overlapping
            /\ run.no \notin moved => run.est = run.prov

\* "The last completed run is persisted ... so a GET survives a browser
\* refresh or a server restart": once the console has looked, it shows the
\* run that was published last or a later one, unless that run could not be
\* written, or a later one was being written when the console died; then the
\* numbers it shows are still those of a whole run.
LastRunSurvives ==
    loaded /\ job.status \in {"idle", "done"} => job.run.no >= ended \/ unsaved
=============================================================================
