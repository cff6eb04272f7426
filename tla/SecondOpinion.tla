--------------------------- MODULE SecondOpinion ---------------------------
(***************************************************************************)
(* The learned second opinion: the trainer writes a model file and then    *)
(* its provenance sidecar (tools/train_triage.py, another process), and    *)
(* scripts/retrain.sh swaps a directory with both into place; the          *)
(* console's request threads answer from one unlocked module-level cache   *)
(* that is refilled when the model file's stat changes (triage_model.py,   *)
(* _cached_model).                                                         *)
(***************************************************************************)
EXTENDS Integers, FiniteSets

CONSTANTS Requests,     \* request threads of the console
          Bench,        \* the thread of the efficacy job, which loads a model
                        \* of its own
          MaxSaves      \* bound: models trained

ASSUME SavesAssumption == MaxSaves \in Nat /\ Bench \notin Requests

VARIABLES file,         \* the model file: [of, whole]; of = 0, no file
          prov,         \* the version the sidecar records; 0 none, Torn
          trained,      \* the latest version a training produced
          aside,        \* the directory a swap in progress renamed away
          trainer,      \* where save() or the swap is
          cache,        \* _CACHE: [key, est, prov, err]
          at,           \* where each request is in _cached_model
          seen,         \* the stat key the request computed
          mine,         \* the estimator it loaded or read; 0 is None
          sidecar,      \* the provenance it read; 0 is None
          raced         \* history: the contents of the model file that a
                        \* request saw come or go, or asked about in a save

vars == <<file, prov, trained, aside, trainer, cache, at, seen, mine, sidecar,
          raced>>
request == <<at, seen, mine, sidecar>>
Loaders == Requests \cup {Bench}

Torn == -1              \* a sidecar truncated by write_text, not JSON yet
Missing == [of |-> 0, whole |-> FALSE]
Model(v) == [of |-> v, whole |-> TRUE]
NoKey == Model(0)       \* _CACHE["key"] is None

\* _cache_key(): mtime and size differ between any two contents of the file,
\* so the key is the content; a missing file has one too, (path, None, None).
\* Mutant: the path alone.
KeyOfPath == IF file.of = 0 THEN file ELSE Model(1)
Key == file

Empty == [key |-> NoKey, est |-> 0, prov |-> 0, err |-> FALSE]

Cleared == Empty

Underway == {r \in Requests : at[r] # "idle"}

Init == /\ \E v \in {0, 1} :
             /\ file = [of |-> v, whole |-> v = 1]
             /\ prov = v /\ trained = v
        /\ aside = Missing
        /\ trainer = "idle"
        /\ cache = Empty
        /\ at = [r \in Loaders |-> "idle"]
        /\ seen = [r \in Loaders |-> NoKey]
        /\ mine = [r \in Loaders |-> 0]
        /\ sidecar = [r \in Loaders |-> 0]
        /\ raced = {}

-----------------------------------------------------------------------------
(* save(): open(path, "wb") truncates, pickle.dump fills, the sidecar      *)
(* follows with the hash of what was dumped.                               *)

Witnessed == raced' = IF Underway = {} THEN raced ELSE raced \cup {file, file'}

NewModel == /\ trainer = "idle" /\ trained < MaxSaves
            /\ trained' = trained + 1

OpenModel == /\ NewModel
             /\ file' = [of |-> trained', whole |-> FALSE]
             /\ trainer' = "dumping"
             /\ UNCHANGED <<prov, aside, cache, request>>
             /\ Witnessed

DumpModel == /\ trainer = "dumping"
             /\ file' = [file EXCEPT !.whole = TRUE]
             /\ trainer' = "recording"
             /\ UNCHANGED <<prov, trained, aside, cache, request>>
             /\ Witnessed

OpenSidecar == /\ trainer = "recording"
               /\ prov' = Torn
               /\ trainer' = "closing"
               /\ UNCHANGED <<file, trained, aside, cache, request>>
               /\ Witnessed

CloseSidecar == /\ trainer = "closing"
                /\ prov' = file.of
                /\ trainer' = "idle"
                /\ UNCHANGED <<file, trained, aside, cache, request>>
                /\ Witnessed

(* retrain.sh: a model that fits its sidecar, trained elsewhere, replaces  *)
(* the installed directory by two renames; the first is undone when the    *)
(* second fails.                                                           *)

SwapOut == /\ NewModel /\ file.of # 0 /\ prov # 0
           /\ aside' = [model |-> file, sidecar |-> prov]
           /\ file' = Missing /\ prov' = 0
           /\ trainer' = "swapping"
           /\ UNCHANGED <<cache, request>>
           /\ Witnessed

SwapIn == /\ trainer = "swapping"
          /\ file' = Model(trained) /\ prov' = trained
          /\ trainer' = "idle"
          /\ aside' = Missing
          /\ UNCHANGED <<trained, cache, request>>
          /\ Witnessed

SwapBack == /\ trainer = "swapping"
            /\ file' = aside.model /\ prov' = aside.sidecar
            /\ trainer' = "idle"
            /\ aside' = Missing
            /\ UNCHANGED <<trained, cache, request>>
            /\ Witnessed

\* The trainer is killed, or its disk is full: the files stay as they are.
Kill == /\ trainer # "idle"
        /\ trainer' = "idle"
        /\ aside' = Missing
        /\ UNCHANGED <<file, prov, trained, cache, request, raced>>

-----------------------------------------------------------------------------
(* A request: predict(), through _cached_model.                            *)

Goto(r, from, to) == at[r] = from /\ at' = [at EXCEPT ![r] = to]
Disk == <<file, prov, trained, aside, trainer>>

\* key = _cache_key()
Ask(r) == /\ Goto(r, "idle", "compare")
          /\ seen' = [seen EXCEPT ![r] = Key]
          /\ raced' = IF trainer = "idle" THEN raced ELSE raced \cup {file}
          /\ UNCHANGED <<Disk, cache, mine, sidecar>>

\* if _CACHE["key"] != key
Compare(r) == /\ Goto(r, "compare", IF cache.key = seen[r] THEN "check" ELSE "reset")
              /\ UNCHANGED <<Disk, cache, seen, mine, sidecar, raced>>

Reset(r) == /\ Goto(r, "reset", "key")
            /\ cache' = Cleared
            /\ UNCHANGED <<Disk, seen, mine, sidecar, raced>>

SetKey(r) == /\ Goto(r, "key", "read")
             /\ cache' = [cache EXCEPT !.key = seen[r]]
             /\ UNCHANGED <<Disk, seen, mine, sidecar, raced>>

\* load_model: no artifact, no sidecar or one that is no JSON is an error.
ReadSidecar(r) ==
    /\ Goto(r, "read", IF file.of # 0 /\ prov > 0 THEN "hash" ELSE "fail")
    /\ sidecar' = [sidecar EXCEPT ![r] = prov]
    /\ UNCHANGED <<Disk, cache, seen, mine, raced>>

\* sha256_file(path) against the hash the sidecar records; a file that is
\* gone by now raises past the handler, and nothing is cached.
Hash(r) == /\ Goto(r, "hash", CASE file.of = 0 -> "refused"
                                [] file = Model(sidecar[r]) -> "load"
                                [] OTHER -> "fail")
           /\ UNCHANGED <<Disk, cache, seen, mine, sidecar, raced>>

\* pickle.load opens the file a second time.
Load(r) == /\ Goto(r, "load", IF file.whole THEN "keep" ELSE "fail")
           /\ mine' = [mine EXCEPT ![r] = file.of]
           /\ UNCHANGED <<Disk, cache, seen, sidecar, raced>>

\* The two entries of the tuple assignment are stored one after the other.
KeepModel(r) == /\ Goto(r, "keep", "keepSidecar")
                /\ cache' = [cache EXCEPT !.est = mine[r]]
                /\ UNCHANGED <<Disk, seen, mine, sidecar, raced>>

KeepSidecar(r) == /\ Goto(r, "keepSidecar", "check")
                  /\ cache' = [cache EXCEPT !.prov = sidecar[r]]
                  /\ UNCHANGED <<Disk, seen, mine, sidecar, raced>>

KeepError(r) == /\ Goto(r, "fail", "check")
                /\ cache' = [cache EXCEPT !.err = TRUE]
                /\ UNCHANGED <<Disk, seen, mine, sidecar, raced>>

\* if _CACHE["error"]: raise. Otherwise the estimator is read, then the
\* provenance; an estimator that is None cannot score (predict_with).
Check(r) == /\ Goto(r, "check", IF cache.err THEN "refused" ELSE "reading")
            /\ mine' = [mine EXCEPT ![r] = IF cache.err THEN 0 ELSE cache.est]
            /\ UNCHANGED <<Disk, cache, seen, sidecar, raced>>

ReadCache(r) == /\ Goto(r, "reading", IF mine[r] = 0 THEN "refused" ELSE "opined")
                /\ sidecar' = [sidecar EXCEPT ![r] = cache.prov]
                /\ UNCHANGED <<Disk, cache, seen, mine, raced>>

Answer(r) == /\ at[r] \in {"refused", "opined"}
             /\ Goto(r, at[r], "idle")
             /\ seen' = [seen EXCEPT ![r] = NoKey]
             /\ mine' = [mine EXCEPT ![r] = 0]
             /\ sidecar' = [sidecar EXCEPT ![r] = 0]
             /\ UNCHANGED <<Disk, cache, raced>>

OpinionNext ==
        \/ OpenModel \/ DumpModel \/ OpenSidecar \/ CloseSidecar
        \/ SwapOut \/ SwapIn \/ SwapBack \/ Kill
        \/ \E r \in Loaders : ReadSidecar(r) \/ Hash(r) \/ Load(r)
        \/ \E r \in Requests :
             \/ Ask(r) \/ Compare(r) \/ Reset(r) \/ SetKey(r)
             \/ KeepModel(r) \/ KeepSidecar(r) \/ KeepError(r)
             \/ Check(r) \/ ReadCache(r) \/ Answer(r)

Spec == Init /\ [][OpinionNext]_vars

-----------------------------------------------------------------------------
\* The files fit together: the model is whole and the sidecar is its own.
Sound == file.whole /\ prov = file.of

\* An opinion that is shown comes from the model on disk, whole and with its
\* own provenance, and the provenance shown beside it is that model's or is
\* missing (triage_model.py: "an unprovenanced model is not loaded"). It
\* holds of a file no request saw come or was asked about during its save,
\* however many trainings died or were raced before, and whatever the other
\* threads do to the cache in between.
OpinionIsOfTheModel ==
    file \notin raced =>
        \A r \in Requests : at[r] = "opined" =>
            Sound /\ mine[r] = file.of /\ sidecar[r] \in {0, file.of}
=============================================================================
