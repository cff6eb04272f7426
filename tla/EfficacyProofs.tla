--------------------------- MODULE EfficacyProofs ---------------------------
(***************************************************************************)
(* The theorems of the learned second opinion and of its measurement, for  *)
(* any number of request threads, trainings and measurements.              *)
(*                                                                         *)
(* The opinion rests on a content of the model file that no request saw    *)
(* come: whoever is in _cached_model asked about that content, nothing is  *)
(* trained meanwhile, and once one of them is past the reset the cache is  *)
(* about that content or about none.  Contents that the file may return to *)
(* (none, and the one a swap has put aside) must stay so in the cache      *)
(* while the file is another.                                              *)
(***************************************************************************)
EXTENDS Efficacy, TLAPS

Contents == [of : Nat, whole : BOOLEAN]
Steps == {"idle", "compare", "reset", "key", "read", "hash", "load", "keep", "keepSidecar",
          "fail", "check", "reading", "refused", "opined",
          "resetting", "asserting", "measuring", "writing", "filling", "publishing"}

DiskType ==
    /\ file \in Contents /\ prov \in Int /\ trained \in Nat
    /\ trainer \in {"idle", "dumping", "recording", "closing", "swapping"}
    /\ trainer = "swapping" => aside \in [model : Contents, sidecar : Int]
ThreadType ==
    /\ cache \in [key : Contents, est : Nat, prov : Int, err : BOOLEAN]
    /\ at \in [Loaders -> Steps]
    /\ seen \in [Loaders -> Contents]
    /\ mine \in [Loaders -> Nat]
    /\ sidecar \in [Loaders -> Int]

TypeOK == DiskType /\ ThreadType

(* A request that has found the cache about its key, or has emptied it. *)
Within == {"key", "read", "hash", "load", "keep", "keepSidecar", "fail", "check", "reading"}
SomeoneWithin == \E r \in Requests : at[r] \in Within

(* What training has in hand has not been on disk before. *)
FreshOK ==
    /\ file.of <= trained /\ cache.key.of <= trained
    /\ \A r \in Requests : seen[r].of <= trained
    /\ file.of = 0 => ~file.whole
    /\ trainer # "idle" => trained > 0
    /\ trainer = "dumping" => file.of = trained /\ ~file.whole
    /\ trainer \in {"dumping", "swapping"} =>
          cache.key # Model(trained) /\ \A r \in Requests : seen[r] # Model(trained)
    /\ trainer = "swapping" =>
          /\ file = Missing /\ aside.model.of \in 1..trained /\ aside.model # Model(trained)

(* A request asked about what the file is, or both have been raced; and      *)
(* during a save the cache is about something else, or it has been.          *)
AskedOK ==
    /\ \A r \in Underway : seen[r] = file \/ {seen[r], file} \subseteq raced
    /\ file \notin raced /\ Underway # {} => trainer = "idle"
    /\ file \notin raced /\ trainer \in {"dumping", "recording", "closing"} => cache.key # file
    /\ SomeoneWithin => cache.key \in {NoKey, file} \cup raced

(* The cache holds the model c with its sidecar p, or nothing of it. *)
Fits(c, p) ==
    /\ cache.est # 0 => c.whole /\ p = c.of /\ cache.est = c.of
    /\ cache.prov \in {0, c.of}

CacheOK ==
    /\ file \notin raced /\ (cache.key = file \/ SomeoneWithin) => Fits(file, prov)
    /\ Missing \notin raced /\ cache.key = Missing => Fits(Missing, 0)
    /\ trainer = "swapping" /\ aside.model \notin raced /\ cache.key = aside.model =>
          Fits(aside.model, aside.sidecar)

(* What a request has in hand. *)
HandOK(r) ==
    file \notin raced =>
        /\ at[r] \in {"hash", "load"} => sidecar[r] = prov
        /\ at[r] = "load" => Sound
        /\ at[r] \in {"keep", "keepSidecar"} => Sound /\ mine[r] = file.of /\ sidecar[r] = file.of
        /\ at[r] = "reading" => mine[r] = 0 \/ (Sound /\ mine[r] = file.of)

OpinionInv ==
    /\ TypeOK /\ FreshOK /\ AskedOK /\ CacheOK
    /\ (\A r \in Requests : HandOK(r)) /\ OpinionIsOfTheModel

-----------------------------------------------------------------------------
Runs == [no : Int, est : Nat, prov : Int]
MeasuringType ==
    /\ job \in [status : {"idle", "running", "done", "error"}, run : Runs]
    /\ stored \in Runs /\ result \in Runs
    /\ model \in [est : Nat, prov : Int]
    /\ loaded \in BOOLEAN /\ unsaved \in BOOLEAN
    /\ started \in Nat /\ ended \in Nat

(* A run that may be shown. *)
Honest(run) ==
    run.no > 0 =>
        /\ run.prov \notin Overlapping
        /\ run.no \notin moved => run.est = run.prov

(* What the measurement has in hand, step by step. *)
BenchOK ==
    /\ at[Bench] # "idle" <=> job.status = "running"
    /\ job.status = "idle" => job.run = NoRun
    /\ at[Bench] # "idle" => ended < started
    /\ ended <= started
    /\ at[Bench] = "load" /\ started \notin moved => file = Model(sidecar[Bench])
    /\ at[Bench] = "keep" /\ started \notin moved => mine[Bench] = sidecar[Bench]
    /\ at[Bench] \in {"asserting", "measuring"} /\ started \notin moved => model.est = model.prov
    /\ at[Bench] = "measuring" => model.prov \notin Overlapping
    /\ at[Bench] \in {"writing", "filling", "publishing"} => result.no = started /\ Honest(result)
    /\ at[Bench] \notin {"key", "compare", "reset", "keepSidecar", "check", "reading", "opined"}

(* efficacy.json holds the run that was published last, or a later one,      *)
(* unless it could not be written.                                           *)
StoredOK ==
    /\ at[Bench] = "filling" => stored = Cut
    /\ at[Bench] # "filling" => unsaved \/ ended = 0 \/ stored.no >= ended
    /\ at[Bench] = "publishing" => unsaved \/ stored.no = started

BenchInv ==
    /\ MeasuringType /\ BenchOK /\ StoredOK /\ Honest(job.run) /\ Honest(stored) /\ LastRunSurvives

-----------------------------------------------------------------------------
(* The steps, by who takes them. *)
Training ==
    \/ OpenModel \/ DumpModel \/ OpenSidecar \/ CloseSidecar
    \/ SwapOut \/ SwapIn \/ SwapBack \/ Kill

Asking(r) ==
    \/ Ask(r) \/ Compare(r) \/ Reset(r) \/ SetKey(r)
    \/ KeepModel(r) \/ KeepSidecar(r) \/ KeepError(r)
    \/ Check(r) \/ ReadCache(r) \/ Answer(r)

LEMMA OpinionSteps ==
    ASSUME OpinionNext
    PROVE  \/ Training
           \/ \E r \in Loaders : ReadSidecar(r) \/ Hash(r) \/ Load(r)
           \/ \E r \in Requests : Asking(r)
  BY DEF OpinionNext, Training, Asking

LEMMA Members ==
    /\ Bench \in Loaders /\ Bench \notin Requests
    /\ \A r \in Requests : r \in Loaders /\ r # Bench
    /\ \A r \in Loaders : r = Bench \/ r \in Requests
  BY SavesAssumption DEF Loaders

LEMMA ContentTypes ==
    /\ Missing \in Contents /\ NoKey \in Contents /\ NoKey # Missing
    /\ Missing.of = 0 /\ Missing.whole = FALSE /\ NoKey.of = 0 /\ NoKey.whole = TRUE
    /\ \A v \in Nat : /\ Model(v) \in Contents /\ Model(v).of = v /\ Model(v).whole = TRUE
                      /\ [of |-> v, whole |-> FALSE] \in Contents
    /\ Empty \in [key : Contents, est : Nat, prov : Int, err : BOOLEAN]
    /\ Empty.key = NoKey /\ Empty.est = 0 /\ Empty.prov = 0
<1>1. \A v \in Nat : /\ Model(v) \in Contents /\ Model(v).of = v /\ Model(v).whole = TRUE
                      /\ [of |-> v, whole |-> FALSE] \in Contents
  BY DEF Model, Contents
<1>2. Missing \in Contents /\ Missing.of = 0 /\ Missing.whole = FALSE
  BY DEF Missing, Contents
<1>3. NoKey \in Contents /\ NoKey.of = 0 /\ NoKey.whole = TRUE
  BY <1>1 DEF NoKey
<1>4. Empty \in [key : Contents, est : Nat, prov : Int, err : BOOLEAN]
      /\ Empty.key = NoKey /\ Empty.est = 0 /\ Empty.prov = 0
  BY <1>3 DEF Empty
<1> QED BY <1>1, <1>2, <1>3, <1>4

(* Two contents of a version and a wholeness are one. *)
LEMMA SameContent ==
    ASSUME NEW c \in Contents, NEW d \in Contents, c.of = d.of, c.whole = d.whole
    PROVE  c = d
  BY DEF Contents

LEMMA Start ==
    EfficacyInit => OpinionInv /\ BenchInv
<1> SUFFICES ASSUME EfficacyInit PROVE OpinionInv /\ BenchInv
  OBVIOUS
<1>0. \A r \in Loaders : at[r] = "idle" /\ seen[r] = NoKey /\ mine[r] = 0 /\ sidecar[r] = 0
  BY DEF EfficacyInit, Init
<1>1. PICK v \in {0, 1} : file = [of |-> v, whole |-> v = 1] /\ prov = v /\ trained = v
  BY DEF EfficacyInit, Init
<1>2. cache = Empty /\ trainer = "idle" /\ raced = {} /\ aside = Missing
  BY DEF EfficacyInit, Init
<1>3. TypeOK
  <2>1. DiskType
    BY <1>1, <1>2 DEF DiskType, Contents
  <2>2. ThreadType
    BY <1>2, ContentTypes DEF ThreadType, EfficacyInit, Init, Steps
  <2> QED BY <2>1, <2>2 DEF TypeOK
<1>4. FreshOK
  <2>1. file.of = v /\ (file.whole <=> v = 1) /\ trained = v
    BY <1>1
  <2>2. cache.key.of = 0 /\ \A r \in Requests : seen[r].of = 0
    BY <1>0, <1>2, Members, ContentTypes
  <2> QED BY <1>2, <2>1, <2>2 DEF FreshOK
<1>5. Underway = {} /\ ~SomeoneWithin
  BY <1>0, Members DEF Underway, SomeoneWithin, Within
<1>6. AskedOK /\ CacheOK
  BY <1>2, <1>5, ContentTypes DEF AskedOK, CacheOK, Fits
<1>7. (\A r \in Requests : HandOK(r)) /\ OpinionIsOfTheModel
  BY <1>0, Members DEF HandOK, OpinionIsOfTheModel
<1>8. MeasuringType /\ Honest(job.run) /\ Honest(stored)
  <2>1. NoRun \in Runs /\ Honest(NoRun)
    BY DEF NoRun, Runs, Honest
  <2>2. job = [status |-> "idle", run |-> NoRun] /\ stored = NoRun /\ result = NoRun
        /\ model = [est |-> 0, prov |-> 0]
        /\ loaded = FALSE /\ unsaved = FALSE /\ started = 0 /\ ended = 0
    BY DEF EfficacyInit, Idle, NoModel
  <2>3. job.run = NoRun
    BY <2>2
  <2>4. Honest(job.run) /\ Honest(stored)
    BY <2>1, <2>2, <2>3
  <2>5. job \in [status : {"idle", "running", "done", "error"}, run : Runs]
    BY <2>1, <2>2
  <2>6. MeasuringType
    <3>1. stored \in Runs /\ result \in Runs
      BY <2>1, <2>2
    <3>2. loaded \in BOOLEAN /\ unsaved \in BOOLEAN
      BY <2>2
    <3>3. model \in [est : Nat, prov : Int] /\ started \in Nat /\ ended \in Nat
      BY <2>2
    <3> QED BY <2>5, <3>1, <3>2, <3>3 DEF MeasuringType
  <2> QED BY <2>4, <2>6
<1>9. BenchOK /\ StoredOK /\ LastRunSurvives
  BY <1>0, Members DEF EfficacyInit, BenchOK, StoredOK, LastRunSurvives, Idle, NoRun
<1> QED BY <1>3, <1>4, <1>6, <1>7, <1>8, <1>9 DEF OpinionInv, BenchInv

-----------------------------------------------------------------------------
LEMMA TrainingTypes ==
    ASSUME TypeOK, Training
    PROVE  /\ TypeOK' /\ UNCHANGED <<cache, at, seen, mine, sidecar>>
           /\ raced \subseteq raced'
           /\ file' # file => Witnessed
<1> USE DEF TypeOK
<1>1. UNCHANGED <<cache, at, seen, mine, sidecar>> /\ raced \subseteq raced' /\ (file' # file => Witnessed)
  BY DEF Training, OpenModel, DumpModel, OpenSidecar, CloseSidecar, SwapOut, SwapIn, SwapBack, Kill,
         request, Witnessed
<1>2. ThreadType'
  BY <1>1 DEF ThreadType
<1>3. DiskType'
  <2>1. CASE OpenModel
    <3>1. trained' \in Nat
      BY <2>1 DEF OpenModel, NewModel, DiskType
    <3> QED BY <2>1, <3>1, ContentTypes DEF OpenModel, DiskType
  <2>2. CASE DumpModel
    BY <2>2 DEF DumpModel, DiskType, Contents
  <2>3. CASE OpenSidecar \/ CloseSidecar
    BY <2>3 DEF OpenSidecar, CloseSidecar, DiskType, Contents, Torn
  <2>4. CASE SwapOut
    <3>1. trained' \in Nat
      BY <2>4 DEF SwapOut, NewModel, DiskType
    <3> QED BY <2>4, <3>1, ContentTypes DEF SwapOut, DiskType
  <2>5. CASE SwapIn
    <3>1. trained \in Nat /\ Model(trained) \in Contents
      BY ContentTypes DEF DiskType
    <3>2. file' = Model(trained) /\ prov' = trained /\ trainer' = "idle" /\ trained' = trained
      BY <2>5 DEF SwapIn
    <3> QED BY <3>1, <3>2 DEF DiskType
  <2>6. CASE SwapBack
    BY <2>6 DEF SwapBack, DiskType
  <2>7. CASE Kill
    BY <2>7 DEF Kill, DiskType
  <2> QED BY <2>1, <2>2, <2>3, <2>4, <2>5, <2>6, <2>7 DEF Training
<1> QED BY <1>1, <1>2, <1>3

LEMMA ReadingTypes ==
    ASSUME TypeOK, NEW r \in Loaders, ReadSidecar(r) \/ Hash(r) \/ Load(r)
    PROVE  /\ TypeOK' /\ UNCHANGED <<Disk, cache, seen, raced>>
           /\ \A q \in Loaders : q # r => at'[q] = at[q] /\ mine'[q] = mine[q] /\ sidecar'[q] = sidecar[q]
<1> USE DEF TypeOK
<1>1. UNCHANGED <<Disk, cache, seen, raced>>
  BY DEF ReadSidecar, Hash, Load, Disk
<1>2. DiskType'
  BY <1>1 DEF Disk, DiskType
<1>3. ThreadType'
  BY <1>1 DEF ReadSidecar, Hash, Load, Goto, ThreadType, DiskType, Contents, Steps
<1>4. \A q \in Loaders : q # r => at'[q] = at[q] /\ mine'[q] = mine[q] /\ sidecar'[q] = sidecar[q]
  BY DEF ReadSidecar, Hash, Load, Goto, ThreadType
<1> QED BY <1>1, <1>2, <1>3, <1>4

LEMMA AskingTypes ==
    ASSUME TypeOK, NEW r \in Requests, Asking(r)
    PROVE  /\ TypeOK' /\ UNCHANGED Disk
           /\ \A q \in Loaders : q # r => /\ at'[q] = at[q] /\ seen'[q] = seen[q]
                                          /\ mine'[q] = mine[q] /\ sidecar'[q] = sidecar[q]
<1> USE DEF TypeOK
<1>1. UNCHANGED Disk
  BY DEF Asking, Ask, Compare, Reset, SetKey, KeepModel, KeepSidecar, KeepError, Check, ReadCache,
         Answer, Disk
<1>2. DiskType'
  BY <1>1 DEF Disk, DiskType
<1>3. /\ at' \in [Loaders -> Steps]
      /\ \A q \in Loaders : q # r => at'[q] = at[q]
  BY Members DEF Asking, Ask, Compare, Reset, SetKey, KeepModel, KeepSidecar, KeepError, Check,
                 ReadCache, Answer, Goto, ThreadType, Steps
<1>4. /\ seen' \in [Loaders -> Contents]
      /\ \A q \in Loaders : q # r => seen'[q] = seen[q]
  BY Members, ContentTypes DEF Asking, Ask, Compare, Reset, SetKey, KeepModel, KeepSidecar, KeepError,
                 Check, ReadCache, Answer, Key, ThreadType, DiskType
<1>5. /\ mine' \in [Loaders -> Nat] /\ sidecar' \in [Loaders -> Int]
      /\ \A q \in Loaders : q # r => mine'[q] = mine[q] /\ sidecar'[q] = sidecar[q]
  BY Members DEF Asking, Ask, Compare, Reset, SetKey, KeepModel, KeepSidecar, KeepError,
                 Check, ReadCache, Answer, ThreadType
<1>6. cache' \in [key : Contents, est : Nat, prov : Int, err : BOOLEAN]
  <2>1. CASE Reset(r)
    BY <2>1, ContentTypes DEF Reset, Cleared
  <2>2. CASE SetKey(r) \/ KeepModel(r)
    BY <2>2, Members DEF SetKey, KeepModel, ThreadType
  <2>3. CASE KeepSidecar(r) \/ KeepError(r)
    BY <2>3, Members DEF KeepSidecar, KeepError, ThreadType
  <2>4. CASE cache' = cache
    BY <2>4 DEF ThreadType
  <2> QED BY <2>1, <2>2, <2>3, <2>4 DEF Asking, Ask, Compare, Check, ReadCache, Answer
<1> QED BY <1>1, <1>2, <1>3, <1>4, <1>5, <1>6 DEF ThreadType

(* A content of the model file that a request saw come or go is raced; who   *)
(* is not raced saw none.                                                    *)
LEMMA WitnessedStep ==
    ASSUME OpinionInv, Witnessed, UNCHANGED <<cache, at, seen, mine, sidecar>>
    PROVE  /\ file' \notin raced' => Underway = {} /\ ~SomeoneWithin
           /\ \A r \in Underway' : seen'[r] = file' \/ {seen'[r], file'} \subseteq raced'
           /\ SomeoneWithin' => cache'.key \in {NoKey, file'} \cup raced'
           /\ (\A r \in Requests : HandOK(r)') /\ OpinionIsOfTheModel'
<1>1. file' \notin raced' => Underway = {} /\ raced' = raced
  BY DEF Witnessed
<1>2. Underway = {} => ~SomeoneWithin /\ \A r \in Requests : at[r] = "idle"
  BY DEF Underway, SomeoneWithin, Within
<1>3. Underway # {} => {file, file'} \subseteq raced' /\ raced \subseteq raced'
  BY DEF Witnessed
<1>4. Underway' = Underway /\ (SomeoneWithin' <=> SomeoneWithin)
  BY DEF Underway, SomeoneWithin
<1>5. \A r \in Underway' : seen'[r] = file' \/ {seen'[r], file'} \subseteq raced'
  BY <1>3, <1>4 DEF OpinionInv, AskedOK
<1>6. SomeoneWithin' => cache'.key \in {NoKey, file'} \cup raced'
  BY <1>2, <1>3, <1>4 DEF OpinionInv, AskedOK
<1>7. (\A r \in Requests : HandOK(r)') /\ OpinionIsOfTheModel'
  BY <1>1, <1>2 DEF HandOK, OpinionIsOfTheModel
<1> QED BY <1>1, <1>2, <1>5, <1>6, <1>7

LEMMA TrainingFresh ==
    ASSUME OpinionInv, Training
    PROVE  FreshOK'
<1> USE DEF OpinionInv, TypeOK
<1>0. /\ UNCHANGED <<cache, at, seen, mine, sidecar>>
      /\ file \in Contents /\ cache.key \in Contents /\ trained \in Nat
      /\ \A r \in Requests : seen[r] \in Contents
      /\ file.of \in Nat /\ cache.key.of \in Nat /\ \A r \in Requests : seen[r].of \in Nat
  BY TrainingTypes, Members DEF DiskType, ThreadType, Contents
<1>1. CASE OpenModel
  <2>1. /\ trained' = trained + 1 /\ trainer' = "dumping"
        /\ file' = [of |-> trained + 1, whole |-> FALSE]
    BY <1>1 DEF OpenModel, NewModel
  <2>2. file'.of = trained' /\ file'.whole = FALSE /\ Model(trained').of = trained'
    BY <1>0, <2>1, ContentTypes
  <2> QED BY <1>0, <2>1, <2>2 DEF FreshOK
<1>2. CASE DumpModel
  <2>1. /\ trained' = trained /\ trainer' = "recording" /\ trainer = "dumping"
        /\ file' = [file EXCEPT !.whole = TRUE]
    BY <1>2 DEF DumpModel
  <2>2. file'.of = trained /\ trained > 0
    BY <2>1 DEF FreshOK, Contents, DiskType
  <2> QED BY <1>0, <2>1, <2>2 DEF FreshOK
<1>3. CASE OpenSidecar \/ CloseSidecar
  BY <1>0, <1>3 DEF OpenSidecar, CloseSidecar, FreshOK
<1>4. CASE SwapOut
  <2>1. /\ trained' = trained + 1 /\ trainer' = "swapping" /\ file' = Missing
        /\ aside' = [model |-> file, sidecar |-> prov] /\ file.of # 0
    BY <1>4 DEF SwapOut, NewModel
  <2>2. aside'.model = file /\ Model(trained + 1).of = trained + 1
    <3>1. trained + 1 \in Nat
      BY <1>0
    <3> QED BY <2>1, <3>1, ContentTypes
  <2> QED BY <1>0, <2>1, <2>2, ContentTypes DEF FreshOK
<1>5. CASE SwapIn
  <2>1. trained' = trained /\ trainer' = "idle" /\ file' = Model(trained) /\ trainer = "swapping"
    BY <1>5 DEF SwapIn
  <2>2. file'.of = trained /\ trained > 0
    BY <1>0, <2>1, ContentTypes DEF FreshOK
  <2> QED BY <1>0, <2>1, <2>2 DEF FreshOK
<1>6. CASE SwapBack
  <2>1. trained' = trained /\ trainer' = "idle" /\ file' = aside.model /\ trainer = "swapping"
    BY <1>6 DEF SwapBack
  <2> QED BY <1>0, <2>1 DEF FreshOK
<1>7. CASE Kill
  BY <1>0, <1>7 DEF Kill, FreshOK
<1> QED BY <1>1, <1>2, <1>3, <1>4, <1>5, <1>6, <1>7 DEF Training

LEMMA TrainingStep ==
    ASSUME OpinionInv, Training
    PROVE  OpinionInv'
<1> USE DEF OpinionInv, TypeOK
<1>0. /\ UNCHANGED <<cache, at, seen, mine, sidecar>> /\ raced \subseteq raced'
      /\ file \in Contents /\ cache.key \in Contents /\ trained \in Nat
      /\ file.of \in Nat /\ cache.key.of \in Nat
      /\ TypeOK' /\ FreshOK'
  BY TrainingTypes, TrainingFresh DEF DiskType, ThreadType, Contents
<1>a. Underway = {} => ~SomeoneWithin
  BY DEF Underway, SomeoneWithin, Within
<1>b. (SomeoneWithin' <=> SomeoneWithin) /\ Underway' = Underway
  BY <1>0 DEF Underway, SomeoneWithin
<1>c. ASSUME NEW c, NEW p, Fits(c, p) PROVE Fits(c, p)'
  BY <1>0, <1>c DEF Fits
<1>1. CASE Training /\ ~Kill
  <2>w. Witnessed
    BY <1>1 DEF Training, OpenModel, DumpModel, OpenSidecar, CloseSidecar, SwapOut, SwapIn, SwapBack
  <2>0. /\ file' \notin raced' => Underway = {} /\ ~SomeoneWithin /\ raced' = raced
        /\ (\A r \in Requests : HandOK(r)') /\ OpinionIsOfTheModel'
    BY <1>0, <2>w, WitnessedStep DEF Witnessed
  <2>1. file' \notin raced' /\ trainer' \in {"dumping", "recording", "closing"} => cache'.key # file'
    <3>1. CASE OpenModel
      BY <1>0, <3>1 DEF OpenModel, NewModel, FreshOK
    <3>2. CASE DumpModel
      <4>1. file' \in Contents /\ file'.of = trained /\ file'.whole = TRUE
        BY <3>2 DEF DumpModel, FreshOK, DiskType, Contents
      <4>2. file' = Model(trained)
        BY <1>0, <4>1, ContentTypes, SameContent
      <4> QED BY <1>0, <3>2, <4>2 DEF DumpModel, FreshOK
    <3>3. CASE OpenSidecar \/ CloseSidecar
      BY <1>0, <3>3 DEF OpenSidecar, CloseSidecar, AskedOK
    <3>4. CASE SwapOut \/ SwapIn \/ SwapBack
      BY <3>4 DEF SwapOut, SwapIn, SwapBack
    <3> QED BY <1>1, <3>1, <3>2, <3>3, <3>4 DEF Training
  <2>2. AskedOK'
    BY <1>0, <2>w, <1>b, <2>0, <2>1, WitnessedStep DEF AskedOK
  <2>3. CacheOK'
    <3>1. file' \notin raced' /\ cache'.key = file' => Fits(file, prov)'
      <4> SUFFICES ASSUME file' \notin raced', cache.key = file' PROVE Fits(file, prov)'
        BY <1>0
      <4>1. CASE OpenModel \/ DumpModel \/ OpenSidecar
        BY <1>0, <2>1, <4>1 DEF OpenModel, DumpModel, OpenSidecar
      <4>2. CASE CloseSidecar
        BY <1>0, <2>0, <4>2 DEF CloseSidecar, AskedOK
      <4>3. CASE SwapOut
        <5>1. file' = Missing /\ prov' = 0 /\ Fits(Missing, 0)
          BY <2>0, <4>3 DEF SwapOut, CacheOK
        <5> QED BY <1>0, <5>1 DEF Fits
      <4>4. CASE SwapIn
        BY <4>4 DEF SwapIn, FreshOK
      <4>5. CASE SwapBack
        <5>1. file' = aside.model /\ prov' = aside.sidecar /\ Fits(aside.model, aside.sidecar)
          BY <2>0, <4>5 DEF SwapBack, CacheOK
        <5> QED BY <1>0, <5>1 DEF Fits
      <4> QED BY <1>1, <4>1, <4>2, <4>3, <4>4, <4>5 DEF Training
    <3>2. Missing \notin raced' /\ cache'.key = Missing => Fits(Missing, 0)'
      BY <1>0, <1>c DEF CacheOK
    <3>3. trainer' = "swapping" /\ aside'.model \notin raced' /\ cache'.key = aside'.model =>
              Fits(aside.model, aside.sidecar)'
      <4>1. CASE SwapOut
        <5>1. aside'.model = file /\ aside'.sidecar = prov
          BY <4>1 DEF SwapOut
        <5>2. file \notin raced' /\ cache'.key = file => Fits(file, prov)
          BY <1>0 DEF CacheOK
        <5> QED BY <1>0, <5>1, <5>2 DEF Fits
      <4>2. CASE ~SwapOut
        BY <1>1, <4>2 DEF Training, OpenModel, DumpModel, OpenSidecar, CloseSidecar, SwapIn, SwapBack
      <4> QED BY <4>1, <4>2
    <3> QED BY <1>b, <2>0, <3>1, <3>2, <3>3 DEF CacheOK
  <2> QED BY <1>0, <2>0, <2>2, <2>3
<1>2. CASE Kill
  <2>1. UNCHANGED <<file, prov, raced>> /\ trainer' = "idle"
    BY <1>2 DEF Kill
  <2>2. AskedOK'
    BY <1>0, <1>b, <2>1 DEF AskedOK
  <2>3. CacheOK'
    BY <1>0, <1>b, <2>1 DEF CacheOK, Fits
  <2>4. (\A r \in Requests : HandOK(r)') /\ OpinionIsOfTheModel'
    BY <1>0, <2>1 DEF HandOK, OpinionIsOfTheModel, Sound
  <2> QED BY <1>0, <2>2, <2>3, <2>4
<1> QED BY <1>1, <1>2

-----------------------------------------------------------------------------
(* A step of one request leaves what the others have in hand. *)
LEMMA OtherHands ==
    ASSUME OpinionInv, NEW r, UNCHANGED <<file, prov>>, raced \subseteq raced',
           \A q \in Loaders : q # r => at'[q] = at[q] /\ mine'[q] = mine[q] /\ sidecar'[q] = sidecar[q],
           r \in Requests => HandOK(r)',
           r \in Requests /\ file \notin raced' /\ at'[r] = "opined" =>
               Sound /\ mine'[r] = file.of /\ sidecar'[r] \in {0, file.of}
    PROVE  (\A q \in Requests : HandOK(q)') /\ OpinionIsOfTheModel'
<1>1. ASSUME NEW q \in Requests, q # r PROVE HandOK(q)'
  <2>1. HandOK(q) /\ at'[q] = at[q] /\ mine'[q] = mine[q] /\ sidecar'[q] = sidecar[q]
    BY <1>1, Members DEF OpinionInv
  <2> QED BY <2>1 DEF HandOK, Sound
<1>2. OpinionIsOfTheModel'
  <2> SUFFICES ASSUME file \notin raced', NEW q \in Requests, at'[q] = "opined"
               PROVE  Sound /\ mine'[q] = file.of /\ sidecar'[q] \in {0, file.of}
    BY DEF OpinionIsOfTheModel, Sound
  <2>1. CASE q # r
    BY <2>1, Members DEF OpinionInv, OpinionIsOfTheModel
  <2> QED BY <2>1
<1> QED BY <1>1, <1>2

LEMMA ReadingStep ==
    ASSUME OpinionInv, NEW r \in Loaders, ReadSidecar(r) \/ Hash(r) \/ Load(r)
    PROVE  OpinionInv'
<1>0. /\ TypeOK' /\ UNCHANGED <<Disk, cache, seen, raced>>
      /\ \A q \in Loaders : q # r => at'[q] = at[q] /\ mine'[q] = mine[q] /\ sidecar'[q] = sidecar[q]
  BY ReadingTypes DEF OpinionInv
<1>t. at \in [Loaders -> Steps] /\ sidecar \in [Loaders -> Int] /\ mine \in [Loaders -> Nat]
      /\ file \in Contents
  BY DEF OpinionInv, TypeOK, ThreadType, DiskType
<1>1. at[r] \in {"read", "hash", "load"} /\ at'[r] \in {"hash", "load", "keep", "fail", "refused"}
  BY <1>t DEF ReadSidecar, Hash, Load, Goto
<1>2. Underway' = Underway
  BY <1>0, <1>1, Members DEF Underway
<1>3. SomeoneWithin' => SomeoneWithin
  BY <1>0, <1>1, Members DEF SomeoneWithin, Within
<1>4. FreshOK' /\ AskedOK' /\ CacheOK'
  BY <1>0, <1>2, <1>3 DEF OpinionInv, Disk, FreshOK, AskedOK, CacheOK, Fits
<1>5. ASSUME r \in Requests PROVE HandOK(r)'
  <2>0. HandOK(r) /\ UNCHANGED <<file, prov, raced>>
    BY <1>0, <1>5 DEF OpinionInv, Disk
  <2>1. CASE ReadSidecar(r)
    <3>1. at'[r] \in {"hash", "fail"} /\ sidecar'[r] = prov
      BY <1>t, <2>1 DEF ReadSidecar, Goto
    <3> QED BY <2>0, <3>1 DEF HandOK
  <2>2. CASE Hash(r)
    <3>1. /\ at[r] = "hash" /\ at'[r] \in {"refused", "load", "fail"} /\ sidecar'[r] = sidecar[r]
          /\ at'[r] = "load" => file = Model(sidecar[r])
      BY <1>t, <2>2 DEF Hash, Goto
    <3>2. file = Model(sidecar[r]) => file.of = sidecar[r] /\ file.whole
      BY DEF Model
    <3> QED BY <2>0, <3>1, <3>2 DEF HandOK, Sound
  <2>3. CASE Load(r)
    <3>1. /\ at[r] = "load" /\ at'[r] \in {"keep", "fail"}
          /\ sidecar'[r] = sidecar[r] /\ mine'[r] = file.of
      BY <1>t, <2>3 DEF Load, Goto
    <3> QED BY <2>0, <3>1 DEF HandOK, Sound
  <2> QED BY <2>1, <2>2, <2>3
<1>6. (\A q \in Requests : HandOK(q)') /\ OpinionIsOfTheModel'
  <2>1. UNCHANGED <<file, prov>> /\ raced \subseteq raced'
    BY <1>0 DEF Disk
  <2> QED BY <1>0, <1>1, <1>5, <2>1, OtherHands
<1> QED BY <1>0, <1>4, <1>6 DEF OpinionInv

(* What is on disk is never the key of an empty cache. *)
LEMMA NoKeyIsNoFile ==
    ASSUME OpinionInv
    PROVE  /\ file # NoKey
           /\ trainer \in {"dumping", "swapping"} => NoKey # Model(trained)
           /\ trainer = "swapping" => aside.model # NoKey /\ aside.model # Missing /\ file = Missing
<1>1. file.of = 0 => ~file.whole
  BY DEF OpinionInv, FreshOK
<1>2. trainer \in {"dumping", "swapping"} => trained > 0 /\ trained \in Nat
  BY DEF OpinionInv, FreshOK, TypeOK, DiskType
<1>3. trainer = "swapping" => aside.model.of \in 1..trained /\ file = Missing
  BY DEF OpinionInv, FreshOK
<1>4. file # NoKey
  BY <1>1, ContentTypes
<1>5. trainer \in {"dumping", "swapping"} => NoKey # Model(trained)
  <2> SUFFICES ASSUME trained > 0, trained \in Nat PROVE NoKey # Model(trained)
    BY <1>2
  <2>1. NoKey.of = 0 /\ Model(trained).of = trained
    BY ContentTypes
  <2> QED BY <2>1
<1>6. trainer = "swapping" => aside.model.of # NoKey.of /\ aside.model.of # Missing.of
  BY <1>3, ContentTypes
<1> QED BY <1>3, <1>4, <1>5, <1>6

(* A step of a request that leaves the cache and the files alone. *)
LEMMA StayingStep ==
    ASSUME OpinionInv, NEW r \in Requests, Asking(r), UNCHANGED <<cache, raced, seen>>,
           at[r] # "idle", at'[r] # "idle",
           at[r] \in Within \/ at'[r] \notin Within \/ cache.key = seen[r]
    PROVE  FreshOK' /\ AskedOK' /\ CacheOK'
<1>0. /\ UNCHANGED Disk
      /\ \A q \in Loaders : q # r => at'[q] = at[q]
  BY AskingTypes DEF OpinionInv
<1>1. Underway' = Underway /\ r \in Underway
  BY <1>0, Members DEF Underway
<1>2. SomeoneWithin' => SomeoneWithin \/ cache.key = seen[r]
  BY <1>0, Members DEF SomeoneWithin
<1>3. seen[r] = file \/ {seen[r], file} \subseteq raced
  BY <1>1 DEF OpinionInv, AskedOK
<1>4. FreshOK' /\ AskedOK'
  BY <1>0, <1>1, <1>2, <1>3 DEF OpinionInv, Disk, FreshOK, AskedOK
<1>5. CacheOK'
  BY <1>0, <1>1, <1>2, <1>3 DEF OpinionInv, Disk, CacheOK, Fits
<1> QED BY <1>4, <1>5

LEMMA AskStep ==
    ASSUME OpinionInv, NEW r \in Requests, Ask(r)
    PROVE  FreshOK' /\ AskedOK' /\ CacheOK' /\ HandOK(r)' /\ at'[r] = "compare"
           /\ raced \subseteq raced'
<1>0. /\ at[r] = "idle" /\ at'[r] = "compare" /\ \A q \in Requests : q # r => at'[q] = at[q]
      /\ seen' = [seen EXCEPT ![r] = file] /\ seen'[r] = file
      /\ raced' = IF trainer = "idle" THEN raced ELSE raced \cup {file}
      /\ UNCHANGED <<Disk, cache, mine, sidecar>>
  BY Members DEF Ask, Goto, Key, OpinionInv, TypeOK, ThreadType
<1>1. raced \subseteq raced' /\ (file \notin raced' => trainer = "idle")
  BY <1>0
<1>2. Underway' = Underway \cup {r} /\ (SomeoneWithin' <=> SomeoneWithin)
  BY <1>0 DEF Underway, SomeoneWithin, Within
<1>3. \A q \in Requests : seen'[q] = IF q = r THEN file ELSE seen[q]
  BY <1>0, Members DEF OpinionInv, TypeOK, ThreadType
<1>4. FreshOK'
  <2>1. trainer \in {"dumping", "swapping"} => file # Model(trained)
    <3>1. trainer \in {"dumping", "swapping"} => ~file.whole
      BY ContentTypes DEF OpinionInv, FreshOK
    <3> QED BY <3>1, ContentTypes DEF OpinionInv, TypeOK, DiskType
  <2> QED BY <1>0, <1>3, <2>1 DEF OpinionInv, FreshOK, Disk
<1>5. AskedOK'
  BY <1>0, <1>1, <1>2, <1>3 DEF OpinionInv, AskedOK, Disk, Underway
<1>6. CacheOK'
  BY <1>0, <1>1, <1>2 DEF OpinionInv, CacheOK, Fits, Disk
<1>7. HandOK(r)'
  BY <1>0 DEF HandOK
<1> QED BY <1>0, <1>1, <1>4, <1>5, <1>6, <1>7

LEMMA ClearStep ==
    ASSUME OpinionInv, NEW r \in Requests, Reset(r) \/ SetKey(r)
    PROVE  FreshOK' /\ AskedOK' /\ CacheOK' /\ HandOK(r)' /\ at'[r] \in {"key", "read"}
<1>0. /\ at[r] \in {"reset", "key"} /\ at'[r] \in {"key", "read"}
      /\ \A q \in Requests : q # r => at'[q] = at[q]
      /\ UNCHANGED <<Disk, seen, mine, sidecar, raced>>
  BY Members DEF Reset, SetKey, Goto, OpinionInv, TypeOK, ThreadType
<1>1. Underway' = Underway /\ r \in Underway
  BY <1>0 DEF Underway
<1>2. HandOK(r)'
  BY <1>0 DEF HandOK
<1>3. CASE Reset(r)
  <2>1. cache' = Empty
    BY <1>3 DEF Reset, Cleared
  <2>2. FreshOK'
    BY <1>0, <2>1, ContentTypes, NoKeyIsNoFile DEF OpinionInv, TypeOK, DiskType, FreshOK, Disk
  <2>3. AskedOK'
    BY <1>0, <1>1, <2>1, ContentTypes, NoKeyIsNoFile DEF OpinionInv, AskedOK, Disk
  <2>4. CacheOK'
    BY <2>1, ContentTypes DEF CacheOK, Fits
  <2> QED BY <1>0, <1>2, <2>2, <2>3, <2>4
<1>4. CASE SetKey(r)
  <2>1. /\ cache' = [cache EXCEPT !.key = seen[r]] /\ at[r] = "key"
        /\ cache'.key = seen[r] /\ cache'.est = cache.est /\ cache'.prov = cache.prov
    BY <1>4 DEF SetKey, Goto, OpinionInv, TypeOK, ThreadType
  <2>2. SomeoneWithin
    BY <2>1 DEF SomeoneWithin, Within
  <2>3. seen[r] = file \/ {seen[r], file} \subseteq raced
    BY <1>1 DEF OpinionInv, AskedOK
  <2>4. FreshOK'
    BY <1>0, <2>1 DEF OpinionInv, FreshOK, Disk
  <2>5. AskedOK'
    BY <1>0, <1>1, <2>1, <2>3 DEF OpinionInv, AskedOK, Disk
  <2>6. CacheOK'
    <3>1. file \notin raced => Fits(file, prov)
      BY <2>2 DEF OpinionInv, CacheOK
    <3>2. Missing \notin raced /\ seen[r] = Missing => Fits(Missing, 0)
      BY <2>3, <3>1, ContentTypes DEF Fits
    <3>3. trainer = "swapping" /\ aside.model \notin raced => seen[r] # aside.model
      BY <2>3, NoKeyIsNoFile
    <3> QED BY <1>0, <2>1, <3>1, <3>2, <3>3 DEF CacheOK, Fits, Disk
  <2> QED BY <1>0, <1>2, <2>4, <2>5, <2>6
<1> QED BY <1>3, <1>4

LEMMA KeepStep ==
    ASSUME OpinionInv, NEW r \in Requests, KeepModel(r) \/ KeepSidecar(r) \/ KeepError(r)
    PROVE  FreshOK' /\ AskedOK' /\ CacheOK' /\ HandOK(r)' /\ at'[r] \in {"keepSidecar", "check"}
<1>0. /\ at[r] \in {"keep", "keepSidecar", "fail"} /\ at'[r] \in {"keepSidecar", "check"}
      /\ at'[r] = "keepSidecar" => at[r] = "keep"
      /\ \A q \in Requests : q # r => at'[q] = at[q]
      /\ UNCHANGED <<Disk, seen, mine, sidecar, raced>>
  BY Members DEF KeepModel, KeepSidecar, KeepError, Goto, OpinionInv, TypeOK, ThreadType
<1>1. Underway' = Underway /\ r \in Underway /\ SomeoneWithin
  BY <1>0 DEF Underway, SomeoneWithin, Within
<1>2. HandOK(r)'
  BY <1>0 DEF OpinionInv, HandOK, Disk, Sound
<1>3. /\ cache'.key = cache.key
      /\ \/ cache'.est = cache.est
         \/ at[r] = "keep" /\ cache'.est = mine[r]
      /\ \/ cache'.prov = cache.prov
         \/ at[r] = "keepSidecar" /\ cache'.prov = sidecar[r]
  BY DEF KeepModel, KeepSidecar, KeepError, Goto, OpinionInv, TypeOK, ThreadType
<1>4. FreshOK' /\ AskedOK'
  BY <1>0, <1>1, <1>3 DEF OpinionInv, FreshOK, AskedOK, Disk
<1>5. file \notin raced => Fits(file, prov)'
  <2> SUFFICES ASSUME file \notin raced PROVE Fits(file, prov)'
    OBVIOUS
  <2>1. Fits(file, prov)
    BY <1>1 DEF OpinionInv, CacheOK
  <2>2. HandOK(r)
    BY DEF OpinionInv
  <2> QED BY <1>0, <1>3, <2>1, <2>2 DEF Fits, HandOK, Sound, Disk
<1>6. cache.key \in {NoKey, file} \cup raced
  BY <1>1 DEF OpinionInv, AskedOK
<1>7. Missing \notin raced /\ cache.key = Missing => Fits(Missing, 0)'
  <2> SUFFICES ASSUME Missing \notin raced, cache.key = Missing PROVE Fits(Missing, 0)'
    OBVIOUS
  <2>1. file = Missing
    BY <1>6, ContentTypes
  <2> QED BY <1>0, <1>5, <2>1, ContentTypes DEF Fits, Disk
<1>8. trainer = "swapping" /\ aside.model \notin raced => cache.key # aside.model
  BY <1>6, NoKeyIsNoFile
<1>9. CacheOK'
  BY <1>0, <1>3, <1>5, <1>7, <1>8 DEF CacheOK, Disk
<1> QED BY <1>0, <1>2, <1>4, <1>9

LEMMA AnswerStep ==
    ASSUME OpinionInv, NEW r \in Requests, Answer(r)
    PROVE  FreshOK' /\ AskedOK' /\ CacheOK' /\ HandOK(r)' /\ at'[r] = "idle"
<1>0. /\ at'[r] = "idle" /\ at[r] \in {"refused", "opined"}
      /\ \A q \in Requests : q # r => at'[q] = at[q]
      /\ \A q \in Requests : seen'[q] = IF q = r THEN NoKey ELSE seen[q]
      /\ UNCHANGED <<Disk, cache, raced>>
  BY Members DEF Answer, Goto, OpinionInv, TypeOK, ThreadType
<1>1. Underway' = Underway \ {r} /\ (SomeoneWithin' <=> SomeoneWithin)
  BY <1>0 DEF Underway, SomeoneWithin, Within
<1>2. FreshOK'
  BY <1>0, ContentTypes, NoKeyIsNoFile DEF OpinionInv, TypeOK, DiskType, FreshOK, Disk
<1>3. AskedOK' /\ CacheOK'
  BY <1>0, <1>1 DEF OpinionInv, AskedOK, CacheOK, Fits, Disk, Underway
<1>4. HandOK(r)'
  BY <1>0 DEF HandOK
<1> QED BY <1>0, <1>2, <1>3, <1>4

LEMMA AskingStep ==
    ASSUME OpinionInv, NEW r \in Requests, Asking(r)
    PROVE  OpinionInv'
<1>0. /\ TypeOK' /\ UNCHANGED <<file, prov>>
      /\ \A q \in Loaders : q # r => /\ at'[q] = at[q] /\ mine'[q] = mine[q] /\ sidecar'[q] = sidecar[q]
  BY AskingTypes DEF OpinionInv, Disk
<1>a. ASSUME FreshOK', AskedOK', CacheOK', HandOK(r)', raced \subseteq raced',
             file \notin raced' /\ at'[r] = "opined" =>
                 Sound /\ mine'[r] = file.of /\ sidecar'[r] \in {0, file.of}
      PROVE  OpinionInv'
  BY <1>0, <1>a, OtherHands DEF OpinionInv
<1>1. CASE Ask(r)
  BY <1>a, <1>1, AskStep
<1>2. CASE Reset(r) \/ SetKey(r)
  BY <1>a, <1>2, ClearStep DEF Reset, SetKey
<1>3. CASE KeepModel(r) \/ KeepSidecar(r) \/ KeepError(r)
  BY <1>a, <1>3, KeepStep DEF KeepModel, KeepSidecar, KeepError
<1>4. CASE Answer(r)
  BY <1>a, <1>4, AnswerStep DEF Answer
<1>5. CASE Compare(r)
  <2>1. /\ at[r] = "compare" /\ at'[r] = IF cache.key = seen[r] THEN "check" ELSE "reset"
        /\ UNCHANGED <<cache, raced, seen, mine, sidecar>>
    BY <1>5, Members DEF Compare, Goto, OpinionInv, TypeOK, ThreadType
  <2>2. FreshOK' /\ AskedOK' /\ CacheOK'
    BY <2>1, StayingStep DEF Within
  <2>3. HandOK(r)'
    BY <2>1 DEF HandOK
  <2> QED BY <1>a, <2>1, <2>2, <2>3
<1>6. CASE Check(r)
  <2>1. /\ at[r] = "check" /\ at'[r] \in {"refused", "reading"}
        /\ mine'[r] \in {0, cache.est}
        /\ UNCHANGED <<cache, raced, seen, sidecar>>
    BY <1>6, Members DEF Check, Goto, OpinionInv, TypeOK, ThreadType
  <2>2. FreshOK' /\ AskedOK' /\ CacheOK'
    BY <2>1, StayingStep DEF Within
  <2>3. file \notin raced => Fits(file, prov)
    BY <2>1 DEF OpinionInv, CacheOK, SomeoneWithin, Within
  <2>4. HandOK(r)'
    BY <1>0, <2>1, <2>3 DEF HandOK, Fits, Sound
  <2> QED BY <1>a, <2>1, <2>2, <2>4
<1>7. CASE ReadCache(r)
  <2>1. /\ at[r] = "reading" /\ at'[r] = IF mine[r] = 0 THEN "refused" ELSE "opined"
        /\ sidecar'[r] = cache.prov
        /\ UNCHANGED <<cache, raced, seen, mine>>
    BY <1>7, Members DEF ReadCache, Goto, OpinionInv, TypeOK, ThreadType
  <2>2. FreshOK' /\ AskedOK' /\ CacheOK'
    BY <2>1, StayingStep DEF Within
  <2>3. file \notin raced => Fits(file, prov)
    BY <2>1 DEF OpinionInv, CacheOK, SomeoneWithin, Within
  <2>4. HandOK(r)'
    BY <2>1 DEF HandOK
  <2>5. file \notin raced /\ at'[r] = "opined" =>
            Sound /\ mine'[r] = file.of /\ sidecar'[r] \in {0, file.of}
    <3>1. HandOK(r)
      BY DEF OpinionInv
    <3> QED BY <2>1, <2>3, <3>1 DEF HandOK, Fits, Sound
  <2> QED BY <1>a, <2>1, <2>2, <2>4, <2>5
<1> QED BY <1>1, <1>2, <1>3, <1>4, <1>5, <1>6, <1>7 DEF Asking

-----------------------------------------------------------------------------
(* The measurement touches the requests only by resetting their cache. *)
LEMMA BesideRequests ==
    ASSUME OpinionInv, TypeOK', UNCHANGED <<Disk, raced>>,
           cache' = cache \/ cache' = Empty,
           \A r \in Requests : /\ at'[r] = at[r] /\ seen'[r] = seen[r]
                               /\ mine'[r] = mine[r] /\ sidecar'[r] = sidecar[r]
    PROVE  OpinionInv'
<1>1. Underway' = Underway /\ (SomeoneWithin' <=> SomeoneWithin)
  BY DEF Underway, SomeoneWithin
<1>2. (\A r \in Requests : HandOK(r)') /\ OpinionIsOfTheModel'
  <2>1. ASSUME NEW r \in Requests PROVE HandOK(r)'
    <3>1. HandOK(r)
      BY DEF OpinionInv
    <3> QED BY <3>1 DEF HandOK, Sound, Disk
  <2>2. OpinionIsOfTheModel'
    BY DEF OpinionInv, OpinionIsOfTheModel, Sound, Disk
  <2> QED BY <2>1, <2>2
<1>3. CASE cache' = cache
  <2>1. FreshOK' /\ AskedOK' /\ CacheOK'
    BY <1>1, <1>3 DEF OpinionInv, FreshOK, AskedOK, CacheOK, Fits, Disk, Underway
  <2> QED BY <1>2, <2>1 DEF OpinionInv
<1>4. CASE cache' = Empty
  <2>1. FreshOK'
    BY <1>4, ContentTypes, NoKeyIsNoFile DEF OpinionInv, TypeOK, DiskType, FreshOK, Disk
  <2>2. AskedOK'
    BY <1>1, <1>4, ContentTypes, NoKeyIsNoFile DEF OpinionInv, AskedOK, Disk, Underway
  <2>3. CacheOK'
    BY <1>4, ContentTypes DEF CacheOK, Fits
  <2> QED BY <1>2, <2>1, <2>2, <2>3 DEF OpinionInv
<1> QED BY <1>3, <1>4

(* After a restart nobody is in the cache, and it is empty. *)
LEMMA RestartOpinion ==
    ASSUME OpinionInv, Restart
    PROVE  OpinionInv'
<1>0. /\ cache' = Empty /\ UNCHANGED <<Disk, raced>>
      /\ \A r \in Requests : at'[r] = "idle" /\ seen'[r] = NoKey
  BY Members DEF Restart
<1>1. TypeOK'
  BY <1>0, ContentTypes DEF Restart, OpinionInv, TypeOK, DiskType, ThreadType, Steps, Disk
<1>2. Underway' = {} /\ ~SomeoneWithin'
  BY <1>0 DEF Underway, SomeoneWithin, Within
<1>3. FreshOK'
  BY <1>0, ContentTypes, NoKeyIsNoFile DEF OpinionInv, TypeOK, DiskType, FreshOK, Disk
<1>4. AskedOK' /\ CacheOK'
  BY <1>0, <1>2, ContentTypes, NoKeyIsNoFile DEF AskedOK, CacheOK, Fits, Disk
<1>5. (\A r \in Requests : HandOK(r)') /\ OpinionIsOfTheModel'
  BY <1>0 DEF HandOK, OpinionIsOfTheModel
<1> QED BY <1>1, <1>3, <1>4, <1>5 DEF OpinionInv

(* The steps of the measurement itself. *)
Measuring ==
    \/ Get \/ Post \/ BenchReset \/ LoadModel \/ AssertFresh
    \/ Measure \/ MeasureRaises \/ PersistOpens \/ PersistFills \/ Publish

LEMMA MeasuringChanges ==
    ASSUME TypeOK, Measuring
    PROVE  /\ TypeOK' /\ UNCHANGED <<Disk, raced, seen, restarts, moved>>
           /\ cache' = cache \/ cache' = Empty
           /\ \A r \in Requests : at'[r] = at[r] /\ mine'[r] = mine[r] /\ sidecar'[r] = sidecar[r]
<1> USE DEF TypeOK
<1>1. UNCHANGED <<Disk, raced, seen, restarts, moved>> /\ (cache' = cache \/ cache' = Empty)
  BY DEF Measuring, Get, Post, BenchReset, LoadModel, AssertFresh, Fail, Measure, MeasureRaises,
         PersistOpens, PersistFills, Publish, vars, Disk, measurement, Cleared
<1>2. /\ at' \in [Loaders -> Steps]
      /\ \A r \in Requests : at'[r] = at[r]
  <2>1. at' = at \/ \E to \in Steps : at' = [at EXCEPT ![Bench] = to]
    BY DEF Measuring, Get, Post, BenchReset, LoadModel, AssertFresh, Fail, Measure, MeasureRaises,
           PersistOpens, PersistFills, Publish, vars, Goto, Steps
  <2> QED BY <2>1, Members DEF ThreadType
<1>3. /\ mine' \in [Loaders -> Nat] /\ sidecar' \in [Loaders -> Int]
      /\ \A r \in Requests : mine'[r] = mine[r] /\ sidecar'[r] = sidecar[r]
  <2>1. \/ mine' = mine /\ sidecar' = sidecar
        \/ mine' = [mine EXCEPT ![Bench] = 0] /\ sidecar' = [sidecar EXCEPT ![Bench] = 0]
    BY DEF Measuring, Get, Post, BenchReset, LoadModel, AssertFresh, Fail, Measure, MeasureRaises,
           PersistOpens, PersistFills, Publish, vars
  <2> QED BY <2>1, Members DEF ThreadType
<1>4. DiskType'
  BY <1>1 DEF DiskType, Disk
<1>5. ThreadType'
  BY <1>1, <1>2, <1>3, ContentTypes DEF ThreadType
<1> QED BY <1>1, <1>2, <1>3, <1>4, <1>5

LEMMA OpinionStep ==
    ASSUME OpinionInv, [EfficacyNext]_everything
    PROVE  OpinionInv'
<1>1. CASE UNCHANGED everything
  <2>1. UNCHANGED <<Disk, cache, at, seen, mine, sidecar, raced>>
    BY <1>1 DEF everything, vars, Disk
  <2>2. TypeOK'
    BY <2>1 DEF OpinionInv, TypeOK, DiskType, ThreadType, Disk
  <2> QED BY <2>1, <2>2, BesideRequests
<1>2. CASE Beside
  BY <1>2, OpinionSteps, TrainingStep, ReadingStep, AskingStep DEF Beside
<1>3. CASE Measuring
  BY <1>3, MeasuringChanges, BesideRequests DEF OpinionInv
<1>4. CASE Restart
  BY <1>4, RestartOpinion
<1> QED BY <1>1, <1>2, <1>3, <1>4 DEF EfficacyNext, Measuring

(* An opinion that is shown comes from the model on disk, whole and with its *)
(* own provenance, whatever other requests, the measurement and the trainer  *)
(* do to the unlocked cache and to the files: _cached_model, load_model.     *)
THEOREM OpinionsAreOfTheModel ==
    EfficacySpec => []OpinionIsOfTheModel
<1>1. EfficacyInit => OpinionInv
  BY Start
<1>2. OpinionInv => OpinionIsOfTheModel
  BY DEF OpinionInv
<1> QED BY <1>1, OpinionStep, <1>2, PTL DEF EfficacySpec

-----------------------------------------------------------------------------
(* What goes on beside the measurement: the model file may change under it,  *)
(* which is recorded while it loads; the steps of load_model are its own.    *)
LEMMA BesideStep ==
    ASSUME OpinionInv, BenchInv, Beside
    PROVE  BenchInv'
<1> USE DEF BenchInv
<1>0. /\ UNCHANGED <<job, loaded, stored, model, result, started, restarts, ended, unsaved>>
      /\ OpinionNext
      /\ moved' = IF at[Bench] = "load" /\ file' # file THEN moved \cup {started} ELSE moved
  BY DEF Beside
<1>1. MeasuringType' /\ LastRunSurvives' /\ moved \subseteq moved'
  BY <1>0 DEF MeasuringType, LastRunSurvives
<1>2. Honest(job.run)' /\ Honest(stored)' /\ (Honest(result) => Honest(result)')
  BY <1>0, <1>1 DEF Honest
<1>3. ASSUME at'[Bench] = at[Bench], mine'[Bench] = mine[Bench], sidecar'[Bench] = sidecar[Bench],
             at[Bench] = "load" /\ file' # file => started \in moved'
      PROVE  BenchOK' /\ StoredOK'
  BY <1>0, <1>1, <1>2, <1>3 DEF BenchOK, StoredOK
<1>4. CASE Training
  <2>1. UNCHANGED <<at, mine, sidecar>>
    BY <1>4, TrainingTypes DEF OpinionInv
  <2> QED BY <1>0, <1>1, <1>2, <1>3, <2>1
<1>5. CASE \E r \in Requests : Asking(r)
  <2>1. /\ UNCHANGED file /\ at'[Bench] = at[Bench]
        /\ mine'[Bench] = mine[Bench] /\ sidecar'[Bench] = sidecar[Bench]
    BY <1>5, AskingTypes, Members DEF OpinionInv, Disk
  <2> QED BY <1>1, <1>2, <1>3, <2>1
<1>6. ASSUME NEW r \in Requests, ReadSidecar(r) \/ Hash(r) \/ Load(r)
      PROVE  BenchInv'
  <2>1. /\ UNCHANGED file /\ at'[Bench] = at[Bench]
        /\ mine'[Bench] = mine[Bench] /\ sidecar'[Bench] = sidecar[Bench]
    BY <1>6, ReadingTypes, Members DEF OpinionInv, Disk
  <2> QED BY <1>1, <1>2, <1>3, <2>1
<1>7. CASE ReadSidecar(Bench) \/ Hash(Bench) \/ Load(Bench)
  <2>0. UNCHANGED <<file, seen>> /\ moved' = moved
    BY <1>0, <1>7, ReadingTypes, Members DEF OpinionInv, Disk
  <2>t. at \in [Loaders -> Steps] /\ mine \in [Loaders -> Nat] /\ sidecar \in [Loaders -> Int]
    BY DEF OpinionInv, TypeOK, ThreadType
  <2>1. CASE ReadSidecar(Bench)
    <3>1. at[Bench] = "read" /\ at'[Bench] \in {"hash", "fail"}
      BY <2>1, <2>t, Members DEF ReadSidecar, Goto
    <3> QED BY <1>0, <1>1, <1>2, <2>0, <3>1 DEF BenchOK, StoredOK
  <2>2. CASE Hash(Bench)
    <3>1. /\ at[Bench] = "hash" /\ at'[Bench] \in {"refused", "load", "fail"}
          /\ sidecar' = sidecar
          /\ at'[Bench] = "load" => file = Model(sidecar[Bench])
      BY <2>2, <2>t, Members DEF Hash, Goto
    <3>2. at'[Bench] = "load" => (file = Model(sidecar[Bench]))'
      BY <2>0, <3>1
    <3> QED BY <1>0, <1>1, <1>2, <2>0, <3>1, <3>2 DEF BenchOK, StoredOK
  <2>3. CASE Load(Bench)
    <3>1. /\ at[Bench] = "load" /\ at'[Bench] \in {"keep", "fail"}
          /\ sidecar' = sidecar /\ mine'[Bench] = file.of
      BY <2>3, <2>t, Members DEF Load, Goto
    <3>2. started \notin moved => mine'[Bench] = sidecar'[Bench]
      BY <3>1 DEF BenchOK, Model
    <3> QED BY <1>0, <1>1, <1>2, <2>0, <3>1, <3>2 DEF BenchOK, StoredOK
  <2> QED BY <1>7, <2>1, <2>2, <2>3
<1> QED BY <1>0, <1>4, <1>5, <1>6, <1>7, OpinionSteps, Members

LEMMA MeasuringStep ==
    ASSUME OpinionInv, BenchInv, Measuring
    PROVE  BenchInv'
<1> USE DEF BenchInv
<1>0. /\ at \in [Loaders -> Steps] /\ mine \in [Loaders -> Nat] /\ sidecar \in [Loaders -> Int]
      /\ Bench \in Loaders /\ UNCHANGED <<file, moved, restarts>>
  BY MeasuringChanges, Members DEF OpinionInv, TypeOK, ThreadType, Disk
<1>r. NoRun \in Runs /\ NoRun.no = 0 /\ Cut \in Runs /\ Cut.no = -1
  BY DEF NoRun, Cut, Runs
<1>h. ASSUME NEW run, Honest(run) PROVE Honest(run)'
  BY <1>0, <1>h DEF Honest
<1>1. CASE Get
  <2>1. /\ ~loaded /\ job.status = "idle" /\ loaded' = TRUE /\ UNCHANGED <<at, mine, sidecar>>
        /\ UNCHANGED <<stored, model, result, started, ended, unsaved>>
        /\ \/ stored.no > 0 /\ job' = [status |-> "done", run |-> stored]
           \/ ~ (stored.no > 0) /\ job' = job
    BY <1>1 DEF Get, vars
  <2>2. at[Bench] = "idle"
    BY <2>1 DEF BenchOK
  <2>3. MeasuringType'
    BY <2>1 DEF MeasuringType
  <2>4. BenchOK'
    BY <1>0, <2>1, <2>2 DEF BenchOK
  <2>5. StoredOK' /\ Honest(stored)' /\ Honest(job.run)'
    BY <1>0, <2>1 DEF StoredOK, Honest
  <2>6. LastRunSurvives'
    BY <1>r, <2>1, <2>2 DEF LastRunSurvives, StoredOK, BenchOK, MeasuringType, Runs
  <2> QED BY <2>3, <2>4, <2>5, <2>6
<1>2. CASE Post
  <2>1. /\ job.status # "running" /\ job' = [status |-> "running", run |-> NoRun]
        /\ started' = started + 1 /\ at' = [at EXCEPT ![Bench] = "resetting"]
        /\ UNCHANGED <<mine, sidecar, loaded, stored, model, result, ended, unsaved>>
    BY <1>2 DEF Post, Goto
  <2>2. at[Bench] = "idle" /\ at'[Bench] = "resetting" /\ job'.status = "running" /\ job'.run = NoRun
    BY <1>0, <2>1 DEF BenchOK
  <2>3. MeasuringType'
    BY <1>r, <2>1 DEF MeasuringType
  <2>4. BenchOK'
    BY <1>0, <2>1, <2>2 DEF BenchOK, MeasuringType
  <2>5. StoredOK' /\ Honest(stored)' /\ Honest(job.run)' /\ LastRunSurvives'
    BY <1>0, <1>r, <2>1, <2>2 DEF StoredOK, Honest, LastRunSurvives
  <2> QED BY <2>3, <2>4, <2>5
<1>3. CASE BenchReset \/ LoadModel \/ (AssertFresh /\ at'[Bench] # "idle")
  <2>1. /\ UNCHANGED <<job, loaded, stored, result, started, ended, unsaved>>
        /\ at'[Bench] \in {"read", "asserting", "measuring"}
        /\ at[Bench] \in {"resetting", "keep", "fail", "refused", "asserting"}
    BY <1>0, <1>3 DEF BenchReset, LoadModel, AssertFresh, Fail, Goto, measurement
  <2>2. model' \in [est : Nat, prov : Int]
    BY <1>0, <1>3 DEF BenchReset, LoadModel, AssertFresh, Fail, Goto, measurement, MeasuringType, NoModel
  <2>3. /\ at'[Bench] \in {"asserting", "measuring"} /\ started \notin moved => model'.est = model'.prov
        /\ at'[Bench] = "measuring" => model'.prov \notin Overlapping
    <3>1. CASE BenchReset
      BY <1>0, <3>1 DEF BenchReset, Goto
    <3>2. CASE LoadModel
      BY <1>0, <3>2 DEF LoadModel, Goto, NoModel, BenchOK
    <3>3. CASE AssertFresh /\ at'[Bench] # "idle"
      BY <1>0, <3>3 DEF AssertFresh, Fail, Goto, measurement, BenchOK
    <3> QED BY <1>3, <3>1, <3>2, <3>3
  <2>4. MeasuringType'
    BY <2>1, <2>2 DEF MeasuringType
  <2>5. BenchOK'
    BY <1>0, <2>1, <2>3 DEF BenchOK
  <2>6. StoredOK' /\ Honest(stored)' /\ Honest(job.run)' /\ LastRunSurvives'
    BY <1>0, <2>1 DEF StoredOK, Honest, LastRunSurvives
  <2> QED BY <2>4, <2>5, <2>6
<1>4. CASE MeasureRaises \/ (AssertFresh /\ at'[Bench] = "idle")
  <2>1. Fail /\ at[Bench] \in {"measuring", "asserting"}
    BY <1>0, <1>4 DEF MeasureRaises, AssertFresh, Goto
  <2>2. /\ at' = [at EXCEPT ![Bench] = "idle"] /\ job' = [status |-> "error", run |-> NoRun]
        /\ loaded' = TRUE /\ model' = NoModel
        /\ UNCHANGED <<mine, sidecar, stored, result, started, ended, unsaved>>
    BY <2>1 DEF Fail
  <2>3. at'[Bench] = "idle" /\ job'.status = "error" /\ job'.run = NoRun
    BY <1>0, <2>2
  <2>4. MeasuringType'
    BY <1>r, <2>2 DEF MeasuringType, NoModel
  <2>5. BenchOK'
    BY <1>0, <2>2, <2>3 DEF BenchOK
  <2>6. StoredOK' /\ Honest(stored)' /\ Honest(job.run)' /\ LastRunSurvives'
    BY <1>0, <1>r, <2>1, <2>2, <2>3 DEF StoredOK, Honest, LastRunSurvives
  <2> QED BY <2>4, <2>5, <2>6
<1>5. CASE Measure
  <2>1. /\ at[Bench] = "measuring" /\ at'[Bench] = "writing"
        /\ result' = [no |-> started, est |-> model.est, prov |-> model.prov] /\ model' = NoModel
        /\ UNCHANGED <<mine, sidecar, job, loaded, stored, started, ended, unsaved>>
    BY <1>0, <1>5 DEF Measure, Goto
  <2>2. MeasuringType'
    BY <2>1 DEF MeasuringType, NoModel, Runs
  <2>3. result'.no = started' /\ Honest(result)'
    BY <1>0, <2>1 DEF BenchOK, Honest
  <2>4. BenchOK'
    BY <1>0, <2>1, <2>3 DEF BenchOK
  <2>5. StoredOK' /\ Honest(stored)' /\ Honest(job.run)' /\ LastRunSurvives'
    BY <1>0, <2>1 DEF StoredOK, Honest, LastRunSurvives
  <2> QED BY <2>2, <2>4, <2>5
<1>6. CASE PersistOpens \/ PersistFills
  <2>1. /\ at[Bench] \in {"writing", "filling"} /\ at'[Bench] \in {"filling", "publishing"}
        /\ UNCHANGED <<mine, sidecar, job, loaded, model, result, started, ended>>
        /\ stored' \in {stored, Cut, result} /\ unsaved' \in {unsaved, TRUE, FALSE}
    BY <1>0, <1>6 DEF PersistOpens, PersistFills, Goto
  <2>2. MeasuringType'
    <3>1. unsaved' \in BOOLEAN
      BY <2>1 DEF MeasuringType
    <3>2. stored' \in Runs
      BY <1>r, <2>1 DEF MeasuringType
    <3> QED BY <2>1, <3>1, <3>2 DEF MeasuringType
  <2>3. Honest(result) /\ result.no = started /\ job.status = "running" /\ ended < started
    BY <2>1 DEF BenchOK
  <2>4. BenchOK' /\ Honest(job.run)' /\ LastRunSurvives'
    BY <1>0, <2>1, <2>3 DEF BenchOK, Honest, LastRunSurvives
  <2>5. Honest(stored)'
    BY <1>0, <1>r, <2>1, <2>3 DEF Honest
  <2>6. StoredOK'
    BY <1>0, <1>6, <2>1, <2>3 DEF PersistOpens, PersistFills, Goto, StoredOK, MeasuringType
  <2> QED BY <2>2, <2>4, <2>5, <2>6
<1>7. CASE Publish
  <2>1. /\ at[Bench] = "publishing" /\ at'[Bench] = "idle"
        /\ job' = [status |-> "done", run |-> result] /\ loaded' = TRUE
        /\ ended' = result.no /\ result' = NoRun
        /\ UNCHANGED <<mine, sidecar, stored, model, started, unsaved>>
    BY <1>0, <1>7 DEF Publish, Goto
  <2>2. Honest(result) /\ result.no = started /\ started \in Nat
    BY <2>1 DEF BenchOK, MeasuringType
  <2>3. job'.status = "done" /\ job'.run = result
    BY <2>1
  <2>4. MeasuringType'
    BY <1>r, <2>1, <2>2 DEF MeasuringType
  <2>5. BenchOK'
    BY <1>0, <2>1, <2>2, <2>3 DEF BenchOK
  <2>6. StoredOK' /\ Honest(stored)' /\ Honest(job.run)'
    BY <1>0, <2>1, <2>2, <2>3 DEF StoredOK, Honest, MeasuringType, Runs
  <2>7. LastRunSurvives'
    BY <2>1, <2>2, <2>3 DEF LastRunSurvives
  <2> QED BY <2>4, <2>5, <2>6, <2>7
<1> QED BY <1>1, <1>2, <1>3, <1>4, <1>5, <1>6, <1>7 DEF Measuring

LEMMA RestartBench ==
    ASSUME BenchInv, Restart
    PROVE  BenchInv'
<1>1. /\ at'[Bench] = "idle" /\ job' = Idle /\ loaded' = FALSE /\ model' = NoModel /\ result' = NoRun
      /\ unsaved' = (unsaved \/ (stored = Cut /\ ended < started))
      /\ UNCHANGED <<stored, started, moved, ended>>
  BY Members DEF Restart
<1>2. NoRun \in Runs /\ NoRun.no = 0 /\ job'.status = "idle" /\ job'.run = NoRun
  BY <1>1 DEF Idle, NoRun, Runs
<1>3. MeasuringType'
  <2>1. unsaved' \in BOOLEAN
    BY <1>1
  <2>2. job' \in [status : {"idle", "running", "done", "error"}, run : Runs]
    BY <1>1, <1>2 DEF Idle
  <2>3. stored' \in Runs /\ result' \in Runs
    BY <1>1, <1>2 DEF BenchInv, MeasuringType
  <2>4. model' \in [est : Nat, prov : Int]
    BY <1>1 DEF NoModel
  <2>5. loaded' \in BOOLEAN /\ started' \in Nat /\ ended' \in Nat
    BY <1>1 DEF BenchInv, MeasuringType
  <2> QED BY <2>1, <2>2, <2>3, <2>4, <2>5 DEF MeasuringType
<1>4. BenchOK'
  BY <1>1, <1>2 DEF BenchInv, BenchOK
<1>5. StoredOK'
  <2>1. CASE at[Bench] = "filling"
    BY <1>1, <2>1 DEF BenchInv, StoredOK, BenchOK
  <2>2. CASE at[Bench] # "filling"
    BY <1>1, <2>2 DEF BenchInv, StoredOK
  <2> QED BY <2>1, <2>2
<1>6. Honest(stored)' /\ Honest(job.run)' /\ LastRunSurvives'
  BY <1>1, <1>2 DEF BenchInv, Honest, LastRunSurvives
<1> QED BY <1>3, <1>4, <1>5, <1>6 DEF BenchInv

LEMMA BenchStep ==
    ASSUME OpinionInv, BenchInv, [EfficacyNext]_everything
    PROVE  BenchInv'
<1>1. CASE UNCHANGED everything
  <2>1. MeasuringType' /\ Honest(stored)' /\ Honest(job.run)' /\ LastRunSurvives'
    BY <1>1 DEF everything, measurement, BenchInv, MeasuringType, Honest, LastRunSurvives
  <2>2. BenchOK' /\ StoredOK'
    BY <1>1 DEF everything, vars, measurement, BenchInv, BenchOK, StoredOK, Honest
  <2> QED BY <2>1, <2>2 DEF BenchInv
<1> QED BY <1>1, BesideStep, MeasuringStep, RestartBench DEF EfficacyNext, Measuring

LEMMA MeasurementInvariance ==
    EfficacySpec => []BenchInv
<1>1. EfficacyInit => OpinionInv /\ BenchInv
  BY Start
<1>2. OpinionInv /\ BenchInv /\ [EfficacyNext]_everything => OpinionInv' /\ BenchInv'
  BY OpinionStep, BenchStep
<1> QED BY <1>1, <1>2, PTL DEF EfficacySpec

(* The provenance of a published or stored number is that of the model that  *)
(* was scored, which is not one trained on the benchmark: assert_fresh,      *)
(* describe(), work(), _persist.                                             *)
THEOREM BenchmarksAreOfTheirModel ==
    EfficacySpec => []BenchmarkIsOfItsModel
<1>1. BenchInv => BenchmarkIsOfItsModel
  BY DEF BenchInv, Honest, BenchmarkIsOfItsModel
<1> QED BY <1>1, MeasurementInvariance, PTL

(* The last run that was published is shown after a restart too, unless it   *)
(* could not be written or a later one was being written when the console    *)
(* died: snapshot(), _load_persisted, _persist.                              *)
THEOREM LastRunsSurvive ==
    EfficacySpec => []LastRunSurvives
<1>1. BenchInv => LastRunSurvives
  BY DEF BenchInv
<1> QED BY <1>1, MeasurementInvariance, PTL
=============================================================================
