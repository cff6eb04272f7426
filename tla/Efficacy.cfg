\* Two request threads and a measurement over one unlocked cache; two or three
\* versions of the model, the second of which was trained on the benchmark.
SPECIFICATION EfficacySpec
CONSTANTS
    r1 = r1
    r2 = r2
    Requests = {r1, r2}
    Bench = Bench
    MaxSaves = 2
    Overlapping = {2}
    MaxRuns = 2
    MaxRestarts = 1
    MaxBeside = 2
SYMMETRY Threads
INVARIANTS
    OpinionIsOfTheModel
    BenchmarkIsOfItsModel
    LastRunSurvives
CHECK_DEADLOCK FALSE
