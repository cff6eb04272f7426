# itsoc, modelled in TLA+

itsoc is a local-first SOC console. A Python `ThreadingHTTPServer`
(`console/serve.py`) serves a web front end; log files are analysed by a
subprocess (`log_analyzer.py`), live syslog is collected into sqlite, findings
become incidents and cases, a local model explains them and a learned one gives
a second opinion, and gated response actions fire connectors. Requests run on
threads of their own. There is no global lock: the state is a handful of JSON
files that handlers load whole and save whole, a few module globals, an
append-only audit ledger and a sqlite file.

This directory holds TLA+ modules of that system, from the line of a log to the
block of an address, the TLC configurations that check them, and TLAPS proofs.
Line numbers are those of the sources they name.

Contents: [inventory](#inventory) · [modules](#modules) · [runs](#runs) ·
[fairness](#fairness) · [proofs](#proofs) ·
[disagreements](#where-the-code-and-its-documentation-disagree) ·
[abstractions and bounds](#abstractions-and-bounds) ·
[not modelled](#not-modelled) · [plan](#plan)

## Inventory

| Component | State | Operations | What makes it hard | What makes it correct |
|---|---|---|---|---|
| Ingest (`normalize.py`, `log_analyzer.py` 380-1010, `formats_universal.py`, `console/formats`, `adapter.py` 129-180) | none that lasts | sniff, load natively, fall back to a universal loader, in three modes; load again for display | a dozen loaders compete for a mix of lines; two copies of the universal one; the console loads the file again, its own way | what is lost on the way in is counted; evidence numbers are physical lines; the display shows the lines the report was made of |
| Detection (`anomaly_detector.py`, `rules_syslog.py`, the rules of `log_analyzer.py`) | none that lasts | canonicalize, drop companion lines, window rules, single-line rules, promotion | lines out of time order or without a time; companion lines; boundaries of windows | each attacker is reported once, for what they did; a burst is a burst in any order |
| Report and console findings (`log_analyzer.py` 2438-2480, `rule_context.py`, `adapter.py` 180-475) | the report | enrich, cite, adapt | citations in prose and as timelines, read by three parsers | every finding cites its lines |
| Analyzer driver (`log_analyzer.py` 2150-2480, `compare.py`) | a pool of model requests | choose chunks, ask, attach prose, ask again, compare | replies in any order, odd ones, none; prose about the wrong finding | unread parts are named; prose is its finding's own |
| Incidents (`soc.py` 140-700) | `incidents.json` | derive, merge, move, list | every analysis rebuilds every record | what the analyst said is never lost or altered |
| Cases (`soc.py` 1050-1790, `case_store.py`) | `cases.json`, files of attachments, projection onto incidents | create, patch, link, comment, observables, attach, download, migrate | whole-file saves that overlap; bytes and listing stored apart | a listed attachment has its bytes; links are mutual; each case is hosted by an incident |
| Runbooks, priorities and advice (`runbooks.py`, `org_context.py`, `soc.py` 2111-2260, 2501-2683) | none of their own | eligible, scan, recommend, request | three places that judge the same incident; a model's findings among the rules' | an offer can be taken; a block is earned by the rules |
| Approvals (`soc.py` 2086-2441) | `approvals.json` | create, approve, reject | load, decide, save up to a connector timeout later; the ledger may refuse halfway | nothing fires but behind a verified, audited approval; `executed` is never claimed without a connector |
| Audit ledger (`audit.py`, `fsafe.py`) | `chain.jsonl`, `audit_index`, a lock | append, verify, rebuild | threads and processes; torn writes; edits from outside | one chain; breaks stay and show; the index agrees |
| Overview, assets, showcase (`serve.py` 636-797, `soc.py` 676-737, 959-1009, 1894-2069, `adapter.py` 262-300) | none | count, chart, choose a view | each screen counts for itself | they count the same findings |
| Run state (`serve.py` 403-507, 975-1018, 1400-1498, 2560-3010) | `STATE`, `CURRENT_RUN_FILE`, `JOB`, `.runs` | analyze, publish twice, mark, explain, reopen, reset | two globals that belong together; positional ids; requests that hold a finding while a model answers | a file holds its own run; a mark stays on its finding |
| Live tail (`serve.py` 1068-1265, 2697-2752, `useLogStream.ts`) | a bounded queue, an offset, the client's last id | tail, push, stream, resume | slow clients, truncation, lost connections | in order, no replay, no silent hole |
| Syslog collector (`syslog_collector.py`) | listeners, queue, worker, counters | start, stop, record, drain | restart while a worker is stuck; client threads nobody joins; a framing that breaks | stored or counted; no lost wake-up |
| Feeds (`ti_oem.py`, `discovery.py`, `store.py`) | connectors table, tokens, one poller, one scanner | poll in rounds, poll now, create, toggle, purge, scan | a poll that takes seconds writes back a row read before | a purge is a purge; what is enabled is polled |
| Second opinion (`triage_model.py`, `train_triage.py`, `retrain.sh`) | model file, provenance file, one cache | train, swap, load, opine | two files replaced one after the other; an unlocked cache | an opinion comes from the model on disk, with its own provenance |
| Efficacy (`efficacy_api.py`, `efficacy_harness.py`) | `_STATE`, `efficacy.json` | start, measure, publish, restore | minutes long, past retrainings and restarts | numbers name the model that was scored; losses are published |
| Authentication (`auth.py`) | profile, sessions | signup, login, step-up | check-then-write of the first profile | one owner |
| MCP server, web front end, helpers, tools | none that lasts, or the browser's | conversion and rendering | | |

How they interact. `_analyze` starts a worker that runs the analyzer (ingest,
detection, driver, report), adapts its report and publishes it as `STATE`, first
with the rules alone and then with the prose; it syncs incidents and cases, and
every page that lists incidents syncs again. Runbooks judge incidents by the
findings of `STATE`. Approvals read both, append to the ledger and call a
connector; the ledger mirrors its entries into the event store, which the syslog
worker and the feeds write to. Everything that lasts goes through plain JSON
files, except the ledger and sqlite.

The hazards behind the properties are listed, line by line, in `PROJECT.json`.

## Modules

Each module is one component; a module that EXTENDS another is the next stage of
the same data.

| Module | Models | State and actions |
|---|---|---|
| `Ingest` | from a file to records, and back to the screen | `pc` walks through sniff, native load, universal load; a line is the grammar it is written in; `unparsed` is what the code says it lost; phase "display" is the second load |
| `Detection` | every rule, as functions of a log | `log` grows by a line; `Findings(log)` is the deterministic report |
| `Report` ← Detection | what the report cites | functions: timelines of `rule_context.enrich`, ranges in prose, `ReportOf` |
| `Eligibility` ← Report | adapt, the events of a log, derive and merge incidents, priorities, `eligible` | `run` is the run on display, `store` is `incidents.json`; `ReadLine`, `Publish` |
| `Advice` ← Eligibility | scan, recommend, request | adds `before`, a run of the history, and `Reopen` |
| `Views` ← Advice | Overview, assets, attempt series, showcase | functions of `run` and `store` |
| `Showcase` ← Views | when the store is written | `ShowRun` and `SyncRun` are the two halves of `publish`; `ListIncidents`, `Ask` |
| `Benchmark` ← Report | the referee's scores of rules and learned model | functions: cited lines, score, recall, dropped findings, counterfactual |
| `Analyzer` | one run after the rules have spoken | `jobs` is the pool; replies are taken in any order; `stage` goes explain, reask, compare, final |
| `AnalystRecord` | abstract: what the store promises the analyst | `standing`, `holding`, `trail`; `Appear`, `Decide` |
| `Incidents` | incidents and cases, a request at a time | `incidents`, `cases`, `run`; publish, reopen, list, move, create, patch, open |
| `CaseFile` | the case handlers, an access at a time | `caseFile` is the file, `request[r].copy` a handler's copy; truncate and write are two steps, the blob a third |
| `ApprovalLifecycle` | abstract: the state machine documented at `soc.py` 2086 | `records`, `fired` |
| `Approvals`, `ApprovalsSerial` | the three handlers; served one at a time, mapped onto `ApprovalLifecycle` | `disk` is the file, `mem[r]` a handler's copy, `pc[r]` the access it makes next |
| `AuditChain` | the ledger under either lock, the index, a rebuild | `chain` is the lines, `ended` whether the last has its newline |
| `RunReview` | the run on display and the review of it | `state` refers to one of `dict`, `file` is `CURRENT_RUN_FILE`, `history` the saved runs; `crossed`, `strayed`, `clobbered`, `doubled` remember races |
| `LiveTail` | tailer, queue, sender, connection, EventSource | `log`, `tail`, `events` (the queue), `wire`, `client`; a line is its file's generation and its number |
| `SyslogCollector` | start, stop, listeners, queue, worker | sessions are numbered by `gen`; `fate[m]` is what became of a message |
| `Feeds` | poller, requests, scanner on one table | `at[t]` is where thread t is; every SQL statement is a step |
| `SecondOpinion` | the model's two files and the cache of the request threads | `file`, `prov`, `cache`; each read and assignment is a step |
| `Efficacy` ← SecondOpinion | the measurement beside it | `job` is `_STATE`, `stored` is `efficacy.json` |
| `ResponseProofs` ← ApprovalsSerial, Views, Benchmark, `AuditChainProofs`, `IncidentsProofs`, `StreamProofs` ← SyslogCollector, LiveTail, `RunReviewProofs`, `FeedsProofs`, `EfficacyProofs`, `LogAnalyzerProofs` | the theorems | |
| `MC*` | small instances for TLC | `MCIncidents` and `MCLogAnalyzer` put two independent modules side by side in one run |

An action is one access to something another thread or process sees; what a
handler does between two accesses is folded into the action of the access.
Where a request is one step (`Incidents`) or a run is (`Eligibility`), the table
says so. `Approvals` takes an append to the ledger as one step that happens or
raises; `AuditChain` is the detail of it. Definitions marked "Mutant" are
plausible slips in the code, each of which one of the properties catches; no
specification uses them.

`PROJECT.json` maps each definition to the lines it stands for.

## Runs

Twelve runs, of which eleven pass; **copilot_asks** is a disagreement of the code
with its documentation and is discussed
[below](#where-the-code-and-its-documentation-disagree).

**approvals_concurrent**. Four requests, two approvals, two requests in service
at a time, one crash, a ledger that may refuse. Four requests are a create, a
decision that overlaps another, and one that acts on what the overlap left
behind; the second id is there so that a save of one approval can clobber
another.
- `FiredOnlyAfterApproval`: whatever the interleaving, a connector fired only
  for an approve that was stepped up, re-evaluated, and already in the ledger.
- `ContainmentIsReal`: a record, or a reader's view of it, that says
  `executed` stands for a connector that answered ok.
- `LedgerIsTrue`: an execute entry follows the approve entry of its own request
  and reports what its connector said; a rejected one is of a request that
  touched no connector.
- `DecidedIsAudited`: a record may be ahead of the ledger only while its handler
  is about to append, or when it was cut short right there.

**approvals_serial**. Three requests one after the other, crash and refusing
ledger included: the flow implements `ApprovalLifecycle`
(`ImplementsLifecycle`), so an approval fires at most once and never after a
rejection, and an approved record settles (`ApprovedSettles`) unless its handler
was cut short: by a crash, by a ledger that refuses the entry, or by evidence
without a line number, on which the parameters of the connector cannot be rendered.

**audit_chain**. Two appends, one rebuild, two faults (a death, a torn write, an
edit), flock or not. Two appends are one predecessor and one successor, and two
contenders; with two faults one may hide behind another.
- `IntactButTail`: with flock and nobody editing, everything but the last line
  verifies.
- `LostOnlyAtTail`: what torn writes cost shows at the tail.
- `IndexTrue`: as long as the ledger verifies, every row of the index is a line
  of it, under that line's number.
- `AppendingIsNotRepairing`: no append, index or rebuild moves the break that
  `verify_chain` reports.
- `AppendReturns`: every append returns or its process dies, also behind a lock
  file that a dead holder left.

**syslog_collector**. One datagram and two TCP messages, a queue that holds two,
two sessions. The third message overflows; two sessions are one restart, where an
old worker meets a new queue; two TCP messages may share the buffer of a client
whose framing breaks.
- `Accounted`: the counters of a queue and the messages offered to it add up.
- `WhereMessagesVanish`: a message goes uncounted only over TCP, after its listener
  was told to stop or with a client whose framing broke, or with the backlog of a
  closed queue. A broken framing shows in the listener's errors, which do not say
  how many messages went (`DiscardsShow`).
- `QueuedIsDrained`: no lost wake-up.

**run_review**. Two analyses of one log and two other requests, of which three
are sent in all (`MaxThreads`), one finding whose id names another finding once
the model's are merged in, one verdict, one restart: 1.24 million states. Nothing
in `serve.py` locks, and threads move at any access to `STATE`,
`CURRENT_RUN_FILE`, a dict, `JOB` or a file. The code does not survive every
interleaving, so each property says which race voids it; four variables remember
whether that race has happened, and everything short of it counts.
- `HistoryIsOwn`: the file of a run holds that run's finished report, until two
  exchanges of the run on display (a publish, a reopening, a reset) cross, or
  one crosses a write that has read the file's name and not yet `STATE`
  (`crossed`). Requests that mark, explain or save may overlap at will.
- `MarksAreMeant`: a mark on display or on disk is one a reviewer gave to that
  very finding, until the display changes between the two steps that store a mark
  (`strayed`). Crossed exchanges do not void it, nor do two marks at once.
- `ReviewOnDisk`: when every request has been answered, the file of the run on
  display says what the display says, unless the disk refused a write, exchanges
  crossed, or two requests saved at once, or one while a run was reopened or
  its file not yet named (`clobbered`).
- `JobIsTrue`: one worker at a time and `JOB` says so, unless two posts were
  checked before either had set `JOB` (`doubled`); and `JOB` leaves `running`
  again however an analysis ends, unless `Thread.start` raised.

**incidents**. Two modules that do not touch, each running while the other has
not begun. In `Incidents`: one derived incident that comes and goes with the
runs, two cases, two decisions.
- `ImplementsRecord`: the store implements `AnalystRecord`. Every analysis,
  listing, case and reopening rebuilds every record, and none alters a word of
  the analyst's.
- `TimestampsAreHonest`: acknowledged and resolved times agree with the state,
  after a run has come and gone and been absorbed.
- `CaseIsHosted`: a case of the file is on an incident, with its title, notes
  and state, but for the case described under the disagreements.

In `CaseFile`: three requests that overlap at every load, truncation, write and
upload, on two cases, with one death. Three are what a save that undoes a save
takes, and one that uses the result.
- `CaseFilesHold`: a listed attachment has its bytes, which are its own and all of
  them unless another upload drew the same place without knowing of it; links are
  mutual; what was answered as recorded is on file, unless one that was overtaken
  saved its stale copy since, or a save was cut short.

**live_tail**. A queue of one before a connection that holds one frame, three
lines, whole and in part, one truncation, one lost connection: the smallest in
which the queue drops, the gap is announced, and a connection breaks on either
side of the announcement.
- `ResumesExactly`: over any number of connections the client goes from line to
  later line, and past none it neither received nor was told of.
- `TailCatchesUp`: when the log has stopped growing it is read to its end.

**detection**. All logs of up to four lines over seventeen kinds of line, in and
out of time order, with the thresholds scaled down to two lines and a window of
one. Logs of up to three are published with what a model may add, whether or not
the log can be read again, and with or without an asset file; some are followed
by a second one, so that runs and store differ. Logs of up to two are scored,
with every set of lines declared malicious: on two lines, findings may share a
line, and one of them cite another.
- `AttackersReported`: brute force, against a definition by quantifiers without
  canonical text, companions or pointers: whoever fails often enough, in lines that
  read one way only, is reported once, whoever is reported failed that often, and
  the finding is high when that many failures lie in one window, and then only, or
  if none has a time.
- `BurstIsReported`: every spike is a burst, whatever the order of the lines in the
  file; every burst is a spike, but one that stands in the file above the end of a
  spike that began sooner (the code skips it); and in a file in order of time, where
  that means an overlap, no error is in two spikes.
- `EveryFindingIsCounted`: every finding is in exactly one incident, which is as
  severe as its worst and no longer than the documented silence; and the events,
  Overview, assets, attempt series and showcase count the same findings with the
  same severities.
- `BlockIsEarned`: an incident of the loaded run that may be answered by a block
  shows the address failing often enough, or flagged, by the rules, at the severity
  floor.
- `OffersAgree`: what the Runbook tab shows as eligible can be requested for the
  incident it names, while that is the one in the store, is listed by its
  recommendation, and its approval cites lines about that entity; what it shows as
  missing is missing of every incident; no reply of the model widens or doubles a
  ranking. The request is promised of incidents whose findings are the rules' own,
  each with a line that the dedupe of login messages kept; one kind of line of the
  run is a companion that names a threat, whose finding may have none.
- `LossIsPublished`: whatever the learned model keeps, the true findings kept and
  those listed as dropped are the reference, in every scenario and rule class;
  totals, false positives and the criticality counterfactual fit together.

**log_analyzer**. Two modules that do not touch. In `Ingest`: every file of up to
four lines of every family of grammars that compete for it, under the names that
matter to it, with cells that go on in the next line, and documents whose items
begin on any of their lines, in every mode; the sniffers look at three lines, so that
a fourth is beyond them.
- `LossIsKnown`: the lines no record holds are no more than `unparsed`, but for
  the exceptions the property lists.
- `EventsMatchReport`: the second load shows the records the report was made of.
- `LinesAreTrue`: a record goes by the physical line it begins at. The exceptions
  are exact: a CSV row comes short of it by the lines before it that are blank or
  continue a row, a lone JSON value by the blank lines before it; items of a document
  have their own count.

In `Analyzer`: logs of three chunks with three findings, two of one rule in one
chunk, one over two chunks, one without an address; four workers' worth of
replies, failed, empty, misattributed, odd, or raising in the worker; one address is
part of a longer word.
- `ProseIsOwn`: an explanation was written about a chunk of its finding, not
  about another rule, and has the finding's address for a word, unless it was asked
  for alone, or its text has a longer word with that address in it.
- `FailuresAreReported`: a chunk without a usable answer is in the report as not
  analyzed, unless its worker raised; a finding the model was shown has prose, or was asked about by
  itself, or fell to the cap; MISSED is said of a chunk that was rated.

**feeds**. Two connectors, one of the scanner's own name and one that needs a
token; two request threads, two scans, three requests, one restart.
- `PurgeHolds`: after a purge nothing is configured, enabled or fetched that no
  later request asked for, whatever polls and scans were under way.
- `EnabledIsPolled`: a connector that stays enabled is polled again and again,
  unless one before it has an interval that is no number.

**efficacy**. Two request threads and a measurement on one cache, two trainings
of which the second saw the benchmark, two measurements, one restart.
- `OpinionIsOfTheModel`: an opinion comes from the model on disk, whole, and the
  provenance beside it is that model's or missing, for a file that was not
  replaced while the request looked.
- `BenchmarkIsOfItsModel`: the published provenance is of the model scored, and
  not of one trained on the benchmark.
- `LastRunSurvives`: after a restart the last published run is shown, unless it
  could not be written.

Deadlock is not checked: every model ends when its requests, faults and lines
are used up, as the real server rests when nobody asks for anything.

## Fairness

Safety runs use no fairness. Where liveness is checked, weak fairness is assumed
of each thread that is running, never of a person, a sender, a crash or a
restart:
- `Approvals`: `WF(Handle(r))`, a handler in service goes on. Connectors have
  timeouts.
- `AuditChain`: `WF(Step(w))`, an appender that may move does. The number of
  appends is finite, so weak fairness of each contender suffices. A dead process
  is not fair: it has no step.
- `SyslogCollector`: a start or stop under way, a listener thread with a message
  in hand and a worker go on. sqlite waits for its lock only for a while.
- `RunReview`: a worker goes on, which includes that the analyzer subprocess
  ends. `log_analyzer.py` gives model calls a timeout; `run_analyzer`
  has none, so that `JOB` leaves `running` rests on the analyzer ending.
  Requests are not fair.
- `LiveTail`: the tailer polls (`Stat`, `Read`, `PutNext`), the sender and the
  client go on, and the browser reconnects (`EventSource` does by itself).
  Appends, truncations and lost connections are not fair.
- `Feeds`: the poller thread goes on, and time passes for each connector. Requests
  and scans are not fair.

## Proofs

`tlapm` checks these for every value of the constants that meets the module's
assumption.

`ResponseProofs` has two halves, which touch nowhere: what detection and advice
say, and what the approvals do with it.

*Detection and advice.* The rules are functions of a log, so their theorems are
about every sequence of lines, and the invariants are short: the log is one of
lines, and each run is what the console makes of a log and of what the model said
(`RunOK`). The work is in the two sweeps, recursive functions over places in the
order of time. `Recursion` gives such a function its equations and `Upwards` is
induction up to a bound for a set of numbers; both come from the well-foundedness
of `<`, because the library's induction theorems take an operator. `StampsAre`
says that the stamps swept over are those of the lines, each once, ascending;
`CrowdedIs` that many lines within one window of time are many stamps close to
each other. The pointers' peak is as high as stamps are close (`PeakFound`): the
first pointer never passes a failure that the window still holds. Of the
spikes, `SpikesSwept` says that the sweep keeps errors with enough after them, and
each of these or one before it whose end, as a line, is no sooner; `SpikesApart` that
they do not meet where lines and times agree; `BurstsAre` that they are bursts. For a block, `FindingsAre` says that of the three rules a block
answers only two detectors speak and that a log has finitely many findings,
`ReportIs` that what the report lists under "detector" is theirs, `IncidentIs`
that an incident is made of findings of one entity and is as severe as the worst.
- `BruteForceIsReported` (`AttackersReported`), `BurstsAreReported`
  (`BurstIsReported`): of `LogSpec`, a log that grows, and of `AdviceSpec`, where
  logs are analyzed and reopened
- `BlocksAreEarned`: `AdviceSpec => []BlockIsEarned`

The other three properties compare what several screens or scores make of one
report.

`LossIsPublished` is about sums. A sum of counts is the number of its tally marks,
as many of each key as it has counts (`SumIsTally`), so what is known of finite
sets is known of sums: what is kept and what is dropped make up the reference
because their marks do (`SumAdds`, `SumByClass`), and one score is at most another
because its marks are among the other's (`SumIsAtMost`).

`EveryFindingIsCounted` is about clusters. That no gap parts two findings of an
entity is an equivalence on those with a stamp, so the chains part them
(`ChainsPart`), the unstamped among the first, and still do when lone findings are
rolled up (`RolledUpPart`). A finding names one entity and one chain, hence one
incident (`OneIncident`); and a finding's stamp is that of a line of its timeline
(`StampIs`). On that rests what the screens count: ids stand for findings
(`IdsCount`), the bins of the chart and the buckets of the events part them
(`BinsAddUp`, `EventsAreRight`), and an address's findings each show a line or a
host that names it (`FindingSpeaks`).

`OffersAgree` goes back to the rules. `LinesAreCited` says, rule by rule, that a
finding with a kept line shows lines of the log, and of an address that each is of
that address; `NoTwins`, inductive beside `RunOK`, that the store holds one
incident to an id, so that a request finds the one it was offered for;
`FilteredIs` that a ranking is of eligible runbooks, each once.
- `LossesArePublished`, `FindingsHaveOneIncident`, `EveryFindingCounts`,
  `OffersAreKept` (`OffersAgree`): of `AdviceSpec`, logs of any length, any
  replies of the model, any learned system

These theorems assume of a stamp that it is a number or none; of the tables of
rules that they are finite and give none of their rules a name that a detector
has; of a runbook that acts on addresses alone that its trigger rules are among
the three address rules, as in `rb-block-ip.yaml`, and of every runbook that it
answers no incident of a rule without an entity, as shipped; of the tags of assets
that come with the program that they are of the three levels; that no rule has the
name of an address; that the model says finitely much and that a reply's ranking
is a list.

Four corrections came from these proofs.
- `AttackersReported` used to count a line as a guess that also reads as a success
  or as a companion of another line; the code takes the first of its vocabularies,
  and no log of the run had such a line.
- The incidents of the run on display need not be those in the store: a run that
  is reopened after a later analysis of its file finds incidents of that one under
  its ids. `BlockIsEarned` and `EveryFindingIsCounted` are now about all incidents
  of the run, `OffersAgree` about those that are still stored.
- The attempts on an address are told by name: a host that bears the address as
  its name would be counted with it, and `AttemptsAreLines` now speaks of
  addresses that no host is named by.
- `OffersAgree` was false of a rule's finding whose only lines are companions of a
  failed password. `detect_threats` sees "Invalid user" lines before the dedupe
  drops them (`rules_syslog.py` 827), `rule_context` finds no record afterwards
  (269), and the finding is shown by an excerpt, which eligibility counts as a
  record and `create_approval` cannot turn into a number (`soc.py` 2119). The log
  of **detection** now has such a line, and the property excludes such findings
  (`OnKeptLines`).

*Approvals.* The proof takes `IInv`, the conjunction of `TypeOK`, `HandlersOK`,
`EntriesOK`, `CopiesOK` and `LedgerIsTrue`, which is inductive. `FiredOnlyAfterApproval`
alone is not: that a handler about to fire has been verified, re-evaluated and
audited is a fact about its program counter (`HandlersOK`). `ContainmentIsReal`
needs the same of every stale copy that a handler may still write back
(`CopiesOK`), and the ledger needs to know which requests its entries are of
(`EntriesOK`).
- `TypeCorrect`: `Spec => []TypeOK`
- `ApprovalPrecedesFiring`: `Spec => []FiredOnlyAfterApproval`
- `NothingFakeContains`: `Spec => []ContainmentIsReal`
- `LedgerTellsTheTruth`: `Spec => []LedgerIsTrue`
- `DecisionsAreAudited`: `Spec => []DecidedIsAudited`, from `AuditInv`, which adds
  to `IInv` that every decision on disk, in a handler's copy or under a reader's
  eyes is in the ledger or is owed to it by a handler (`DecisionsOK`), and that a
  create brings no decision of its own (`CreatesOK`).
- `SerialIsLifecycle`: `Spec => ImplementsLifecycle` if `MaxInFlight = 1`, the
  assumption that makes it serial and without which it is false. `SerialInv` says
  what the one handler in service has read and how far the file is behind it;
  under it each access maps to a step of `ApprovalLifecycle` or to none.

`AuditChainProofs` proves `IInv` inductive: types, that only a ledger with a line
in it can lack a newline (`EndedOK`), that the hash of an entry is what `Hash`
made of its predecessor for some call (`HashesOK`), that the hash a call is about to
chain off is as long as the number of lines it found (`CountsOK`), that rows and a
rebuild's copy are lines of the ledger (`RowsOK`), and, where flock is used,
`FlockInv`: mutual exclusion (`MutexOK`), what a call inside the critical section
has read, the shape of the tail and of what precedes it (`TailOK`,
`IntactButTail`), and where lost entries have gone (`GoneOK`). `RowsOK` needs no
lock: where the ledger verifies, a hash is as long as its line's number
(`HashesCount`), so a line that lands behind another than its writer read breaks the
chain, and no step repairs it (`NoRepair`).
- `TypeCorrect`, `ChainHolds` (`IntactButTail`), `LossShows`
  (`LostOnlyAtTail`), `IndexFollowsLedger` (`IndexTrue`)
- `NothingRepairs`: `Spec => AppendingIsNotRepairing`, an action property,
  from `IInv`. It and `IndexFollowsLedger` hold under either lock; `IntactButTail`
  and `LostOnlyAtTail` speak of flock, for the fallback lock lets appends fork.

`IncidentsProofs` rests on one relation between an incident before and after a
request, `Keeps`: it is still there and says the same of state, disposition and
history. Merging a run (`MergedKeeps`), projecting cases (`AbsorbedKeeps`) and
opening them (`EnsureKeeps`) each keep the word, and keeping it is transitive, so
a request is either a decision or keeps the word (`StepIs`). From that and the
types:
- `TypeCorrect`: case ids are gapless and every link and mark has its type.
- `DispositionsAreClosed`, `TimestampsHold`: `AllSound` and `AllHonest`, the
  statements incident by incident, are inductive beside `IInv`.
- `CasesAreHosted`: `Homed`, an incident for every case, through a projection
  that visits the cases in order.
- `RecordIsKept`: `Spec => ImplementsRecord`, the refinement: keeping the word
  maps to `Appear` or a stutter, a decision to `Decide`.

The first half of `StreamProofs`, on `SyslogCollector`, goes in three layers, each
an inductive invariant that uses the one before: types with what start and stop have in hand, then where a message can
still be (`PlaceOK`: the UDP thread is joined before its queue is closed, so that
only TCP handlers are late), then the counts (`CountOK`). It assumes a finite set of
messages, for the cardinalities; that every step moves one message from one set
`At(s, f)` to another is what the lemmas on cardinality are used for.
- `TypeCorrect`, `CountersAddUp` (`Accounted`), `VanishingIsExplained`
  (`WhereMessagesVanish`). What a client discards is in no queue and no worker's
  hand, so that it stays discarded (`DiscardedStays`) rests on the counts too.

The second half of `StreamProofs` is about `LiveTail`. `ResumesExactly` compares
two counts at the client, but a line that is missing there has been dropped by
the queue, is announced by a frame under way, or was counted by the client as
lost: nothing in the state says which. `AccountOK` therefore says that there
*are* such sets of lines, `X` no larger than `client.gaps`, `Q` than
`events.dropped`, `G[k]` than what gap frame k announces, which together with what was
received and is on its way account for all that is due: before the client's place
(`ClientOK`), before every event of connection, queue and tailer (`Covers`) and
before the tailer's place (`Reaches`). Due is every line that was read, and of a file
begun since the first every line there can be (`Due`): a tail enters such a file at
its first line. When the connection breaks, `X` is all that is left of the account.
That no line of the first file comes twice is `Ordered`: what is under way ascends,
and lies beyond the client's place. The counting is in three lemmas, one for each way
a line changes sets: a full queue's first line goes into `Q` (`PutAccounts`), a gap frame takes over `Q`
(`SendAccounts`), and `X` grows by the frame's set (`ReceiveAccounts`).
- `StreamsResumeExactly`: `StreamSpec => ResumesExactly`, for any log, queue,
  connection, and any number of truncations and breaks.

TLC found `StreamInv` true of every state of **live_tail** before it was proved, the
witness sets ranging over the subsets of its lines.

`RunReviewProofs` is about every interleaving of any number of threads; no theorem
has a hypothesis. Because the properties hold up to a race and not beyond, `IInv`
comes in parts, each as strong as what has happened so far allows.
`Orderly` holds whatever the races: a report in memory is one run's own, and
what a worker and a request may rely on at each label. While nothing has
crossed, `Uncrossed`: file and state are of one run but for the thread that is
exchanging them, and a request about to write holds that run's dump. While also
nobody has been clobbered, `Unclobbered`: file and state agree unless a request
still has to write (`Synced`, `InStep`). While nothing has strayed, `Unstrayed`:
every mark, carried, shown, saved or in a request's hands, was meant. `Recorded`
ties the four history variables to the races, so that a step that starts one is
not asked to keep what it breaks. TLC checked `IInv` on **run_review**'s instance
before it was proved.
- `FilesAreOfTheirRuns` (`HistoryIsOwn`), `MarksStayOnTheirFindings`
  (`MarksAreMeant`), `ReviewReachesDisk` (`ReviewOnDisk`)
- `OneWorker`: no two analyses at a time, and `JOB` says so, unless two posts were
  checked at once; the safety half of `JobIsTrue`.

`FeedsProofs`: `PurgeHolds` is not inductive, because a thread between two
statements holds a row it read before the purge. `PollsOK` and `SavesOK` say of
such threads that what they write was asked for, or carries no configuration.
- `PurgesHold`: `Spec => []PurgeHolds`

`EfficacyProofs` proves two invariants over one specification. `OpinionInv` says
what a thread between two reads knows of the two files (`AskedOK`, `HandOK`) and
what the shared cache may hold (`CacheOK`); it holds of the request threads and
of the measurement, which uses the same loader, and `BenchInv`, what the
measurement carries from load to publication and what `efficacy.json` keeps
through a crash (`BenchOK`, `StoredOK`), is inductive beside it.
- `OpinionsAreOfTheModel` (`OpinionIsOfTheModel`), `BenchmarksAreOfTheirModel`
  (`BenchmarkIsOfItsModel`), `LastRunsSurvive` (`LastRunSurvives`)

The second half of `IncidentsProofs` is about `CaseFile`, where requests overlap.
`CaseFilesHold` speaks of the file, but what is saved was copied
before, so `FileInv` says the same of every copy. A link holds in all of them
(`MutualOK`). A blob lies where its writer drew a place, past the end of the
writer's own copy (`BlobsOK`), so it can only be another's where that one did not
know of it; it is whole before its writer lists it, and its writer has answered
before anyone else can have read of it (`ListedOK`). While nobody who was overtaken
has saved, the file and the copies of all who were not overtaken hold what was
answered as recorded (`RecordOK`). `StartAssumption` says of the cases there are at
the start that they have no entries or files yet and mutual links.
- `CaseFilesAreTrue`: `FileSpec => []CaseFilesHold`, for any cases, any number of
  requests, overlaps and deaths.

`LogAnalyzerProofs` has both halves of log_analyzer.py. For `Analyzer` it begins
with what the asking rests on: the least and greatest of
a set of numbers, and that `InOrder`, which ranks what is asked, leaves nothing
out (`InOrderIs`). All steps but one ask nothing new; `Stays` says what they may
do, and that it keeps `IInv`: every selected chunk was asked about (`CoverOK`),
what was taken from the pool was answered or is noted (`NotedOK`), jobs of the
second pass are about a finding of their chunk (`JobsOK`), and prose is the
finding's own (`ProseFits`). `Reask` is the step that asks, and gives `MissingOK`: who has no
prose was asked about, or the cap was reached. `InputsAssumption` says that
findings point into chunks there are, `ExplanationsAssumption` that what is told
is not `None`.
- `ProseIsTheFindingsOwn` (`ProseIsOwn`), `FailuresReachTheReport`
  (`FailuresAreReported`), for any log, any answers in any order and any limits

Its second half is about `Ingest`. A loader's state is a closed form of the file
and the place it has reached: `NativeAt` and `UniversalAt` say which lines it has
records of and how many it has counted, format by format, and `WindowsAt` that the
event a Windows export is in reaches from where it began to the last line read,
with every earlier event a record. So `IngestInv` needs no induction over the file.
The native loaders are one step (`NativeStep`): a line or a row is met, and used
(`Meets`, `Uses`). That a CSV row's number comes short by what the reader passed over
is counting: under its header the file is rows and skipped lines (`RowsAndSkipped`).
What a load ends with depends on the file alone (`NRecords` natively, `Nums`
universally; `FileStays` is that no step changes it), and `EventsMatchReport`
follows from the four things a report can be (`Made`) against the one thing the
console shows (`ConsoleNums`). `IngestAssumption` says that an empty file is no
document: only there would a parser have an item without a step.
- `LossStaysKnown` (`LossIsKnown`), `NumbersAreLines` (`LinesAreTrue`),
  `ConsoleShowsTheReport` (`EventsMatchReport`), for any files, of any length

Only model-checked is liveness (`ApprovedSettles`, `AppendReturns`,
`QueuedIsDrained`, `TailCatchesUp`, `EnabledIsPolled`, and of `JobIsTrue` that `JOB`
leaves "running"; its other half is `OneWorker`): fairness and ENABLED are outside
tlapm's fragment. Every invariant that a run checks is also a theorem. Nothing is
claimed of a property of `RunReview` once the race that voids it has happened, nor of
forks under the fallback lock of `AuditChain`, which does not exclude.

## Where the code and its documentation disagree

One is a run. **copilot_asks**: the showcase of a question about incidents is
built with `list_incidents` (`soc.py` 1995), which syncs and writes
`incidents.json`; `soc.py` 425, `serve.py` 876 and the test at
`test_console.py` 8040 say that a question writes nothing. The counterexample
publishes a run and asks before its sync; opening a saved run, which syncs
nothing, is another way.

The others were met on the way; each is what a property had to leave out, and the
property's comment or the module's says so.

*Approvals and ledger*
- Two overlapping requests for one approval both find it pending (`soc.py` 2357,
  2322): the connector fires twice, or for an approval another request rejected.
- The parameters of the connector are rendered outside the `try` around it (`soc.py`
  2404): when a finding of the run then loaded has no line number, `int("")` (2119)
  raises after the approval was saved and audited as approved, and no connector is
  called. The record stays approved.
- A crash inside `_save` (`soc.py` 138) leaves a file that reads as no approvals,
  although `fsafe.py` 4-18 says such stores are replaced whole.
- `os.write`'s result is ignored (`fsafe.py` 146): a short write is acknowledged,
  and takes the next acknowledged entry with it when only the newline is missing.
- After one damaged last line every append raises (`audit.py` 154), although
  `audit.py` 29-31 says append never refuses on a broken chain.

*Collection*
- A syslog worker that outlasts its join reads the next session's stop event
  (`syslog_collector.py` 460) and becomes a second writer; a message recorded
  around a stop is neither stored nor counted (149, 434, 444).
- A bad octet count raises in `_frames` (310-311), and the complete frames in front
  of it go with the client (321-326): one error is counted, and no drop, although 130-131
  say a silent drop is forbidden.
- `Feeds`: an interval that is no number raises out of the loop of `_poll_due`
  (`ti_oem.py` 597) and starves the connectors after it; a row named
  "nmap-discovery" changes kind with each scan; a round polls a connector that was
  purged meanwhile and makes its row again, without its configuration; a
  `create_connector` that read before a purge saves the configuration back;
  records without a time are stored again by each poll; a first scan's last row
  may overwrite a later scan's (`discovery.py` 343-354).

*Ingest and detection*
- Lines the rfc5424 and jsonlog loaders cannot read are reported as 0
  (`normalize.py` 302, against 28); the lines before the first event of a Windows
  export vanish in `formats_universal`'s copy; a blank first line of a CSV makes
  every row an empty record; a month that is not English, of plain or forwarded syslog
  (`log360.py` 320), raises in the honest and force modes; a table with a header alone, "[]" and an `.html`
  without tags count as empty input; a log that mixes stamps with and without
  zone raises when they are compared; `forced_unrecognized` is read by nobody.
- Evidence is cited as lines, and is not always: the CSV reader numbers rows
  (`log_analyzer.py` 726), which fall behind the file's lines after a blank line or a
  cell of several; JSON, XML and HTML records are numbered by items (667, 779, 837).
- A burst of errors that comes later but stands further up the file is lost:
  `anomaly_detector.py` 232-234 compares the numbers of lines of a list sorted by time.
- `dedupe_anomalies` (`log_analyzer.py` 1031) takes what has the same summary for
  "byte-identical bullets" (1035), and is not always: of two bursts with as many errors,
  or two infra alerts of a host and severity, the later one's lines are shown nowhere.
- "Attempts/run = the sum of `occurrences`" (`soc.py` 676): a finding of brute force
  has none of its own (`detector_to_findings`, 1654), and counts as one attempt.
- A burst of authentication failures below the thresholds is reported MEDIUM,
  against `rules_syslog.py` 700-701.
- Prose is matched by a part of its text (`ident not in text`, `log_analyzer.py` 2312
  and 1313): what names only 10.0.0.12 may explain the finding of 10.0.0.1, although
  1300 says "a wrong host is worse than no prose".
- A worker that raises, say on a reply nested too deeply for `json.loads` (1244), is
  printed and passed over (2285-2291): its chunk is neither answered nor noted.
- A retried explanation of an odd shape aborts the report; a finding of a chunk
  that was never shown can be called MISSED, against `compare.py` 17-18.

*Incidents, cases, advice*
- The projection rebuilds manual incidents in the order of the cases (`soc.py`
  1778): a case that links the manual incident of a later case is dropped from it
  (1645, 1776), the exception of `CaseIsHosted`.
- An incident of an earlier run keeps the positional ids of its findings and is
  judged by the findings of the loaded run (`soc.py` 2136-2147), against "rules
  own eligibility" (2178). The model's findings join incidents, raise their
  severity and satisfy triggers, against `runbooks.py` 9-12.
- An incident's id is made of file, day, entity, first stamp and the positional ids
  of its findings (`soc.py` 254-257, `adapter.py` 426), not of what those say: a
  run reopened after a later analysis of its file that day shows incidents under
  whose ids the store has the later ones.
- A finding shown by an excerpt counts as a record (`runbooks.py` 270-306), and
  `create_approval` then raises on `int("")` (`soc.py` 2119): a finding of the
  model that cites nothing, or one of `detect_threats` on lines the dedupe drops as
  companions of a failed password.
- `request_case_approval` requests for the scan's first eligible incident, not for
  the one the case is linked to (`soc.py` 1613).
- A model's reply whose `ranking` is a number raises in
  `_recommendation_advisory`; an asset tagged "low" wins over untagged standard
  ones.
- Requests that overlap on `cases.json` draw one id (`soc.py` 1158), one
  attachment id, or undo each other; a reader in the moment of a save reads no
  cases at all, and its next `create_case` is case-1.

*Run, screens, second opinion*
- Two posts to `/api/analyze` that are both checked (`serve.py` 2599) before either
  sets `JOB` (2614) are both accepted, against "an analysis is already running"
  (2600); the first to end says "done" for both. If `Thread.start` (2615) raises,
  `JOB` stays "running" and no analysis is accepted until a restart.
- A run reopened while `publish` works (`serve.py` 1425-1443 against 2845-2846)
  leaves the new, unsaved report attached to the old run's file. The same
  crossing between the two reads of 1016 writes one run into another's file.
- A mark being stored while the display changes (2996-3007) lands on whatever
  finding has that id in the new report, against "silently moving one to another
  finding is not" (990).
- Of two requests that save at once, the older dump may be written last; what is
  saved while a run is being reopened, or before its file is named, is lost with
  the next reopening: against the docstring of `persist_state` (1004-1007). It
  raises `TypeError` if `CURRENT_RUN_FILE` is cleared between 1013 and 1016.
- An explanation
  asked for before a publish or a reopening lands in a finding nobody shows any
  more (2888), although the request answered with it.
- A question with a dash in it names the entity "—" of findings without a host.
  The entity view of an address misses the model's findings whose shown lines lack
  it.
- The live tail takes a file that was truncated and has grown past its old size
  for the same file; a half line at the end that is never finished is not shown; a
  reconnect before the first event starts at the end.
- An opinion asked for between the writes of the model file and of its provenance
  keeps the refusal under the new file's key (`triage_model.py` 515-526), and the
  finished retraining goes unseen until a restart: `reset_cache` is "used after a
  retrain" (501), but the retraining is another process and does not call it. Hash
  and `pickle.load` open the file separately.
- If `Thread.start` fails, or saving a run raises something other than `OSError`,
  the efficacy job stays "running" for ever. `apply_token_map` says "on word
  boundaries" and does not look at them.

## Abstractions and bounds

One Python statement on a global, a dict key or a queue is one step: the
interpreter lock makes it so. `+=` on a counter that one thread writes, or that a
lock guards, is one step too.

- `Ingest`: a line is the grammar it is written in; stamps, levels, encodings and the
  16 KB sample of the sniffers are left out, and an item of a document is the line it
  begins on. The six-in-ten rules and the fallbacks are exact.
- `Detection`: a line's text is the set of patterns that match it; a finding has
  no prose. Which of several spikes are told apart is kept; messages with the same
  text are one message.
- `Report`: two summaries agree where the line's message, host, code and address and
  the finding's severity, as far as its rule writes them, agree; the type of a
  device, of an indicator and of a threat and a Windows user are not told apart.
  `enrich_username_spray` writes names of users into summaries, of which there is one
  per address with or without them; the timeline is rebuilt before deduplication, of
  each finding by itself, and `Deduped` after it says the same.
- `Report`, `Eligibility`, `Advice`: an incident's order, id and title are
  abstract, its alias (INC-4a7f) is its identity; user entities, threat chips,
  correlation, SLA clocks and custom runbooks are left out. A run is published in
  one step, and all runs are of one file on one day, so that they share their `runId`
  and their incidents can meet under one id.
- `Views`: users, changes against the run before, tactics, latest alerts and
  ingestion are left out. A question is what it names and what it asks for.
- `Benchmark`: the generator's manifest is any set of lines; findings that agree
  in everything are one; the remapping of tokens between formats is left out; host
  and band are the scenario's.
- `Analyzer`: a chunk is its index, prose the rule and the words of it that matter;
  which addresses are part of which words is a constant.
  Prompts, layout and the wording guard are left out.
- `Incidents`: requests one at a time; the listing's filter, triage notes and
  correlation are left out. `CaseFile`: an entry is who made it; what a lookup
  says, the summary's text, the sniffed type and the check of a caller's verdict
  are data. Comments, summaries, runbooks, observables and inspections go through
  the same steps as the operations the run asks for, with other data; all eleven
  were checked once by themselves.
- `Approvals`: which command, template or target a record carries is left out;
  eligibility is a Boolean that may change at any time; a step-up answers either
  way. Two writers into one truncated file leave either text or "garbled", which
  is a superset of what file offsets allow.
- `AuditChain`: a hash is the history it commits to, so it has no collisions. A
  torn write keeps all, a part, or all but the newline of a line. Without fcntl
  the ten-second patience is a choice made at any time.
- `RunReview`: a finding is its id and whether the model's findings have been
  merged in. Files of `.runs` are written in one step, or not at all when the disk
  refuses; a dict is read as it is at one moment, and so is `STATE` in the expression
  of 1429-1430 that names it twice. Two runs saved in one second have two names. The
  count of lines sent out, `llmNote`, pruning to `MAX_RUNS`, runs
  started from the command line and `STATE_FILE`, which is written and never read,
  are left out.
- `LiveTail`: lines are equally long and none is blank; sizes count lines.
  `lapse` marks a client's place in one file taken for a place in another, and
  the properties claim nothing from there on.
- `SyslogCollector`: one port per protocol; parsing, dedupe keys and incomplete
  octet-counted frames are data, and which messages share a connection is left open.
- `Feeds`: events are the set of their sources; ages, vendor formats, nmap's
  output and the authorization of a target are left out.
- `SecondOpinion`, `Efficacy`: a model is its version; features, training and
  scores are numbers. `status()` is left out, and `reset()`, which tests call.

Named bounds: `MaxInFlight`, `MaxCrashes` (Approvals), `MaxFaults` (AuditChain),
`MaxSessions`, `Limits` (SyslogCollector), `MaxThreads`, `MaxRestarts` (RunReview),
`MaxCases`, `MaxEdits`, `MaxDecisions` (Incidents), `MaxRequests`, `MaxDeaths`,
`Named` (CaseFile), `MaxLines`, `Rotations`, `Breaks` (LiveTail), `MaxLines`, `MaxRead`,
`Reanalysed`, `MaxLater`, `MaxScored` (Detection and what extends it), `Probe`
and the files of `MCIngest` (Ingest), `MaxRequests`, `MaxRestarts` (Feeds),
`MaxSaves`, `MaxRuns`, `MaxRestarts`, `MaxBeside` (Efficacy).

## Not modelled

- `auth.py`: profile, sessions and step-up. `Approvals` takes the step-up's
  answer as either. Its one race, two first signups, is a single check-then-write
  whose outcome needs no model to see.
- `triage.py`: a weighted sum over one finding, without state.
- `copilot.py`, `investigate.py`, `precedent.py`: advisory text from what the
  modelled parts keep; what asking shows and writes is in `Views` and `Showcase`.
- Connectors (`actions/`) and the analyzer subprocess are the environment.
- Redaction, export, Sigma matching, evtx conversion, enrichment: conversions of
  one report, without lasting state.
- MCP server and web front end: they read what the server returns; the
  `EventSource` is in `LiveTail`.
- Generators, retired detectors and STIX conversion.

`PROJECT.json` lists every component and its status.

## Plan

1. Overlapping requests on `incidents.json`: `Incidents` with its loads and saves
   apart, as in `CaseFile`, and what of `AnalystRecord` is left of it.
2. The run history: listing, pruning and reopening while runs are saved.
3. Proofs of what 1 and 2 add, as each is modelled.

The order is by what is lost when it goes wrong: the analyst's word first, the
display last.
