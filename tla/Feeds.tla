------------------------------- MODULE Feeds -------------------------------
(***************************************************************************)
(* What fills the store from outside: the vendor connectors that one       *)
(* background thread polls in rounds, the requests that create, toggle,    *)
(* poll and purge them meanwhile, and the network scan, which keeps a row  *)
(* in the same table. Every statement on the store is atomic under its     *)
(* lock; a handler or a poll makes several of them.                        *)
(***************************************************************************)
EXTENDS Naturals, FiniteSets

CONSTANTS Names,        \* connector names, in the order of ORDER BY name
          Nmap,         \* the name "nmap-discovery", of the scanner's row
          NeedsToken,   \* connectors of a vendor that answers no one without
          Poller,       \* the thread of POLLER
          Handlers,     \* threads that serve requests
          Scanners,     \* threads of SCANNER: one runs, others may yet end
          Asks,         \* what create requests ask for
          MaxRequests,  \* bound: requests and scans begun
          MaxRestarts   \* bound: restarts of the console

\* create_connector's arguments; "same" stands for a field left out.
Arguments == [url : BOOLEAN, token : BOOLEAN,
              enabled : {"same", "yes", "no"}, interval : {"same", "number", "text"}]

ASSUME FeedsAssumption ==
    /\ Asks \subseteq Arguments
    /\ Names \subseteq Nat \ {0} /\ IsFiniteSet(Names)
    /\ Nmap \in Names /\ NeedsToken \subseteq Names
    /\ MaxRequests \in Nat /\ MaxRestarts \in Nat
    /\ Poller \notin Handlers \cup Scanners /\ Handlers \cap Scanners = {}

VARIABLES rows,      \* table connectors, a function on the names it has
          tokens,    \* settings: the connectors that have a token
          events,    \* table events: the sources it has events of
          running,   \* SCANNER.running
          at,        \* where each thread is
          name,      \* the connector it works on
          todo,      \* the connectors left in the poller's round
          args,      \* what a create request asks for
          failed,    \* the error a poll or a scan will report
          requests, restarts,
          asked,     \* history: connectors somebody saved since the purge
          inflight   \* history: connectors a poll was beyond reading at the purge

table == <<rows, tokens, events>>
thread == <<at, name, todo, args, failed, running>>
bounds == <<requests, restarts>>
history == <<asked, inflight>>
vars == <<table, thread, bounds, history>>

Threads == {Poller} \cup Handlers \cup Scanners
NoName == 0

\* The columns of a row that INSERT OR IGNORE makes: no kind, no config.
NewRow == [kind |-> "none", config |-> "none", enabled |-> FALSE,
           interval |-> "number", last |-> "never", error |-> FALSE]

\* upsert_connector makes the row if there is none; of it only the fields
\* passed change.
Row(n) == IF n \in DOMAIN rows THEN rows[n] ELSE NewRow
Upsert(n, row) == [m \in DOMAIN rows \cup {n} |-> IF m = n THEN row ELSE rows[m]]

\* _read_config
Config(n) == IF n \in DOMAIN rows THEN rows[n].config ELSE "none"

NoAsk == [url |-> FALSE, token |-> FALSE, enabled |-> "same", interval |-> "same"]

Init ==
    /\ rows = [n \in {} |-> NewRow] /\ tokens = {} /\ events = {}
    /\ running = FALSE
    /\ at = [t \in Threads |-> "idle"] /\ name = [t \in Threads |-> NoName]
    /\ todo = {} /\ args = [t \in Handlers |-> NoAsk]
    /\ failed = [t \in Threads |-> FALSE]
    /\ requests = 0 /\ restarts = 0
    /\ asked = {} /\ inflight = {}

Goto(t, from, to) == at[t] = from /\ at' = [at EXCEPT ![t] = to]

Creating(n) == {h \in Handlers : name[h] = n /\ at[h] \in {"token", "save"}}

\* A request or a scan begins.
Begin ==
    /\ requests < MaxRequests
    /\ requests' = requests + 1
    /\ UNCHANGED restarts

-----------------------------------------------------------------------------
(* poll_connector, by the poller or by a request.                          *)

PollReadsConfig(t) ==
    /\ IF Config(name[t]) = "url"
       THEN Goto(t, "config", "http") /\ UNCHANGED failed
       ELSE Goto(t, "config", "finish") /\ failed' = [failed EXCEPT ![t] = TRUE]
    /\ UNCHANGED <<table, name, todo, args, running, bounds, history>>

\* No token where the vendor wants one, or the vendor does not answer, or
\* not with what can be read.
PollFails(t) ==
    /\ Goto(t, "http", "finish")
    /\ failed' = [failed EXCEPT ![t] = TRUE]
    /\ UNCHANGED <<table, name, todo, args, running, bounds, history>>

PollAnswered(t) ==
    /\ name[t] \in NeedsToken => name[t] \in tokens
    /\ Goto(t, "http", "ingest")
    /\ UNCHANGED <<table, name, todo, args, failed, running, bounds, history>>

\* _ingest_events: records of no use and records stored before add nothing.
\* An insert that raises ends the poll where it is: the poller goes on to the
\* next connector, a request is broken off.
Ingest(t) ==
    /\ at[t] = "ingest"
    /\ \E added \in SUBSET {name[t]} : events' = events \cup added
    /\ \/ Goto(t, "ingest", "finish") /\ UNCHANGED name
       \/ Goto(t, "ingest", "idle") /\ name' = [name EXCEPT ![t] = NoName]
    /\ UNCHANGED <<rows, tokens, todo, args, failed, running, bounds, history>>

\* Mutant: the poll writes the configuration it read back with its outcome.
FinishPollWhole(t) ==
    /\ Goto(t, "finish", "idle")
    /\ rows' = Upsert(name[t], [Row(name[t]) EXCEPT !.kind = "oem", !.last = "recent", !.error = failed[t],
                               !.config = IF failed[t] THEN @ ELSE "url"])
    /\ name' = [name EXCEPT ![t] = NoName]
    /\ failed' = [failed EXCEPT ![t] = FALSE]
    /\ UNCHANGED <<tokens, events, todo, args, running, bounds, history>>

\* _finish_poll: makes the row again if it was purged meanwhile.
FinishPoll(t) ==
    /\ Goto(t, "finish", "idle")
    /\ rows' = Upsert(name[t], [Row(name[t]) EXCEPT !.kind = "oem", !.last = "recent", !.error = failed[t]])
    /\ name' = [name EXCEPT ![t] = NoName]
    /\ failed' = [failed EXCEPT ![t] = FALSE]
    /\ UNCHANGED <<tokens, events, todo, args, running, bounds, history>>

Poll(t) ==
    \/ PollReadsConfig(t) \/ PollFails(t) \/ PollAnswered(t)
    \/ Ingest(t) \/ FinishPoll(t)

-----------------------------------------------------------------------------
(* POLLER                                                                  *)

\* Mutant: a connector that never ran is not due.
DueIfRun ==
    LET on == {n \in DOMAIN rows : rows[n].kind = "oem" /\ rows[n].enabled}
        unreadable == {n \in on : rows[n].interval = "text"}
    IN  {n \in on \ unreadable : /\ rows[n].last = "past"
                                 /\ \A u \in unreadable : n < u}

\* _poll_due works on the rows it queried, in their order; int() of an
\* interval that is no number raises out of the loop and ends the round.
Due ==
    LET on == {n \in DOMAIN rows : rows[n].kind = "oem" /\ rows[n].enabled}
        unreadable == {n \in on : rows[n].interval = "text"}
    IN  {n \in on \ unreadable : /\ rows[n].last # "recent"
                                 /\ \A u \in unreadable : n < u}

Round ==
    /\ at[Poller] = "idle" /\ todo = {}
    /\ Due # {}
    /\ todo' = Due
    /\ UNCHANGED <<table, at, name, args, failed, running, bounds, history>>

NextInRound ==
    /\ Goto(Poller, "idle", "config")
    /\ \E n \in todo :
        /\ \A m \in todo : n <= m
        /\ todo' = todo \ {n}
        /\ name' = [name EXCEPT ![Poller] = n]
    /\ UNCHANGED <<table, args, failed, running, bounds, history>>

\* The interval of a connector has passed.
Tick(n) ==
    /\ n \in DOMAIN rows /\ rows[n].last = "recent"
    /\ rows' = [rows EXCEPT ![n].last = "past"]
    /\ UNCHANGED <<tokens, events, thread, bounds, history>>

-----------------------------------------------------------------------------
(* Requests                                                                *)

\* create_connector reads the configuration it will merge into.
Create(h, n, ask) ==
    /\ Begin
    /\ Goto(h, "idle", "token")
    /\ name' = [name EXCEPT ![h] = n]
    /\ args' = [args EXCEPT ![h] = [ask EXCEPT !.url = @ \/ Config(n) = "url"]]
    /\ asked' = asked \cup {n}
    /\ UNCHANGED <<table, todo, failed, running, inflight>>

CreateSetsToken(h) ==
    /\ Goto(h, "token", "save")
    /\ tokens' = IF args[h].token THEN tokens \cup {name[h]} ELSE tokens
    /\ UNCHANGED <<rows, events, name, todo, args, failed, running, bounds, history>>

Saved(row, ask) ==
    [row EXCEPT !.kind = "oem", !.config = IF ask.url THEN "url" ELSE "blank",
                !.enabled = IF ask.enabled = "same" THEN @ ELSE ask.enabled = "yes",
                !.interval = IF ask.interval = "same" THEN @ ELSE ask.interval]

Done(h) ==
    /\ name' = [name EXCEPT ![h] = NoName]
    /\ args' = [args EXCEPT ![h] = NoAsk]

CreateSaves(h) ==
    /\ Goto(h, "save", "idle")
    /\ rows' = Upsert(name[h], Saved(Row(name[h]), args[h]))
    /\ Done(h)
    /\ UNCHANGED <<tokens, events, todo, failed, running, bounds, history>>

\* An interval that sqlite cannot bind: the token is set, the row is not.
CreateRaises(h) ==
    /\ args[h].interval # "same"
    /\ Goto(h, "save", "idle")
    /\ Done(h)
    /\ UNCHANGED <<table, todo, failed, running, bounds, history>>

\* _oem_poll: connector_view finds a row of any kind.
PollNow(h, n) ==
    /\ Begin
    /\ n \in DOMAIN rows
    /\ Goto(h, "idle", "config")
    /\ name' = [name EXCEPT ![h] = n]
    /\ UNCHANGED <<table, todo, args, failed, running, history>>

\* The settings endpoint writes any key, a connector's token too.
SetToken(n) ==
    /\ Begin
    /\ tokens' \in {tokens \cup {n}, tokens \ {n}} \ {tokens}
    /\ UNCHANGED <<rows, events, thread, history>>

\* Only the history tables; what is older than the retention.
Cleanup ==
    /\ Begin
    /\ events # {}
    /\ events' \in SUBSET events \ {events}
    /\ UNCHANGED <<rows, tokens, thread, history>>

Purge ==
    /\ Begin
    /\ rows' = [n \in {} |-> NewRow] /\ events' = {}
    /\ asked' = {n \in Names : Creating(n) # {}}
    /\ inflight' = {name[t] : t \in {u \in Threads : at[u] \in {"http", "ingest"}}}
    /\ UNCHANGED <<tokens, thread>>

-----------------------------------------------------------------------------
(* SCANNER                                                                 *)

Scan(s) ==
    /\ Begin
    /\ ~running
    /\ Goto(s, "idle", "announce")
    /\ running' = TRUE
    /\ UNCHANGED <<table, name, todo, args, failed, history>>

\* The row's last_run, then nmap and the assets and vulnerabilities it found.
Announce(s) ==
    /\ Goto(s, "announce", "scanning")
    /\ rows' = Upsert(Nmap, [Row(Nmap) EXCEPT !.kind = "discovery", !.last = "recent"])
    /\ UNCHANGED <<tokens, events, name, todo, args, failed, running, bounds, history>>

AnnounceRaises(s) ==
    /\ Goto(s, "announce", "clear")
    /\ failed' = [failed EXCEPT ![s] = TRUE]
    /\ UNCHANGED <<table, name, todo, args, running, bounds, history>>

Scanned(s) ==
    /\ Goto(s, "scanning", "clear")
    /\ \E error \in BOOLEAN : failed' = [failed EXCEPT ![s] = error]
    /\ UNCHANGED <<table, name, todo, args, running, bounds, history>>

\* finally: another scan may start before this one has told the store.
Clear(s) ==
    /\ Goto(s, "clear", "tell")
    /\ running' = FALSE
    /\ UNCHANGED <<table, name, todo, args, failed, bounds, history>>

Tell(s) ==
    /\ Goto(s, "tell", "idle")
    /\ rows' \in {rows, Upsert(Nmap, [Row(Nmap) EXCEPT !.kind = "discovery", !.last = "recent",
                                                   !.error = failed[s]])}
    /\ failed' = [failed EXCEPT ![s] = FALSE]
    /\ UNCHANGED <<tokens, events, name, todo, args, running, bounds, history>>

Scanning(s) == Announce(s) \/ AnnounceRaises(s) \/ Scanned(s) \/ Clear(s) \/ Tell(s)

-----------------------------------------------------------------------------
\* The console is killed at any moment and started again.
Restart ==
    /\ restarts < MaxRestarts
    /\ restarts' = restarts + 1
    /\ running' = FALSE
    /\ at' = [t \in Threads |-> "idle"] /\ name' = [t \in Threads |-> NoName]
    /\ todo' = {} /\ args' = [t \in Handlers |-> NoAsk]
    /\ failed' = [t \in Threads |-> FALSE]
    /\ UNCHANGED <<table, requests, history>>

Pollers == Round \/ NextInRound \/ Poll(Poller)

Next ==
    \/ Pollers
    \/ \E n \in Names : Tick(n) \/ SetToken(n)
    \/ \E h \in Handlers : \/ \E n \in Names : PollNow(h, n) \/ (\E ask \in Asks : Create(h, n, ask))
                           \/ CreateSetsToken(h) \/ CreateSaves(h) \/ CreateRaises(h)
                           \/ Poll(h)
    \/ \E s \in Scanners : Scan(s) \/ Scanning(s)
    \/ Cleanup \/ Purge
    \/ Restart

\* The poller is a daemon thread that waits ten seconds between rounds, its
\* requests have timeouts, and time passes.
Fairness == WF_vars(Pollers) /\ \A n \in Names : WF_vars(Tick(n))

Spec == Init /\ [][Next]_vars /\ Fairness

-----------------------------------------------------------------------------
\* "polls each ENABLED connector on its own interval": one that stays enabled
\* is polled again and again, whatever its own polls and those of others do,
\* unless a connector before it stays enabled with an interval that is no
\* number.
Polls(n) == name[Poller] = n /\ at[Poller] = "config"

Enabled(n) ==
    /\ n \in DOMAIN rows /\ rows[n].kind = "oem" /\ rows[n].enabled
    /\ \A m \in DOMAIN rows :
        m <= n /\ rows[m].kind = "oem" /\ rows[m].enabled => rows[m].interval # "text"

EnabledIsPolled == \A n \in Names : <>[]Enabled(n) => []<>Polls(n)

\* A purge of the store is a purge: without a request that saved it since, or
\* was saving it then, no connector is configured or enabled again by the
\* polls and scans that go on, and events come only from a poll that had its
\* configuration already.
PurgeHolds ==
    /\ \A n \in DOMAIN rows : rows[n].config # "none" \/ rows[n].enabled => n \in asked
    /\ events \subseteq asked \cup inflight
=============================================================================
