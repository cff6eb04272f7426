---------------------------- MODULE FeedsProofs ----------------------------
(***************************************************************************)
(* The theorem of the connectors: a purge holds, for any connectors,       *)
(* request threads, scans and requests made.                               *)
(*                                                                         *)
(* What a poll stores, it may store because of a configuration it read     *)
(* before, possibly before a purge; what a request saves, it may save      *)
(* because it was asked to, possibly before a purge.  The invariant says   *)
(* so of every thread that is between the two.                             *)
(***************************************************************************)
EXTENDS Feeds, TLAPS

RowType == [kind : {"none", "oem", "discovery"}, config : {"none", "blank", "url"},
            enabled : BOOLEAN, interval : {"number", "text"},
            last : {"never", "recent", "past"}, error : BOOLEAN]

Polling == {"config", "http", "ingest", "finish"}
Saving == {"token", "save"}
Places == {"idle", "announce", "scanning", "clear", "tell"} \cup Polling \cup Saving

TableType ==
    /\ DOMAIN rows \subseteq Names /\ rows \in [DOMAIN rows -> RowType]
    /\ events \subseteq Names
ThreadType ==
    /\ at \in [Threads -> Places]
    /\ name \in [Threads -> Names \cup {NoName}]
    /\ \A t \in Threads : at[t] \in Polling \cup Saving => name[t] \in Names
    /\ todo \subseteq Names
    /\ args \in [Handlers -> Arguments]
    /\ failed \in [Threads -> BOOLEAN]

TypeOK == TableType /\ ThreadType

(* A poll that is beyond reading the configuration of a connector: somebody  *)
(* saved that connector, since the purge or before it.                       *)
PollsOK == \A t \in Threads : at[t] \in {"http", "ingest"} => name[t] \in asked \cup inflight

(* A request that saves a connector has been counted as asking for it. *)
SavesOK == \A h \in Handlers : at[h] \in Saving => name[h] \in asked

IInv == TypeOK /\ PollsOK /\ SavesOK /\ PurgeHolds

-----------------------------------------------------------------------------
LEMMA SavedIs ==
    ASSUME NEW row \in RowType, NEW ask \in Arguments
    PROVE  Saved(row, ask) \in RowType
<1> DEFINE config == IF ask.url THEN "url" ELSE "blank"
           enabled == IF ask.enabled = "same" THEN row.enabled ELSE ask.enabled = "yes"
           interval == IF ask.interval = "same" THEN row.interval ELSE ask.interval
<1>1. config \in {"none", "blank", "url"} /\ enabled \in BOOLEAN /\ interval \in {"number", "text"}
  <2>1. row.enabled \in BOOLEAN /\ row.interval \in {"number", "text"}
    BY DEF RowType
  <2>2. ask.interval \in {"same", "number", "text"}
    BY DEF Arguments
  <2>3. enabled = row.enabled \/ enabled = (ask.enabled = "yes")
    BY Zenon
  <2>4. (ask.enabled = "yes") \in BOOLEAN
    BY Zenon
  <2>5. enabled \in BOOLEAN
    BY <2>1, <2>3, <2>4, Zenon
  <2>6. config \in {"none", "blank", "url"} /\ interval \in {"number", "text"}
    BY <2>1, <2>2
  <2> QED BY <2>5, <2>6
<1>2. Saved(row, ask) = [row EXCEPT !.kind = "oem", !.config = config, !.enabled = enabled,
                                    !.interval = interval]
  BY Zenon DEF Saved
<1> HIDE DEF config, enabled, interval
<1> QED BY <1>1, <1>2 DEF RowType

LEMMA RowIs ==
    ASSUME TableType, NEW n \in Names
    PROVE  /\ Row(n) \in RowType
           /\ Row(n).config # "none" \/ Row(n).enabled => n \in DOMAIN rows /\ Row(n) = rows[n]
<1>1. NewRow \in RowType /\ NewRow.config = "none" /\ NewRow.enabled = FALSE
  BY DEF NewRow, RowType
<1> QED BY <1>1 DEF Row, TableType

LEMMA UpsertIs ==
    ASSUME TableType, NEW n \in Names, NEW row \in RowType
    PROVE  /\ DOMAIN Upsert(n, row) = DOMAIN rows \cup {n} /\ DOMAIN Upsert(n, row) \subseteq Names
           /\ Upsert(n, row) \in [DOMAIN Upsert(n, row) -> RowType]
           /\ Upsert(n, row)[n] = row
           /\ \A m \in DOMAIN rows : m # n => Upsert(n, row)[m] = rows[m]
<1> DEFINE D == DOMAIN rows \cup {n}
           new == [m \in D |-> IF m = n THEN row ELSE rows[m]]
<1>1. Upsert(n, row) = new
  BY DEF Upsert
<1>2. new \in [D -> RowType] /\ DOMAIN new = D /\ D \subseteq Names
  BY DEF TableType
<1> QED BY <1>1, <1>2

(* A row that no poll and no scan has configured or enabled. *)
Same(n, row) == row.config = Row(n).config /\ row.enabled = Row(n).enabled

LEMMA UpsertHolds ==
    ASSUME TableType, PurgeHolds, NEW n \in Names, NEW row \in RowType,
           rows' = Upsert(n, row), events' = events,
           asked \subseteq asked', asked \cup inflight \subseteq asked' \cup inflight',
           n \in asked' \/ Same(n, row)
    PROVE  TableType' /\ PurgeHolds'
<1>0. /\ DOMAIN rows' = DOMAIN rows \cup {n} /\ rows'[n] = row
      /\ \A m \in DOMAIN rows : m # n => rows'[m] = rows[m]
  BY UpsertIs
<1>1. TableType'
  BY UpsertIs DEF TableType
<1>2. ASSUME NEW m \in DOMAIN rows', rows'[m].config # "none" \/ rows'[m].enabled
      PROVE  m \in asked'
  <2>1. CASE m = n
    BY <1>0, <1>2, <2>1, RowIs DEF Same, PurgeHolds
  <2>2. CASE m # n
    BY <1>0, <1>2, <2>2 DEF PurgeHolds
  <2> QED BY <2>1, <2>2
<1> QED BY <1>1, <1>2 DEF PurgeHolds

LEMMA Start ==
    Init => IInv
<1> SUFFICES ASSUME Init PROVE IInv
  OBVIOUS
<1>1. TableType
  BY DEF Init, TableType
<1>2. ThreadType
  BY DEF Init, ThreadType, Places, Polling, Saving, Arguments, NoAsk
<1>3. PollsOK /\ SavesOK /\ PurgeHolds
  BY DEF Init, PollsOK, SavesOK, PurgeHolds, Threads, Saving
<1> QED BY <1>1, <1>2, <1>3 DEF IInv, TypeOK

-----------------------------------------------------------------------------
(* The steps that leave the table and the history alone, by a thread that    *)
(* says where it goes.                                                       *)
LEMMA Moving ==
    ASSUME IInv, NEW t \in Threads, NEW to \in Places, at' = [at EXCEPT ![t] = to],
           UNCHANGED <<rows, events, asked, inflight>>,
           name' \in [Threads -> Names \cup {NoName}],
           \A u \in Threads : u # t => name'[u] = name[u],
           to \in Polling \cup Saving => name'[t] \in Names,
           to \in {"http", "ingest"} => name'[t] \in asked \cup inflight,
           to \in Saving => name'[t] \in asked,
           todo' \subseteq Names, args' \in [Handlers -> Arguments],
           failed' \in [Threads -> BOOLEAN]
    PROVE  IInv'
<1> USE DEF IInv, TypeOK
<1>1. TableType' /\ PurgeHolds'
  BY DEF TableType, PurgeHolds
<1>2. ThreadType'
  BY DEF ThreadType
<1>3. PollsOK' /\ SavesOK'
  BY DEF ThreadType, PollsOK, SavesOK, Threads
<1> QED BY <1>1, <1>2, <1>3

LEMMA PollStep ==
    ASSUME IInv, NEW t \in {Poller} \cup Handlers, Poll(t)
    PROVE  IInv'
<1> USE DEF IInv, TypeOK, Goto
<1>0. t \in Threads /\ at \in [Threads -> Places] /\ name \in [Threads -> Names \cup {NoName}]
      /\ failed \in [Threads -> BOOLEAN] /\ todo \subseteq Names /\ args \in [Handlers -> Arguments]
  BY DEF Threads, ThreadType
<1>1. CASE PollReadsConfig(t)
  <2>1. name[t] \in Names /\ UNCHANGED <<rows, events, asked, inflight, name, todo, args>>
    BY <1>0, <1>1 DEF PollReadsConfig, ThreadType, Polling, table, history, bounds
  <2>2. CASE Config(name[t]) = "url"
    <3>1. name[t] \in asked
      BY <2>1, <2>2 DEF Config, PurgeHolds
    <3>2. at' = [at EXCEPT ![t] = "http"] /\ failed' = failed
      BY <1>1, <2>2 DEF PollReadsConfig
    <3> QED BY <1>0, <2>1, <3>1, <3>2, Moving DEF Places, Polling, Saving
  <2>3. CASE Config(name[t]) # "url"
    <3>1. at' = [at EXCEPT ![t] = "finish"] /\ failed' = [failed EXCEPT ![t] = TRUE]
      BY <1>1, <2>3 DEF PollReadsConfig
    <3> QED BY <1>0, <2>1, <3>1, Moving DEF Places, Polling, Saving
  <2> QED BY <2>2, <2>3
<1>2. CASE PollFails(t)
  <2>1. /\ name[t] \in Names /\ UNCHANGED <<rows, events, asked, inflight, name, todo, args>>
        /\ at' = [at EXCEPT ![t] = "finish"] /\ failed' = [failed EXCEPT ![t] = TRUE]
    BY <1>0, <1>2 DEF PollFails, ThreadType, Polling, table, history
  <2> QED BY <1>0, <2>1, Moving DEF Places, Polling, Saving
<1>3. CASE PollAnswered(t)
  <2>1. /\ at[t] = "http" /\ name[t] \in Names
        /\ UNCHANGED <<rows, events, asked, inflight, name, todo, args, failed>>
        /\ at' = [at EXCEPT ![t] = "ingest"]
    BY <1>0, <1>3 DEF PollAnswered, ThreadType, Polling, table, history
  <2>2. name[t] \in asked \cup inflight
    BY <1>0, <2>1 DEF PollsOK
  <2> QED BY <1>0, <2>1, <2>2, Moving DEF Places, Polling, Saving
<1>4. CASE Ingest(t)
  <2>1. /\ at[t] = "ingest" /\ name[t] \in Names
        /\ events \subseteq events' /\ events' \subseteq events \cup {name[t]}
        /\ UNCHANGED <<rows, asked, inflight, todo, args, failed>>
        /\ \/ at' = [at EXCEPT ![t] = "finish"] /\ name' = name
           \/ at' = [at EXCEPT ![t] = "idle"] /\ name' = [name EXCEPT ![t] = NoName]
    BY <1>0, <1>4 DEF Ingest, ThreadType, Polling, history
  <2>2. TableType' /\ PurgeHolds'
    BY <1>0, <2>1 DEF TableType, PurgeHolds, PollsOK
  <2>3. ThreadType'
    BY <1>0, <2>1 DEF ThreadType, Places, Polling, Saving
  <2>4. PollsOK' /\ SavesOK'
    BY <1>0, <2>1 DEF PollsOK, SavesOK, Saving, Threads
  <2> QED BY <2>2, <2>3, <2>4
<1>5. CASE FinishPoll(t)
  <2>1. /\ at[t] = "finish" /\ name[t] \in Names
        /\ UNCHANGED <<events, asked, inflight, todo, args>>
        /\ at' = [at EXCEPT ![t] = "idle"] /\ name' = [name EXCEPT ![t] = NoName]
        /\ failed' = [failed EXCEPT ![t] = FALSE]
    BY <1>0, <1>5 DEF FinishPoll, ThreadType, Polling, history
  <2> DEFINE row == [Row(name[t]) EXCEPT !.kind = "oem", !.last = "recent", !.error = failed[t]]
  <2>2. row \in RowType /\ Same(name[t], row)
    <3>1. Row(name[t]) \in RowType /\ failed[t] \in BOOLEAN
      BY <1>0, <2>1, RowIs
    <3> QED BY <3>1 DEF RowType, Same
  <2>3. rows' = Upsert(name[t], row)
    BY <1>5 DEF FinishPoll
  <2> HIDE DEF row
  <2>4. TableType' /\ PurgeHolds'
    BY <2>1, <2>2, <2>3, UpsertHolds
  <2>5. ThreadType'
    BY <1>0, <2>1 DEF ThreadType, Places, Polling, Saving
  <2>6. PollsOK' /\ SavesOK'
    BY <1>0, <2>1 DEF PollsOK, SavesOK, Saving, Threads
  <2> QED BY <2>4, <2>5, <2>6
<1> QED BY <1>1, <1>2, <1>3, <1>4, <1>5 DEF Poll

LEMMA PollerStep ==
    ASSUME IInv, Round \/ NextInRound
    PROVE  IInv'
<1> USE DEF IInv, TypeOK, Goto
<1>0. Poller \in Threads
  BY DEF Threads
<1>1. CASE Round
  <2>1. todo' \subseteq Names
    BY <1>1 DEF Round, Due, TableType
  <2> QED BY <1>1, <2>1 DEF Round, table, history, TableType, ThreadType, PollsOK, SavesOK, PurgeHolds
<1>2. CASE NextInRound
  <2>1. PICK n \in todo : todo' = todo \ {n} /\ name' = [name EXCEPT ![Poller] = n]
    BY <1>2 DEF NextInRound
  <2>2. /\ n \in Names /\ at' = [at EXCEPT ![Poller] = "config"]
        /\ UNCHANGED <<rows, events, asked, inflight, args, failed>>
    BY <1>2, <2>1 DEF NextInRound, ThreadType, table, history
  <2> QED BY <1>0, <2>1, <2>2, Moving DEF ThreadType, Places, Polling, Saving
<1> QED BY <1>1, <1>2

(* Steps of no thread. *)
LEMMA TableStep ==
    ASSUME IInv, Cleanup \/ \E n \in Names : Tick(n) \/ SetToken(n)
    PROVE  IInv'
<1> USE DEF IInv, TypeOK
<1>0. UNCHANGED <<at, name, todo, args, failed, asked, inflight>>
  BY DEF Cleanup, Tick, SetToken, thread, history
<1>1. ThreadType' /\ PollsOK' /\ SavesOK'
  BY <1>0 DEF ThreadType, PollsOK, SavesOK
<1>2. TableType' /\ PurgeHolds'
  <2>1. CASE Cleanup
    BY <1>0, <2>1 DEF Cleanup, TableType, PurgeHolds
  <2>2. ASSUME NEW n \in Names, Tick(n) PROVE TableType' /\ PurgeHolds'
    <3> DEFINE row == [rows[n] EXCEPT !.last = "past"]
    <3>1. n \in DOMAIN rows /\ rows' = [rows EXCEPT ![n] = row] /\ events' = events
      BY <2>2 DEF Tick
    <3>2. row \in RowType /\ row.config = rows[n].config /\ row.enabled = rows[n].enabled
      BY <3>1 DEF TableType, RowType
    <3> HIDE DEF row
    <3> QED BY <1>0, <3>1, <3>2 DEF TableType, PurgeHolds
  <2>3. ASSUME NEW n \in Names, SetToken(n) PROVE TableType' /\ PurgeHolds'
    BY <1>0, <2>3 DEF SetToken, TableType, PurgeHolds
  <2> QED BY <2>1, <2>2, <2>3
<1> QED BY <1>1, <1>2

LEMMA CreateStep ==
    ASSUME IInv, NEW h \in Handlers,
           \/ \E n \in Names, ask \in Asks : Create(h, n, ask)
           \/ CreateSetsToken(h) \/ CreateSaves(h) \/ CreateRaises(h)
    PROVE  IInv'
<1> USE DEF IInv, TypeOK, Goto
<1>0. h \in Threads /\ at \in [Threads -> Places] /\ name \in [Threads -> Names \cup {NoName}]
      /\ failed \in [Threads -> BOOLEAN] /\ todo \subseteq Names /\ args \in [Handlers -> Arguments]
      /\ NoAsk \in Arguments
  BY DEF Threads, ThreadType, NoAsk, Arguments
<1>1. ASSUME NEW n \in Names, NEW ask \in Asks, Create(h, n, ask)
      PROVE  IInv'
  <2>1. /\ at' = [at EXCEPT ![h] = "token"] /\ name' = [name EXCEPT ![h] = n]
        /\ args' = [args EXCEPT ![h] = [ask EXCEPT !.url = ask.url \/ Config(n) = "url"]]
        /\ asked' = asked \cup {n} /\ UNCHANGED <<rows, events, todo, failed, inflight>>
    BY <1>1 DEF Create, table
  <2>2. [ask EXCEPT !.url = ask.url \/ Config(n) = "url"] \in Arguments
    BY FeedsAssumption DEF Arguments
  <2>3. TableType' /\ PurgeHolds'
    BY <2>1 DEF TableType, PurgeHolds
  <2>4. ThreadType'
    BY <1>0, <2>1, <2>2 DEF ThreadType, Places, Polling, Saving
  <2>5. PollsOK' /\ SavesOK'
    BY <1>0, <2>1 DEF PollsOK, SavesOK, Saving, Threads
  <2> QED BY <2>3, <2>4, <2>5
<1>2. CASE CreateSetsToken(h)
  <2>1. /\ at[h] = "token" /\ at' = [at EXCEPT ![h] = "save"]
        /\ UNCHANGED <<rows, events, name, todo, args, failed, asked, inflight>>
    BY <1>2 DEF CreateSetsToken, history
  <2>2. name[h] \in Names /\ name[h] \in asked
    BY <1>0, <2>1 DEF ThreadType, SavesOK, Saving
  <2> QED BY <1>0, <2>1, <2>2, Moving DEF Places, Polling, Saving
<1>3. CASE CreateSaves(h)
  <2>1. /\ at[h] = "save" /\ at' = [at EXCEPT ![h] = "idle"]
        /\ name' = [name EXCEPT ![h] = NoName] /\ args' = [args EXCEPT ![h] = NoAsk]
        /\ rows' = Upsert(name[h], Saved(Row(name[h]), args[h]))
        /\ UNCHANGED <<events, todo, failed, asked, inflight>>
    BY <1>3 DEF CreateSaves, Done, history
  <2>2. name[h] \in Names /\ name[h] \in asked
    BY <1>0, <2>1 DEF ThreadType, SavesOK, Saving
  <2>3. Saved(Row(name[h]), args[h]) \in RowType
    <3>1. Row(name[h]) \in RowType /\ args[h] \in Arguments
      BY <1>0, <2>2, RowIs
    <3> QED BY <3>1, SavedIs
  <2>4. TableType' /\ PurgeHolds'
    BY <2>1, <2>2, <2>3, UpsertHolds
  <2>5. ThreadType'
    BY <1>0, <2>1 DEF ThreadType, Places, Polling, Saving
  <2>6. PollsOK' /\ SavesOK'
    BY <1>0, <2>1 DEF PollsOK, SavesOK, Saving, Threads
  <2> QED BY <2>4, <2>5, <2>6
<1>4. CASE CreateRaises(h)
  <2>1. /\ at' = [at EXCEPT ![h] = "idle"]
        /\ name' = [name EXCEPT ![h] = NoName] /\ args' = [args EXCEPT ![h] = NoAsk]
        /\ UNCHANGED <<rows, events, todo, failed, asked, inflight>>
    BY <1>4 DEF CreateRaises, Done, table, history
  <2> QED BY <1>0, <2>1, Moving DEF Places, Polling, Saving
<1> QED BY <1>1, <1>2, <1>3, <1>4

LEMMA PollNowStep ==
    ASSUME IInv, NEW h \in Handlers, NEW n \in Names, PollNow(h, n)
    PROVE  IInv'
<1>1. /\ at' = [at EXCEPT ![h] = "config"] /\ name' = [name EXCEPT ![h] = n]
      /\ UNCHANGED <<rows, events, todo, args, failed, asked, inflight>>
  BY DEF PollNow, Goto, table, history
<1> QED BY <1>1, Moving DEF IInv, TypeOK, ThreadType, Threads, Places, Polling, Saving

(* A purge empties the table; who was saving a connector then, or had read   *)
(* its configuration, is remembered.                                         *)
LEMMA PurgeStep ==
    ASSUME IInv, Purge
    PROVE  IInv'
<1> USE DEF IInv, TypeOK
<1>1. DOMAIN rows' = {} /\ events' = {} /\ UNCHANGED <<at, name, todo, args, failed>>
  BY DEF Purge, thread
<1>2. rows' \in [DOMAIN rows' -> RowType]
  BY <1>1 DEF Purge
<1>3. TableType' /\ PurgeHolds'
  BY <1>1, <1>2 DEF TableType, PurgeHolds
<1>4. ThreadType'
  BY <1>1 DEF ThreadType
<1>5. PollsOK'
  <2>1. inflight' = {name[t] : t \in {u \in Threads : at[u] \in {"http", "ingest"}}}
    BY DEF Purge
  <2> QED BY <1>1, <2>1 DEF PollsOK
<1>6. SavesOK'
  <2>1. asked' = {n \in Names : Creating(n) # {}}
    BY DEF Purge
  <2>2. ASSUME NEW h \in Handlers, at[h] \in Saving PROVE name[h] \in asked'
    <3>1. name[h] \in Names
      BY <2>2 DEF ThreadType, Threads
    <3>2. h \in Creating(name[h])
      BY <2>2 DEF Creating, Saving
    <3> QED BY <2>1, <3>1, <3>2
  <2> QED BY <1>1, <2>2 DEF SavesOK
<1> QED BY <1>3, <1>4, <1>5, <1>6

LEMMA ScanStep ==
    ASSUME IInv, NEW t \in Scanners, Scan(t) \/ Scanning(t)
    PROVE  IInv'
<1> USE DEF IInv, TypeOK, Goto
<1>0. t \in Threads /\ at \in [Threads -> Places] /\ name \in [Threads -> Names \cup {NoName}]
      /\ failed \in [Threads -> BOOLEAN] /\ todo \subseteq Names /\ args \in [Handlers -> Arguments]
      /\ Nmap \in Names
  BY FeedsAssumption DEF Threads, ThreadType
<1>1. CASE Scan(t) \/ AnnounceRaises(t) \/ Scanned(t) \/ Clear(t)
  <2>1. PICK to \in {"announce", "clear", "scanning", "tell"} : at' = [at EXCEPT ![t] = to]
    BY <1>1 DEF Scan, AnnounceRaises, Scanned, Clear
  <2>2. UNCHANGED <<rows, events, name, todo, args, asked, inflight>>
    BY <1>1 DEF Scan, AnnounceRaises, Scanned, Clear, table, history
  <2>3. failed' \in [Threads -> BOOLEAN]
    BY <1>0, <1>1 DEF Scan, AnnounceRaises, Scanned, Clear
  <2> QED BY <1>0, <2>1, <2>2, <2>3, Moving DEF Places, Polling, Saving
<1>2. CASE Announce(t) \/ Tell(t)
  <2>1. PICK to \in {"scanning", "idle"} : at' = [at EXCEPT ![t] = to]
    BY <1>2 DEF Announce, Tell
  <2>2. UNCHANGED <<events, name, todo, args, asked, inflight>> /\ failed' \in [Threads -> BOOLEAN]
    BY <1>0, <1>2 DEF Announce, Tell, history
  <2>3. rows' = rows \/ \E row \in RowType : rows' = Upsert(Nmap, row) /\ Same(Nmap, row)
    <3> DEFINE told == [Row(Nmap) EXCEPT !.kind = "discovery", !.last = "recent"]
               ended == [Row(Nmap) EXCEPT !.kind = "discovery", !.last = "recent", !.error = failed[t]]
    <3>1. Row(Nmap) \in RowType /\ failed[t] \in BOOLEAN
      BY <1>0, RowIs
    <3>2. told \in RowType /\ Same(Nmap, told) /\ ended \in RowType /\ Same(Nmap, ended)
      BY <3>1 DEF RowType, Same
    <3>3. rows' \in {rows, Upsert(Nmap, told), Upsert(Nmap, ended)}
      BY <1>2 DEF Announce, Tell
    <3> HIDE DEF told, ended
    <3> QED BY <3>2, <3>3
  <2>4. TableType' /\ PurgeHolds'
    <3>1. CASE rows' = rows
      BY <2>2, <3>1 DEF TableType, PurgeHolds
    <3>2. CASE \E row \in RowType : rows' = Upsert(Nmap, row) /\ Same(Nmap, row)
      BY <1>0, <2>2, <3>2, UpsertHolds
    <3> QED BY <2>3, <3>1, <3>2
  <2>5. ThreadType'
    BY <1>0, <2>1, <2>2 DEF ThreadType, Places, Polling, Saving
  <2>6. PollsOK' /\ SavesOK'
    BY <1>0, <2>1, <2>2 DEF PollsOK, SavesOK, Saving, Threads
  <2> QED BY <2>4, <2>5, <2>6
<1> QED BY <1>1, <1>2 DEF Scanning

LEMMA RestartStep ==
    ASSUME IInv, Restart
    PROVE  IInv'
<1>1. TableType' /\ PurgeHolds'
  BY DEF IInv, TypeOK, Restart, table, history, TableType, PurgeHolds
<1>2. ThreadType'
  BY DEF Restart, ThreadType, Places, Polling, Saving, NoAsk, Arguments
<1>3. PollsOK' /\ SavesOK'
  BY DEF Restart, PollsOK, SavesOK, Saving, Threads
<1> QED BY <1>1, <1>2, <1>3 DEF IInv, TypeOK

LEMMA Step ==
    ASSUME IInv, [Next]_vars
    PROVE  IInv'
<1>1. CASE UNCHANGED vars
  <2>1. TableType' /\ ThreadType'
    BY <1>1 DEF vars, table, thread, history, IInv, TypeOK, TableType, ThreadType
  <2>2. PollsOK' /\ SavesOK' /\ PurgeHolds'
    BY <1>1 DEF vars, table, thread, history, IInv, PollsOK, SavesOK, PurgeHolds
  <2> QED BY <2>1, <2>2 DEF IInv, TypeOK
<1>2. CASE Next
  <2>1. CASE Pollers
    BY <2>1, PollerStep, PollStep DEF Pollers
  <2>2. CASE Cleanup \/ \E n \in Names : Tick(n) \/ SetToken(n)
    BY <2>2, TableStep
  <2>3. CASE \E h \in Handlers :
                 \/ \E n \in Names : PollNow(h, n) \/ (\E ask \in Asks : Create(h, n, ask))
                 \/ CreateSetsToken(h) \/ CreateSaves(h) \/ CreateRaises(h)
                 \/ Poll(h)
    BY <2>3, PollNowStep, CreateStep, PollStep
  <2>4. CASE \E s \in Scanners : Scan(s) \/ Scanning(s)
    BY <2>4, ScanStep
  <2>5. CASE Purge \/ Restart
    BY <2>5, PurgeStep, RestartStep
  <2> QED BY <1>2, <2>1, <2>2, <2>3, <2>4, <2>5 DEF Next
<1> QED BY <1>1, <1>2

(* After a purge no poll, scan or request that is still under way configures *)
(* or enables a connector again unless it was being saved, and events come   *)
(* only from polls that had read their configuration: poll_connector,        *)
(* _finish_poll, upsert_connector, purge.                                    *)
THEOREM PurgesHold ==
    Spec => []PurgeHolds
<1>1. IInv => PurgeHolds
  BY DEF IInv
<1> QED BY Start, Step, <1>1, PTL DEF Spec
=============================================================================
