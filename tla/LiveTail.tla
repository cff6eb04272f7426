------------------------------ MODULE LiveTail ------------------------------
(***************************************************************************)
(* GET /api/events: a thread that tails the raw log, the bounded queue     *)
(* between it and the writer of server-sent events, the connection, and    *)
(* the browser's EventSource, which reconnects by itself and sends the id  *)
(* of the last event it saw.                                               *)
(*                                                                         *)
(* The log grows by lines, whole or in part, and may be truncated and      *)
(* written anew.  A line is <<generation of the file, number>>; the code   *)
(* knows the number alone.  All lines are as long, and none is blank.      *)
(***************************************************************************)
EXTENDS Integers, Sequences, FiniteSets

CONSTANTS
    STREAM_QUEUE_LIMIT,
    Wire,         \* frames the connection holds before a write blocks
    MaxLines,     \* bound: lines of the log, one fewer for each time it was truncated
    Rotations,    \* bound: times the log is truncated
    Breaks,       \* bound: times the connection is lost
    Unset         \* the None of the code

ASSUME LiveTailAssumption ==
    /\ {STREAM_QUEUE_LIMIT, Wire, MaxLines} \subseteq Nat \ {0}
    /\ {Rotations, Breaks} \subseteq Nat
    /\ Unset \notin Int

VARIABLES
    log,          \* [gen, lines, whole]: how many lines; is the last one ended?
    tail,         \* tail_stream: [at, gen, size, sized, step, todo], at for last_n in file
                  \* gen, size for last_size of file sized, todo the events to put
    events,       \* StreamQueue: [items, dropped]
    wire,         \* the frames written and not received
    up, breaks,   \* is there a connection?  how often was it lost?
    client,       \* [lastId, seen, gaps, pos]: what it received, and the line it has come to
    read,         \* the lines some tail has put and that it, or another, may deliver
    lapse         \* was the client's place in one file taken for a place in another?

streamVars == <<log, tail, events, wire, up, breaks, client, read, lapse>>

AtMost(p, q) == p[1] < q[1] \/ (p[1] = q[1] /\ p[2] <= q[2])

Count == log.lines
Size == 2 * Count - (IF log.whole THEN 0 ELSE 1)

-----------------------------------------------------------------------------
(* _api_stream: a new queue and tail for every request.  sum(1 for _ in f)  *)
(* counts an unfinished last line too.                                      *)
TailFrom(at, gen) ==
    [at |-> at, gen |-> gen, size |-> Unset, sized |-> gen, step |-> "stat", todo |-> <<>>]

NoQueue == [items |-> <<>>, dropped |-> 0]

StartAfter == IF client.lastId = Unset THEN Count ELSE client.lastId

StreamInit ==
    /\ \E k \in 0..1 : log = [gen |-> 0, lines |-> k, whole |-> TRUE]
    /\ tail = TailFrom(Count, 0)
    /\ events = NoQueue
    /\ wire = <<>>
    /\ up = TRUE /\ breaks = 0
    /\ client = [lastId |-> Unset, seen |-> {}, gaps |-> 0, pos |-> <<0, Count>>]
    /\ read = {}
    /\ lapse = FALSE

Lost ==
    /\ up /\ breaks < Breaks
    /\ up' = FALSE /\ breaks' = breaks + 1
    /\ wire' = <<>>
    /\ UNCHANGED <<log, tail, events, client, read, lapse>>

(* Without an event received there is no place to resume at.                *)
Reconnect ==
    /\ ~up
    /\ up' = TRUE
    /\ tail' = TailFrom(StartAfter, IF client.lastId = Unset THEN log.gen ELSE client.pos[1])
    /\ events' = NoQueue
    /\ lapse' = (lapse \/ (client.lastId = Unset /\ client.pos # <<log.gen, Count>>))
    /\ UNCHANGED <<log, wire, breaks, client, read>>

-----------------------------------------------------------------------------
(* Whoever writes the log.                                                  *)
AppendLine(whole) ==
    /\ log.whole /\ Count + log.gen < MaxLines
    /\ log' = [log EXCEPT !.lines = @ + 1, !.whole = whole]

EndLine == ~log.whole /\ log' = [log EXCEPT !.whole = TRUE]

Truncate ==
    /\ log.gen < Rotations
    /\ log' = [gen |-> log.gen + 1, lines |-> 0, whole |-> TRUE]

(* Lines that a tail had put whose connection was lost are not there to be  *)
(* read again after a truncation.                                           *)
Kept(l) == AtMost(l, client.pos) \/ (up /\ AtMost(l, <<tail.gen, tail.at>>))

(* A rewritten log that is as long as the old one by the time of a poll is  *)
(* not told from it.                                                        *)
Outgrown == up /\ tail.size \notin {Unset, 0} /\ tail.sized # log.gen /\ Size >= tail.size

WriteLog ==
    /\ \/ \E whole \in BOOLEAN : AppendLine(whole)
       \/ EndLine
       \/ Truncate
    /\ read' = IF log'.gen = log.gen THEN read ELSE {l \in read : Kept(l)}
    /\ UNCHANGED <<tail, events, wire, up, breaks, client>>
    /\ lapse' = (lapse \/ Outgrown')

-----------------------------------------------------------------------------
(* tail_stream: the file is read when its size has changed, and from its    *)
(* first line on when it has become smaller.                                *)
(* Mutant: a smaller file goes on from the old line. *)
StartsOverNever == FALSE

Shrunk == tail.size # Unset /\ Size < tail.size
StartsOver == Shrunk

OtherFile == tail.gen # log.gen /\ tail.at > 0

Stat ==
    /\ up /\ tail.step = "stat"
    /\ tail.size # Size
    /\ tail' = [tail EXCEPT !.step = "read", !.size = Size, !.sized = log.gen,
                            !.at = IF StartsOver THEN 0 ELSE @,
                            !.gen = IF StartsOver THEN log.gen ELSE @]
    /\ lapse' = (lapse \/ (OtherFile /\ ~Shrunk))
    /\ UNCHANGED <<log, events, wire, up, breaks, client, read>>

(* Lines the parser refused are events too.  Then the rules may have        *)
(* something to say, under the number of the last line.                     *)
NewLines == (tail.at + 1)..Count

Event(kind, n) == [kind |-> kind, line |-> <<log.gen, n>>]

LogEvents == [i \in 1..Cardinality(NewLines) |-> Event("log", tail.at + i)]

Findings == {<<>>} \cup {<<Event("finding", n)>> : n \in NewLines \cap {Count}}

Read ==
    /\ up /\ tail.step = "read"
    /\ \E found \in Findings :
          tail' = [tail EXCEPT !.step = "put", !.todo = LogEvents \o found,
                               !.at = IF Count > @ THEN Count ELSE @,
                               !.gen = IF tail.at = 0 \/ Count > tail.at THEN log.gen ELSE @]
    /\ read' = read \cup {<<log.gen, n>> : n \in NewLines}
    /\ lapse' = (lapse \/ (OtherFile /\ Count > tail.at))
    /\ UNCHANGED <<log, events, wire, up, breaks, client>>

(* StreamQueue.put: the oldest makes room, and is counted.                  *)
Put(q, e) ==
    IF Len(q.items) >= STREAM_QUEUE_LIMIT
    THEN [items |-> Append(Tail(q.items), e), dropped |-> q.dropped + 1]
    ELSE [q EXCEPT !.items = Append(@, e)]

PutNext ==
    /\ up /\ tail.step = "put"
    /\ IF tail.todo = <<>>
       THEN tail' = [tail EXCEPT !.step = "stat"] /\ UNCHANGED events
       ELSE tail' = [tail EXCEPT !.todo = Tail(@)] /\ events' = Put(events, Head(tail.todo))
    /\ UNCHANGED <<log, wire, up, breaks, client, read, lapse>>

-----------------------------------------------------------------------------
(* The writer: "the honest gap FIRST, then the event".  A gap has no id.    *)
Gap(d) == [kind |-> "gap", dropped |-> d]

(* Mutant: the gap after the event. *)
FramesGapLast(dropped, item) == IF dropped > 0 THEN <<item, Gap(dropped)>> ELSE <<item>>

Frames(dropped, item) == IF dropped > 0 THEN <<Gap(dropped), item>> ELSE <<item>>

Send ==
    /\ up /\ events.items # <<>> /\ Len(wire) < Wire
    /\ wire' = wire \o Frames(events.dropped, Head(events.items))
    /\ events' = [items |-> Tail(events.items), dropped |-> 0]
    /\ UNCHANGED <<log, tail, up, breaks, client, read, lapse>>

(* useLogStream and the EventSource under it.                               *)
Received(f) ==
    CASE f.kind = "gap" -> [client EXCEPT !.gaps = @ + f.dropped]
      [] f.kind = "log" -> [client EXCEPT !.lastId = f.line[2], !.pos = f.line, !.seen = @ \cup {f.line}]
      [] f.kind = "finding" -> [client EXCEPT !.lastId = f.line[2], !.pos = f.line]

Receive ==
    /\ up /\ wire # <<>>
    /\ client' = Received(Head(wire))
    /\ wire' = Tail(wire)
    /\ UNCHANGED <<log, tail, events, up, breaks, read, lapse>>

-----------------------------------------------------------------------------
(* Bound: nothing is looked at beyond a lapse, where no property says more. *)
StreamNext ==
    /\ ~lapse
    /\ Lost \/ Reconnect \/ WriteLog \/ Stat \/ Read \/ PutNext \/ Send \/ Receive

(* The tail polls, the writer writes, the browser reads and reconnects; the *)
(* log need not grow, and the connection need not break.                    *)
StreamFairness ==
    /\ WF_streamVars(Reconnect) /\ WF_streamVars(Stat) /\ WF_streamVars(Read)
    /\ WF_streamVars(PutNext) /\ WF_streamVars(Send) /\ WF_streamVars(Receive)

StreamSpec == StreamInit /\ [][StreamNext]_streamVars /\ StreamFairness

-----------------------------------------------------------------------------
(* "A silent drop would fake a quiet log": whatever the client has come     *)
(* past, over any number of connections, it received or was told of.        *)
NoSilentHole ==
    ~lapse =>
        Cardinality({l \in read : AtMost(l, client.pos)} \ client.seen) <= client.gaps

(* "resume after that line, no replay": the client goes from line to later  *)
(* line over any number of connections, and comes past none in silence.     *)
(* (Of a log rewritten between the look at its size and its reading, lines  *)
(* may come twice.)                                                         *)
ResumesExactly ==
    [][/\ NoSilentHole'
       /\ log.gen = 0 => \A l \in client'.seen \ client.seen : ~AtMost(l, client.pos)]_streamVars

(* When the log has stopped growing, every line of it is in time received,  *)
(* or passed over with a gap.                                               *)
TailCatchesUp == <>[](lapse \/ Count = 0 \/ AtMost(<<log.gen, Count>>, client.pos))

=============================================================================
