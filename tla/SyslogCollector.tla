-------------------------- MODULE SyslogCollector --------------------------
(***************************************************************************)
(* The live syslog collector, console/syslog_collector.py: a UDP and a TCP *)
(* listener hand every message to a bounded _IngestQueue, and one worker   *)
(* drains it into the store.                                               *)
(*                                                                         *)
(* A start that gets as far as its worker opens a session: a queue, a      *)
(* worker and listeners of its own.  start and stop run one at a time      *)
(* under SyslogCollector._lock; listeners, TCP client threads and workers  *)
(* take no part in it.  One port is modelled: with more there are more     *)
(* listeners of each kind.                                                 *)
(***************************************************************************)
EXTENDS Integers, Sequences, FiniteSets

CONSTANTS
    Messages,      \* the messages that senders ever send
    Datagrams,     \* those of them that come over UDP
    None,
    Limits,        \* what _IngestQueue.limit may be
    MaxSessions    \* bound on sessions

ASSUME CollectorAssumption ==
    /\ None \notin Messages /\ Datagrams \subseteq Messages
    /\ IsFiniteSet(Messages)
    /\ Limits \subseteq Nat \ {0}
    /\ MaxSessions \in Nat \ {0}

Sessions == 1..MaxSessions
Protocols == {"udp", "tcp"}

(* What became of a message.  "buffered": a TCP client thread has it, in    *)
(* part or whole.  "held": in _record, between the read of self._queue and  *)
(* the offer.  "refused" and "failed" are counted in dropped; "vanished",   *)
(* no queue took it, and "discarded", its client gave up, are counted       *)
(* nowhere.                                                                 *)
Fates == {"wire", "buffered", "held", "queued", "writing",
          "stored", "duplicate", "failed", "refused", "vanished", "discarded"}

Alive == {"loop", "take", "insert"}

VARIABLES
    ctl,           \* where the start or stop in progress is
    starting,      \* is there a session to open once the last one is stopped
    gen,           \* the session started last: self._worker_stop is its event
    stopping,      \* is that event set
    queue,         \* the session of self._queue, 0 for None
    joining,       \* the session whose worker is being joined, 0 for none
    limit,         \* the limit queues are made with
    listening,     \* by session: its listeners whose stop_event is not set
    items, closed, ready, dropped, ingested,       \* by session: its queue
    worker, hand,  \* by session: its drain thread and the event it holds
    fate, from, dest, \* by message: its fate, the session of the listener that
                      \* has it or lost it, and of the queue it is offered to
    errors            \* by session: the TCP clients that ended in an error

control == <<ctl, starting, gen, stopping, queue, joining, limit>>
buffer == <<items, closed, ready, dropped, ingested>>
thread == <<worker, hand>>
message == <<fate, from, dest, errors>>
vars == <<ctl, starting, gen, stopping, queue, joining, limit, listening, items, closed, ready,
          dropped, ingested, worker, hand, fate, from, dest, errors>>

Init ==
    /\ ctl = "idle" /\ starting = FALSE
    /\ gen = 0 /\ stopping = FALSE /\ queue = 0 /\ joining = 0
    /\ limit \in Limits
    /\ listening = [s \in Sessions |-> {}]
    /\ items = [s \in Sessions |-> <<>>]
    /\ closed = [s \in Sessions |-> FALSE]
    /\ ready = [s \in Sessions |-> FALSE]
    /\ dropped = [s \in Sessions |-> 0]
    /\ ingested = [s \in Sessions |-> 0]
    /\ worker = [s \in Sessions |-> "none"]
    /\ hand = [s \in Sessions |-> None]
    /\ fate = [m \in Messages |-> "wire"]
    /\ from = [m \in Messages |-> 0]
    /\ dest = [m \in Messages |-> 0]
    /\ errors = [s \in Sessions |-> 0]

(* The queues that take offers; None, 0 here, is not one. *)
Open(d) == d \in {s \in Sessions : ~closed[s]}

Listening == UNION {listening[s] : s \in Sessions}

-----------------------------------------------------------------------------
(***************************************************************************)
(* start and stop.                                                         *)
(***************************************************************************)

(* A start that finds its own ports served returns at once; any other one   *)
(* stops what there is first.                                               *)
CallStart ==
    /\ ctl = "idle"
    /\ gen < MaxSessions
    /\ ctl' = "unlisten" /\ starting' = TRUE
    /\ UNCHANGED <<limit, gen, stopping, queue, joining, listening, buffer, thread, message>>

CallStop ==
    /\ ctl = "idle"
    /\ ctl' = "unlisten"
    /\ UNCHANGED <<limit, starting, gen, stopping, queue, joining, listening, buffer, thread, message>>

(* _BaseListener.stop joins the listener's thread, which is not in _record  *)
(* for long; the client threads of a TCP listener are joined by nobody.     *)
UDPBusy == \E m \in Datagrams : fate[m] = "held"

Unlisten(s, p) ==
    /\ ctl = "unlisten"
    /\ p \in listening[s]
    /\ p = "udp" \/ (listening[s] = {"tcp"} /\ ~UDPBusy)
    /\ listening' = [listening EXCEPT ![s] = @ \ {p}]
    /\ UNCHANGED <<control, buffer, thread, message>>

(* Mutant: a listener is told to stop and not waited for. *)
UnlistenedUnjoined ==
    /\ ctl = "unlisten"
    /\ Listening = {}
    /\ ctl' = "close"
    /\ UNCHANGED <<limit, starting, gen, stopping, queue, joining, listening, buffer, thread, message>>

Unlistened ==
    /\ ctl = "unlisten"
    /\ Listening = {} /\ ~UDPBusy
    /\ ctl' = "close"
    /\ UNCHANGED <<limit, starting, gen, stopping, queue, joining, listening, buffer, thread, message>>

Shut(s) ==
    /\ closed' = [closed EXCEPT ![s] = TRUE]
    /\ ready' = [ready EXCEPT ![s] = TRUE]

(* _stop_worker_locked up to the join.  What is in the queue stays there. *)
CloseQueue ==
    /\ ctl = "close"
    /\ stopping' = TRUE
    /\ IF queue = 0 THEN UNCHANGED <<closed, ready>> ELSE Shut(queue)
    /\ joining' = queue /\ queue' = 0
    /\ ctl' = "join"
    /\ UNCHANGED <<limit, starting, gen, listening, items, dropped, ingested, thread, message>>

(* The join ends when the worker has, or after 1.5 s, which only a worker   *)
(* that is kept waiting by the store outlasts.                              *)
JoinWorker ==
    /\ ctl = "join"
    /\ \A s \in Sessions : joining = s => worker[s] \in {"gone", "insert"}
    /\ joining' = 0
    /\ ctl' = IF starting THEN "init" ELSE "idle"
    /\ UNCHANGED <<limit, starting, gen, stopping, queue, listening, buffer, thread, message>>

(* store.init_db raises: there is nothing to undo. *)
InitFails ==
    /\ ctl = "init"
    /\ starting' = FALSE
    /\ ctl' = "idle"
    /\ UNCHANGED <<limit, gen, stopping, queue, joining, listening, buffer, thread, message>>

StartWorker ==
    /\ ctl = "init"
    /\ starting' = FALSE
    /\ gen' = gen + 1
    /\ stopping' = FALSE                      \* a new event
    /\ queue' = gen'
    /\ worker' = [worker EXCEPT ![gen'] = "loop"]
    /\ ctl' = "bind"
    /\ UNCHANGED <<limit, joining, listening, buffer, hand, message>>

BindListener(p) ==
    /\ ctl = "bind"
    /\ listening[gen] = IF p = "udp" THEN {} ELSE {"udp"}
    /\ listening' = [listening EXCEPT ![gen] = @ \cup {p}]
    /\ ctl' = IF p = "tcp" THEN "idle" ELSE "bind"
    /\ UNCHANGED <<limit, starting, gen, stopping, queue, joining, buffer, thread, message>>

(* A port that cannot be bound: what was started is stopped again. *)
BindFails ==
    /\ ctl = "bind"
    /\ ctl' = "unlisten"
    /\ UNCHANGED <<limit, starting, gen, stopping, queue, joining, listening, buffer, thread, message>>

-----------------------------------------------------------------------------
(***************************************************************************)
(* Listeners.  A TCP client thread goes on after stop_event is set until   *)
(* it has recorded what it has in its buffer.                              *)
(***************************************************************************)
Buffer(m, s) ==
    /\ m \notin Datagrams
    /\ fate[m] = "wire" /\ "tcp" \in listening[s]
    /\ fate' = [fate EXCEPT ![m] = "buffered"]
    /\ from' = [from EXCEPT ![m] = s]
    /\ UNCHANGED <<control, listening, buffer, thread, dest, errors>>

(* _frames raises ValueError: an octet count that is too large, or a frame  *)
(* that does not end.  The frames it had extracted by then are dropped with *)
(* the rest of the buffer, and the client ends.  Over which connection a    *)
(* message comes is left open, so M, the messages in the one buffer, is any *)
(* set of them.                                                             *)
Garbled(M, s) ==
    /\ M # {} /\ \A m \in M : fate[m] = "buffered" /\ from[m] = s
    /\ fate' = [m \in Messages |-> IF m \in M THEN "discarded" ELSE fate[m]]
    /\ errors' = [errors EXCEPT ![s] = @ + 1]
    /\ UNCHANGED <<control, listening, buffer, thread, from, dest>>

RecordTCP(m) ==
    /\ fate[m] = "buffered"
    /\ fate' = [fate EXCEPT ![m] = "held"]
    /\ dest' = [dest EXCEPT ![m] = queue]
    /\ UNCHANGED <<control, listening, buffer, thread, from, errors>>

RecordUDP(m, s) ==
    /\ m \in Datagrams
    /\ fate[m] = "wire" /\ "udp" \in listening[s]
    /\ ~UDPBusy                               \* one thread, one datagram
    /\ fate' = [fate EXCEPT ![m] = "held"]
    /\ from' = [from EXCEPT ![m] = s]
    /\ dest' = [dest EXCEPT ![m] = queue]
    /\ UNCHANGED <<control, listening, buffer, thread, errors>>

(* _IngestQueue.offer *)
Offer(m) ==
    /\ fate[m] = "held"
    /\ Open(dest[m])
    /\ Len(items[dest[m]]) < limit
    /\ items' = [items EXCEPT ![dest[m]] = Append(@, m)]
    /\ ready' = [ready EXCEPT ![dest[m]] = TRUE]
    /\ fate' = [fate EXCEPT ![m] = "queued"]
    /\ from' = [from EXCEPT ![m] = 0]
    /\ UNCHANGED <<control, listening, closed, dropped, ingested, thread, dest, errors>>

OfferRefused(m) ==
    /\ fate[m] = "held"
    /\ Open(dest[m])
    /\ Len(items[dest[m]]) >= limit
    /\ dropped' = [dropped EXCEPT ![dest[m]] = @ + 1]
    /\ fate' = [fate EXCEPT ![m] = "refused"]
    /\ from' = [from EXCEPT ![m] = 0]
    /\ UNCHANGED <<control, listening, items, closed, ready, ingested, thread, dest, errors>>

(* No queue, or a closed one: False, and no counter moves. *)
OfferVanishes(m) ==
    /\ fate[m] = "held"
    /\ ~Open(dest[m])
    /\ fate' = [fate EXCEPT ![m] = "vanished"]
    /\ UNCHANGED <<control, listening, buffer, thread, from, dest, errors>>

-----------------------------------------------------------------------------
(***************************************************************************)
(* _drain.  The loop reads self._worker_stop anew each time round, which   *)
(* is the event of the session started last, not of its own.               *)
(***************************************************************************)
Check(s) ==
    /\ worker[s] = "loop"
    /\ worker' = [worker EXCEPT ![s] = IF stopping THEN "gone" ELSE "take"]
    /\ UNCHANGED <<control, listening, buffer, hand, message>>

(* Mutant: every take clears the event. *)
TakeClearing(s) ==
    /\ worker[s] = "take"
    /\ ready[s] /\ items[s] # <<>>
    /\ hand' = [hand EXCEPT ![s] = Head(items[s])]
    /\ items' = [items EXCEPT ![s] = Tail(@)]
    /\ ready' = [ready EXCEPT ![s] = FALSE]
    /\ fate' = [fate EXCEPT ![Head(items[s])] = "writing"]
    /\ worker' = [worker EXCEPT ![s] = "insert"]
    /\ UNCHANGED <<control, listening, closed, dropped, ingested, from, dest, errors>>

Take(s) ==
    /\ worker[s] = "take"
    /\ ready[s] /\ items[s] # <<>>
    /\ hand' = [hand EXCEPT ![s] = Head(items[s])]
    /\ items' = [items EXCEPT ![s] = Tail(@)]
    /\ ready' = [ready EXCEPT ![s] = Len(items[s]) > 1]
    /\ fate' = [fate EXCEPT ![Head(items[s])] = "writing"]
    /\ worker' = [worker EXCEPT ![s] = "insert"]
    /\ UNCHANGED <<control, listening, closed, dropped, ingested, from, dest, errors>>

(* The wait times out, or is woken by close with nothing to take. *)
TakeNothing(s) ==
    /\ worker[s] = "take"
    /\ ready[s] => items[s] = <<>>
    /\ ready' = [ready EXCEPT ![s] = FALSE]
    /\ worker' = [worker EXCEPT ![s] = "loop"]
    /\ UNCHANGED <<control, listening, items, closed, dropped, ingested, hand, message>>

(* Mutant: an event the store refused is not counted. *)
InsertForgetful(s, outcome) ==
    /\ worker[s] = "insert"
    /\ fate' = [fate EXCEPT ![hand[s]] = outcome]
    /\ ingested' = [ingested EXCEPT ![s] = IF outcome = "stored" THEN @ + 1 ELSE @]
    /\ hand' = [hand EXCEPT ![s] = None]
    /\ worker' = [worker EXCEPT ![s] = "loop"]
    /\ UNCHANGED <<control, listening, items, closed, ready, dropped, from, dest, errors>>

(* store.insert_event, for as long as it waits for the store's lock. *)
Insert(s, outcome) ==
    /\ worker[s] = "insert"
    /\ fate' = [fate EXCEPT ![hand[s]] = outcome]
    /\ ingested' = [ingested EXCEPT ![s] = IF outcome = "stored" THEN @ + 1 ELSE @]
    /\ dropped' = [dropped EXCEPT ![s] = IF outcome = "failed" THEN @ + 1 ELSE @]
    /\ hand' = [hand EXCEPT ![s] = None]
    /\ worker' = [worker EXCEPT ![s] = "loop"]
    /\ UNCHANGED <<control, listening, items, closed, ready, from, dest, errors>>

-----------------------------------------------------------------------------
Proceed ==
    \/ \E s \in Sessions, p \in Protocols : Unlisten(s, p)
    \/ Unlistened
    \/ CloseQueue
    \/ JoinWorker
    \/ InitFails
    \/ StartWorker
    \/ \E p \in Protocols : BindListener(p)
    \/ BindFails

Handle(m) == RecordTCP(m) \/ Offer(m) \/ OfferRefused(m) \/ OfferVanishes(m)

Drain(s) ==
    \/ Check(s)
    \/ Take(s)
    \/ TakeNothing(s)
    \/ \E outcome \in {"stored", "duplicate", "failed"} : Insert(s, outcome)

Next ==
    \/ CallStart \/ CallStop
    \/ Proceed
    \/ \E m \in Messages, s \in Sessions : Buffer(m, s) \/ RecordUDP(m, s)
    \/ \E m \in Messages : Handle(m)
    \/ \E s \in Sessions, M \in SUBSET Messages : Garbled(M, s)
    \/ \E s \in Sessions : Drain(s)

Spec == Init /\ [][Next]_vars

(* Threads that are running go on; sqlite gives up waiting after a while;   *)
(* start and stop are asked for by a person, senders send what they like.   *)
FairSpec ==
    /\ Spec
    /\ WF_vars(Proceed)
    /\ \A m \in Messages : WF_vars(Handle(m))
    /\ \A s \in Sessions : WF_vars(Drain(s))

-----------------------------------------------------------------------------
(* What the counters of a queue say: a message offered to it while it was    *)
(* open is stored, a duplicate, counted as dropped, waiting in it, or in the *)
(* worker's hand.                                                            *)
At(s, f) == {m \in Messages : dest[m] = s /\ fate[m] = f}

Accounted ==
    \A s \in Sessions :
        /\ ingested[s] = Cardinality(At(s, "stored"))
        /\ dropped[s] = Cardinality(At(s, "refused") \cup At(s, "failed"))
        /\ At(s, "queued") = {items[s][i] : i \in DOMAIN items[s]}
        /\ Len(items[s]) <= limit
        /\ At(s, "writing") = {hand[s]} \ {None}

(* In the queue of a worker that has ended. *)
Stranded(m) == fate[m] = "queued" /\ worker[dest[m]] = "gone"

(* Where messages go uncounted: when no queue took them, over TCP, and their *)
(* listener had been told to stop by the time; with the backlog of a closed  *)
(* queue; and, with the listener running, only with a TCP client whose       *)
(* framing broke.  The listener counts such a client among its errors, once, *)
(* whatever was in its buffer: its errors show that messages went, and do    *)
(* not show how many.                                                        *)
Discarded(s) == {m \in Messages : from[m] = s /\ fate[m] = "discarded"}

VanishesOnlyLate ==
    \A m \in Messages :
        /\ fate[m] = "vanished" => m \notin Datagrams /\ "tcp" \notin listening[from[m]]
        /\ fate[m] = "discarded" => m \notin Datagrams
        /\ Stranded(m) => closed[dest[m]]

DiscardsShow ==
    \A s \in Sessions :
        /\ errors[s] <= Cardinality(Discarded(s))
        /\ Discarded(s) # {} => errors[s] > 0

WhereMessagesVanish == VanishesOnlyLate /\ DiscardsShow

(* No lost wake-up: while its queue is open, a message in it is written, or  *)
(* the store refuses it.                                                     *)
QueuedIsDrained ==
    \A m \in Messages :
        fate[m] = "queued" ~>
            fate[m] \in {"stored", "duplicate", "failed"} \/ ~Open(dest[m])
=============================================================================
