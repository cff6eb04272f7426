---------------------------- MODULE StreamProofs ----------------------------
(***************************************************************************)
(* The theorems of the two streams of lines: of the syslog collector, for  *)
(* any messages, queue limits and number of sessions, and of the live      *)
(* tail, for any log, queue and connections.                               *)
(*                                                                         *)
(* Where messages vanish rests on what the lock and the joins order: as    *)
(* long as a listener is listening, or the UDP thread is in _record, the   *)
(* queue it offers to is the open one of the session started last.  The    *)
(* counters rest on a message being in one place: once in a queue, and in  *)
(* the hand of at most the worker it was queued for.                       *)
(*                                                                         *)
(* That the live tail resumes exactly is about lines that are nowhere any  *)
(* more, so its invariant names them: some sets of lines, no larger than   *)
(* the gaps the client, the wire and the queue count, that with what was   *)
(* received and is on its way account for all that is due.                 *)
(***************************************************************************)
EXTENDS SyslogCollector, LiveTail, TLAPS, FiniteSetTheorems

ControlType ==
    /\ ctl \in {"idle", "unlisten", "close", "join", "init", "bind"}
    /\ starting \in BOOLEAN /\ stopping \in BOOLEAN
    /\ gen \in 0..MaxSessions /\ queue \in 0..MaxSessions /\ joining \in 0..MaxSessions
    /\ limit \in Nat \ {0}
    /\ listening \in [Sessions -> SUBSET Protocols]
QueueType ==
    /\ items \in [Sessions -> Seq(Messages)]
    /\ closed \in [Sessions -> BOOLEAN] /\ ready \in [Sessions -> BOOLEAN]
    /\ dropped \in [Sessions -> Nat] /\ ingested \in [Sessions -> Nat]
WorkerType ==
    /\ worker \in [Sessions -> Alive \cup {"none", "gone"}]
    /\ hand \in [Sessions -> Messages \cup {None}]
MessageType ==
    /\ fate \in [Messages -> Fates]
    /\ from \in [Messages -> 0..MaxSessions] /\ dest \in [Messages -> 0..MaxSessions]
    /\ errors \in [Sessions -> Nat]

TypeOK == ControlType /\ QueueType /\ WorkerType /\ MessageType

(* A start on its way has a session left to open. *)
StartOK == (ctl = "init" => starting) /\ (starting => gen < MaxSessions)

(* start and stop: a queue is the open one of the session started last, and  *)
(* the ones before it are closed; who listens, listens for that session.     *)
ControlOK ==
    /\ starting => ctl \in {"unlisten", "close", "join", "init"}
    /\ ctl \in {"join", "init"} => queue = 0
    /\ ctl = "bind" => queue # 0
    /\ queue # 0 => queue = gen /\ ~closed[queue] /\ ~stopping
    /\ \A s \in Sessions :
        /\ s < gen \/ (s = gen /\ queue = 0) => closed[s]
        /\ s > gen => ~closed[s] /\ worker[s] = "none"
        /\ worker[s] = "gone" => closed[s]
        /\ listening[s] # {} =>
              s = queue /\ ctl \in {"idle", "unlisten", "bind"}
        /\ ctl = "bind" => "tcp" \notin listening[s]

(* Where a message is that a listener has, or lost. *)
MessagesOK ==
    \A m \in Messages :
        /\ fate[m] \in {"buffered", "held", "vanished"} => from[m] \in 1..gen
        /\ fate[m] \in {"buffered", "discarded"} => m \notin Datagrams
        /\ fate[m] = "held" /\ m \in Datagrams =>
              dest[m] = queue /\ queue # 0 /\ ctl \in {"idle", "unlisten", "bind"}
        /\ fate[m] = "held" /\ "tcp" \in listening[from[m]] => dest[m] = queue
        /\ fate[m] \in {"buffered", "held", "vanished"} /\ m \notin Datagrams /\ ctl = "bind" =>
              from[m] # gen
        /\ fate[m] = "queued" => dest[m] \in Sessions

PlaceOK == TypeOK /\ StartOK /\ ControlOK /\ MessagesOK /\ VanishesOnlyLate

(* A message is queued once, and a worker has one in hand while it inserts.  *)
QueuesOK ==
    \A s \in Sessions :
        /\ \A i, j \in DOMAIN items[s] : items[s][i] = items[s][j] => i = j
        /\ worker[s] = "insert" <=> hand[s] # None

CountOK == Accounted /\ QueuesOK

-----------------------------------------------------------------------------
(* The steps, action by action. *)
LEMMA Steps ==
    ASSUME Next
    PROVE  \/ CallStart \/ CallStop \/ Unlistened \/ CloseQueue \/ JoinWorker \/ InitFails
           \/ StartWorker \/ BindFails
           \/ \E s \in Sessions, p \in Protocols : Unlisten(s, p)
           \/ \E p \in Protocols : BindListener(p)
           \/ \E m \in Messages, s \in Sessions : Buffer(m, s) \/ RecordUDP(m, s)
           \/ \E m \in Messages : RecordTCP(m) \/ Offer(m) \/ OfferRefused(m) \/ OfferVanishes(m)
           \/ \E s \in Sessions, M \in SUBSET Messages : Garbled(M, s)
           \/ \E s \in Sessions : Check(s) \/ Take(s) \/ TakeNothing(s)
           \/ \E s \in Sessions, outcome \in {"stored", "duplicate", "failed"} :
                 Insert(s, outcome)
  BY DEF Next, Proceed, Handle, Drain

(* A queue that something is taken from. *)
LEMMA Taking ==
    ASSUME TypeOK, NEW s \in Sessions, Take(s)
    PROVE  /\ items[s] \in Seq(Messages) /\ Len(items[s]) \in Nat \ {0}
           /\ 1 \in DOMAIN items[s] /\ Head(items[s]) = items[s][1]
           /\ Head(items[s]) \in Messages
           /\ Tail(items[s]) \in Seq(Messages)
           /\ Len(Tail(items[s])) = Len(items[s]) - 1
           /\ \A i \in 1..Len(items[s]) - 1 : Tail(items[s])[i] = items[s][i + 1]
  BY DEF TypeOK, QueueType, Take

LEMMA TypeInit ==
    Init => TypeOK
<1> SUFFICES ASSUME Init PROVE TypeOK
  OBVIOUS
<1>1. ControlType
  <2>1. limit \in Nat \ {0}
    BY CollectorAssumption DEF Init
  <2>2. 0 \in 0..MaxSessions
    BY CollectorAssumption
  <2> QED BY <2>1, <2>2 DEF Init, ControlType, Protocols
<1>2. QueueType
  BY DEF Init, QueueType
<1>3. WorkerType
  BY DEF Init, WorkerType
<1>4. MessageType
  BY CollectorAssumption DEF Init, MessageType, Fates
<1> QED BY <1>1, <1>2, <1>3, <1>4 DEF TypeOK

LEMMA TypeStep ==
    ASSUME TypeOK, StartOK, [Next]_vars
    PROVE  TypeOK'
<1> USE DEF TypeOK
<1>1. CASE UNCHANGED vars
  BY <1>1 DEF vars, ControlType, QueueType, WorkerType, MessageType
<1>2. CASE CallStart \/ CallStop \/ Unlistened \/ JoinWorker \/ InitFails \/ BindFails
  <2>0. 0 \in 0..MaxSessions
    BY CollectorAssumption
  <2>1. ControlType'
    <3>1. CASE CallStart \/ CallStop
      BY <3>1, <2>0 DEF CallStart, CallStop, ControlType
    <3>2. CASE Unlistened \/ BindFails
      BY <3>2, <2>0 DEF Unlistened, BindFails, ControlType
    <3>3. CASE JoinWorker \/ InitFails
      BY <3>3, <2>0 DEF JoinWorker, InitFails, ControlType
    <3> QED BY <1>2, <3>1, <3>2, <3>3
  <2>2. UNCHANGED <<buffer, thread, message>>
    BY <1>2 DEF CallStart, CallStop, Unlistened, JoinWorker, InitFails, BindFails
  <2> QED BY <2>1, <2>2 DEF QueueType, WorkerType, MessageType, buffer, thread, message
<1>3. CASE CloseQueue
  <2>1. ControlType'
    BY <1>3, CollectorAssumption DEF CloseQueue, ControlType
  <2>2. QueueType'
    BY <1>3 DEF CloseQueue, Shut, QueueType
  <2> QED BY <1>3, <2>1, <2>2 DEF CloseQueue, WorkerType, MessageType, thread, message
<1>4. CASE StartWorker
  <2>1. gen' \in 0..MaxSessions
    BY <1>4, CollectorAssumption DEF StartWorker, ControlType, StartOK
  <2>2. ControlType'
    BY <1>4, <2>1 DEF StartWorker, ControlType
  <2>3. WorkerType'
    BY <1>4, <2>1 DEF StartWorker, WorkerType, Alive
  <2> QED BY <1>4, <2>2, <2>3 DEF StartWorker, QueueType, MessageType, buffer, message
<1>5. CASE \/ \E s \in Sessions, p \in Protocols : Unlisten(s, p)
           \/ \E p \in Protocols : BindListener(p)
  <2>1. ControlType'
    BY <1>5 DEF Unlisten, BindListener, ControlType, control
  <2>2. UNCHANGED <<buffer, thread, message>>
    BY <1>5 DEF Unlisten, BindListener
  <2> QED BY <2>1, <2>2 DEF QueueType, WorkerType, MessageType, buffer, thread, message
<1>6. CASE \E m \in Messages, s \in Sessions : Buffer(m, s) \/ RecordUDP(m, s)
  <2>1. MessageType'
    <3>1. Sessions \subseteq 0..MaxSessions
      BY CollectorAssumption DEF Sessions
    <3>2. CASE \E m \in Messages, s \in Sessions : Buffer(m, s)
      BY <3>1, <3>2 DEF Buffer, MessageType, Fates
    <3>3. CASE \E m \in Messages, s \in Sessions : RecordUDP(m, s)
      BY <3>1, <3>3 DEF RecordUDP, ControlType, MessageType, Fates
    <3> QED BY <1>6, <3>2, <3>3
  <2>2. UNCHANGED <<control, listening, buffer, thread>>
    BY <1>6 DEF Buffer, RecordUDP
  <2> QED BY <2>1, <2>2 DEF ControlType, QueueType, WorkerType, control, buffer, thread
<1>7. CASE \E m \in Messages : RecordTCP(m) \/ Offer(m) \/ OfferRefused(m) \/ OfferVanishes(m)
  <2>1. MessageType'
    <3>1. CASE \E m \in Messages : RecordTCP(m)
      BY <3>1 DEF RecordTCP, ControlType, MessageType, Fates
    <3>2. CASE \E m \in Messages : Offer(m) \/ OfferRefused(m)
      <4>1. PICK m \in Messages, f \in {"queued", "refused"} :
               /\ fate' = [fate EXCEPT ![m] = f] /\ from' = [from EXCEPT ![m] = 0]
               /\ UNCHANGED <<dest, errors>>
        BY <3>2 DEF Offer, OfferRefused
      <4> QED BY <4>1, CollectorAssumption DEF MessageType, Fates
    <3>3. CASE \E m \in Messages : OfferVanishes(m)
      BY <3>3 DEF OfferVanishes, MessageType, Fates
    <3> QED BY <1>7, <3>1, <3>2, <3>3
  <2>2. QueueType'
    <3>1. CASE \E m \in Messages : RecordTCP(m) \/ OfferVanishes(m)
      BY <3>1 DEF RecordTCP, OfferVanishes, QueueType, buffer
    <3>2. CASE \E m \in Messages : Offer(m)
      BY <3>2 DEF Offer, Open, QueueType
    <3>3. CASE \E m \in Messages : OfferRefused(m)
      BY <3>3 DEF OfferRefused, Open, QueueType
    <3> QED BY <1>7, <3>1, <3>2, <3>3
  <2>3. UNCHANGED <<control, listening, thread>>
    BY <1>7 DEF RecordTCP, Offer, OfferRefused, OfferVanishes
  <2> QED BY <2>1, <2>2, <2>3 DEF ControlType, WorkerType, control, thread
<1>8. CASE \E s \in Sessions : Check(s) \/ Take(s) \/ TakeNothing(s)
  <2>1. MessageType'
    BY <1>8, Taking DEF Check, Take, TakeNothing, MessageType, Fates, message
  <2>2. QueueType'
    <3>1. CASE \E s \in Sessions : Check(s) \/ TakeNothing(s)
      BY <3>1 DEF Check, TakeNothing, QueueType, buffer
    <3>2. CASE \E s \in Sessions : Take(s)
      BY <3>2, Taking DEF Take, QueueType
    <3> QED BY <1>8, <3>1, <3>2
  <2>3. WorkerType'
    BY <1>8, Taking DEF Check, Take, TakeNothing, WorkerType, Alive
  <2>4. UNCHANGED <<control, listening>>
    BY <1>8 DEF Check, Take, TakeNothing
  <2> QED BY <2>1, <2>2, <2>3, <2>4 DEF ControlType, control
<1>9. CASE \E s \in Sessions, outcome \in {"stored", "duplicate", "failed"} : Insert(s, outcome)
  <2>0. PICK s \in Sessions, outcome \in {"stored", "duplicate", "failed"} : Insert(s, outcome)
    BY <1>9
  <2>1. MessageType'
    BY <2>0 DEF Insert, MessageType, Fates
  <2>2. QueueType'
    BY <2>0 DEF Insert, QueueType
  <2>3. WorkerType'
    BY <2>0 DEF Insert, WorkerType, Alive
  <2> QED BY <2>0, <2>1, <2>2, <2>3 DEF Insert, ControlType, control
<1>10. CASE \E s \in Sessions, M \in SUBSET Messages : Garbled(M, s)
  <2>1. MessageType'
    BY <1>10 DEF Garbled, MessageType, Fates
  <2>2. UNCHANGED <<control, listening, buffer, thread>>
    BY <1>10 DEF Garbled
  <2> QED BY <2>1, <2>2 DEF ControlType, QueueType, WorkerType, control, buffer, thread
<1> QED BY Steps, <1>1, <1>2, <1>3, <1>4, <1>5, <1>6, <1>7, <1>8, <1>9, <1>10

LEMMA StartStep ==
    ASSUME TypeOK, StartOK, [Next]_vars
    PROVE  StartOK'
<1> USE DEF StartOK
<1>1. CASE UNCHANGED vars
  BY <1>1 DEF vars
<1>2. CASE CallStart \/ CallStop \/ Unlistened \/ CloseQueue \/ JoinWorker
  BY <1>2 DEF CallStart, CallStop, Unlistened, CloseQueue, JoinWorker
<1>3. CASE InitFails \/ StartWorker \/ BindFails \/ \E p \in Protocols : BindListener(p)
  BY <1>3 DEF InitFails, StartWorker, BindFails, BindListener
<1>4. CASE \/ \E s \in Sessions, p \in Protocols : Unlisten(s, p)
           \/ \E m \in Messages, s \in Sessions : Buffer(m, s) \/ RecordUDP(m, s)
           \/ \E m \in Messages : RecordTCP(m) \/ Offer(m) \/ OfferRefused(m) \/ OfferVanishes(m)
           \/ \E s \in Sessions, M \in SUBSET Messages : Garbled(M, s)
           \/ \E s \in Sessions : Check(s) \/ Take(s) \/ TakeNothing(s)
           \/ \E s \in Sessions, outcome \in {"stored", "duplicate", "failed"} :
                 Insert(s, outcome)
  <2>1. UNCHANGED control
    BY <1>4 DEF Unlisten, Buffer, RecordUDP, RecordTCP, Garbled, Offer, OfferRefused, OfferVanishes,
                Check, Take, TakeNothing, Insert
  <2> QED BY <2>1 DEF control
<1> QED BY Steps, <1>1, <1>2, <1>3, <1>4

(* Every variable of the collector keeps its type, its queues and counters   *)
(* included.                                                                 *)
THEOREM TypeCorrect == Spec => []TypeOK
<1>1. Init => TypeOK /\ StartOK
  BY TypeInit DEF Init, StartOK
<1>2. TypeOK /\ StartOK /\ [Next]_vars => (TypeOK /\ StartOK)'
  BY TypeStep, StartStep
<1> QED BY <1>1, <1>2, PTL DEF Spec

-----------------------------------------------------------------------------
(* Only start and stop touch ctl, gen and queue, and only they listen. *)
ControlStep ==
    \/ CallStart \/ CallStop \/ Unlistened \/ CloseQueue \/ JoinWorker \/ InitFails
    \/ StartWorker \/ BindFails
    \/ \E s \in Sessions, p \in Protocols : Unlisten(s, p)
    \/ \E p \in Protocols : BindListener(p)

MessageStep ==
    \/ \E m \in Messages, s \in Sessions : Buffer(m, s) \/ RecordUDP(m, s)
    \/ \E m \in Messages : RecordTCP(m) \/ Offer(m) \/ OfferRefused(m) \/ OfferVanishes(m)
    \/ \E s \in Sessions, M \in SUBSET Messages : Garbled(M, s)

WorkerStep ==
    \/ \E s \in Sessions : Check(s) \/ Take(s) \/ TakeNothing(s)
    \/ \E s \in Sessions, outcome \in {"stored", "duplicate", "failed"} : Insert(s, outcome)

LEMMA Kinds ==
    ASSUME [Next]_vars
    PROVE  UNCHANGED vars \/ ControlStep \/ MessageStep \/ WorkerStep
  BY Steps DEF ControlStep, MessageStep, WorkerStep

LEMMA OthersLeave ==
    ASSUME MessageStep \/ WorkerStep
    PROVE  UNCHANGED <<control, listening, closed>>
<1>1. CASE MessageStep
  BY <1>1 DEF MessageStep, Buffer, RecordUDP, RecordTCP, Garbled, Offer, OfferRefused,
              OfferVanishes, buffer
<1>2. CASE WorkerStep
  BY <1>2 DEF WorkerStep, Check, Take, TakeNothing, Insert, buffer
<1> QED BY <1>1, <1>2

LEMMA ControlLeaves ==
    ASSUME ControlStep
    PROVE  /\ UNCHANGED <<message, items, dropped, ingested, hand, limit>>
           /\ UNCHANGED worker \/ StartWorker
<1>1. CASE CallStart \/ CallStop \/ Unlistened \/ CloseQueue \/ JoinWorker
  BY <1>1 DEF CallStart, CallStop, Unlistened, CloseQueue, JoinWorker, buffer, thread
<1>2. CASE InitFails \/ StartWorker \/ BindFails
  BY <1>2 DEF InitFails, StartWorker, BindFails, buffer, thread
<1>3. CASE \/ \E s \in Sessions, p \in Protocols : Unlisten(s, p)
           \/ \E p \in Protocols : BindListener(p)
  BY <1>3 DEF Unlisten, BindListener, control, buffer, thread
<1> QED BY <1>1, <1>2, <1>3 DEF ControlStep

(* The lock, and the joins before a queue is closed: see ControlOK. *)
LEMMA ControlKept ==
    ASSUME TypeOK, StartOK, ControlOK, [Next]_vars
    PROVE  ControlOK'
<1> USE CollectorAssumption DEF TypeOK, ControlType, QueueType, WorkerType
<1>1. CASE UNCHANGED vars
  BY <1>1 DEF vars, ControlOK
<1>2. CASE CallStart \/ CallStop
  BY <1>2 DEF CallStart, CallStop, ControlOK, buffer, thread
<1>3. CASE Unlistened \/ JoinWorker \/ InitFails \/ BindFails
  BY <1>3 DEF Unlistened, JoinWorker, InitFails, BindFails, ControlOK, Listening, buffer, thread,
              StartOK
<1>4. CASE CloseQueue
  <2>1. CASE queue = 0
    BY <1>4, <2>1 DEF CloseQueue, ControlOK, thread
  <2>2. CASE queue # 0
    <3>1. queue = gen /\ closed' = [closed EXCEPT ![gen] = TRUE] /\ queue' = 0 /\ ctl' = "join"
      BY <1>4, <2>2 DEF CloseQueue, Shut, ControlOK
    <3>2. UNCHANGED <<starting, gen, listening, worker>> /\ ctl = "close"
      BY <1>4 DEF CloseQueue, thread
    <3> QED BY <3>1, <3>2, <2>2 DEF ControlOK
  <2> QED BY <2>1, <2>2
<1>5. CASE StartWorker
  BY <1>5 DEF StartWorker, ControlOK, StartOK, Sessions, buffer
<1>6. CASE \E s \in Sessions, p \in Protocols : Unlisten(s, p)
  BY <1>6 DEF Unlisten, ControlOK, control, buffer, thread
<1>7. CASE \E p \in Protocols : BindListener(p)
  BY <1>7 DEF BindListener, ControlOK, buffer, thread
<1>8. CASE MessageStep
  <2>1. UNCHANGED worker
    BY <1>8 DEF MessageStep, Buffer, RecordUDP, RecordTCP, Garbled, Offer, OfferRefused,
                OfferVanishes, thread
  <2> QED BY <1>8, <2>1, OthersLeave DEF ControlOK, control
<1>9. CASE WorkerStep
  <2>1. PICK s \in Sessions :
           /\ worker[s] # "none" /\ \A t \in Sessions \ {s} : worker'[t] = worker[t]
           /\ worker'[s] # "none" /\ (worker'[s] = "gone" => stopping)
    <3>1. PICK t \in Sessions, x \in Alive \cup {"gone"} :
             worker[t] \in Alive /\ (x = "gone" => stopping) /\ worker' = [worker EXCEPT ![t] = x]
      BY <1>9 DEF WorkerStep, Check, Take, TakeNothing, Insert, Alive
    <3> QED BY <3>1 DEF Alive
  <2>2. stopping => closed[s]
    BY <2>1 DEF ControlOK, Sessions
  <2> QED BY <1>9, <2>1, <2>2, OthersLeave DEF ControlOK, control
<1> QED BY Kinds, <1>1, <1>2, <1>3, <1>4, <1>5, <1>6, <1>7, <1>8, <1>9 DEF ControlStep

(* Who offers, offers to the open queue of its own listener's session. *)
LEMMA MessagesKept ==
    ASSUME TypeOK, StartOK, ControlOK, MessagesOK, [Next]_vars
    PROVE  MessagesOK'
<1> USE CollectorAssumption DEF TypeOK, ControlType, MessageType
<1>1. CASE UNCHANGED vars
  BY <1>1 DEF vars, MessagesOK
<1>2. CASE CallStart \/ CallStop
  BY <1>2 DEF CallStart, CallStop, MessagesOK, message
<1>3. CASE Unlistened
  BY <1>3 DEF Unlistened, UDPBusy, MessagesOK, message
<1>4. CASE CloseQueue
  BY <1>4 DEF CloseQueue, MessagesOK, ControlOK, Sessions, message
<1>5. CASE JoinWorker \/ InitFails \/ BindFails
  BY <1>5 DEF JoinWorker, InitFails, BindFails, MessagesOK, message
<1>6. CASE StartWorker
  BY <1>6 DEF StartWorker, MessagesOK, ControlOK, StartOK, Sessions, message
<1>7. CASE \E s \in Sessions, p \in Protocols : Unlisten(s, p)
  BY <1>7 DEF Unlisten, MessagesOK, Sessions, control, message
<1>8. CASE \E p \in Protocols : BindListener(p)
  BY <1>8 DEF BindListener, MessagesOK, ControlOK, Sessions, message
<1>9. CASE \E m \in Messages, s \in Sessions : Buffer(m, s) \/ RecordUDP(m, s)
  BY <1>9 DEF Buffer, RecordUDP, MessagesOK, ControlOK, Sessions, control
<1>10. CASE \E m \in Messages : RecordTCP(m) \/ Offer(m) \/ OfferRefused(m) \/ OfferVanishes(m)
  BY <1>10 DEF RecordTCP, Offer, OfferRefused, OfferVanishes, Open, MessagesOK, control
<1>11. CASE WorkerStep
  <2>1. UNCHANGED <<control, listening, from, dest>>
    BY <1>11 DEF WorkerStep, Check, Take, TakeNothing, Insert, control, message
  <2>2. ASSUME NEW m \in Messages
        PROVE  fate'[m] = fate[m] \/ fate'[m] \in {"writing", "stored", "duplicate", "failed"}
    <3>1. CASE \E s \in Sessions : Check(s) \/ TakeNothing(s)
      BY <3>1 DEF Check, TakeNothing, message
    <3>2. CASE \E s \in Sessions : Take(s)
      BY <3>2 DEF Take
    <3>3. CASE \E s \in Sessions, outcome \in {"stored", "duplicate", "failed"} : Insert(s, outcome)
      BY <3>3 DEF Insert
    <3> QED BY <1>11, <3>1, <3>2, <3>3 DEF WorkerStep
  <2>3. UNCHANGED <<ctl, gen, queue, listening, from, dest>>
    BY <2>1 DEF control
  <2> QED BY <2>2, <2>3 DEF MessagesOK
<1>12. CASE \E s \in Sessions, M \in SUBSET Messages : Garbled(M, s)
  BY <1>12 DEF Garbled, MessagesOK, control
<1> QED BY Kinds, <1>1, <1>2, <1>3, <1>4, <1>5, <1>6, <1>7, <1>8, <1>9, <1>10, <1>11, <1>12
        DEF ControlStep, MessageStep

LEMMA Listens ==
    ASSUME TypeOK, [Next]_vars
    PROVE  \/ \E p \in Protocols : BindListener(p)
           \/ \A s \in Sessions : listening'[s] \subseteq listening[s]
<1> USE DEF TypeOK, ControlType
<1>1. CASE UNCHANGED vars \/ MessageStep \/ WorkerStep
  BY <1>1, OthersLeave DEF vars
<1>2. CASE \E s \in Sessions, p \in Protocols : Unlisten(s, p)
  BY <1>2 DEF Unlisten
<1>3. CASE CallStart \/ CallStop \/ Unlistened \/ CloseQueue \/ JoinWorker \/ InitFails
              \/ StartWorker \/ BindFails
  <2>1. UNCHANGED listening
    BY <1>3 DEF CallStart, CallStop, Unlistened, CloseQueue, JoinWorker, InitFails, StartWorker,
                BindFails
  <2> QED BY <2>1
<1> QED BY Kinds, <1>1, <1>2, <1>3 DEF ControlStep

(* How a message vanishes. *)
LEMMA Vanishes ==
    ASSUME TypeOK, [Next]_vars, NEW m \in Messages, fate'[m] = "vanished"
    PROVE  (fate[m] = "vanished" \/ OfferVanishes(m)) /\ from'[m] = from[m]
<1> USE DEF TypeOK, MessageType
<1>1. CASE UNCHANGED vars \/ ControlStep
  BY <1>1, ControlLeaves DEF vars, message
<1>2. CASE \E n \in Messages, s \in Sessions : Buffer(n, s) \/ RecordUDP(n, s)
  BY <1>2 DEF Buffer, RecordUDP
<1>3. CASE \E n \in Messages : RecordTCP(n) \/ Offer(n) \/ OfferRefused(n)
  BY <1>3 DEF RecordTCP, Offer, OfferRefused
<1>4. CASE \E n \in Messages : OfferVanishes(n)
  BY <1>4 DEF OfferVanishes
<1>5. CASE WorkerStep
  BY <1>5 DEF WorkerStep, Check, Take, TakeNothing, Insert, message
<1>6. CASE \E s \in Sessions, M \in SUBSET Messages : Garbled(M, s)
  BY <1>6 DEF Garbled
<1> QED BY Kinds, <1>1, <1>2, <1>3, <1>4, <1>5, <1>6 DEF MessageStep

LEMMA VanishingKept ==
    ASSUME TypeOK, StartOK, ControlOK, MessagesOK, VanishesOnlyLate, [Next]_vars
    PROVE  VanishesOnlyLate'
<1> USE CollectorAssumption
<1> SUFFICES ASSUME NEW m \in Messages
             PROVE  /\ fate'[m] = "vanished" => m \notin Datagrams /\ "tcp" \notin listening'[from'[m]]
                    /\ fate'[m] = "discarded" => m \notin Datagrams
                    /\ Stranded(m)' => closed'[dest'[m]]
  BY DEF VanishesOnlyLate
<1>1. ControlOK' /\ MessagesOK'
  BY ControlKept, MessagesKept
<1>2. Stranded(m)' => closed'[dest'[m]]
  BY <1>1 DEF Stranded, ControlOK, MessagesOK
<1>3. ASSUME fate'[m] = "vanished"
      PROVE  m \notin Datagrams /\ "tcp" \notin listening'[from'[m]]
  <2>1. (fate[m] = "vanished" \/ OfferVanishes(m)) /\ from'[m] = from[m]
    BY <1>3, Vanishes
  <2>2. fate[m] \in {"held", "vanished"} /\ from[m] \in Sessions
    BY <2>1 DEF OfferVanishes, MessagesOK, TypeOK, ControlType, Sessions
  <2>3. m \notin Datagrams /\ "tcp" \notin listening[from[m]]
    <3>1. CASE fate[m] = "vanished"
      BY <3>1 DEF VanishesOnlyLate
    <3>2. CASE OfferVanishes(m)
      <4>1. fate[m] = "held" /\ ~(dest[m] \in Sessions /\ ~closed[dest[m]])
        BY <3>2 DEF OfferVanishes, Open
      <4>2. queue # 0 => dest[m] # queue
        BY <4>1 DEF ControlOK, TypeOK, ControlType, Sessions
      <4>3. m \notin Datagrams
        BY <4>1, <4>2 DEF MessagesOK
      <4>4. "tcp" \in listening[from[m]] => queue # 0 /\ dest[m] = queue
        BY <4>1, <2>2 DEF MessagesOK, ControlOK, Sessions
      <4> QED BY <4>2, <4>3, <4>4
    <3> QED BY <2>1, <3>1, <3>2
  <2>4. CASE \E p \in Protocols : BindListener(p)
    <3>1. ctl = "bind" /\ listening' = [listening EXCEPT ![gen] = listening'[gen]]
      BY <2>4 DEF BindListener, TypeOK, ControlType
    <3>2. from[m] # gen
      BY <2>2, <2>3, <3>1 DEF MessagesOK
    <3> QED BY <2>1, <2>2, <2>3, <3>1, <3>2 DEF TypeOK, ControlType
  <2>5. CASE \A s \in Sessions : listening'[s] \subseteq listening[s]
    BY <2>1, <2>2, <2>3, <2>5
  <2> QED BY Listens, <2>4, <2>5
<1>4. fate'[m] = "discarded" => m \notin Datagrams
  BY <1>1 DEF MessagesOK
<1> QED BY <1>2, <1>3, <1>4

LEMMA PlaceInit ==
    ASSUME Init
    PROVE  PlaceOK
<1>1. TypeOK /\ StartOK
  BY TypeInit DEF Init, StartOK
<1>2. ControlOK
  BY CollectorAssumption DEF Init, ControlOK, Sessions
<1>3. MessagesOK /\ VanishesOnlyLate
  BY DEF Init, MessagesOK, VanishesOnlyLate, Stranded
<1> QED BY <1>1, <1>2, <1>3 DEF PlaceOK

LEMMA PlaceKept ==
    ASSUME PlaceOK, [Next]_vars
    PROVE  PlaceOK'
  BY TypeStep, StartStep, ControlKept, MessagesKept, VanishingKept DEF PlaceOK

-----------------------------------------------------------------------------
(* The fates that the counters, the queues and the workers' hands answer for. *)
Counted == {"stored", "refused", "failed", "queued", "writing"}

LEMMA AtSame ==
    ASSUME NEW m \in Messages,
           fate[m] \notin Counted, fate'[m] \notin Counted,
           \A n \in Messages \ {m} : fate'[n] = fate[n] /\ dest'[n] = dest[n]
    PROVE  \A s \in Sessions, f \in Counted : At(s, f)' = At(s, f)
  BY DEF At

LEMMA AtMoves ==
    ASSUME TypeOK, NEW m \in Messages, NEW g, fate' = [fate EXCEPT ![m] = g], UNCHANGED dest
    PROVE  \A s \in Sessions, f \in Counted :
              At(s, f)' = IF f = g /\ dest[m] = s THEN At(s, f) \cup {m} ELSE At(s, f) \ {m}
  BY DEF At, TypeOK, MessageType

(* One more in a finite set of messages. *)
LEMMA OneMore ==
    ASSUME NEW S \in SUBSET Messages, NEW m \in Messages, m \notin S
    PROVE  Cardinality(S \cup {m}) = Cardinality(S) + 1
  BY CollectorAssumption, FS_Subset, FS_AddElement

(* An append and a take, as sets. *)
Content(q) == {q[i] : i \in DOMAIN q}
Once(q) == \A i, j \in DOMAIN q : q[i] = q[j] => i = j

LEMMA Queueing ==
    ASSUME NEW q \in Seq(Messages), NEW m \in Messages, m \notin Content(q), Once(q)
    PROVE  Content(Append(q, m)) = Content(q) \cup {m} /\ Once(Append(q, m))
<1> DEFINE r == Append(q, m)
<1>0. (\A i \in DOMAIN q : q[i] # m) /\ \A i, j \in DOMAIN q : q[i] = q[j] => i = j
  BY DEF Content, Once
<1>1. /\ Len(q) \in Nat /\ DOMAIN q = 1..Len(q) /\ DOMAIN r = 1..Len(q) + 1
      /\ \A i \in 1..Len(q) : r[i] = q[i]
      /\ r[Len(q) + 1] = m
  OBVIOUS
<1> HIDE DEF r
<1>2. {r[i] : i \in DOMAIN r} = {q[i] : i \in DOMAIN q} \cup {m}
  <2>1. \A i \in DOMAIN r : i \in 1..Len(q) \/ i = Len(q) + 1
    BY <1>1
  <2>2. \A i \in DOMAIN q : i \in DOMAIN r
    BY <1>1
  <2>3. Len(q) + 1 \in DOMAIN r
    BY <1>1
  <2> QED BY <2>1, <2>2, <2>3, <1>1
<1>3. \A i, j \in DOMAIN r : r[i] = r[j] => i = j
  BY <1>0, <1>1
<1> QED BY <1>2, <1>3 DEF r, Content, Once

LEMMA Dequeueing ==
    ASSUME NEW q \in Seq(Messages), q # <<>>, Once(q)
    PROVE  Content(Tail(q)) = Content(q) \ {Head(q)} /\ Once(Tail(q))
<1> DEFINE r == Tail(q)
<1>0. \A i, j \in DOMAIN q : q[i] = q[j] => i = j
  BY DEF Once
<1>1. /\ Len(q) \in Nat \ {0} /\ DOMAIN q = 1..Len(q) /\ DOMAIN r = 1..Len(q) - 1
      /\ \A i \in 1..Len(q) - 1 : r[i] = q[i + 1]
      /\ Head(q) = q[1]
  OBVIOUS
<1> HIDE DEF r
<1>2. {r[i] : i \in DOMAIN r} = {q[i] : i \in DOMAIN q} \ {q[1]}
  <2>1. \A i \in DOMAIN r : i + 1 \in DOMAIN q /\ i + 1 # 1 /\ r[i] = q[i + 1]
    BY <1>1
  <2>2. 1 \in DOMAIN q
    BY <1>1
  <2>3. \A i \in DOMAIN r : r[i] \in {q[j] : j \in DOMAIN q} \ {q[1]}
    BY <1>0, <2>1, <2>2
  <2>4. \A j \in DOMAIN q : j # 1 => j - 1 \in DOMAIN r /\ r[j - 1] = q[j]
    BY <1>1
  <2>5. \A j \in DOMAIN q : q[j] # q[1] => q[j] \in {r[i] : i \in DOMAIN r}
    BY <2>4
  <2> QED BY <2>3, <2>5
<1>3. \A i, j \in DOMAIN r : r[i] = r[j] => i = j
  BY <1>0, <1>1
<1> QED BY <1>1, <1>2, <1>3 DEF r, Content, Once

(* What CountOK says of one session. *)
SessionOK(s) ==
    /\ ingested[s] = Cardinality(At(s, "stored"))
    /\ dropped[s] = Cardinality(At(s, "refused") \cup At(s, "failed"))
    /\ At(s, "queued") = Content(items[s]) /\ Once(items[s])
    /\ Len(items[s]) <= limit
    /\ At(s, "writing") = {hand[s]} \ {None}
    /\ worker[s] = "insert" <=> hand[s] # None

(* A session whose queue, worker and messages nobody touches. *)
LEMMA Untouched ==
    ASSUME NEW s \in Sessions, SessionOK(s), \A f \in Counted : At(s, f)' = At(s, f),
           items'[s] = items[s], hand'[s] = hand[s], worker'[s] = worker[s],
           ingested'[s] = ingested[s], dropped'[s] = dropped[s], limit' = limit
    PROVE  SessionOK(s)'
<1>1. /\ At(s, "stored")' = At(s, "stored")
      /\ At(s, "refused")' = At(s, "refused") /\ At(s, "failed")' = At(s, "failed")
      /\ At(s, "queued")' = At(s, "queued") /\ At(s, "writing")' = At(s, "writing")
  BY DEF Counted
<1> QED BY <1>1 DEF SessionOK

LEMMA BySession ==
    CountOK <=> \A s \in Sessions : SessionOK(s)
  BY DEF CountOK, Accounted, QueuesOK, SessionOK, Content, Once

(* A step that moves no message in or out of a counted fate.                 *)
LEMMA CountsStay ==
    ASSUME CountOK, UNCHANGED <<items, dropped, ingested, hand, limit>>,
           \A s \in Sessions, f \in Counted : At(s, f)' = At(s, f),
           \A s \in Sessions : worker'[s] = "insert" <=> worker[s] = "insert"
    PROVE  CountOK'
<1> SUFFICES ASSUME NEW s \in Sessions PROVE SessionOK(s)'
  BY BySession DEF CountOK, Accounted, QueuesOK, SessionOK, Content, Once
<1>1. SessionOK(s)
  BY BySession
<1>2. \A f \in Counted : At(s, f)' = At(s, f)
  OBVIOUS
<1>3. /\ items'[s] = items[s] /\ hand'[s] = hand[s]
      /\ ingested'[s] = ingested[s] /\ dropped'[s] = dropped[s] /\ limit' = limit
  OBVIOUS
<1>4. /\ At(s, "stored")' = At(s, "stored")
      /\ At(s, "refused")' = At(s, "refused") /\ At(s, "failed")' = At(s, "failed")
      /\ At(s, "queued")' = At(s, "queued") /\ At(s, "writing")' = At(s, "writing")
  BY <1>2 DEF Counted
<1>5. worker'[s] = "insert" <=> worker[s] = "insert"
  OBVIOUS
<1> QED BY <1>1, <1>3, <1>4, <1>5 DEF SessionOK

LEMMA OfferCounts ==
    ASSUME TypeOK, CountOK, NEW m \in Messages, Offer(m) \/ OfferRefused(m)
    PROVE  CountOK'
<1> DEFINE d == dest[m]
<1>1. d \in Sessions /\ fate[m] = "held" /\ UNCHANGED <<ingested, limit, worker, hand, dest>>
  BY DEF Offer, OfferRefused, Open, control, thread
<1>2. \A f \in Counted, s \in Sessions : m \notin At(s, f)
  BY <1>1 DEF At, Counted
<1> SUFFICES ASSUME NEW s \in Sessions PROVE SessionOK(s)'
  BY BySession DEF CountOK, Accounted, QueuesOK, SessionOK, Content, Once
<1>3. SessionOK(s)
  BY BySession
<1>4. CASE Offer(m)
  <2>1. \A f \in Counted :
           At(s, f)' = IF f = "queued" /\ d = s THEN At(s, f) \cup {m} ELSE At(s, f)
    <3>1. fate' = [fate EXCEPT ![m] = "queued"]
      BY <1>4 DEF Offer
    <3>2. \A f \in Counted :
             At(s, f)' = IF f = "queued" /\ d = s THEN At(s, f) \cup {m} ELSE At(s, f) \ {m}
      BY <1>1, <3>1, AtMoves
    <3> QED BY <1>2, <3>2
  <2>2. items' = [items EXCEPT ![d] = Append(@, m)] /\ Len(items[d]) < limit /\ UNCHANGED dropped
    BY <1>4 DEF Offer
  <2>3. CASE d = s
    <3>1. items'[s] = Append(items[s], m) /\ items[s] \in Seq(Messages)
      BY <2>2, <2>3 DEF TypeOK, QueueType
    <3>2. m \notin Content(items[s])
      BY <1>2, <1>3 DEF SessionOK, Counted
    <3>3. Content(items'[s]) = Content(items[s]) \cup {m} /\ Once(items'[s])
      BY <1>3, <3>1, <3>2, Queueing DEF SessionOK
    <3>4. Len(items'[s]) <= limit'
      BY <1>1, <2>2, <2>3, <3>1 DEF TypeOK, ControlType
    <3>5. /\ At(s, "queued")' = At(s, "queued") \cup {m}
          /\ \A f \in Counted \ {"queued"} : At(s, f)' = At(s, f)
      BY <2>1, <2>3 DEF Counted
    <3> QED BY <1>1, <1>3, <2>2, <3>3, <3>4, <3>5 DEF SessionOK, Counted
  <2>4. CASE d # s
    <3>1. items'[s] = items[s]
      BY <2>2, <2>4 DEF TypeOK, QueueType
    <3>2. \A f \in Counted : At(s, f)' = At(s, f)
      BY <2>1, <2>4
    <3>3. UNCHANGED <<dropped, ingested, limit, worker, hand>>
      BY <1>1, <2>2
    <3> QED BY <1>3, <3>1, <3>2, <3>3, Untouched
  <2> QED BY <2>3, <2>4
<1>5. CASE OfferRefused(m)
  <2>1. \A f \in Counted :
           At(s, f)' = IF f = "refused" /\ d = s THEN At(s, f) \cup {m} ELSE At(s, f)
    <3>1. fate' = [fate EXCEPT ![m] = "refused"]
      BY <1>5 DEF OfferRefused
    <3>2. \A f \in Counted :
             At(s, f)' = IF f = "refused" /\ d = s THEN At(s, f) \cup {m} ELSE At(s, f) \ {m}
      BY <1>1, <3>1, AtMoves
    <3> QED BY <1>2, <3>2
  <2>2. dropped' = [dropped EXCEPT ![d] = @ + 1] /\ UNCHANGED items
    BY <1>5 DEF OfferRefused
  <2>3. CASE d = s
    <3>1. /\ At(s, "refused")' = At(s, "refused") \cup {m}
          /\ \A f \in Counted \ {"refused"} : At(s, f)' = At(s, f)
      BY <2>1, <2>3 DEF Counted
    <3>2. (At(s, "refused") \cup At(s, "failed"))' = (At(s, "refused") \cup At(s, "failed")) \cup {m}
      BY <3>1 DEF Counted
    <3>3. Cardinality((At(s, "refused") \cup At(s, "failed"))')
             = Cardinality(At(s, "refused") \cup At(s, "failed")) + 1
      <4>1. At(s, "refused") \cup At(s, "failed") \in SUBSET Messages
        BY DEF At
      <4>2. m \notin At(s, "refused") \cup At(s, "failed")
        BY <1>2 DEF Counted
      <4> QED BY <3>2, <4>1, <4>2, OneMore
    <3>4. dropped'[s] = dropped[s] + 1
      BY <2>2, <2>3 DEF TypeOK, QueueType
    <3> QED BY <1>1, <1>3, <2>2, <3>1, <3>3, <3>4 DEF SessionOK, Counted
  <2>4. CASE d # s
    <3>1. dropped'[s] = dropped[s]
      BY <2>2, <2>4 DEF TypeOK, QueueType
    <3>2. \A f \in Counted : At(s, f)' = At(s, f)
      BY <2>1, <2>4
    <3>3. UNCHANGED <<items, ingested, limit, worker, hand>>
      BY <1>1, <2>2
    <3> QED BY <1>3, <3>1, <3>2, <3>3, Untouched
  <2> QED BY <2>3, <2>4
<1> QED BY <1>4, <1>5

LEMMA TakeCounts ==
    ASSUME TypeOK, CountOK, NEW t \in Sessions, Take(t)
    PROVE  CountOK'
<1> DEFINE h == Head(items[t])
<1>1. h \in Messages /\ items[t] \in Seq(Messages) /\ items[t] # <<>> /\ h # None
  BY Taking, CollectorAssumption DEF Take
<1>2. fate[h] = "queued" /\ dest[h] = t
  <2>1. h \in At(t, "queued")
    <3>1. SessionOK(t)
      BY BySession
    <3> QED BY <1>1, <3>1, Taking DEF SessionOK, Content
  <2> QED BY <2>1 DEF At
<1>3. hand[t] = None /\ UNCHANGED <<dropped, ingested, limit, dest>>
  BY BySession DEF Take, SessionOK, control
<1> SUFFICES ASSUME NEW s \in Sessions PROVE SessionOK(s)'
  BY BySession DEF CountOK, Accounted, QueuesOK, SessionOK, Content, Once
<1>4. SessionOK(s)
  BY BySession
<1>5. \A f \in Counted :
         At(s, f)' = IF f = "writing" /\ t = s THEN At(s, f) \cup {h} ELSE At(s, f) \ {h}
  <2>1. fate' = [fate EXCEPT ![h] = "writing"]
    BY DEF Take
  <2> HIDE DEF h
  <2>2. \A u \in Sessions, f \in Counted :
           At(u, f)' = IF f = "writing" /\ dest[h] = u THEN At(u, f) \cup {h} ELSE At(u, f) \ {h}
    BY <1>1, <1>3, <2>1, AtMoves
  <2> QED BY <1>2, <2>2
<1>6. \A f \in Counted : (f = "queued" /\ t = s) \/ h \notin At(s, f)
  BY <1>2 DEF At
<1>7. CASE t = s
  <2>1. /\ At(s, "queued")' = At(s, "queued") \ {h}
        /\ At(s, "writing")' = At(s, "writing") \cup {h}
        /\ \A f \in Counted \ {"queued", "writing"} : At(s, f)' = At(s, f)
    BY <1>5, <1>6, <1>7 DEF Counted
  <2>2. items'[s] = Tail(items[s]) /\ hand'[s] = h /\ worker'[s] = "insert"
    BY <1>7 DEF Take, TypeOK, QueueType, WorkerType
  <2>3. Len(items'[s]) <= limit'
    BY <1>3, <1>4, <1>7, <2>2, Taking DEF SessionOK, TypeOK, ControlType
  <2>4. Content(items'[s]) = Content(items[s]) \ {h} /\ Once(items'[s])
    <3>1. items[s] \in Seq(Messages) /\ items[s] # <<>> /\ Once(items[s])
      BY <1>1, <1>4, <1>7 DEF SessionOK
    <3> QED BY <1>7, <2>2, <3>1, Dequeueing
  <2> QED BY <1>1, <1>3, <1>4, <1>7, <2>1, <2>2, <2>3, <2>4 DEF SessionOK, Counted
<1>8. CASE t # s
  <2>1. \A f \in Counted : At(s, f)' = At(s, f)
    BY <1>5, <1>6, <1>8
  <2>2. items'[s] = items[s] /\ hand'[s] = hand[s] /\ worker'[s] = worker[s]
    BY <1>8 DEF Take, TypeOK, QueueType, WorkerType
  <2> QED BY <1>3, <1>4, <2>1, <2>2, Untouched
<1> QED BY <1>7, <1>8

LEMMA InsertCounts ==
    ASSUME TypeOK, CountOK, NEW t \in Sessions, NEW outcome \in {"stored", "duplicate", "failed"},
           Insert(t, outcome)
    PROVE  CountOK'
<1> DEFINE h == hand[t]
<1>1. /\ h # None /\ h \in Messages /\ fate[h] = "writing" /\ dest[h] = t
      /\ UNCHANGED <<items, limit, dest>>
  <2>1. SessionOK(t) /\ worker[t] = "insert"
    BY BySession DEF Insert
  <2>2. h \in At(t, "writing")
    BY <2>1 DEF SessionOK
  <2> QED BY <2>1, <2>2 DEF SessionOK, At, Insert, control
<1> SUFFICES ASSUME NEW s \in Sessions PROVE SessionOK(s)'
  BY BySession DEF CountOK, Accounted, QueuesOK, SessionOK, Content, Once
<1>2. SessionOK(s)
  BY BySession
<1>3. \A f \in Counted :
         At(s, f)' = IF f = outcome /\ t = s THEN At(s, f) \cup {h} ELSE At(s, f) \ {h}
  <2>1. fate' = [fate EXCEPT ![h] = outcome]
    BY DEF Insert
  <2> HIDE DEF h
  <2>2. \A u \in Sessions, f \in Counted :
           At(u, f)' = IF f = outcome /\ dest[h] = u THEN At(u, f) \cup {h} ELSE At(u, f) \ {h}
    BY <1>1, <2>1, AtMoves
  <2> QED BY <1>1, <2>2
<1>4. \A f \in Counted : (f = "writing" /\ t = s) \/ h \notin At(s, f)
  BY <1>1 DEF At
<1>5. CASE t # s
  <2>1. \A f \in Counted : At(s, f)' = At(s, f)
    BY <1>3, <1>4, <1>5
  <2>2. /\ ingested'[s] = ingested[s] /\ dropped'[s] = dropped[s]
        /\ hand'[s] = hand[s] /\ worker'[s] = worker[s]
    BY <1>5 DEF Insert, TypeOK, QueueType, WorkerType
  <2>3. items' = items /\ limit' = limit
    BY <1>1
  <2> QED BY <1>2, <2>1, <2>2, <2>3, Untouched
<1>6. CASE t = s
  <2>1. At(s, "writing")' = At(s, "writing") \ {h} /\ At(s, "queued")' = At(s, "queued")
    BY <1>3, <1>4, <1>6 DEF Counted
  <2>2. At(s, "writing")' = {hand'[s]} \ {None} /\ hand'[s] = None /\ worker'[s] # "insert"
    BY <1>2, <1>6, <2>1 DEF SessionOK, Insert, TypeOK, WorkerType
  <2>3. ingested'[s] = Cardinality(At(s, "stored")')
    <3>1. ingested'[s] = IF outcome = "stored" THEN ingested[s] + 1 ELSE ingested[s]
      BY <1>6 DEF Insert, TypeOK, QueueType
    <3>2. At(s, "stored")' = IF outcome = "stored" THEN At(s, "stored") \cup {h} ELSE At(s, "stored")
      BY <1>3, <1>4, <1>6 DEF Counted
    <3>3. h \notin At(s, "stored") /\ At(s, "stored") \in SUBSET Messages
      BY <1>4 DEF Counted, At
    <3>4. Cardinality(At(s, "stored") \cup {h}) = Cardinality(At(s, "stored")) + 1
      BY <1>1, <3>3, OneMore
    <3> QED BY <1>2, <3>1, <3>2, <3>4 DEF SessionOK
  <2>4. dropped'[s] = Cardinality((At(s, "refused") \cup At(s, "failed"))')
    <3> DEFINE lost == At(s, "refused") \cup At(s, "failed")
    <3>1. dropped'[s] = IF outcome = "failed" THEN dropped[s] + 1 ELSE dropped[s]
      BY <1>6 DEF Insert, TypeOK, QueueType
    <3>2. lost' = IF outcome = "failed" THEN lost \cup {h} ELSE lost
      <4>1. At(s, "refused")' = At(s, "refused")
        BY <1>3, <1>4 DEF Counted
      <4>2. At(s, "failed")' = IF outcome = "failed" THEN At(s, "failed") \cup {h} ELSE At(s, "failed")
        BY <1>3, <1>4, <1>6 DEF Counted
      <4> QED BY <4>1, <4>2
    <3>3. h \notin lost /\ lost \in SUBSET Messages
      BY <1>4 DEF Counted, At
    <3>4. Cardinality(lost \cup {h}) = Cardinality(lost) + 1
      BY <1>1, <3>3, OneMore
    <3>5. dropped[s] = Cardinality(lost)
      BY <1>2 DEF SessionOK
    <3> QED BY <3>1, <3>2, <3>4, <3>5
  <2> QED BY <1>1, <1>2, <2>1, <2>2, <2>3, <2>4 DEF SessionOK
<1> QED BY <1>5, <1>6

LEMMA CountKept ==
    ASSUME TypeOK, ControlOK, CountOK, [Next]_vars
    PROVE  CountOK'
<1> USE DEF TypeOK, MessageType
<1>1. CASE UNCHANGED vars
  BY <1>1, CountsStay DEF vars, At
<1>2. CASE ControlStep
  <2>1. \A s \in Sessions : worker'[s] = "insert" <=> worker[s] = "insert"
    <3>1. CASE StartWorker
      BY <3>1 DEF StartWorker, ControlOK, ControlType, WorkerType, Sessions
    <3> QED BY <1>2, <3>1, ControlLeaves
  <2> QED BY <1>2, <2>1, ControlLeaves, CountsStay DEF message, At
<1>3. CASE \E m \in Messages, s \in Sessions : Buffer(m, s) \/ RecordUDP(m, s)
  <2>1. PICK m \in Messages, s \in Sessions : Buffer(m, s) \/ RecordUDP(m, s)
    BY <1>3
  <2>2. /\ fate[m] \notin Counted /\ fate'[m] \notin Counted
        /\ \A n \in Messages \ {m} : fate'[n] = fate[n] /\ dest'[n] = dest[n]
        /\ UNCHANGED <<items, dropped, ingested, hand, limit, worker>>
    BY <2>1 DEF Buffer, RecordUDP, Counted, control, buffer, thread
  <2> QED BY <2>2, AtSame, CountsStay
<1>4. CASE \E m \in Messages : RecordTCP(m) \/ OfferVanishes(m)
  <2>1. PICK m \in Messages : RecordTCP(m) \/ OfferVanishes(m)
    BY <1>4
  <2>2. /\ fate[m] \notin Counted /\ fate'[m] \notin Counted
        /\ \A n \in Messages \ {m} : fate'[n] = fate[n] /\ dest'[n] = dest[n]
        /\ UNCHANGED <<items, dropped, ingested, hand, limit, worker>>
    BY <2>1 DEF RecordTCP, OfferVanishes, Counted, control, buffer, thread
  <2> QED BY <2>2, AtSame, CountsStay
<1>5. CASE \E m \in Messages : Offer(m) \/ OfferRefused(m)
  BY <1>5, OfferCounts
<1>6. CASE \E s \in Sessions : Check(s) \/ TakeNothing(s)
  <2>1. /\ UNCHANGED <<items, dropped, ingested, hand, limit, fate, dest>>
        /\ \A s \in Sessions : worker'[s] = "insert" <=> worker[s] = "insert"
    BY <1>6 DEF Check, TakeNothing, control, buffer, message, WorkerType
  <2> QED BY <2>1, CountsStay DEF At
<1>7. CASE \E s \in Sessions : Take(s)
  BY <1>7, TakeCounts
<1>8. CASE \E s \in Sessions, outcome \in {"stored", "duplicate", "failed"} : Insert(s, outcome)
  BY <1>8, InsertCounts
<1>9. CASE \E s \in Sessions, M \in SUBSET Messages : Garbled(M, s)
  <2>1. PICK t \in Sessions, M \in SUBSET Messages : Garbled(M, t)
    BY <1>9
  <2>2. \A n \in Messages : fate'[n] = fate[n] \/ (fate[n] \notin Counted /\ fate'[n] \notin Counted)
    BY <2>1 DEF Garbled, Counted
  <2>3. dest' = dest /\ UNCHANGED <<items, dropped, ingested, hand, limit, worker>>
    BY <2>1 DEF Garbled, control, buffer, thread
  <2>4. \A s \in Sessions, f \in Counted : At(s, f)' = At(s, f)
    BY <2>2, <2>3 DEF At
  <2> QED BY <2>3, <2>4, CountsStay
<1> QED BY Kinds, <1>1, <1>2, <1>3, <1>4, <1>5, <1>6, <1>7, <1>8, <1>9
        DEF MessageStep, WorkerStep

LEMMA PlaceCountInit ==
    ASSUME Init
    PROVE  PlaceOK /\ CountOK /\ DiscardsShow
<1>1. PlaceOK
  BY PlaceInit
<1>2. CountOK
  <2> SUFFICES ASSUME NEW s \in Sessions PROVE SessionOK(s)
    BY BySession
  <2>1. \A f \in Counted : At(s, f) = {}
    BY DEF Init, At, Counted
  <2>2. items[s] = <<>> /\ Len(items[s]) = 0 /\ DOMAIN items[s] = {} /\ limit \in Nat \ {0}
    BY CollectorAssumption DEF Init
  <2>3. ingested[s] = 0 /\ dropped[s] = 0 /\ hand[s] = None /\ worker[s] = "none"
    BY DEF Init
  <2>4. Cardinality({}) = 0
    BY FS_EmptySet
  <2>5. Content(items[s]) = {} /\ {hand[s]} \ {None} = {}
    BY <2>2, <2>3 DEF Content
  <2>6. At(s, "stored") = {} /\ At(s, "refused") \cup At(s, "failed") = {}
        /\ At(s, "queued") = {} /\ At(s, "writing") = {}
    BY <2>1 DEF Counted
  <2>7. ingested[s] = Cardinality(At(s, "stored"))
    BY <2>3, <2>4, <2>6
  <2>8. dropped[s] = Cardinality(At(s, "refused") \cup At(s, "failed"))
    BY <2>3, <2>4, <2>6
  <2>9. /\ Len(items[s]) <= limit
        /\ Once(items[s])
        /\ worker[s] = "insert" <=> hand[s] # None
    BY <2>2, <2>3 DEF Once
  <2> QED BY <2>5, <2>6, <2>7, <2>8, <2>9 DEF SessionOK
<1>3. DiscardsShow
  <2>1. \A s \in Sessions : Discarded(s) = {} /\ errors[s] = 0
    BY DEF Init, Discarded
  <2>2. Cardinality({}) = 0
    BY FS_EmptySet
  <2> QED BY <2>1, <2>2 DEF DiscardsShow
<1> QED BY <1>1, <1>2, <1>3

(* A message that is discarded is in no queue and in no worker's hand.       *)
LEMMA DiscardedStays ==
    ASSUME TypeOK, CountOK, [Next]_vars,
           NEW m \in Messages, fate[m] = "discarded" \/ fate'[m] = "discarded"
    PROVE  /\ from'[m] = from[m]
           /\ fate'[m] = "discarded"
           /\ fate[m] = "discarded" \/ \E s \in Sessions, M \in SUBSET Messages :
                                          Garbled(M, s) /\ m \in M /\ from[m] = s
<1> USE DEF TypeOK, MessageType
<1>1. CASE UNCHANGED vars \/ ControlStep
  BY <1>1, ControlLeaves DEF vars, message
<1>2. CASE \E n \in Messages, s \in Sessions : Buffer(n, s) \/ RecordUDP(n, s)
  BY <1>2 DEF Buffer, RecordUDP
<1>3. CASE \E n \in Messages : RecordTCP(n) \/ Offer(n) \/ OfferRefused(n) \/ OfferVanishes(n)
  BY <1>3 DEF RecordTCP, Offer, OfferRefused, OfferVanishes
<1>4. CASE \E s \in Sessions, M \in SUBSET Messages : Garbled(M, s)
  BY <1>4 DEF Garbled
<1>5. CASE \E s \in Sessions : Check(s) \/ TakeNothing(s)
  BY <1>5 DEF Check, TakeNothing, message
<1>6. ASSUME NEW s \in Sessions, Take(s)
      PROVE  from'[m] = from[m] /\ fate'[m] = fate[m]
  <2>1. Head(items[s]) \in At(s, "queued")
    <3>1. SessionOK(s)
      BY BySession
    <3> QED BY <1>6, <3>1, Taking DEF SessionOK, Content
  <2>2. fate[Head(items[s])] = "queued" /\ fate' = [fate EXCEPT ![Head(items[s])] = "writing"]
    BY <1>6, <2>1 DEF Take, At
  <2> QED BY <1>6, <2>2 DEF Take
<1>7. ASSUME NEW s \in Sessions, NEW outcome \in {"stored", "duplicate", "failed"},
             Insert(s, outcome)
      PROVE  from'[m] = from[m] /\ fate'[m] = fate[m]
  <2>1. SessionOK(s) /\ worker[s] = "insert"
    BY <1>7, BySession DEF Insert
  <2>2. hand[s] \in At(s, "writing")
    BY <2>1 DEF SessionOK
  <2>3. fate[hand[s]] = "writing" /\ fate' = [fate EXCEPT ![hand[s]] = outcome]
    BY <1>7, <2>2 DEF At, Insert
  <2> QED BY <1>7, <2>3 DEF Insert
<1> QED BY Kinds, <1>1, <1>2, <1>3, <1>4, <1>5, <1>6, <1>7 DEF MessageStep, WorkerStep

LEMMA ErrorsChange ==
    ASSUME TypeOK, [Next]_vars
    PROVE  UNCHANGED errors \/ \E s \in Sessions, M \in SUBSET Messages : Garbled(M, s)
<1>1. CASE UNCHANGED vars \/ ControlStep
  BY <1>1, ControlLeaves DEF vars, message
<1>2. CASE \E n \in Messages, s \in Sessions : Buffer(n, s) \/ RecordUDP(n, s)
  BY <1>2 DEF Buffer, RecordUDP
<1>3. CASE \E n \in Messages : RecordTCP(n) \/ Offer(n) \/ OfferRefused(n) \/ OfferVanishes(n)
  BY <1>3 DEF RecordTCP, Offer, OfferRefused, OfferVanishes
<1>4. CASE WorkerStep
  BY <1>4 DEF WorkerStep, Check, Take, TakeNothing, Insert, message
<1> QED BY Kinds, <1>1, <1>2, <1>3, <1>4 DEF MessageStep

LEMMA DiscardsKept ==
    ASSUME TypeOK, CountOK, DiscardsShow, [Next]_vars
    PROVE  DiscardsShow'
<1> SUFFICES ASSUME NEW s \in Sessions
             PROVE  /\ errors'[s] <= Cardinality(Discarded(s)')
                    /\ Discarded(s)' # {} => errors'[s] > 0
  BY DEF DiscardsShow
<1>1. errors[s] <= Cardinality(Discarded(s)) /\ (Discarded(s) # {} => errors[s] > 0)
  BY DEF DiscardsShow
<1>2. \A m \in Messages : m \in Discarded(s) => m \in Discarded(s)'
  BY DiscardedStays DEF Discarded
<1>3. CASE \E t \in Sessions, M \in SUBSET Messages : Garbled(M, t)
  <2>1. PICK t \in Sessions, M \in SUBSET Messages : Garbled(M, t)
    BY <1>3
  <2>2. /\ errors' = [errors EXCEPT ![t] = @ + 1] /\ UNCHANGED from
        /\ \A m \in Messages : fate'[m] = IF m \in M THEN "discarded" ELSE fate[m]
        /\ \A m \in M : fate[m] = "buffered" /\ from[m] = t
        /\ M # {}
    BY <2>1 DEF Garbled
  <2>3. Discarded(s)' = IF s = t THEN Discarded(s) \cup M ELSE Discarded(s)
    BY <2>2 DEF Discarded
  <2>4. CASE s # t
    BY <1>1, <2>2, <2>3, <2>4 DEF TypeOK, MessageType
  <2>5. CASE s = t
    <3>1. PICK m \in M : TRUE
      BY <2>2
    <3>2. m \in Messages /\ m \notin Discarded(s) /\ Discarded(s) \in SUBSET Messages
      BY <2>2 DEF Discarded
    <3>3. Cardinality(Discarded(s) \cup {m}) = Cardinality(Discarded(s)) + 1
      BY <3>2, OneMore
    <3>4. /\ IsFiniteSet(Discarded(s) \cup M) /\ Discarded(s) \cup {m} \subseteq Discarded(s) \cup M
          /\ IsFiniteSet(Discarded(s))
      BY <3>2, CollectorAssumption, FS_Subset
    <3>5. Cardinality(Discarded(s) \cup {m}) <= Cardinality(Discarded(s) \cup M)
      BY <3>4, FS_Subset
    <3>6. Cardinality(Discarded(s)) \in Nat /\ Cardinality(Discarded(s) \cup M) \in Nat
      BY <3>4, FS_CardinalityType
    <3>7. errors'[s] = errors[s] + 1 /\ errors[s] \in Nat
      BY <2>2, <2>5 DEF TypeOK, MessageType
    <3>8. Discarded(s)' = Discarded(s) \cup M
      BY <2>3, <2>5
    <3> QED BY <1>1, <3>3, <3>5, <3>6, <3>7, <3>8
  <2> QED BY <2>4, <2>5
<1>4. CASE ~\E t \in Sessions, M \in SUBSET Messages : Garbled(M, t)
  <2>1. UNCHANGED errors
    BY <1>4, ErrorsChange
  <2>2. \A m \in Messages : m \in Discarded(s)' => m \in Discarded(s)
    BY <1>4, DiscardedStays DEF Discarded
  <2>3. Discarded(s)' = Discarded(s)
    BY <1>2, <2>2 DEF Discarded
  <2> QED BY <1>1, <2>1, <2>3
<1> QED BY <1>3, <1>4

(* A message goes uncounted only if it came over TCP and its listener had    *)
(* been told to stop, or its client gave up over a broken framing, or it     *)
(* stays behind in a closed queue: start and stop wait for the UDP thread    *)
(* before they close the queue it offers to.  While the listener runs, then, *)
(* only the framing loses messages uncounted, and the listener's errors show *)
(* that it did.                                                              *)
THEOREM VanishingIsExplained == Spec => []WhereMessagesVanish
<1>1. Init => PlaceOK /\ CountOK /\ DiscardsShow
  BY PlaceCountInit
<1>2. PlaceOK /\ CountOK /\ DiscardsShow /\ [Next]_vars
         => (PlaceOK /\ CountOK /\ DiscardsShow)'
  BY PlaceKept, CountKept, DiscardsKept DEF PlaceOK
<1>3. PlaceOK /\ CountOK /\ DiscardsShow => WhereMessagesVanish
  BY DEF PlaceOK, WhereMessagesVanish
<1> QED BY <1>1, <1>2, <1>3, PTL DEF Spec

(* The counters of a queue, what is in it and in its worker's hand account   *)
(* for every message that was offered to it while it was open, once each,    *)
(* whatever its session's listeners, its worker and a stop do meanwhile.     *)
THEOREM CountersAddUp == Spec => []Accounted
<1>1. Init => PlaceOK
  BY PlaceInit
<1>2. Init => CountOK
  BY PlaceCountInit
<1>3. PlaceOK /\ CountOK /\ [Next]_vars => (PlaceOK /\ CountOK)'
  BY PlaceKept, CountKept DEF PlaceOK
<1>4. CountOK => Accounted
  BY DEF CountOK
<1> QED BY <1>1, <1>2, <1>3, <1>4, PTL DEF Spec

-----------------------------------------------------------------------------
(* The live tail.  A line is a file's generation and a number in it.         *)
Lines == Nat \X (Nat \ {0})
LineEvents == [kind : {"log", "finding"}, line : Lines]
GapFrames == [kind : {"gap"}, dropped : Nat]

StreamType ==
    /\ log \in [gen : Nat, lines : Nat, whole : BOOLEAN]
    /\ tail \in [at : Nat, gen : Nat, size : Int \cup {Unset}, sized : Nat,
                 step : {"stat", "read", "put"}, todo : Seq(LineEvents)]
    /\ events \in [items : Seq(LineEvents), dropped : Nat]
    /\ wire \in Seq(LineEvents \cup GapFrames)
    /\ up \in BOOLEAN /\ lapse \in BOOLEAN
    /\ client \in [lastId : Nat \cup {Unset}, seen : SUBSET Lines, gaps : Nat, pos : Nat \X Nat]
    /\ read \subseteq Lines

(* What a tail, and a client that is to resume, may rely on.                 *)
PhaseOK ==
    /\ tail.step # "put" => tail.todo = <<>>
    /\ tail.step # "stat" => tail.size # Unset
    /\ ~up => wire = <<>>
    /\ IF client.lastId = Unset THEN client.pos[1] = 0
       ELSE client.lastId = client.pos[2] /\ client.lastId # 0
    /\ log.gen = 0 /\ tail.size # Unset => tail.size <= Size

LinesOf(E) == {E[k].line : k \in {j \in DOMAIN E : E[j].kind # "gap"}}
LogsOf(E) == {E[k].line : k \in {j \in DOMAIN E : E[j].kind = "log"}}
Place == <<tail.gen, tail.at>>

(* Nothing is of a file that there is not yet.                               *)
GensOK ==
    /\ tail.gen <= log.gen /\ client.pos[1] <= log.gen
    /\ \A m \in read \cup LinesOf(wire) \cup LinesOf(events.items) \cup LinesOf(tail.todo) :
          m[1] <= log.gen

(* What a client that has come to a line owes an account of: what was read,  *)
(* and of a file begun since the first all there is, for tails only ever     *)
(* come into it at its first line.                                           *)
Due == read \cup (IF log.gen = 0 THEN {} ELSE {log.gen} \X (Nat \ {0}))

Reaches(D, B, p) == \A m \in D : AtMost(m, p) => m \in B

(* Whoever has come to the line of an event of E, having B accounted for,    *)
(* has an account of what is due before it, event k adding S[k] to it.       *)
Covers(D, B, E, S) ==
    \A k \in DOMAIN E : E[k].kind # "gap" =>
        \A m \in D : AtMost(m, E[k].line) => m \in B \/ \E j \in 1..k : m \in S[j]

OwnOf(e) == IF e.kind = "log" THEN {e.line} ELSE {}
Own(E) == [k \in DOMAIN E |-> OwnOf(E[k])]

(* G says of every frame which lines it accounts for: a gap for no more than *)
(* it says are lost.                                                         *)
Tells(E, G) ==
    /\ DOMAIN G = DOMAIN E
    /\ \A k \in DOMAIN E :
          IF E[k].kind = "gap"
          THEN IsFiniteSet(G[k]) /\ Cardinality(G[k]) <= E[k].dropped
          ELSE G[k] = OwnOf(E[k])

Told(G) == UNION {G[k] : k \in DOMAIN G}
Had(X) == client.seen \cup X
Sent(X, G) == Had(X) \cup Told(G)
Made(X, Q, G) == Sent(X, G) \cup Q \cup LogsOf(events.items)
All(X, Q, G) == Made(X, Q, G) \cup LogsOf(tail.todo)

(* X are the lines the client was told are lost.                             *)
ClientOK(X) ==
    /\ IsFiniteSet(X) /\ Cardinality(X) <= client.gaps
    /\ Reaches(Due, Had(X), client.pos)

(* A tail that resumed in a file that is gone.                               *)
Doomed == tail.gen # log.gen /\ tail.at > 0 /\ tail.size = Unset

(* Q are the lines the queue has dropped and not told of yet.                *)
PathOK(X, Q, G) ==
    /\ Tells(wire, G)
    /\ IsFiniteSet(Q) /\ Cardinality(Q) <= events.dropped
    /\ Covers(Due, Had(X), wire, G)
    /\ Covers(Due, Sent(X, G) \cup Q, events.items, Own(events.items))
    /\ Covers(Due, Made(X, Q, G), tail.todo, Own(tail.todo))
    /\ Reaches(Due, All(X, Q, G), Place)
    /\ Doomed \/ \A m \in read : m[1] = log.gen \/ m \in All(X, Q, G)

AccountOK ==
    \E X :
        /\ ClientOK(X)
        /\ up => \E Q, G : PathOK(X, Q, G)

(* The lines of E come one after the other, and after those of P.            *)
Sorted(P, E) ==
    \A k \in DOMAIN E : E[k].kind = "log" =>
        /\ \A p \in P : ~AtMost(E[k].line, p)
        /\ \A j \in 1..k - 1 : E[j].kind # "gap" => ~AtMost(E[k].line, E[j].line)

InFlight(P) == P \cup LinesOf(wire) \cup LinesOf(events.items)

Ordered ==
    /\ Sorted({client.pos}, wire)
    /\ Sorted({client.pos} \cup LinesOf(wire), events.items)
    /\ Sorted(InFlight({client.pos}), tail.todo)
    /\ \A p \in InFlight({client.pos}) \cup LinesOf(tail.todo) : AtMost(p, Place)

StreamInv ==
    /\ StreamType /\ PhaseOK /\ GensOK
    /\ ~lapse => /\ AccountOK
                 /\ up /\ log.gen = 0 => Ordered

-----------------------------------------------------------------------------
LEMMA TailSteps ==
    ASSUME StreamNext
    PROVE  Lost \/ Reconnect \/ WriteLog \/ Stat \/ Read \/ PutNext \/ Send \/ Receive
  BY DEF StreamNext

(* The sequences a step shortens. *)
LEMMA Shorter ==
    ASSUME NEW T, NEW E \in Seq(T), E # <<>>
    PROVE  /\ Len(E) \in Nat \ {0} /\ DOMAIN E = 1..Len(E) /\ Head(E) = E[1] /\ E[1] \in T
           /\ Tail(E) \in Seq(T) /\ Len(Tail(E)) = Len(E) - 1 /\ DOMAIN Tail(E) = 1..Len(E) - 1
           /\ \A k \in 1..Len(E) - 1 : Tail(E)[k] = E[k + 1]
  OBVIOUS

LEMMA Longer ==
    ASSUME NEW T, NEW E \in Seq(T), NEW e \in T
    PROVE  /\ Append(E, e) \in Seq(T) /\ Len(E) \in Nat /\ DOMAIN E = 1..Len(E)
           /\ DOMAIN Append(E, e) = 1..Len(E) + 1
           /\ Append(E, e)[Len(E) + 1] = e
           /\ \A k \in 1..Len(E) : Append(E, e)[k] = E[k]
  OBVIOUS

LEMMA InLogs ==
    ASSUME NEW E, NEW m
    PROVE  /\ m \in LogsOf(E) <=> \E k \in DOMAIN E : E[k].kind = "log" /\ m = E[k].line
           /\ m \in LinesOf(E) <=> \E k \in DOMAIN E : E[k].kind # "gap" /\ m = E[k].line
  BY Zenon DEF LogsOf, LinesOf

LEMMA InTold ==
    ASSUME NEW G, NEW m
    PROVE  m \in Told(G) <=> \E k \in DOMAIN G : m \in G[k]
  BY DEF Told

LEMMA OwnOfTail ==
    ASSUME NEW T, NEW E \in Seq(T), E # <<>>
    PROVE  /\ LogsOf(E) = OwnOf(E[1]) \cup LogsOf(Tail(E))
           /\ LinesOf(Tail(E)) \subseteq LinesOf(E)
           /\ E[1].kind # "gap" => LinesOf(E) = {E[1].line} \cup LinesOf(Tail(E))
<1> DEFINE F == Tail(E)
<1>1. /\ DOMAIN E = 1..Len(E) /\ DOMAIN F = 1..Len(E) - 1 /\ Len(E) \in Nat \ {0}
      /\ \A k \in 1..Len(E) - 1 : F[k] = E[k + 1]
  BY Shorter
<1> HIDE DEF F
<1>2. \A k \in 2..Len(E) : k - 1 \in 1..Len(E) - 1 /\ F[k - 1] = E[k]
  BY <1>1
<1>3. ASSUME NEW m
      PROVE  /\ m \in LogsOf(F) <=> \E k \in 2..Len(E) : E[k].kind = "log" /\ m = E[k].line
             /\ m \in LinesOf(F) <=> \E k \in 2..Len(E) : E[k].kind # "gap" /\ m = E[k].line
  <2>1. ASSUME NEW k \in DOMAIN F PROVE k + 1 \in 2..Len(E) /\ F[k] = E[k + 1]
    BY <1>1, <2>1
  <2>2. ASSUME NEW k \in 2..Len(E) PROVE k - 1 \in DOMAIN F /\ F[k - 1] = E[k]
    BY <1>1, <1>2
  <2> QED BY <2>1, <2>2, InLogs
<1>4. \A k : k \in DOMAIN E <=> k = 1 \/ k \in 2..Len(E)
  BY <1>1
<1>5. ASSUME NEW m
      PROVE  /\ m \in LogsOf(E) <=> m \in OwnOf(E[1]) \/ m \in LogsOf(F)
             /\ m \in LinesOf(F) => m \in LinesOf(E)
             /\ E[1].kind # "gap" => (m \in LinesOf(E) <=> m = E[1].line \/ m \in LinesOf(F))
  BY <1>3, <1>4, InLogs DEF OwnOf
<1> QED BY <1>5 DEF F

LEMMA OwnOfAppend ==
    ASSUME NEW T, NEW E \in Seq(T), NEW e \in T
    PROVE  /\ LogsOf(Append(E, e)) = LogsOf(E) \cup OwnOf(e)
           /\ LinesOf(Append(E, e)) = LinesOf(E) \cup (IF e.kind = "gap" THEN {} ELSE {e.line})
<1> DEFINE F == Append(E, e)
<1>1. /\ DOMAIN E = 1..Len(E) /\ DOMAIN F = DOMAIN E \cup {Len(E) + 1} /\ Len(E) \in Nat
      /\ F[Len(E) + 1] = e /\ \A k \in 1..Len(E) : F[k] = E[k]
  BY Longer
<1> HIDE DEF F
<1>2. ASSUME NEW m
      PROVE  /\ m \in LogsOf(F) <=> m \in LogsOf(E) \/ m \in OwnOf(e)
             /\ m \in LinesOf(F) <=> m \in LinesOf(E) \/ (e.kind # "gap" /\ m = e.line)
  BY <1>1, InLogs DEF OwnOf
<1> QED BY <1>2 DEF F

LEMMA EventGoesOn ==
    ASSUME NEW T, NEW E \in Seq(T), NEW e \in T, e \in LineEvents
    PROVE  /\ LogsOf(Append(E, e)) = LogsOf(E) \cup OwnOf(e)
           /\ LinesOf(Append(E, e)) = LinesOf(E) \cup {e.line}
<1>1. e.kind # "gap"
  BY DEF LineEvents
<1>2. /\ LogsOf(Append(E, e)) = LogsOf(E) \cup OwnOf(e)
      /\ LinesOf(Append(E, e)) = LinesOf(E) \cup (IF e.kind = "gap" THEN {} ELSE {e.line})
  BY OwnOfAppend
<1> QED BY <1>1, <1>2

LEMMA GapGoesOn ==
    ASSUME NEW T, NEW E \in Seq(T), NEW e \in T, e \in GapFrames
    PROVE  LinesOf(Append(E, e)) = LinesOf(E)
<1>1. e.kind = "gap"
  BY DEF GapFrames
<1>2. LinesOf(Append(E, e)) = LinesOf(E) \cup (IF e.kind = "gap" THEN {} ELSE {e.line})
  BY OwnOfAppend
<1> QED BY <1>1, <1>2

(* Accounts of sequences: the first event comes off, the last one goes on,    *)
(* more is accounted for or due.                                             *)
LEMMA CoversTail ==
    ASSUME NEW T, NEW E \in Seq(T), E # <<>>, NEW D, NEW B, NEW S, NEW R,
           Covers(D, B, E, S), \A k \in 1..Len(E) - 1 : R[k] = S[k + 1]
    PROVE  Covers(D, B \cup S[1], Tail(E), R)
<1>1. /\ DOMAIN E = 1..Len(E) /\ DOMAIN Tail(E) = 1..Len(E) - 1 /\ Len(E) \in Nat \ {0}
      /\ \A k \in 1..Len(E) - 1 : Tail(E)[k] = E[k + 1]
  BY Shorter
<1> SUFFICES ASSUME NEW k \in 1..Len(E) - 1, E[k + 1].kind # "gap",
                    NEW m \in D, AtMost(m, E[k + 1].line)
             PROVE  m \in B \cup S[1] \/ \E j \in 1..k : m \in R[j]
  BY <1>1 DEF Covers
<1>2. m \in B \/ \E j \in 1..k + 1 : m \in S[j]
  BY <1>1 DEF Covers
<1>3. ASSUME NEW j \in 1..k + 1, m \in S[j], j # 1
      PROVE  \E i \in 1..k : m \in R[i]
  <2>1. j - 1 \in 1..k /\ j - 1 \in 1..Len(E) - 1 /\ R[j - 1] = S[j]
    BY <1>1, <1>3
  <2> QED BY <2>1, <1>3
<1> QED BY <1>2, <1>3

LEMMA CoversAppend ==
    ASSUME NEW T, NEW E \in Seq(T), NEW e \in T, NEW D, NEW B, NEW S, NEW R,
           Covers(D, B, E, S), \A k \in 1..Len(E) : R[k] = S[k],
           e.kind # "gap" => \A m \in D : AtMost(m, e.line) =>
               m \in B \/ (\E j \in 1..Len(E) : m \in S[j]) \/ m \in R[Len(E) + 1]
    PROVE  Covers(D, B, Append(E, e), R)
<1> DEFINE F == Append(E, e)
<1>1. /\ DOMAIN E = 1..Len(E) /\ DOMAIN F = 1..Len(E) + 1 /\ Len(E) \in Nat
      /\ F[Len(E) + 1] = e /\ \A k \in 1..Len(E) : F[k] = E[k]
  BY Longer
<1> HIDE DEF F
<1> SUFFICES ASSUME NEW k \in 1..Len(E) + 1, F[k].kind # "gap",
                    NEW m \in D, AtMost(m, F[k].line)
             PROVE  m \in B \/ \E j \in 1..k : m \in R[j]
  BY <1>1 DEF Covers, F
<1>2. CASE k = Len(E) + 1
  BY <1>1, <1>2
<1>3. CASE k \in 1..Len(E)
  BY <1>1, <1>3 DEF Covers
<1> QED BY <1>1, <1>2, <1>3

LEMMA CoversMore ==
    ASSUME NEW E, NEW D, NEW B, NEW S, NEW Dn, NEW Bn, Covers(D, B, E, S), B \subseteq Bn,
           \A m \in Dn \ D : \A p \in LinesOf(E) : ~AtMost(m, p)
    PROVE  Covers(Dn, Bn, E, S)
  BY DEF Covers, LinesOf

(* An account of a queue, whose events account for themselves. *)
LEMMA CoversIs ==
    ASSUME NEW E, NEW D, NEW B, Covers(D, B, E, Own(E)), NEW k \in DOMAIN E, E[k].kind # "gap",
           NEW m \in D, AtMost(m, E[k].line), DOMAIN E \subseteq Nat, \A j \in 1..k : j \in DOMAIN E
    PROVE  m \in B \cup LogsOf(E)
<1>1. m \in B \/ \E j \in 1..k : m \in Own(E)[j]
  BY DEF Covers
<1> QED BY <1>1 DEF Own, OwnOf, LogsOf

LEMMA SortedTail ==
    ASSUME NEW T, NEW E \in Seq(T), E # <<>>, NEW P, NEW R, Sorted(P, E),
           R \subseteq P \cup (IF E[1].kind = "gap" THEN {} ELSE {E[1].line})
    PROVE  Sorted(R, Tail(E))
<1>1. /\ DOMAIN E = 1..Len(E) /\ DOMAIN Tail(E) = 1..Len(E) - 1 /\ Len(E) \in Nat \ {0}
      /\ \A k \in 1..Len(E) - 1 : Tail(E)[k] = E[k + 1]
  BY Shorter
<1> SUFFICES ASSUME NEW k \in 1..Len(E) - 1, E[k + 1].kind = "log"
             PROVE  /\ \A p \in R : ~AtMost(E[k + 1].line, p)
                    /\ \A j \in 1..k - 1 : E[j + 1].kind # "gap" => ~AtMost(E[k + 1].line, E[j + 1].line)
  BY <1>1 DEF Sorted
<1>2. /\ \A p \in P : ~AtMost(E[k + 1].line, p)
      /\ \A j \in 1..k : E[j].kind # "gap" => ~AtMost(E[k + 1].line, E[j].line)
  BY <1>1 DEF Sorted
<1>3. 1 \in 1..k /\ \A j \in 1..k - 1 : j + 1 \in 1..k
  BY <1>1
<1> QED BY <1>2, <1>3

LEMMA SortedAppend ==
    ASSUME NEW T, NEW E \in Seq(T), NEW e \in T, NEW P, Sorted(P, E),
           e.kind = "log" => \A p \in P \cup LinesOf(E) : ~AtMost(e.line, p)
    PROVE  Sorted(P, Append(E, e))
<1> DEFINE F == Append(E, e)
<1>1. /\ DOMAIN E = 1..Len(E) /\ DOMAIN F = 1..Len(E) + 1 /\ Len(E) \in Nat
      /\ F[Len(E) + 1] = e /\ \A k \in 1..Len(E) : F[k] = E[k]
  BY Longer
<1> HIDE DEF F
<1>2. \A j \in 1..Len(E) : E[j].kind # "gap" => E[j].line \in LinesOf(E)
  BY <1>1 DEF LinesOf
<1> QED BY <1>1, <1>2 DEF Sorted, F

LEMMA SortedLess ==
    ASSUME NEW E, NEW P, NEW R, Sorted(P, E), R \subseteq P
    PROVE  Sorted(R, E)
  BY DEF Sorted

(* What a reading finds: the new lines in their order, and then what the      *)
(* rules have to say, under the number of the last.                          *)
LEMMA ReadFinds ==
    ASSUME StreamType, NEW found \in Findings
    PROVE  LET n == IF Count > tail.at THEN Count - tail.at ELSE 0
               todo == LogEvents \o found
           IN  /\ n \in Nat /\ todo \in Seq(LineEvents)
               /\ Len(todo) \in {n, n + 1} /\ DOMAIN todo = 1..Len(todo)
               /\ \A i \in 1..n : todo[i] = Event("log", tail.at + i)
               /\ Len(todo) = n + 1 => n # 0 /\ todo[n + 1] = Event("finding", Count)
               /\ n = 0 => todo = <<>>
<1> DEFINE n == IF Count > tail.at THEN Count - tail.at ELSE 0
           todo == LogEvents \o found
<1>1. Count \in Nat /\ tail.at \in Nat /\ log.gen \in Nat /\ n \in Nat
  BY DEF StreamType, Count
<1>2. Cardinality(NewLines) = n
  BY <1>1, FS_Interval DEF NewLines
<1>3. ASSUME NEW i \in 1..n
      PROVE  Event("log", tail.at + i) \in LineEvents
  BY <1>1 DEF Event, LineEvents, Lines
<1>4. /\ LogEvents \in Seq(LineEvents) /\ Len(LogEvents) = n
      /\ \A i \in 1..n : LogEvents[i] = Event("log", tail.at + i)
  <2>1. LogEvents = [i \in 1..n |-> Event("log", tail.at + i)]
    BY <1>2 DEF LogEvents
  <2> HIDE DEF n
  <2> QED BY <1>1, <1>3, <2>1
<1>5. \/ found = <<>>
      \/ n # 0 /\ found = <<Event("finding", Count)>>
  BY <1>1 DEF Findings, NewLines
<1>6. n # 0 => Event("finding", Count) \in LineEvents
  BY <1>1 DEF Event, LineEvents, Lines
<1> HIDE DEF n
<1>9. /\ n \in Nat /\ todo \in Seq(LineEvents)
      /\ Len(todo) \in {n, n + 1} /\ DOMAIN todo = 1..Len(todo)
      /\ \A i \in 1..n : todo[i] = Event("log", tail.at + i)
      /\ Len(todo) = n + 1 => n # 0 /\ todo[n + 1] = Event("finding", Count)
      /\ n = 0 => todo = <<>>
  <2>1. CASE found = <<>>
    <3>1. todo = LogEvents
      BY <1>4, <2>1
    <3> HIDE DEF todo
    <3> QED BY <1>1, <1>4, <3>1
  <2>2. CASE n # 0 /\ found = <<Event("finding", Count)>>
    <3>1. todo = Append(LogEvents, Event("finding", Count))
      BY <1>4, <1>6, <2>2
    <3> HIDE DEF todo
    <3> QED BY <1>1, <1>4, <1>6, <2>2, <3>1, Longer
  <2> QED BY <1>5, <2>1, <2>2
<1> QED BY <1>9 DEF n

LEMMA StreamTypeInit ==
    StreamInit => StreamType /\ PhaseOK /\ GensOK
<1> SUFFICES ASSUME StreamInit PROVE StreamType /\ PhaseOK /\ GensOK
  OBVIOUS
<1>1. Count \in Nat
  BY DEF StreamInit, Count
<1>2. StreamType
  <2>1. <<>> \in Seq(LineEvents) /\ <<>> \in Seq(LineEvents \cup GapFrames) /\ <<0, Count>> \in Nat \X Nat
    BY <1>1
  <2>2. log \in [gen : Nat, lines : Nat, whole : BOOLEAN]
    BY DEF StreamInit
  <2>3. client \in [lastId : Nat \cup {Unset}, seen : SUBSET Lines, gaps : Nat, pos : Nat \X Nat]
    BY <2>1 DEF StreamInit
  <2>4. tail \in [at : Nat, gen : Nat, size : Int \cup {Unset}, sized : Nat,
                  step : {"stat", "read", "put"}, todo : Seq(LineEvents)]
    BY <1>1, <2>1 DEF StreamInit, TailFrom
  <2> QED BY <2>1, <2>2, <2>3, <2>4 DEF StreamInit, StreamType, NoQueue
<1>3. PhaseOK
  BY <1>1 DEF StreamInit, PhaseOK, TailFrom
<1>4. LinesOf(<<>>) = {}
  BY DEF LinesOf
<1>5. GensOK
  BY <1>1, <1>4 DEF StreamInit, GensOK, TailFrom, NoQueue
<1> QED BY <1>2, <1>3, <1>5

LEMMA PutIs ==
    ASSUME StreamType, NEW e \in LineEvents
    PROVE  LET q == Put(events, e)
           IN  /\ q \in [items : Seq(LineEvents), dropped : Nat]
               /\ \/ q.items = Append(events.items, e) /\ q.dropped = events.dropped
                  \/ /\ events.items # <<>>
                     /\ q.items = Append(Tail(events.items), e) /\ q.dropped = events.dropped + 1
<1>1. events.items \in Seq(LineEvents) /\ events.dropped \in Nat /\ STREAM_QUEUE_LIMIT \in Nat \ {0}
  BY LiveTailAssumption DEF StreamType
<1>2. CASE Len(events.items) >= STREAM_QUEUE_LIMIT
  <2>1. events.items # <<>>
    BY <1>1, <1>2
  <2>2. Append(Tail(events.items), e) \in Seq(LineEvents)
    BY <1>1, <2>1
  <2> QED BY <1>1, <1>2, <2>1, <2>2 DEF Put
<1>3. CASE ~(Len(events.items) >= STREAM_QUEUE_LIMIT)
  <2>1. Append(events.items, e) \in Seq(LineEvents)
    BY <1>1
  <2>2. Put(events, e) = [events EXCEPT !.items = Append(@, e)]
    BY <1>3 DEF Put
  <2> QED BY <2>1, <2>2 DEF StreamType
<1> QED BY <1>2, <1>3

(* One or two frames are written. *)
LEMMA FramesAre ==
    ASSUME StreamType, events.items # <<>>
    PROVE  LET e == events.items[1]
               new == IF events.dropped > 0
                      THEN Append(Append(wire, Gap(events.dropped)), e) ELSE Append(wire, e)
           IN  /\ e \in LineEvents /\ Gap(events.dropped) \in GapFrames
               /\ wire \o Frames(events.dropped, Head(events.items)) = new
               /\ new \in Seq(LineEvents \cup GapFrames)
<1>1. Head(events.items) = events.items[1] /\ events.items[1] \in LineEvents
  BY DEF StreamType
<1>2. Gap(events.dropped) \in GapFrames /\ events.dropped \in Nat
  BY DEF StreamType, Gap, GapFrames
<1>3. wire \in Seq(LineEvents \cup GapFrames)
  BY DEF StreamType
<1> QED BY <1>1, <1>2, <1>3 DEF Frames

LEMMA ReceivedIs ==
    ASSUME client \in [lastId : Nat \cup {Unset}, seen : SUBSET Lines, gaps : Nat, pos : Nat \X Nat],
           NEW f \in LineEvents \cup GapFrames
    PROVE  Received(f) \in [lastId : Nat \cup {Unset}, seen : SUBSET Lines, gaps : Nat, pos : Nat \X Nat]
<1>1. CASE f \in GapFrames
  <2>1. f.kind = "gap" /\ f.dropped \in Nat
    BY <1>1 DEF GapFrames
  <2>2. Received(f) = [client EXCEPT !.gaps = @ + f.dropped]
    BY <2>1 DEF Received
  <2> QED BY <2>1, <2>2
<1>2. CASE f \in LineEvents
  <2>1. f.kind \in {"log", "finding"} /\ f.line \in Lines /\ f.line \in Nat \X Nat /\ f.line[2] \in Nat
    BY <1>2 DEF LineEvents, Lines
  <2>2. client.seen \cup {f.line} \in SUBSET Lines
    BY <2>1
  <2>3. CASE f.kind = "log"
    <3>1. Received(f) = [client EXCEPT !.lastId = f.line[2], !.pos = f.line, !.seen = @ \cup {f.line}]
      BY <2>3 DEF Received
    <3> QED BY <2>1, <2>2, <3>1
  <2>4. CASE f.kind = "finding"
    <3>1. Received(f) = [client EXCEPT !.lastId = f.line[2], !.pos = f.line]
      BY <2>4 DEF Received
    <3> QED BY <2>1, <3>1
  <2> QED BY <2>1, <2>3, <2>4
<1> QED BY <1>1, <1>2

LEMMA StreamTypeStep ==
    ASSUME StreamType, [StreamNext]_streamVars
    PROVE  StreamType'
<1> USE DEF StreamType
<1>0. Count \in Nat /\ Size \in Int
  BY DEF Count, Size
<1>1. CASE UNCHANGED streamVars
  BY <1>1 DEF streamVars
<1>2. CASE Lost
  <2>1. <<>> \in Seq(LineEvents \cup GapFrames)
    OBVIOUS
  <2> QED BY <1>2, <2>1 DEF Lost
<1>3. CASE Reconnect
  <2>1. StartAfter \in Nat
    BY <1>0 DEF StartAfter
  <2>2. (IF client.lastId = Unset THEN log.gen ELSE client.pos[1]) \in Nat
    OBVIOUS
  <2>3. lapse' \in BOOLEAN
    BY <1>3 DEF Reconnect
  <2> QED BY <1>3, <2>1, <2>2, <2>3 DEF Reconnect, TailFrom, NoQueue
<1>4. CASE WriteLog
  <2>1. log' \in [gen : Nat, lines : Nat, whole : BOOLEAN]
    <3>1. CASE \E whole \in BOOLEAN : AppendLine(whole)
      <4>1. PICK whole \in BOOLEAN : log' = [log EXCEPT !.lines = @ + 1, !.whole = whole]
        BY <3>1 DEF AppendLine
      <4>2. log.lines + 1 \in Nat
        OBVIOUS
      <4>3. log' = [gen |-> log.gen, lines |-> log.lines + 1, whole |-> whole]
        BY <4>1
      <4> QED BY <4>2, <4>3
    <3>2. CASE EndLine
      BY <3>2 DEF EndLine
    <3>3. CASE Truncate
      BY <3>3 DEF Truncate
    <3> QED BY <1>4, <3>1, <3>2, <3>3 DEF WriteLog
  <2>2. read' \subseteq read /\ lapse' \in BOOLEAN
    BY <1>4 DEF WriteLog
  <2> QED BY <1>4, <2>1, <2>2 DEF WriteLog
<1>5. CASE Stat
  BY <1>5, <1>0 DEF Stat
<1>6. CASE Read
  <2>1. PICK found \in Findings :
           tail' = [tail EXCEPT !.step = "put", !.todo = LogEvents \o found,
                                !.at = IF Count > @ THEN Count ELSE @,
                                !.gen = IF tail.at = 0 \/ Count > tail.at THEN log.gen ELSE @]
    BY <1>6 DEF Read
  <2>2. LogEvents \o found \in Seq(LineEvents)
    BY ReadFinds
  <2>3. {<<log.gen, n>> : n \in NewLines} \subseteq Lines
    BY <1>0 DEF NewLines, Lines
  <2>4. UNCHANGED <<log, events, wire, up, client>> /\ lapse' \in BOOLEAN
    BY <1>6 DEF Read
  <2>5. read' \subseteq Lines
    BY <1>6, <2>3 DEF Read
  <2> QED BY <1>0, <2>1, <2>2, <2>4, <2>5
<1>7. CASE PutNext
  <2>1. UNCHANGED <<log, wire, up, client, read, lapse>>
    BY <1>7 DEF PutNext
  <2>2. CASE tail.todo = <<>>
    BY <1>7, <2>1, <2>2 DEF PutNext
  <2>3. CASE tail.todo # <<>>
    <3>1. tail' = [tail EXCEPT !.todo = Tail(@)] /\ events' = Put(events, Head(tail.todo))
      BY <1>7, <2>3 DEF PutNext
    <3>2. Head(tail.todo) \in LineEvents /\ Tail(tail.todo) \in Seq(LineEvents)
      BY <2>3
    <3>3. events' \in [items : Seq(LineEvents), dropped : Nat]
      BY <3>1, <3>2, PutIs
    <3> QED BY <2>1, <3>1, <3>2, <3>3
  <2> QED BY <2>2, <2>3
<1>8. CASE Send
  <2>1. wire' \in Seq(LineEvents \cup GapFrames)
    BY <1>8, FramesAre DEF Send
  <2>2. Tail(events.items) \in Seq(LineEvents)
    BY <1>8 DEF Send
  <2> QED BY <1>8, <2>1, <2>2 DEF Send
<1>9. CASE Receive
  <2>1. wire # <<>> /\ client' = Received(wire[1]) /\ wire' = Tail(wire)
    BY <1>9 DEF Receive
  <2>2. wire[1] \in LineEvents \cup GapFrames /\ wire' \in Seq(LineEvents \cup GapFrames)
    BY <2>1
  <2>3. client' \in [lastId : Nat \cup {Unset}, seen : SUBSET Lines, gaps : Nat, pos : Nat \X Nat]
    BY <2>1, <2>2, ReceivedIs
  <2> QED BY <1>9, <2>2, <2>3 DEF Receive
<1> QED BY TailSteps, <1>1, <1>2, <1>3, <1>4, <1>5, <1>6, <1>7, <1>8, <1>9

LEMMA PhaseStep ==
    ASSUME StreamType, PhaseOK, [StreamNext]_streamVars
    PROVE  PhaseOK'
<1>0. /\ log.lines \in Nat /\ log.gen \in Nat /\ log.whole \in BOOLEAN /\ tail.size \in Int \cup {Unset}
      /\ Size \in Int /\ tail.step \in {"stat", "read", "put"} /\ client.pos \in Nat \X Nat
      /\ Unset \notin Int
  <2>1. log.lines \in Nat /\ log.gen \in Nat /\ log.whole \in BOOLEAN
    BY DEF StreamType
  <2>2. tail.size \in Int \cup {Unset} /\ tail.step \in {"stat", "read", "put"}
    BY DEF StreamType
  <2>3. client.pos \in Nat \X Nat
    BY DEF StreamType
  <2> QED BY <2>1, <2>2, <2>3, LiveTailAssumption DEF Size, Count
<1>1. CASE UNCHANGED streamVars
  BY <1>1 DEF streamVars, PhaseOK, Size, Count
<1>2. CASE Lost
  BY <1>2 DEF Lost, PhaseOK, Size, Count
<1>3. CASE Reconnect
  <2>1. /\ tail'.step = "stat" /\ tail'.todo = <<>> /\ tail'.size = Unset
        /\ UNCHANGED <<log, wire, client>> /\ up'
    BY <1>3 DEF Reconnect, TailFrom
  <2> QED BY <2>1 DEF PhaseOK
<1>4. CASE WriteLog
  <2>1. UNCHANGED <<tail, wire, up, client>>
    BY <1>4 DEF WriteLog
  <2>2. log'.gen = 0 => Size <= Size' /\ log.gen = 0
    <3>1. CASE \E whole \in BOOLEAN : AppendLine(whole)
      <4>1. PICK whole \in BOOLEAN : log.whole /\ log' = [log EXCEPT !.lines = @ + 1, !.whole = whole]
        BY <3>1 DEF AppendLine
      <4>2. log'.gen = log.gen /\ log'.lines = log.lines + 1
        BY <4>1 DEF StreamType
      <4> QED BY <1>0, <4>1, <4>2 DEF Size, Count
    <3>2. CASE EndLine
      <4>1. ~log.whole /\ log'.gen = log.gen /\ log'.lines = log.lines /\ log'.whole
        BY <3>2 DEF EndLine, StreamType
      <4> QED BY <1>0, <4>1 DEF Size, Count
    <3>3. CASE Truncate
      BY <1>0, <3>3 DEF Truncate
    <3> QED BY <1>4, <3>1, <3>2, <3>3 DEF WriteLog
  <2>3. Size' \in Int
    <3>1. log'.lines \in Nat
      BY <1>4, TailSteps, StreamTypeStep DEF StreamType
    <3> QED BY <3>1 DEF Size, Count
  <2>4. log'.gen = 0 /\ tail'.size # Unset => tail'.size <= Size'
    BY <1>0, <2>1, <2>2, <2>3 DEF PhaseOK
  <2> QED BY <2>1, <2>4 DEF PhaseOK
<1>5. CASE Stat
  <2>1. /\ tail.step = "stat" /\ UNCHANGED <<log, wire, up, client>>
        /\ tail'.step = "read" /\ tail'.size = Size /\ tail'.todo = tail.todo
    BY <1>5 DEF Stat, StreamType
  <2> QED BY <1>0, <2>1 DEF PhaseOK, Size, Count
<1>6. CASE Read
  <2>1. /\ tail.step = "read" /\ UNCHANGED <<log, wire, up, client>>
        /\ tail'.step = "put" /\ tail'.size = tail.size
    BY <1>6 DEF Read, StreamType
  <2> QED BY <2>1 DEF PhaseOK, Size, Count
<1>7. CASE PutNext
  <2>1. /\ tail.step = "put" /\ UNCHANGED <<log, wire, up, client>> /\ tail'.size = tail.size
        /\ \/ tail.todo = <<>> /\ tail'.todo = <<>> /\ tail'.step = "stat"
           \/ tail'.step = "put"
    BY <1>7 DEF PutNext, StreamType
  <2> QED BY <2>1 DEF PhaseOK, Size, Count
<1>8. CASE Send
  BY <1>8 DEF Send, PhaseOK, Size, Count
<1>9. CASE Receive
  <2>1. /\ up /\ wire # <<>> /\ client' = Received(wire[1]) /\ UNCHANGED <<log, tail, up>>
        /\ wire[1] \in LineEvents \cup GapFrames
    BY <1>9 DEF Receive, StreamType
  <2>2. IF client'.lastId = Unset THEN client'.pos[1] = 0
        ELSE client'.lastId = client'.pos[2] /\ client'.lastId # 0
    <3>1. CASE wire[1] \in GapFrames
      BY <2>1, <3>1 DEF GapFrames, Received, PhaseOK, StreamType
    <3>2. CASE wire[1] \in LineEvents
      <4>1. wire[1].kind \in {"log", "finding"} /\ wire[1].line[2] \in Nat \ {0}
        BY <3>2 DEF LineEvents, Lines
      <4>2. client'.lastId = wire[1].line[2] /\ client'.pos = wire[1].line
        BY <2>1, <4>1 DEF Received, StreamType
      <4> QED BY <1>0, <4>1, <4>2
    <3> QED BY <2>1, <3>1, <3>2
  <2> QED BY <2>1, <2>2 DEF PhaseOK, Size, Count
<1> QED BY TailSteps, <1>1, <1>2, <1>3, <1>4, <1>5, <1>6, <1>7, <1>8, <1>9

(* What is in the pipe after a step, and what is put, by line. *)
LEMMA ReadLines ==
    ASSUME StreamType, NEW found \in Findings
    PROVE  \A m \in LinesOf(LogEvents \o found) : m[1] = log.gen
<1> DEFINE n == IF Count > tail.at THEN Count - tail.at ELSE 0
           todo == LogEvents \o found
<1>1. /\ n \in Nat /\ Len(todo) \in {n, n + 1} /\ DOMAIN todo = 1..Len(todo)
      /\ \A i \in 1..n : todo[i] = Event("log", tail.at + i)
      /\ Len(todo) = n + 1 => todo[n + 1] = Event("finding", Count)
  BY ReadFinds
<1> HIDE DEF n
<1>2. ASSUME NEW k \in DOMAIN todo
      PROVE  todo[k].line[1] = log.gen
  <2>1. todo[k] = Event("log", tail.at + k) \/ todo[k] = Event("finding", Count)
    BY <1>1
  <2> QED BY <2>1 DEF Event
<1> HIDE DEF todo
<1>3. \A m \in LinesOf(todo) : m[1] = log.gen
  BY <1>2 DEF LinesOf
<1> QED BY <1>3 DEF todo

LEMMA ReadIs ==
    ASSUME StreamType, Read
    PROVE  \E found \in Findings :
              /\ tail' = [tail EXCEPT !.step = "put", !.todo = LogEvents \o found,
                                      !.at = IF Count > @ THEN Count ELSE @,
                                      !.gen = IF tail.at = 0 \/ Count > tail.at THEN log.gen ELSE @]
              /\ tail'.todo = LogEvents \o found
              /\ tail'.at = (IF Count > tail.at THEN Count ELSE tail.at)
              /\ tail'.gen = (IF tail.at = 0 \/ Count > tail.at THEN log.gen ELSE tail.gen)
              /\ tail'.size = tail.size
  BY DEF Read, StreamType

(* A step of put takes an event from what is to do to the queue's end; if     *)
(* the queue is full, its first event goes.                                  *)
LEMMA PutMoves ==
    ASSUME StreamType, PutNext, tail.todo # <<>>
    PROVE  LET e == tail.todo[1]
           IN  /\ e \in LineEvents /\ tail'.todo = Tail(tail.todo)
               /\ tail'.at = tail.at /\ tail'.gen = tail.gen /\ tail'.size = tail.size
               /\ \/ events'.items = Append(events.items, e) /\ events'.dropped = events.dropped
                  \/ /\ events.items # <<>>
                     /\ events'.items = Append(Tail(events.items), e)
                     /\ events'.dropped = events.dropped + 1
<1>1. tail' = [tail EXCEPT !.todo = Tail(@)] /\ events' = Put(events, Head(tail.todo))
  BY DEF PutNext
<1>2. Head(tail.todo) = tail.todo[1] /\ tail.todo[1] \in LineEvents
  BY DEF StreamType
<1>3. \/ events'.items = Append(events.items, tail.todo[1]) /\ events'.dropped = events.dropped
      \/ /\ events.items # <<>>
         /\ events'.items = Append(Tail(events.items), tail.todo[1])
         /\ events'.dropped = events.dropped + 1
  BY <1>1, <1>2, PutIs
<1> QED BY <1>1, <1>2, <1>3 DEF StreamType

(* The first event of the queue goes onto the wire, after what it has to tell. *)
LEMMA SendMoves ==
    ASSUME StreamType, Send
    PROVE  LET e == events.items[1]
               gap == Gap(events.dropped)
           IN  /\ e \in LineEvents /\ e.kind # "gap" /\ gap \in GapFrames
               /\ wire' = IF events.dropped > 0 THEN Append(Append(wire, gap), e)
                          ELSE Append(wire, e)
               /\ events.items # <<>> /\ events'.items = Tail(events.items) /\ events'.dropped = 0
               /\ LinesOf(wire') = LinesOf(wire) \cup {e.line}
               /\ LinesOf(events.items) = {e.line} \cup LinesOf(events'.items)
               /\ LogsOf(events.items) = OwnOf(e) \cup LogsOf(events'.items)
<1> DEFINE e == events.items[1]
           gap == Gap(events.dropped)
<1>1. /\ e \in LineEvents /\ gap \in GapFrames
      /\ wire' = IF events.dropped > 0 THEN Append(Append(wire, gap), e) ELSE Append(wire, e)
  BY FramesAre DEF Send
<1>2. e.kind # "gap" /\ gap.kind = "gap"
  BY <1>1 DEF LineEvents, GapFrames
<1>3. events.items # <<>> /\ events'.items = Tail(events.items) /\ events'.dropped = 0
  BY DEF Send
<1>4. LinesOf(events.items) = {e.line} \cup LinesOf(events'.items)
      /\ LogsOf(events.items) = OwnOf(e) \cup LogsOf(events'.items)
  BY <1>2, <1>3, OwnOfTail DEF StreamType
<1>5. wire \in Seq(LineEvents \cup GapFrames)
  BY DEF StreamType
<1>6. LinesOf(wire') = LinesOf(wire) \cup {e.line}
  <2>1. CASE events.dropped > 0
    <3> DEFINE W == Append(wire, gap)
    <3>1. W \in Seq(LineEvents \cup GapFrames)
      BY <1>1, <1>5
    <3>2. LinesOf(W) = LinesOf(wire)
      BY <1>1, <1>5, GapGoesOn
    <3>3. wire' = Append(W, e)
      BY <1>1, <2>1
    <3> HIDE DEF W, e
    <3>4. e \in LineEvents \cup GapFrames /\ e \in LineEvents
      BY <1>1
    <3>5. LinesOf(Append(W, e)) = LinesOf(W) \cup {e.line}
      BY <3>1, <3>4, EventGoesOn
    <3> QED BY <3>2, <3>3, <3>5
  <2>2. CASE ~(events.dropped > 0)
    BY <1>1, <1>5, <2>2, EventGoesOn
  <2> QED BY <2>1, <2>2
<1> QED BY <1>1, <1>2, <1>3, <1>4, <1>6

LEMMA ReceiveMoves ==
    ASSUME StreamType, Receive
    PROVE  LET f == wire[1]
           IN  /\ f \in LineEvents \cup GapFrames /\ wire # <<>> /\ wire' = Tail(wire)
               /\ LinesOf(wire') \subseteq LinesOf(wire)
               /\ f.kind \in {"gap", "log", "finding"}
               /\ f.kind = "gap" => /\ f \in GapFrames
                                    /\ client'.pos = client.pos /\ client'.seen = client.seen
                                    /\ client'.gaps = client.gaps + f.dropped
               /\ f.kind # "gap" => /\ f \in LineEvents /\ f.line \in LinesOf(wire)
                                    /\ LinesOf(wire) = {f.line} \cup LinesOf(wire')
                                    /\ client'.pos = f.line /\ client'.seen = client.seen \cup OwnOf(f)
                                    /\ client'.gaps = client.gaps
<1> DEFINE f == wire[1]
<1>1. wire # <<>> /\ wire' = Tail(wire) /\ client' = Received(f) /\ f \in LineEvents \cup GapFrames
  BY DEF Receive, StreamType
<1>2. /\ LinesOf(wire') \subseteq LinesOf(wire)
      /\ f.kind # "gap" => LinesOf(wire) = {f.line} \cup LinesOf(wire')
  BY <1>1, OwnOfTail DEF StreamType
<1>3. CASE f \in GapFrames
  <2>1. f.kind = "gap" /\ client' = [client EXCEPT !.gaps = @ + f.dropped]
    BY <1>1, <1>3 DEF GapFrames, Received
  <2> QED BY <1>1, <1>2, <1>3, <2>1 DEF StreamType
<1>4. CASE f \in LineEvents
  <2>1. f.kind \in {"log", "finding"}
    BY <1>4 DEF LineEvents
  <2>2. CASE f.kind = "log"
    <3>1. client' = [client EXCEPT !.lastId = f.line[2], !.pos = f.line, !.seen = @ \cup {f.line}]
      BY <1>1, <2>2 DEF Received
    <3>2. client'.pos = f.line /\ client'.seen = client.seen \cup {f.line} /\ client'.gaps = client.gaps
      BY <3>1 DEF StreamType
    <3> QED BY <1>1, <1>2, <1>4, <2>2, <3>2 DEF OwnOf
  <2>3. CASE f.kind = "finding"
    <3>1. client' = [client EXCEPT !.lastId = f.line[2], !.pos = f.line]
      BY <1>1, <2>3 DEF Received
    <3>2. client'.pos = f.line /\ client'.seen = client.seen /\ client'.gaps = client.gaps
      BY <3>1 DEF StreamType
    <3> QED BY <1>1, <1>2, <1>4, <2>3, <3>2 DEF OwnOf
  <2> QED BY <2>1, <2>2, <2>3
<1> QED BY <1>1, <1>3, <1>4

LEMMA LinesAre ==
    ASSUME NEW E \in Seq(LineEvents \cup GapFrames)
    PROVE  LinesOf(E) \subseteq Lines
<1>1. \A k \in DOMAIN E : E[k] \in LineEvents \cup GapFrames
  OBVIOUS
<1>2. \A f \in LineEvents \cup GapFrames : f.kind # "gap" => f.line \in Lines
  BY DEF LineEvents, GapFrames
<1> QED BY <1>1, <1>2 DEF LinesOf

LEMMA GensStep ==
    ASSUME StreamType, PhaseOK, GensOK, [StreamNext]_streamVars
    PROVE  GensOK'
<1>0. /\ log.gen \in Nat /\ tail.gen \in Nat /\ client.pos[1] \in Nat
      /\ events.items \in Seq(LineEvents) /\ tail.todo \in Seq(LineEvents)
      /\ wire \in Seq(LineEvents \cup GapFrames)
      /\ \A m \in Lines : m[1] \in Nat
  BY DEF StreamType, Lines
<1>e. LinesOf(<<>>) = {}
  BY DEF LinesOf
<1>1. CASE UNCHANGED streamVars
  BY <1>1 DEF streamVars, GensOK
<1>2. CASE Lost
  BY <1>2, <1>e DEF Lost, GensOK
<1>3. CASE Reconnect
  <2>1. /\ tail'.gen \in {log.gen, client.pos[1]} /\ tail'.todo = <<>> /\ events'.items = <<>>
        /\ UNCHANGED <<log, wire, client, read>>
    BY <1>3 DEF Reconnect, TailFrom, NoQueue
  <2> QED BY <1>0, <1>e, <2>1 DEF GensOK
<1>4. CASE WriteLog
  <2>1. log'.gen \in Nat /\ log.gen <= log'.gen
    <3>1. CASE \E whole \in BOOLEAN : AppendLine(whole)
      BY <1>0, <3>1 DEF AppendLine, StreamType
    <3>2. CASE EndLine
      BY <1>0, <3>2 DEF EndLine, StreamType
    <3>3. CASE Truncate
      BY <1>0, <3>3 DEF Truncate
    <3> QED BY <1>4, <3>1, <3>2, <3>3 DEF WriteLog
  <2>2. read' \subseteq read /\ UNCHANGED <<tail, events, wire, client>>
    BY <1>4 DEF WriteLog
  <2>3. \A m \in read \cup LinesOf(wire) \cup LinesOf(events.items) \cup LinesOf(tail.todo) :
           m[1] <= log.gen /\ m[1] \in Nat
    <3>1. \A m \in LinesOf(wire) \cup LinesOf(events.items) \cup LinesOf(tail.todo) : m \in Lines
      BY LinesAre, <1>0
    <3> QED BY <1>0, <3>1 DEF GensOK, StreamType
  <2> QED BY <1>0, <2>1, <2>2, <2>3 DEF GensOK
<1>5. CASE Stat
  <2>1. /\ tail'.gen \in {tail.gen, log.gen} /\ tail'.todo = tail.todo
        /\ UNCHANGED <<log, events, wire, client, read>>
    BY <1>5 DEF Stat, StreamType
  <2> QED BY <1>0, <2>1 DEF GensOK
<1>6. CASE Read
  <2>1. PICK found \in Findings :
           /\ tail'.todo = LogEvents \o found
           /\ tail'.gen = (IF tail.at = 0 \/ Count > tail.at THEN log.gen ELSE tail.gen)
    BY <1>6, ReadIs
  <2>2. UNCHANGED <<log, events, wire, client>>
        /\ read' = read \cup {<<log.gen, n>> : n \in NewLines}
    BY <1>6 DEF Read
  <2>3. \A m \in LinesOf(tail'.todo) : m[1] <= log.gen
    BY <1>0, <2>1, ReadLines
  <2> QED BY <1>0, <2>1, <2>2, <2>3 DEF GensOK
<1>7. CASE PutNext
  <2>1. UNCHANGED <<log, wire, client, read>>
    BY <1>7 DEF PutNext
  <2>2. CASE tail.todo = <<>>
    <3>1. tail'.gen = tail.gen /\ tail'.todo = tail.todo /\ UNCHANGED events
      BY <1>7, <2>2 DEF PutNext, StreamType
    <3> QED BY <2>1, <3>1 DEF GensOK
  <2>3. CASE tail.todo # <<>>
    <3>1. /\ tail'.gen = tail.gen
          /\ LinesOf(tail'.todo) \cup LinesOf(events'.items) \subseteq
                LinesOf(tail.todo) \cup LinesOf(events.items)
      <4> DEFINE e == tail.todo[1]
      <4>1. e \in LineEvents /\ e.kind # "gap" /\ e.line \in LinesOf(tail.todo)
        BY <1>7, <2>3, <1>0, PutMoves, OwnOfTail DEF LineEvents
      <4>2. LinesOf(tail'.todo) \subseteq LinesOf(tail.todo) /\ tail'.gen = tail.gen
        BY <1>7, <2>3, <1>0, PutMoves, OwnOfTail
      <4>3. CASE events'.items = Append(events.items, e)
        BY <1>0, <4>1, <4>2, <4>3, EventGoesOn
      <4>4. CASE events.items # <<>> /\ events'.items = Append(Tail(events.items), e)
        <5>1. Tail(events.items) \in Seq(LineEvents) /\ LinesOf(Tail(events.items)) \subseteq LinesOf(events.items)
          BY <1>0, <4>4, Shorter, OwnOfTail
        <5>2. LinesOf(events'.items) = LinesOf(Tail(events.items)) \cup {e.line}
          <6> DEFINE F == Tail(events.items)
          <6>1. F \in Seq(LineEvents) /\ events'.items = Append(F, e)
            BY <4>4, <5>1
          <6> HIDE DEF F, e
          <6>2. LinesOf(Append(F, e)) = LinesOf(F) \cup {e.line}
            BY <4>1, <6>1, EventGoesOn
          <6> QED BY <6>1, <6>2 DEF F
        <5> QED BY <4>1, <4>2, <5>1, <5>2
      <4> QED BY <1>7, <2>3, <4>3, <4>4, PutMoves
    <3> QED BY <2>1, <3>1 DEF GensOK
  <2> QED BY <2>2, <2>3
<1>8. CASE Send
  <2>1. /\ LinesOf(wire') = LinesOf(wire) \cup {events.items[1].line}
        /\ LinesOf(events.items) = {events.items[1].line} \cup LinesOf(events'.items)
        /\ UNCHANGED <<log, tail, client, read>>
    BY <1>8, SendMoves DEF Send
  <2> QED BY <2>1 DEF GensOK
<1>9. CASE Receive
  <2>1. UNCHANGED <<log, tail, events, read>>
    BY <1>9 DEF Receive
  <2>2. LinesOf(wire') \subseteq LinesOf(wire) /\ client'.pos \in {client.pos} \cup LinesOf(wire)
    BY <1>9, ReceiveMoves
  <2> QED BY <2>1, <2>2 DEF GensOK
<1> QED BY TailSteps, <1>1, <1>2, <1>3, <1>4, <1>5, <1>6, <1>7, <1>8, <1>9

(* The client receives a frame: what it tells is accounted for from then on.  *)
LEMMA ReceiveAccounts ==
    ASSUME StreamType, NEW X, NEW Q, NEW G, ClientOK(X), PathOK(X, Q, G), Receive
    PROVE  AccountOK'
<1> DEFINE f == wire[1]
<1>0. /\ wire \in Seq(LineEvents \cup GapFrames) /\ wire # <<>>
      /\ DOMAIN wire = 1..Len(wire) /\ DOMAIN Tail(wire) = 1..Len(wire) - 1 /\ Len(wire) \in Nat \ {0}
      /\ \A k \in 1..Len(wire) - 1 : Tail(wire)[k] = wire[k + 1]
  BY Shorter DEF StreamType, Receive
<1>1. UNCHANGED <<log, tail, events, read>> /\ wire' = Tail(wire) /\ up'
  BY DEF Receive
<1>2. Due' = Due /\ Place' = Place /\ Doomed' = Doomed
  BY <1>1 DEF Due, Place, Doomed
<1>3. PICK N : N = [k \in 1..Len(wire) - 1 |-> G[k + 1]]
  OBVIOUS
<1>4. PICK Y : Y = (IF f.kind = "gap" THEN X \cup G[1] ELSE X)
  OBVIOUS
<1>5. /\ DOMAIN G = 1..Len(wire)
      /\ \A k \in 1..Len(wire) :
            IF wire[k].kind = "gap"
            THEN IsFiniteSet(G[k]) /\ Cardinality(G[k]) <= wire[k].dropped
            ELSE G[k] = OwnOf(wire[k])
  BY <1>0 DEF PathOK, Tells
<1>6. Had(Y)' = Had(X) \cup G[1]
  BY <1>0, <1>4, <1>5, ReceiveMoves DEF Had
<1>7. Sent(Y, N)' = Sent(X, G)
  <2>1. ASSUME NEW k \in DOMAIN G PROVE k = 1 \/ (k - 1 \in DOMAIN N /\ G[k] = N[k - 1])
    BY <1>0, <1>3, <1>5
  <2>2. 1 \in DOMAIN G /\ \A k \in DOMAIN N : k + 1 \in DOMAIN G /\ G[k + 1] = N[k]
    BY <1>0, <1>3, <1>5
  <2>3. Told(G) = G[1] \cup Told(N)
    BY <2>1, <2>2, InTold
  <2> QED BY <1>6, <2>3 DEF Sent
<1>8. Made(Y, Q, N)' = Made(X, Q, G) /\ All(Y, Q, N)' = All(X, Q, G)
  BY <1>1, <1>7 DEF Made, All
<1>9. ClientOK(Y)'
  <2>1. IsFiniteSet(Y) /\ Cardinality(Y) <= client'.gaps
    <3>1. IsFiniteSet(X) /\ Cardinality(X) <= client.gaps /\ client.gaps \in Nat
      BY DEF ClientOK, StreamType
    <3>2. CASE f.kind = "gap"
      <4>1. /\ IsFiniteSet(G[1]) /\ Cardinality(G[1]) <= f.dropped /\ f.dropped \in Nat
            /\ client'.gaps = client.gaps + f.dropped
        BY <1>0, <1>5, <3>2, ReceiveMoves DEF GapFrames
      <4>2. /\ IsFiniteSet(X \cup G[1])
            /\ Cardinality(X \cup G[1]) = Cardinality(X) + Cardinality(G[1]) - Cardinality(X \cap G[1])
        BY <3>1, <4>1, FS_Union
      <4>3. IsFiniteSet(X \cap G[1])
        BY <3>1, FS_Intersection
      <4> HIDE DEF f
      <4> QED BY <1>4, <3>1, <3>2, <4>1, <4>2, <4>3, FS_CardinalityType
    <3>3. CASE f.kind # "gap"
      BY <1>4, <3>1, <3>3, ReceiveMoves
    <3> QED BY <3>2, <3>3
  <2>2. Reaches(Due', Had(Y)', client'.pos)
    <3>1. CASE f.kind = "gap"
      BY <1>2, <1>6, <3>1, ReceiveMoves DEF ClientOK, Reaches
    <3>2. CASE f.kind # "gap"
      <4>1. Covers(Due, Had(X), wire, G) /\ client'.pos = f.line
        BY <3>2, ReceiveMoves DEF PathOK
      <4> QED BY <1>0, <1>2, <1>6, <3>2, <4>1 DEF Covers, Reaches
    <3> QED BY <3>1, <3>2
  <2> QED BY <2>1, <2>2 DEF ClientOK
<1>10. PathOK(Y, Q, N)'
  <2>1. Tells(wire', N)
    BY <1>0, <1>1, <1>3, <1>5 DEF Tells
  <2>2. Covers(Due', Had(Y)', wire', N)
    <3>1. Covers(Due, Had(X), wire, G)
      BY DEF PathOK
    <3>2. Covers(Due, Had(X) \cup G[1], Tail(wire), N)
      BY <1>0, <1>3, <3>1, CoversTail
    <3> QED BY <1>1, <1>2, <1>6, <3>2
  <2>3. /\ IsFiniteSet(Q) /\ Cardinality(Q) <= events'.dropped
        /\ Covers(Due', Sent(Y, N)' \cup Q, events'.items, Own(events'.items))
        /\ Covers(Due', Made(Y, Q, N)', tail'.todo, Own(tail'.todo))
        /\ Reaches(Due', All(Y, Q, N)', Place')
        /\ Doomed' \/ \A m \in read' : m[1] = log'.gen \/ m \in All(Y, Q, N)'
    BY <1>1, <1>2, <1>7, <1>8 DEF PathOK
  <2> QED BY <2>1, <2>2, <2>3 DEF PathOK
<1> QED BY <1>9, <1>10 DEF AccountOK

LEMMA OwnIsOne ==
    ASSUME NEW e
    PROVE  IsFiniteSet(OwnOf(e)) /\ Cardinality(OwnOf(e)) \in Nat /\ Cardinality(OwnOf(e)) <= 1
<1>1. IsFiniteSet({}) /\ Cardinality({}) = 0
  BY FS_EmptySet
<1>2. IsFiniteSet({e.line}) /\ Cardinality({e.line}) = 1
  BY FS_Singleton
<1> QED BY <1>1, <1>2 DEF OwnOf

LEMMA TellsAppend ==
    ASSUME NEW T, NEW E \in Seq(T), NEW e \in T, NEW D, NEW B, NEW G, NEW S,
           Tells(E, G), Covers(D, B, E, G),
           e.kind = "gap" => IsFiniteSet(S) /\ Cardinality(S) <= e.dropped,
           e.kind # "gap" =>
               /\ S = OwnOf(e)
               /\ \A m \in D : AtMost(m, e.line) => m \in B \cup Told(G) \cup S
    PROVE  \E N : /\ Tells(Append(E, e), N) /\ Covers(D, B, Append(E, e), N)
                  /\ Told(N) = Told(G) \cup S
<1> DEFINE F == Append(E, e)
           N == [k \in 1..Len(E) + 1 |-> IF k = Len(E) + 1 THEN S ELSE G[k]]
<1>1. /\ DOMAIN E = 1..Len(E) /\ DOMAIN F = 1..Len(E) + 1 /\ Len(E) \in Nat
      /\ F[Len(E) + 1] = e /\ \A k \in 1..Len(E) : F[k] = E[k]
  BY Longer
<1>2. /\ DOMAIN G = 1..Len(E) /\ DOMAIN N = 1..Len(E) + 1
      /\ N[Len(E) + 1] = S /\ \A k \in 1..Len(E) : N[k] = G[k]
  BY <1>1 DEF Tells
<1> HIDE DEF N
<1>3. Covers(D, B, F, N)
  <2>1. e.kind # "gap" => \A m \in D : AtMost(m, e.line) =>
           m \in B \/ (\E j \in 1..Len(E) : m \in G[j]) \/ m \in N[Len(E) + 1]
    BY <1>2, InTold
  <2> QED BY <1>2, <2>1, CoversAppend
<1> HIDE DEF F
<1>4. Tells(F, N)
  BY <1>1, <1>2 DEF Tells
<1>5. Told(N) = Told(G) \cup S
  <2>1. DOMAIN N = DOMAIN G \cup {Len(E) + 1}
    BY <1>1, <1>2
  <2>2. ASSUME NEW m PROVE m \in Told(N) <=> m \in Told(G) \/ m \in S
    BY <1>1, <1>2, <2>1, InTold
  <2> QED BY <2>2
<1> QED BY <1>3, <1>4, <1>5 DEF F

LEMMA SendAccounts ==
    ASSUME StreamType, NEW X, NEW Q, NEW G, ClientOK(X), PathOK(X, Q, G), Send
    PROVE  AccountOK'
<1> DEFINE e == events.items[1]
           gap == Gap(events.dropped)
           T == LineEvents \cup GapFrames
           W == IF events.dropped > 0 THEN Append(wire, gap) ELSE wire
           U == Told(G)
<1>0. /\ wire \in Seq(T) /\ e \in LineEvents /\ e.kind # "gap" /\ gap \in GapFrames
      /\ gap.kind = "gap" /\ gap.dropped = events.dropped /\ events.dropped \in Nat
      /\ events.items \in Seq(LineEvents) /\ events.items # <<>>
      /\ events'.items = Tail(events.items) /\ events'.dropped = 0
  BY SendMoves DEF StreamType, Gap
<1>1. UNCHANGED <<log, tail, client, read>> /\ up'
  BY DEF Send
<1>2. Due' = Due /\ Place' = Place /\ Doomed' = Doomed /\ Had(X)' = Had(X)
  BY <1>1 DEF Due, Place, Doomed, Had
<1>3. /\ Tells(wire, G) /\ IsFiniteSet(Q) /\ Cardinality(Q) <= events.dropped
      /\ Covers(Due, Had(X), wire, G)
      /\ Covers(Due, Sent(X, G) \cup Q, events.items, Own(events.items))
  BY DEF PathOK
<1>4. W \in Seq(T) /\ wire' = Append(W, e)
  <2>1. Append(wire, gap) \in Seq(T)
    BY <1>0
  <2> QED BY <1>0, <2>1, SendMoves
<1>5. PICK H : /\ Tells(W, H) /\ Covers(Due, Had(X), W, H)
               /\ Told(H) = U \cup Q
  <2>1. CASE events.dropped > 0
    <3>1. gap \in T /\ W = Append(wire, gap)
      BY <1>0, <2>1
    <3> HIDE DEF gap, T, U, W
    <3> QED BY <1>0, <1>3, <3>1, TellsAppend DEF U
  <2>2. CASE ~(events.dropped > 0)
    <3>1. Q = {}
      BY <1>0, <1>3, <2>2, FS_EmptySet, FS_CardinalityType
    <3> QED BY <1>3, <2>2, <3>1
  <2> QED BY <2>1, <2>2
<1>6. \A m \in Due : AtMost(m, e.line) =>
         m \in Had(X) \cup Told(H) \cup OwnOf(e)
  <2>1. 1 \in DOMAIN events.items
    BY <1>0
  <2>2. \A m \in Due : AtMost(m, e.line) => m \in Sent(X, G) \cup Q \/ \E j \in 1..1 : m \in Own(events.items)[j]
    BY <1>0, <1>3, <2>1 DEF Covers
  <2>3. Own(events.items)[1] = OwnOf(e)
    BY <2>1 DEF Own
  <2> QED BY <1>5, <2>2, <2>3 DEF Sent
<1>7. PICK N : /\ Tells(wire', N) /\ Covers(Due, Had(X), wire', N)
               /\ Told(N) = Told(H) \cup OwnOf(e)
  <2>1. e \in T
    BY <1>0
  <2>2. W \in Seq(T) /\ wire' = Append(W, e) /\ e.kind # "gap"
    BY <1>0, <1>4
  <2> HIDE DEF e, T, U, W
  <2>3. \E N : /\ Tells(Append(W, e), N) /\ Covers(Due, Had(X), Append(W, e), N)
               /\ Told(N) = Told(H) \cup OwnOf(e)
    BY <1>5, <1>6, <2>1, <2>2, OwnIsOne, TellsAppend
  <2> QED BY <2>2, <2>3
<1>8. Sent(X, N)' = Sent(X, G) \cup Q \cup OwnOf(e)
  BY <1>2, <1>5, <1>7 DEF Sent
<1>9. Made(X, {}, N)' = Made(X, Q, G) /\ All(X, {}, N)' = All(X, Q, G)
  BY <1>1, <1>8, SendMoves DEF Made, All
<1>10. ClientOK(X)'
  BY <1>1, <1>2 DEF ClientOK
<1>11. PathOK(X, {}, N)'
  <2>1. Covers(Due', Sent(X, N)' \cup {}, events'.items, Own(events'.items))
    <3> DEFINE E == events.items
               R == Own(Tail(E))
    <3>1. /\ Own(E)[1] = OwnOf(e) /\ \A k \in 1..Len(E) - 1 : R[k] = Own(E)[k + 1]
      BY <1>0, Shorter DEF Own
    <3>2. Covers(Due, Sent(X, G) \cup Q \cup Own(E)[1], Tail(E), R)
      <4> HIDE DEF R
      <4> QED BY <1>0, <1>3, <3>1, CoversTail
    <3> QED BY <1>0, <1>2, <1>8, <3>1, <3>2
  <2>2. IsFiniteSet({}) /\ Cardinality({}) <= events'.dropped
    BY <1>0, FS_EmptySet
  <2>3. /\ Covers(Due', Made(X, {}, N)', tail'.todo, Own(tail'.todo))
        /\ Reaches(Due', All(X, {}, N)', Place')
        /\ Doomed' \/ \A m \in read' : m[1] = log'.gen \/ m \in All(X, {}, N)'
    BY <1>1, <1>2, <1>9 DEF PathOK
  <2> QED BY <1>2, <1>7, <2>1, <2>2, <2>3 DEF PathOK
<1> QED BY <1>10, <1>11 DEF AccountOK

LEMMA PutAccounts ==
    ASSUME StreamType, PhaseOK, NEW X, NEW Q, NEW G, ClientOK(X), PathOK(X, Q, G), PutNext
    PROVE  AccountOK'
<1>1. UNCHANGED <<log, wire, client, read>> /\ up'
  BY DEF PutNext
<1>2. Due' = Due /\ Had(X)' = Had(X) /\ Sent(X, G)' = Sent(X, G)
  BY <1>1 DEF Due, Had, Sent
<1>3. ClientOK(X)'
  BY <1>1, <1>2 DEF ClientOK
<1>4. CASE tail.todo = <<>>
  <2>1. /\ tail'.gen = tail.gen /\ tail'.at = tail.at /\ tail'.todo = tail.todo
        /\ tail'.size = tail.size /\ UNCHANGED events
    BY <1>4 DEF PutNext, StreamType
  <2>2. Place' = Place /\ Doomed' = Doomed /\ Made(X, Q, G)' = Made(X, Q, G) /\ All(X, Q, G)' = All(X, Q, G)
    BY <1>1, <1>2, <2>1 DEF Place, Doomed, Made, All
  <2>3. PathOK(X, Q, G)'
    BY <1>1, <1>2, <2>1, <2>2 DEF PathOK
  <2> QED BY <1>3, <2>3 DEF AccountOK
<1>5. CASE tail.todo # <<>>
  <2> DEFINE e == tail.todo[1]
             B == Sent(X, G)
  <2>0. /\ e \in LineEvents /\ e.kind # "gap" /\ tail'.todo = Tail(tail.todo)
        /\ tail'.at = tail.at /\ tail'.gen = tail.gen /\ tail'.size = tail.size
        /\ events.items \in Seq(LineEvents) /\ tail.todo \in Seq(LineEvents) /\ events.dropped \in Nat
        /\ LogsOf(tail.todo) = OwnOf(e) \cup LogsOf(tail'.todo)
    <3>1. events.items \in Seq(LineEvents) /\ tail.todo \in Seq(LineEvents) /\ events.dropped \in Nat
      BY DEF StreamType
    <3>2. e \in LineEvents /\ e.kind # "gap"
      BY <1>5, PutMoves DEF LineEvents
    <3> QED BY <1>5, <3>1, <3>2, PutMoves, OwnOfTail
  <2>1. Place' = Place /\ Doomed' = Doomed
    BY <1>1, <2>0 DEF Place, Doomed
  <2>2. /\ IsFiniteSet(Q) /\ Cardinality(Q) <= events.dropped
        /\ Covers(Due, B \cup Q, events.items, Own(events.items))
        /\ Covers(Due, Made(X, Q, G), tail.todo, Own(tail.todo))
    BY DEF PathOK
  <2>3. PICK F, R : /\ F \in Seq(LineEvents) /\ events'.items = Append(F, e)
                    /\ Covers(Due, B \cup R, F, Own(F))
                    /\ R \cup LogsOf(F) = Q \cup LogsOf(events.items)
                    /\ IsFiniteSet(R) /\ Cardinality(R) <= events'.dropped
    <3>1. CASE events'.items = Append(events.items, e) /\ events'.dropped = events.dropped
      BY <2>0, <2>2, <3>1
    <3>2. CASE /\ events.items # <<>> /\ events'.items = Append(Tail(events.items), e)
               /\ events'.dropped = events.dropped + 1
      <4> DEFINE E == events.items
                 o == events.items[1]
                 L == Own(Tail(E))
      <4>1. /\ Tail(E) \in Seq(LineEvents) /\ Own(E)[1] = OwnOf(o)
            /\ \A k \in 1..Len(E) - 1 : L[k] = Own(E)[k + 1]
        BY <2>0, <3>2, Shorter DEF Own
      <4>2. Covers(Due, B \cup Q \cup OwnOf(o), Tail(E), L)
        <5>1. Covers(Due, B \cup Q \cup Own(E)[1], Tail(E), L)
          <6> HIDE DEF L, B
          <6> QED BY <2>0, <2>2, <3>2, <4>1, CoversTail
        <5> QED BY <4>1, <5>1
      <4>3. (Q \cup OwnOf(o)) \cup LogsOf(Tail(E)) = Q \cup LogsOf(E)
        BY <2>0, <3>2, OwnOfTail
      <4>4. IsFiniteSet(Q \cup OwnOf(o)) /\ Cardinality(Q \cup OwnOf(o)) <= events'.dropped
        <5>1. /\ IsFiniteSet(Q \cup OwnOf(o)) /\ IsFiniteSet(Q \cap OwnOf(o))
              /\ Cardinality(Q \cup OwnOf(o)) =
                    Cardinality(Q) + Cardinality(OwnOf(o)) - Cardinality(Q \cap OwnOf(o))
          BY <2>2, OwnIsOne, FS_Union, FS_Intersection
        <5> HIDE DEF o
        <5> QED BY <2>0, <2>2, <3>2, <5>1, OwnIsOne, FS_CardinalityType
      <4>5. B \cup (Q \cup OwnOf(o)) = B \cup Q \cup OwnOf(o)
        OBVIOUS
      <4> HIDE DEF B, o
      <4> QED BY <3>2, <4>1, <4>2, <4>3, <4>4, <4>5
    <3> QED BY <1>5, <3>1, <3>2, PutMoves
  <2>4. Own(tail.todo)[1] = OwnOf(e)
    BY <1>5, <2>0 DEF Own
  <2>5. /\ Covers(Due, B \cup R, Append(F, e), Own(Append(F, e)))
        /\ LogsOf(Append(F, e)) = LogsOf(F) \cup OwnOf(e)
    <3> DEFINE W == Append(F, e)
               L == Own(W)
    <3>1. /\ DOMAIN F = 1..Len(F) /\ Len(F) \in Nat /\ L[Len(F) + 1] = OwnOf(e)
          /\ \A k \in 1..Len(F) : L[k] = Own(F)[k]
      BY <2>0, <2>3, Longer DEF Own
    <3>2. \A m \in Due : AtMost(m, e.line) => m \in Made(X, Q, G) \/ m \in OwnOf(e)
      <4>1. 1 \in DOMAIN tail.todo /\ tail.todo[1].kind # "gap"
        BY <1>5, <2>0
      <4>2. \A m \in Due : AtMost(m, e.line) => m \in Made(X, Q, G) \/ \E j \in 1..1 : m \in Own(tail.todo)[j]
        BY <2>2, <4>1 DEF Covers
      <4> QED BY <2>4, <4>2
    <3>3. \A m \in LogsOf(F) : \E j \in 1..Len(F) : m \in Own(F)[j]
      BY <3>1 DEF LogsOf, Own, OwnOf
    <3>4. Made(X, Q, G) = B \cup R \cup LogsOf(F)
      BY <2>3 DEF Made
    <3>5. \A m \in Due : AtMost(m, e.line) =>
             m \in B \cup R \/ (\E j \in 1..Len(F) : m \in Own(F)[j]) \/ m \in L[Len(F) + 1]
      BY <3>1, <3>2, <3>3, <3>4
    <3>6. Covers(Due, B \cup R, W, L)
      <4> HIDE DEF B, L, e
      <4> QED BY <2>0, <2>3, <3>1, <3>5, CoversAppend
    <3> QED BY <2>0, <2>3, <3>6, EventGoesOn
  <2>6. Made(X, R, G)' = Made(X, Q, G) \cup OwnOf(e)
    BY <1>2, <2>3, <2>5 DEF Made
  <2>7. All(X, R, G)' = All(X, Q, G)
    BY <2>0, <2>6 DEF All
  <2>8. Covers(Due', Made(X, R, G)', tail'.todo, Own(tail'.todo))
    <3> DEFINE E == tail.todo
               L == Own(Tail(E))
    <3>1. \A k \in 1..Len(E) - 1 : L[k] = Own(E)[k + 1]
      BY <1>5, <2>0, Shorter DEF Own
    <3>2. Covers(Due, Made(X, Q, G) \cup Own(E)[1], Tail(E), L)
      <4> HIDE DEF L
      <4> QED BY <1>5, <2>0, <2>2, <3>1, CoversTail
    <3> QED BY <1>2, <2>0, <2>4, <2>6, <3>2
  <2>9. PathOK(X, R, G)'
    <3>1. Tells(wire', G) /\ Covers(Due', Had(X)', wire', G)
      BY <1>1, <1>2 DEF PathOK
    <3>2. Covers(Due', Sent(X, G)' \cup R, events'.items, Own(events'.items))
      BY <1>2, <2>3, <2>5
    <3>3. /\ Reaches(Due', All(X, R, G)', Place')
          /\ Doomed' \/ \A m \in read' : m[1] = log'.gen \/ m \in All(X, R, G)'
      BY <1>1, <1>2, <2>1, <2>7 DEF PathOK
    <3> QED BY <2>3, <2>8, <3>1, <3>2, <3>3 DEF PathOK
  <2> QED BY <1>3, <2>9 DEF AccountOK
<1> QED BY <1>4, <1>5

LEMMA DueIs ==
    ASSUME StreamType
    PROVE  /\ Due \subseteq Lines /\ read \subseteq Due
           /\ \A m \in Due : m[1] = log.gen \/ m \in read
           /\ \A m \in Lines : m[1] \in Nat /\ m[2] \in Nat \ {0}
<1>1. log.gen \in Nat /\ read \subseteq Lines
  BY DEF StreamType
<1> QED BY <1>1 DEF Due, Lines

(* A look at the file, for one that has become smaller, goes back to the      *)
(* first line of the file there is: all of earlier files is accounted for.   *)
LEMMA StatAccounts ==
    ASSUME StreamType, PhaseOK, NEW X, NEW Q, NEW G, ClientOK(X), PathOK(X, Q, G), Stat, ~lapse'
    PROVE  AccountOK'
<1>1. UNCHANGED <<log, events, wire, client, read>> /\ up' /\ (OtherFile => Shrunk)
      /\ tail'.todo = tail.todo /\ tail'.size = Size
      /\ tail'.at = (IF StartsOver THEN 0 ELSE tail.at)
      /\ tail'.gen = (IF StartsOver THEN log.gen ELSE tail.gen)
  BY DEF Stat, StreamType
<1>2. /\ Due' = Due /\ Had(X)' = Had(X) /\ Sent(X, G)' = Sent(X, G) /\ Made(X, Q, G)' = Made(X, Q, G)
      /\ All(X, Q, G)' = All(X, Q, G)
  BY <1>1 DEF Due, Had, Sent, Made, All
<1>3. ~Doomed
  BY <1>1, LiveTailAssumption DEF Doomed, OtherFile, Shrunk
<1>4. \A m \in read : m[1] = log.gen \/ m \in All(X, Q, G)
  BY <1>3 DEF PathOK
<1>5. Reaches(Due, All(X, Q, G), Place')
  <2>1. CASE StartsOver
    <3>1. Place' = <<log.gen, 0>>
      BY <1>1, <2>1 DEF Place
    <3>2. ASSUME NEW m \in Due, AtMost(m, Place') PROVE m \in All(X, Q, G)
      <4>1. m[1] \in Nat /\ m[2] \in Nat \ {0} /\ log.gen \in Nat
        BY DueIs DEF StreamType
      <4>2. m[1] # log.gen
        BY <3>1, <3>2, <4>1 DEF AtMost
      <4> QED BY <1>4, <4>2, DueIs
    <3> QED BY <3>2 DEF Reaches
  <2>2. CASE ~StartsOver
    <3>1. Place' = Place
      BY <1>1, <2>2 DEF Place
    <3> QED BY <3>1 DEF PathOK
  <2> QED BY <2>1, <2>2
<1>6. ClientOK(X)' /\ PathOK(X, Q, G)'
  BY <1>1, <1>2, <1>4, <1>5 DEF ClientOK, PathOK
<1> QED BY <1>6 DEF AccountOK

LEMMA LostAccounts ==
    ASSUME AccountOK, Lost
    PROVE  AccountOK'
<1>1. PICK X : ClientOK(X)
  BY DEF AccountOK
<1>2. UNCHANGED <<log, client, read>> /\ ~up'
  BY DEF Lost
<1>3. Due' = Due /\ Had(X)' = Had(X)
  BY <1>2 DEF Due, Had
<1>4. ClientOK(X)'
  BY <1>1, <1>2, <1>3 DEF ClientOK
<1> QED BY <1>2, <1>4 DEF AccountOK

(* The client's place is the new tail's, and nothing is on its way.           *)
LEMMA ReconnectAt ==
    ASSUME StreamType, PhaseOK, Reconnect, ~lapse'
    PROVE  /\ UNCHANGED <<log, wire, client, read>> /\ wire = <<>> /\ up'
           /\ tail'.todo = <<>> /\ tail'.size = Unset /\ events' = NoQueue
           /\ Place' = client.pos /\ (tail'.gen = log.gen \/ Doomed')
<1>1. /\ UNCHANGED <<log, wire, client, read>> /\ wire = <<>> /\ up'
      /\ tail' = TailFrom(StartAfter, IF client.lastId = Unset THEN log.gen ELSE client.pos[1])
      /\ events' = NoQueue /\ ~(client.lastId = Unset /\ client.pos # <<log.gen, Count>>)
  BY DEF Reconnect, PhaseOK
<1>2. /\ tail'.todo = <<>> /\ tail'.size = Unset /\ tail'.at = StartAfter
      /\ tail'.gen = (IF client.lastId = Unset THEN log.gen ELSE client.pos[1])
  BY <1>1 DEF TailFrom
<1>3. client.pos \in Nat \X Nat /\ client.lastId \in Nat \cup {Unset}
  BY DEF StreamType
<1>4. CASE client.lastId = Unset
  BY <1>1, <1>2, <1>4 DEF Place, StartAfter
<1>5. CASE client.lastId # Unset
  <2>1. tail'.at = client.pos[2] /\ client.pos[2] > 0 /\ tail'.gen = client.pos[1]
    BY <1>2, <1>3, <1>5 DEF PhaseOK, StartAfter
  <2>2. Place' = client.pos
    BY <1>3, <2>1 DEF Place
  <2> QED BY <1>1, <1>2, <2>1, <2>2 DEF Doomed
<1> QED BY <1>1, <1>2, <1>4, <1>5

LEMMA ReconnectAccounts ==
    ASSUME StreamType, PhaseOK, GensOK, AccountOK, Reconnect, ~lapse'
    PROVE  AccountOK'
<1>1. PICK X : ClientOK(X)
  BY DEF AccountOK
<1>2. /\ UNCHANGED <<log, wire, client, read>> /\ wire = <<>> /\ tail'.todo = <<>> /\ events' = NoQueue
      /\ Place' = client.pos /\ (tail'.gen = log.gen \/ Doomed')
  BY ReconnectAt
<1>3. Due' = Due /\ Had(X)' = Had(X)
  BY <1>2 DEF Due, Had
<1>4. ClientOK(X)'
  BY <1>1, <1>2, <1>3 DEF ClientOK
<1>5. Had(X) \subseteq All(X, {}, <<>>)'
  BY <1>3 DEF All, Made, Sent
<1>6. PathOK(X, {}, <<>>)'
  <2>1. /\ Tells(wire', <<>>) /\ Covers(Due', Had(X)', wire', <<>>)
        /\ Covers(Due', Sent(X, <<>>)' \cup {}, events'.items, Own(events'.items))
        /\ Covers(Due', Made(X, {}, <<>>)', tail'.todo, Own(tail'.todo))
    BY <1>2 DEF Tells, Covers, NoQueue
  <2>2. IsFiniteSet({}) /\ Cardinality({}) <= events'.dropped
    BY <1>2, FS_EmptySet DEF NoQueue
  <2>3. Reaches(Due', All(X, {}, <<>>)', Place')
    BY <1>1, <1>2, <1>3, <1>5 DEF ClientOK, Reaches
  <2>4. Doomed' \/ \A m \in read' : m[1] = log'.gen \/ m \in All(X, {}, <<>>)'
    <3> SUFFICES ASSUME tail'.gen = log.gen, NEW m \in read, m[1] # log.gen
                 PROVE  m \in All(X, {}, <<>>)'
      BY <1>2
    <3>1. m \in Due /\ m[1] \in Nat /\ log.gen \in Nat /\ m[1] <= log.gen
      BY DueIs DEF GensOK, StreamType
    <3>2. client.pos[1] = log.gen
      BY <1>2 DEF Place
    <3>3. AtMost(m, client.pos)
      BY <3>1, <3>2 DEF AtMost
    <3> QED BY <1>1, <1>5, <3>1, <3>3 DEF ClientOK, Reaches
  <2> QED BY <2>1, <2>2, <2>3, <2>4 DEF PathOK
<1> QED BY <1>4, <1>6 DEF AccountOK

LEMMA WriteIs ==
    ASSUME StreamType, WriteLog
    PROVE  /\ UNCHANGED <<tail, events, wire, up, client>>
           /\ \/ log'.gen = log.gen /\ read' = read
              \/ log'.gen = log.gen + 1 /\ read' = {l \in read : Kept(l)}
<1>1. UNCHANGED <<tail, events, wire, up, client>>
      /\ read' = IF log'.gen = log.gen THEN read ELSE {l \in read : Kept(l)}
  BY DEF WriteLog
<1>2. log'.gen \in {log.gen, log.gen + 1}
  <2>1. CASE \E whole \in BOOLEAN : AppendLine(whole)
    BY <2>1 DEF AppendLine, StreamType
  <2>2. CASE EndLine
    BY <2>2 DEF EndLine, StreamType
  <2>3. CASE Truncate
    BY <2>3 DEF Truncate
  <2> QED BY <2>1, <2>2, <2>3 DEF WriteLog
<1>3. log.gen \in Nat
  BY DEF StreamType
<1> QED BY <1>1, <1>2, <1>3

(* Of a truncated log, all that was read and may still be told of is         *)
(* accounted for.                                                            *)
LEMMA WriteAccounts ==
    ASSUME StreamType, PhaseOK, GensOK, AccountOK, WriteLog
    PROVE  AccountOK'
<1>0. PICK X : ClientOK(X) /\ (up => \E Q, G : PathOK(X, Q, G))
  BY DEF AccountOK
<1>1. UNCHANGED <<tail, events, wire, up, client>>
  BY WriteIs
<1>2. CASE log'.gen = log.gen /\ read' = read
  <2>1. Due' = Due /\ Had(X)' = Had(X) /\ Place' = Place /\ Doomed' = Doomed
    BY <1>1, <1>2 DEF Due, Had, Place, Doomed
  <2>2. ClientOK(X)'
    BY <1>0, <1>1, <2>1 DEF ClientOK
  <2>3. ASSUME NEW Q, NEW G, PathOK(X, Q, G) PROVE PathOK(X, Q, G)'
    <3>1. Sent(X, G)' = Sent(X, G) /\ Made(X, Q, G)' = Made(X, Q, G) /\ All(X, Q, G)' = All(X, Q, G)
      BY <1>1, <2>1 DEF Sent, Made, All
    <3> QED BY <1>1, <1>2, <2>1, <2>3, <3>1 DEF PathOK
  <2> QED BY <1>0, <1>1, <2>2, <2>3 DEF AccountOK
<1>3. CASE log'.gen = log.gen + 1 /\ read' = {l \in read : Kept(l)}
  <2>0. /\ log.gen \in Nat /\ wire \in Seq(LineEvents \cup GapFrames)
        /\ events.items \in Seq(LineEvents \cup GapFrames)
        /\ tail.todo \in Seq(LineEvents \cup GapFrames)
        /\ client.pos \in Nat \X Nat /\ tail.gen \in Nat /\ tail.at \in Nat
    BY DEF StreamType
  <2>1. \A m \in Due' : m \in Due \/ (m[1] = log.gen + 1 /\ m[2] \in Nat)
    <3>1. Due' = read' \cup ({log.gen + 1} \X (Nat \ {0}))
      BY <1>3, <2>0 DEF Due
    <3> QED BY <1>3, <3>1 DEF Due
  <2>2. ASSUME NEW p, p[1] \in Nat, p[1] <= log.gen, NEW m \in Due' \ Due
        PROVE  ~AtMost(m, p)
    BY <2>0, <2>1, <2>2 DEF AtMost
  <2>3. Had(X)' = Had(X) /\ Place' = Place
    BY <1>1 DEF Had, Place
  <2>4. client.pos[1] \in Nat /\ client.pos[1] <= log.gen /\ Place[1] \in Nat /\ Place[1] <= log.gen
    BY <2>0 DEF GensOK, Place
  <2>5. ASSUME NEW B, NEW p, p[1] \in Nat, p[1] <= log.gen, Reaches(Due, B, p)
        PROVE  Reaches(Due', B, p)
    BY <2>2, <2>5 DEF Reaches
  <2>6. ClientOK(X)'
    BY <1>0, <1>1, <2>3, <2>4, <2>5 DEF ClientOK
  <2>7. ASSUME up, NEW Q, NEW G, PathOK(X, Q, G) PROVE PathOK(X, Q, G)'
    <3>1. Sent(X, G)' = Sent(X, G) /\ Made(X, Q, G)' = Made(X, Q, G) /\ All(X, Q, G)' = All(X, Q, G)
      BY <1>1, <2>3 DEF Sent, Made, All
    <3>2. \A p \in LinesOf(wire) \cup LinesOf(events.items) \cup LinesOf(tail.todo) :
             p[1] \in Nat /\ p[1] <= log.gen
      <4>1. LinesOf(wire) \cup LinesOf(events.items) \cup LinesOf(tail.todo) \subseteq Lines
        BY <2>0, LinesAre
      <4> QED BY <4>1, DueIs DEF GensOK
    <3>3. \A p \in LinesOf(wire) \cup LinesOf(events.items) \cup LinesOf(tail.todo) :
             \A m \in Due' \ Due : ~AtMost(m, p)
      BY <2>2, <3>2
    <3>4. Covers(Due', Had(X), wire, G)
      BY <2>7, <3>3, CoversMore DEF PathOK
    <3>5. Covers(Due', Sent(X, G) \cup Q, events.items, Own(events.items))
      BY <2>7, <3>3, CoversMore DEF PathOK
    <3>6. Covers(Due', Made(X, Q, G), tail.todo, Own(tail.todo))
      BY <2>7, <3>3, CoversMore DEF PathOK
    <3>7. Reaches(Due', All(X, Q, G), Place)
      BY <2>4, <2>5, <2>7 DEF PathOK
    <3>8. ASSUME NEW m \in read' PROVE m \in All(X, Q, G)
      <4>1. m \in Due /\ (AtMost(m, client.pos) \/ AtMost(m, Place))
        BY <1>3, DueIs DEF Kept, Place
      <4>2. Had(X) \subseteq All(X, Q, G)
        BY DEF All, Made, Sent
      <4> QED BY <1>0, <2>7, <4>1, <4>2 DEF ClientOK, PathOK, Reaches
    <3>9. Tells(wire, G) /\ IsFiniteSet(Q) /\ Cardinality(Q) <= events.dropped
      BY <2>7 DEF PathOK
    <3> QED BY <1>1, <2>3, <3>1, <3>4, <3>5, <3>6, <3>7, <3>8, <3>9 DEF PathOK
  <2> QED BY <1>0, <1>1, <2>6, <2>7 DEF AccountOK
<1> QED BY <1>2, <1>3, WriteIs

(* A reading: what is new is put, and what lies between the tail's place and  *)
(* the first of it is of a file that is gone, and accounted for.             *)
LEMMA ReadAccounts ==
    ASSUME StreamType, PhaseOK, GensOK, up /\ log.gen = 0 => Ordered,
           NEW X, NEW Q, NEW G, ClientOK(X), PathOK(X, Q, G), Read, ~lapse'
    PROVE  AccountOK'
<1> DEFINE new == {<<log.gen, n>> : n \in NewLines}
           A == All(X, Q, G)
<1>1. PICK found \in Findings :
         /\ tail'.todo = LogEvents \o found
         /\ tail'.at = (IF Count > tail.at THEN Count ELSE tail.at)
         /\ tail'.gen = (IF tail.at = 0 \/ Count > tail.at THEN log.gen ELSE tail.gen)
         /\ tail'.size = tail.size
  BY ReadIs
<1>2. /\ up /\ up' /\ tail.step = "read" /\ tail.todo = <<>> /\ tail.size # Unset
      /\ UNCHANGED <<log, events, wire, client>> /\ read' = read \cup new
      /\ ~(OtherFile /\ Count > tail.at)
  BY DEF Read, PhaseOK
<1>3. /\ log.gen \in Nat /\ Count \in Nat /\ tail.at \in Nat /\ tail.gen \in Nat /\ tail.gen <= log.gen
      /\ client.pos \in Nat \X Nat
      /\ NewLines = (tail.at + 1)..Count
  BY DEF StreamType, Count, NewLines, GensOK
<1>4. /\ Had(X)' = Had(X) /\ Sent(X, G)' = Sent(X, G) /\ Made(X, Q, G)' = Made(X, Q, G)
      /\ A = Made(X, Q, G)
  BY <1>2 DEF Had, Sent, Made, All, LogsOf
<1>5. \A m \in read : m[1] = log.gen \/ m \in A
  BY <1>2 DEF PathOK, Doomed
<1>6. Due' = Due \cup new
  BY <1>2, <1>3 DEF Due
<1>7. ASSUME NEW m \in Due', m \notin Due
      PROVE  log.gen = 0 /\ m[1] = 0 /\ m[2] \in Nat /\ m[2] > tail.at
  BY <1>3, <1>6, <1>7 DEF Due
(* What is newly due comes after all that is on its way. *)
<1>8. ASSUME NEW m \in Due', m \notin Due, NEW p, AtMost(p, Place), p[1] \in Nat, p[2] \in Nat
      PROVE  ~AtMost(m, p)
  <2>1. Place = <<0, tail.at>>
    BY <1>3, <1>7, <1>8 DEF Place
  <2> QED BY <1>3, <1>7, <1>8, <2>1 DEF AtMost
<1>9. \A m \in Due' \ Due : \A p \in InFlight({client.pos}) : ~AtMost(m, p)
  <2> SUFFICES ASSUME NEW m \in Due', m \notin Due, NEW p \in InFlight({client.pos})
               PROVE  ~AtMost(m, p)
    OBVIOUS
  <2>1. AtMost(p, Place)
    BY <1>2, <1>7 DEF Ordered
  <2>2. p[1] \in Nat /\ p[2] \in Nat
    <3>1. wire \in Seq(LineEvents \cup GapFrames) /\ events.items \in Seq(LineEvents \cup GapFrames)
      BY DEF StreamType
    <3>2. p = client.pos \/ p \in Lines
      BY <3>1, LinesAre DEF InFlight
    <3> QED BY <1>3, <3>2, DueIs
  <2> QED BY <1>8, <2>1, <2>2
(* What is due up to a new line is accounted for, or a new line itself.      *)
<1>10. ASSUME NEW n \in NewLines, NEW m \in Due', AtMost(m, <<log.gen, n>>)
       PROVE  m \in A \/ (m[1] = log.gen /\ m = <<log.gen, m[2]>> /\ m[2] \in NewLines /\ m[2] <= n)
  <2>0. m \in Lines /\ m[1] \in Nat /\ m[2] \in Nat \ {0} /\ m = <<m[1], m[2]>>
    <3>1. new \subseteq Lines
      BY <1>3 DEF Lines
    <3>2. m \in Lines
      BY <1>6, <3>1, DueIs
    <3> QED BY <3>2 DEF Lines
  <2>1. n \in Nat /\ n > tail.at /\ Count > tail.at /\ n <= Count
    BY <1>3
  <2>2. CASE m \in Due /\ m[1] # log.gen
    BY <1>5, <2>2, DueIs
  <2>3. CASE m[1] = log.gen /\ m[2] > tail.at
    BY <1>3, <1>10, <2>0, <2>1, <2>3 DEF AtMost
  <2>4. CASE m \in Due /\ m[1] = log.gen /\ m[2] <= tail.at
    <3>1. tail.gen = log.gen
      BY <1>2, <1>3, <2>0, <2>1, <2>4 DEF OtherFile
    <3>2. AtMost(m, Place)
      BY <1>3, <2>0, <2>4, <3>1 DEF AtMost, Place
    <3> QED BY <2>4, <3>2 DEF PathOK, Reaches
  <2> QED BY <1>3, <1>7, <2>0, <2>2, <2>3, <2>4
<1> DEFINE todo == LogEvents \o found
<1>n. PICK N : N = IF Count > tail.at THEN Count - tail.at ELSE 0
  OBVIOUS
<1>11. /\ N \in Nat /\ todo \in Seq(LineEvents) /\ Len(todo) \in {N, N + 1} /\ DOMAIN todo = 1..Len(todo)
       /\ \A i \in 1..N : todo[i] = Event("log", tail.at + i)
       /\ Len(todo) = N + 1 => N # 0 /\ todo[N + 1] = Event("finding", Count)
       /\ N = 0 => todo = <<>>
  BY <1>n, ReadFinds
<1>a. /\ \A k \in NewLines : k \in Nat /\ k - tail.at \in 1..N /\ tail.at + (k - tail.at) = k
      /\ \A i \in 1..N : tail.at + i \in NewLines /\ (tail.at + i) - tail.at = i
      /\ N # 0 => Count \in NewLines /\ Count - tail.at = N
  <2>1. CASE Count > tail.at
    <3>1. N = Count - tail.at /\ N \in Nat
      BY <1>3, <1>n, <2>1
    <3>2. ASSUME NEW k \in NewLines PROVE k \in Nat /\ k - tail.at \in 1..N /\ tail.at + (k - tail.at) = k
      <4>1. k \in Nat /\ k >= tail.at + 1 /\ k <= Count
        BY <1>3
      <4> QED BY <1>3, <3>1, <4>1
    <3>3. ASSUME NEW i \in 1..N PROVE tail.at + i \in NewLines /\ (tail.at + i) - tail.at = i
      <4>1. i \in Nat /\ i >= 1 /\ i <= N
        BY <3>1
      <4>2. tail.at + i \in (tail.at + 1)..Count
        BY <1>3, <3>1, <4>1
      <4> QED BY <1>3, <4>1, <4>2
    <3>4. Count \in NewLines
      BY <1>3, <2>1
    <3> QED BY <3>1, <3>2, <3>3, <3>4
  <2>2. CASE ~(Count > tail.at)
    BY <1>3, <1>n, <2>2
  <2> QED BY <2>1, <2>2
<1>b. /\ N \in Nat /\ \A k \in DOMAIN todo : k \in Nat /\ (k \in 1..N \/ (k = N + 1 /\ Len(todo) = N + 1))
      /\ \A k \in 1..N : k \in DOMAIN todo
  <2>1. N \in Nat /\ DOMAIN todo = 1..Len(todo) /\ (Len(todo) = N \/ Len(todo) = N + 1)
    BY <1>11
  <2> HIDE DEF todo
  <2>2. CASE Len(todo) = N
    BY <2>1, <2>2
  <2>3. CASE Len(todo) = N + 1
    <3>1. ASSUME NEW k \in DOMAIN todo PROVE k \in Nat /\ (k \in 1..N \/ k = N + 1)
      <4>1. k \in 1..N + 1
        BY <2>1, <2>3, Zenon
      <4>2. N \in Nat
        BY <2>1, Zenon
      <4> QED BY <4>1, <4>2
    <3>2. \A k \in 1..N : k \in DOMAIN todo
      BY <2>1, <2>3
    <3> QED BY <2>1, <2>3, <3>1, <3>2
  <2> QED BY <2>1, <2>2, <2>3, Zenon
<1>12. ASSUME NEW k \in NewLines
       PROVE  /\ k - tail.at \in 1..N /\ k - tail.at \in DOMAIN todo
              /\ Own(todo)[k - tail.at] = {<<log.gen, k>>}
  <2>1. k - tail.at \in 1..N /\ k - tail.at \in DOMAIN todo /\ tail.at + (k - tail.at) = k
    <3> HIDE DEF todo
    <3> QED BY <1>3, <1>a, <1>b
  <2>2. todo[k - tail.at] = Event("log", k)
    BY <1>11, <2>1
  <2> HIDE DEF todo
  <2> QED BY <2>1, <2>2 DEF Own, OwnOf, Event
<1>13. new \subseteq LogsOf(todo)
  <2> SUFFICES ASSUME NEW k \in NewLines PROVE <<log.gen, k>> \in LogsOf(todo)
    OBVIOUS
  <2> HIDE DEF todo
  <2>1. k - tail.at \in DOMAIN todo /\ Own(todo)[k - tail.at] = {<<log.gen, k>>}
    BY <1>12
  <2>2. OwnOf(todo[k - tail.at]) = {<<log.gen, k>>}
    BY <2>1 DEF Own
  <2>3. todo[k - tail.at].kind = "log" /\ todo[k - tail.at].line = <<log.gen, k>>
    BY <2>2 DEF OwnOf
  <2> QED BY <2>1, <2>3, InLogs
<1>14. Covers(Due', Made(X, Q, G), todo, Own(todo))
  <2> SUFFICES ASSUME NEW k \in DOMAIN todo, NEW m \in Due', AtMost(m, todo[k].line)
               PROVE  m \in A \/ \E j \in 1..k : m \in Own(todo)[j]
    BY <1>4 DEF Covers
  <2>1. PICK n \in NewLines : todo[k].line = <<log.gen, n>> /\ n - tail.at <= k
    <3>1. CASE k \in 1..N
      <4>1. tail.at + k \in NewLines /\ (tail.at + k) - tail.at = k /\ todo[k] = Event("log", tail.at + k)
        BY <1>11, <1>a, <3>1
      <4> HIDE DEF todo
      <4>2. todo[k].line = <<log.gen, tail.at + k>>
        BY <4>1 DEF Event
      <4> QED BY <1>3, <1>b, <3>1, <4>1, <4>2
    <3>2. CASE k = N + 1 /\ Len(todo) = N + 1
      <4>1. Count \in NewLines /\ Count - tail.at <= k /\ todo[k] = Event("finding", Count)
        <5> HIDE DEF todo
        <5> QED BY <1>3, <1>11, <1>a, <3>2
      <4> HIDE DEF todo
      <4> QED BY <4>1 DEF Event
    <3> HIDE DEF todo
    <3>3. k \in 1..N \/ (k = N + 1 /\ Len(todo) = N + 1)
      BY <1>b
    <3> QED BY <3>1, <3>2, <3>3
  <2>2. CASE m = <<log.gen, m[2]>> /\ m[2] \in NewLines /\ m[2] <= n
    <3>1. m[2] - tail.at \in 1..k
      <4> HIDE DEF todo
      <4>1. k \in Nat /\ n \in Nat
        BY <1>3, <1>b
      <4> QED BY <1>3, <1>a, <2>1, <2>2, <4>1
    <3> HIDE DEF todo
    <3> QED BY <1>12, <2>2, <3>1
  <2> QED BY <1>10, <2>1, <2>2
<1>15. All(X, Q, G)' = A \cup LogsOf(todo)
  BY <1>1, <1>4 DEF All
<1>16. Reaches(Due', All(X, Q, G)', Place')
  <2>1. CASE Count > tail.at
    <3>1. Place' = <<log.gen, Count>> /\ Count \in NewLines
      BY <1>1, <1>3, <2>1 DEF Place
    <3>2. ASSUME NEW m \in Due', AtMost(m, Place') PROVE m \in A \cup LogsOf(todo)
      <4>1. m \in A \/ m \in new
        BY <1>10, <3>1, <3>2
      <4> QED BY <1>13, <4>1
    <3> QED BY <1>15, <3>2 DEF Reaches
  <2>2. CASE ~(Count > tail.at)
    <3>1. Due' = Due
      BY <1>3, <1>6, <2>2
    <3>2. CASE tail.at = 0
      <4>1. Place' = <<log.gen, 0>>
        BY <1>1, <2>2, <3>2 DEF Place
      <4>2. ASSUME NEW m \in Due, AtMost(m, Place') PROVE m \in A
        <5>1. m[1] \in Nat /\ m[2] \in Nat \ {0}
          BY DueIs
        <5>2. m[1] # log.gen
          BY <1>3, <4>1, <4>2, <5>1 DEF AtMost
        <5> QED BY <1>5, <5>2, DueIs
      <4> QED BY <1>15, <3>1, <4>2 DEF Reaches
    <3>3. CASE tail.at # 0
      <4>1. Place' = Place
        BY <1>1, <2>2, <3>3 DEF Place
      <4> QED BY <1>15, <3>1, <4>1 DEF PathOK, Reaches
    <3> QED BY <3>2, <3>3
  <2> QED BY <2>1, <2>2
<1>17. ClientOK(X)'
  <2>1. client.pos \in InFlight({client.pos})
    BY DEF InFlight
  <2> QED BY <1>2, <1>4, <1>9, <2>1 DEF ClientOK, Reaches
<1>18. PathOK(X, Q, G)'
  <2>1. LinesOf(wire) \subseteq InFlight({client.pos}) /\ LinesOf(events.items) \subseteq InFlight({client.pos})
    BY DEF InFlight
  <2>2. Covers(Due', Had(X), wire, G)
    BY <1>9, <2>1, CoversMore DEF PathOK
  <2>3. Covers(Due', Sent(X, G) \cup Q, events.items, Own(events.items))
    BY <1>9, <2>1, CoversMore DEF PathOK
  <2>4. \A m \in read' : m[1] = log.gen \/ m \in All(X, Q, G)'
    BY <1>2, <1>5, <1>13, <1>15
  <2>5. Tells(wire, G) /\ IsFiniteSet(Q) /\ Cardinality(Q) <= events.dropped
    BY DEF PathOK
  <2> HIDE DEF todo
  <2> QED BY <1>1, <1>2, <1>4, <1>14, <1>16, <2>2, <2>3, <2>4, <2>5 DEF PathOK, todo
<1> QED BY <1>2, <1>17, <1>18 DEF AccountOK

-----------------------------------------------------------------------------
(* The order, while the log is the one the stream began with. *)
LEMMA FirstOf ==
    ASSUME NEW T, NEW E \in Seq(T), E # <<>>, NEW P, Sorted(P, E), E[1].kind = "log"
    PROVE  \A p \in P : ~AtMost(E[1].line, p)
  BY Shorter DEF Sorted

LEMMA OrderReceive ==
    ASSUME StreamType, Ordered, Receive
    PROVE  Ordered'
<1> DEFINE f == wire[1]
<1>0. /\ UNCHANGED <<tail, events>> /\ wire' = Tail(wire) /\ wire # <<>>
      /\ wire \in Seq(LineEvents \cup GapFrames) /\ LinesOf(wire') \subseteq LinesOf(wire)
      /\ {client'.pos} \subseteq {client.pos} \cup (IF f.kind = "gap" THEN {} ELSE {f.line})
      /\ {client'.pos} \subseteq {client.pos} \cup LinesOf(wire)
  BY ReceiveMoves DEF Receive, StreamType
<1>1. Sorted({client'.pos}, wire')
  <2>1. Sorted({client.pos}, wire)
    BY DEF Ordered
  <2> HIDE DEF f
  <2> QED BY <1>0, <2>1, SortedTail DEF f
<1>2. /\ {client'.pos} \cup LinesOf(wire') \subseteq {client.pos} \cup LinesOf(wire)
      /\ InFlight({client.pos})' \subseteq InFlight({client.pos})
  BY <1>0 DEF InFlight
<1>3. Sorted({client'.pos} \cup LinesOf(wire'), events.items)
  BY <1>2, SortedLess DEF Ordered
<1>4. Sorted(InFlight({client.pos})', tail.todo)
  BY <1>2, SortedLess DEF Ordered
<1>5. Place' = Place
  BY <1>0 DEF Place
<1> QED BY <1>0, <1>1, <1>2, <1>3, <1>4, <1>5 DEF Ordered

LEMMA OrderSend ==
    ASSUME StreamType, Ordered, Send
    PROVE  Ordered'
<1> DEFINE e == events.items[1]
           gap == Gap(events.dropped)
           T == LineEvents \cup GapFrames
           W == IF events.dropped > 0 THEN Append(wire, gap) ELSE wire
           P == {client.pos}
<1>0. /\ wire \in Seq(T) /\ e \in LineEvents /\ e.kind # "gap" /\ gap \in GapFrames /\ gap.kind = "gap"
      /\ events.items \in Seq(LineEvents) /\ events.items # <<>> /\ events'.items = Tail(events.items)
      /\ LinesOf(wire') = LinesOf(wire) \cup {e.line}
      /\ LinesOf(events.items) = {e.line} \cup LinesOf(events'.items)
      /\ UNCHANGED <<tail, client>>
  BY SendMoves DEF StreamType, Gap, Send
<1>1. W \in Seq(T) /\ wire' = Append(W, e) /\ Sorted(P, W) /\ LinesOf(W) = LinesOf(wire)
  <2>1. Sorted(P, wire)
    BY DEF Ordered
  <2>2. CASE events.dropped > 0
    <3>1. gap \in T /\ Append(wire, gap) \in Seq(T) /\ gap.kind = "gap"
      BY <1>0
    <3> HIDE DEF gap, T, P
    <3>2. Sorted(P, Append(wire, gap))
      BY <1>0, <2>1, <3>1, SortedAppend
    <3>3. LinesOf(Append(wire, gap)) = LinesOf(wire)
      BY <1>0, <3>1, GapGoesOn
    <3>4. W = Append(wire, gap)
      BY <2>2
    <3>5. wire' = Append(Append(wire, gap), e)
      BY <2>2, SendMoves DEF gap
    <3> QED BY <3>1, <3>2, <3>3, <3>4, <3>5
  <2>3. CASE ~(events.dropped > 0)
    BY <1>0, <2>1, <2>3, SendMoves
  <2> QED BY <2>2, <2>3
<1>2. Sorted(P, wire')
  <2>1. Sorted(P \cup LinesOf(wire), events.items)
    BY DEF Ordered
  <2>2. e.kind = "log" => \A p \in P \cup LinesOf(W) : ~AtMost(e.line, p)
    BY <1>0, <1>1, <2>1, FirstOf
  <2>3. e \in T
    BY <1>0
  <2> HIDE DEF e, T, W, P
  <2> QED BY <1>1, <2>2, <2>3, SortedAppend
<1>3. Sorted(P \cup LinesOf(wire'), events'.items)
  <2>1. Sorted(P \cup LinesOf(wire), events.items)
    BY DEF Ordered
  <2>2. P \cup LinesOf(wire') \subseteq (P \cup LinesOf(wire)) \cup (IF e.kind = "gap" THEN {} ELSE {e.line})
    BY <1>0
  <2> HIDE DEF P
  <2> QED BY <1>0, <2>1, <2>2, SortedTail
<1>4. InFlight(P)' = InFlight(P) /\ Place' = Place
  BY <1>0 DEF InFlight, Place
<1> QED BY <1>0, <1>2, <1>3, <1>4 DEF Ordered

LEMMA OrderPut ==
    ASSUME StreamType, Ordered, PutNext
    PROVE  Ordered'
<1>1. UNCHANGED <<wire, client>>
  BY DEF PutNext
<1>2. CASE tail.todo = <<>>
  <2>1. tail'.gen = tail.gen /\ tail'.at = tail.at /\ tail'.todo = tail.todo /\ UNCHANGED events
    BY <1>2 DEF PutNext, StreamType
  <2>2. Place' = Place /\ InFlight({client.pos})' = InFlight({client.pos})
    BY <1>1, <2>1 DEF Place, InFlight
  <2> QED BY <1>1, <2>1, <2>2 DEF Ordered
<1>3. CASE tail.todo # <<>>
  <2> DEFINE e == tail.todo[1]
             P == {client.pos} \cup LinesOf(wire)
  <2>0. /\ e \in LineEvents /\ e.kind # "gap" /\ tail'.todo = Tail(tail.todo)
        /\ tail'.at = tail.at /\ tail'.gen = tail.gen
        /\ events.items \in Seq(LineEvents) /\ tail.todo \in Seq(LineEvents)
    BY <1>3, PutMoves DEF StreamType, LineEvents
  <2>1. LinesOf(tail.todo) = {e.line} \cup LinesOf(tail'.todo)
    BY <1>3, <2>0, OwnOfTail
  <2>2. Sorted(P, events.items) /\ Sorted(P \cup LinesOf(events.items), tail.todo)
    BY DEF Ordered, InFlight
  <2>3. PICK F : /\ F \in Seq(LineEvents) /\ events'.items = Append(F, e) /\ Sorted(P, F)
                 /\ LinesOf(F) \subseteq LinesOf(events.items)
    <3>1. CASE events'.items = Append(events.items, e)
      BY <2>0, <2>2, <3>1
    <3>2. CASE events.items # <<>> /\ events'.items = Append(Tail(events.items), e)
      <4>1. Tail(events.items) \in Seq(LineEvents) /\ LinesOf(Tail(events.items)) \subseteq LinesOf(events.items)
        BY <2>0, <3>2, Shorter, OwnOfTail
      <4>2. Sorted(P, Tail(events.items))
        <5> HIDE DEF P
        <5>1. P \subseteq P \cup (IF events.items[1].kind = "gap" THEN {} ELSE {events.items[1].line})
          OBVIOUS
        <5> QED BY <2>0, <2>2, <3>2, <5>1, SortedTail
      <4> QED BY <3>2, <4>1, <4>2
    <3> QED BY <1>3, <3>1, <3>2, PutMoves
  <2>4. Sorted(P, events'.items)
    <3>1. e.kind = "log" => \A p \in P \cup LinesOf(F) : ~AtMost(e.line, p)
      BY <1>3, <2>0, <2>2, <2>3, FirstOf
    <3> HIDE DEF e, P
    <3> QED BY <2>0, <2>3, <3>1, SortedAppend
  <2>5. LinesOf(events'.items) = LinesOf(F) \cup {e.line}
    <3> HIDE DEF e
    <3> QED BY <2>0, <2>3, EventGoesOn
  <2>6. Sorted(P \cup LinesOf(events'.items), tail'.todo)
    <3> DEFINE R == P \cup LinesOf(events'.items)
               S == P \cup LinesOf(events.items)
    <3>1. R \subseteq S \cup (IF e.kind = "gap" THEN {} ELSE {e.line})
      BY <2>0, <2>3, <2>5
    <3>2. Sorted(S, tail.todo)
      BY <2>2
    <3> HIDE DEF R, S
    <3>3. Sorted(R, Tail(tail.todo))
      BY <1>3, <2>0, <3>1, <3>2, SortedTail
    <3> QED BY <2>0, <3>3 DEF R
  <2>7. Place' = Place
    BY <2>0 DEF Place
  <2>8. \A p \in P \cup LinesOf(events'.items) \cup LinesOf(tail'.todo) : AtMost(p, Place)
    BY <2>1, <2>3, <2>5 DEF Ordered, InFlight
  <2>9. Sorted({client.pos}, wire)
    BY DEF Ordered
  <2> QED BY <1>1, <2>4, <2>6, <2>7, <2>8, <2>9 DEF Ordered, InFlight
<1> QED BY <1>2, <1>3

LEMMA OrderRead ==
    ASSUME StreamType, PhaseOK, GensOK, Ordered, log.gen = 0, Read
    PROVE  Ordered'
<1> DEFINE P == InFlight({client.pos})
           todo == tail'.todo
<1>1. PICK found \in Findings :
         /\ tail'.todo = LogEvents \o found
         /\ tail'.at = (IF Count > tail.at THEN Count ELSE tail.at)
         /\ tail'.gen = (IF tail.at = 0 \/ Count > tail.at THEN log.gen ELSE tail.gen)
  BY ReadIs
<1>2. UNCHANGED <<events, wire, client>>
  BY DEF Read
<1>3. /\ log.gen = 0 /\ Count \in Nat /\ tail.at \in Nat /\ tail.gen = 0 /\ tail'.gen = 0
      /\ tail'.at \in Nat
  BY <1>1 DEF StreamType, Count, GensOK
<1>4. PICK N : N = IF Count > tail.at THEN Count - tail.at ELSE 0
  OBVIOUS
<1>5. /\ N \in Nat /\ todo \in Seq(LineEvents) /\ Len(todo) \in {N, N + 1} /\ DOMAIN todo = 1..Len(todo)
      /\ \A i \in 1..N : todo[i] = Event("log", tail.at + i)
      /\ Len(todo) = N + 1 => N # 0 /\ todo[N + 1] = Event("finding", Count)
  BY <1>1, <1>4, ReadFinds
<1> HIDE DEF todo
<1>6. N \in Nat /\ \A k \in DOMAIN todo :
         /\ k \in 1..N \/ (k = N + 1 /\ Len(todo) = N + 1)
         /\ k \in Nat /\ k >= 1
  <2>1. N \in Nat
    BY <1>5, Zenon
  <2>2. DOMAIN todo \subseteq 1..N + 1 /\ (N + 1 \in DOMAIN todo => Len(todo) = N + 1)
    <3>1. CASE Len(todo) = N
      BY <1>5, <3>1
    <3>2. CASE Len(todo) = N + 1
      BY <1>5, <3>2
    <3> QED BY <1>5, <3>1, <3>2, Zenon
  <2>3. \A k \in 1..N + 1 : (k \in 1..N \/ k = N + 1) /\ k \in Nat /\ k >= 1
    BY <2>1
  <2> QED BY <2>1, <2>2, <2>3, Zenon
<1>7. \A k \in DOMAIN todo :
         \/ k \in 1..N /\ todo[k].kind = "log" /\ todo[k].line = <<0, tail.at + k>>
         \/ k = N + 1 /\ N # 0 /\ todo[k].kind = "finding" /\ todo[k].line = <<0, Count>>
  <2> SUFFICES ASSUME NEW k \in DOMAIN todo
               PROVE  \/ k \in 1..N /\ todo[k].kind = "log" /\ todo[k].line = <<0, tail.at + k>>
                      \/ k = N + 1 /\ N # 0 /\ todo[k].kind = "finding" /\ todo[k].line = <<0, Count>>
    OBVIOUS
  <2>1. CASE k \in 1..N
    <3>1. todo[k] = Event("log", tail.at + k)
      BY <1>5, <2>1, Zenon
    <3> QED BY <1>3, <2>1, <3>1 DEF Event
  <2>2. CASE k = N + 1 /\ Len(todo) = N + 1
    <3>1. N # 0 /\ todo[k] = Event("finding", Count)
      BY <1>5, <2>2
    <3> QED BY <1>3, <2>2, <3>1 DEF Event
  <2> QED BY <1>6, <2>1, <2>2
<1>8. N # 0 => Count = tail.at + N /\ tail'.at = Count
  BY <1>1, <1>3, <1>4
<1>9. /\ Place = <<0, tail.at>> /\ Place' = <<0, tail'.at>> /\ tail'.at >= tail.at
  BY <1>1, <1>3 DEF Place
<1>10. \A p \in P : p[1] \in Nat /\ p[2] \in Nat /\ AtMost(p, Place)
  <2>1. wire \in Seq(LineEvents \cup GapFrames) /\ events.items \in Seq(LineEvents \cup GapFrames)
        /\ client.pos \in Nat \X Nat
    BY DEF StreamType
  <2>2. \A p \in P : p = client.pos \/ p \in Lines
    BY <2>1, LinesAre DEF InFlight
  <2> QED BY <2>1, <2>2, DueIs DEF Ordered
<1>11. Sorted(P, todo)
  <2> SUFFICES ASSUME NEW k \in DOMAIN todo, todo[k].kind = "log"
               PROVE  /\ \A p \in P : ~AtMost(todo[k].line, p)
                      /\ \A j \in 1..k - 1 : todo[j].kind # "gap" => ~AtMost(todo[k].line, todo[j].line)
    BY DEF Sorted
  <2>1. k \in 1..N /\ todo[k].line = <<0, tail.at + k>> /\ k \in Nat /\ k >= 1
    BY <1>6, <1>7
  <2>2. ASSUME NEW p \in P PROVE ~AtMost(todo[k].line, p)
    <3>1. p[1] \in Nat /\ p[2] \in Nat /\ AtMost(p, <<0, tail.at>>)
      BY <1>9, <1>10
    <3>2. p[1] = 0 /\ p[2] <= tail.at
      BY <1>3, <3>1 DEF AtMost
    <3> QED BY <1>3, <2>1, <3>1, <3>2 DEF AtMost
  <2>3. ASSUME NEW j \in 1..k - 1 PROVE ~AtMost(todo[k].line, todo[j].line)
    <3>1. j \in 1..N /\ j \in Nat /\ j < k
      BY <1>6, <2>1
    <3>2. todo[j].line = <<0, tail.at + j>>
      <4>1. todo[j] = Event("log", tail.at + j)
        BY <1>5, <3>1
      <4> QED BY <1>3, <4>1 DEF Event
    <3> QED BY <1>3, <2>1, <3>1, <3>2 DEF AtMost
  <2> QED BY <2>2, <2>3
<1>12. ASSUME NEW p \in P \cup LinesOf(todo) PROVE AtMost(p, Place')
  <2>1. CASE p \in P
    <3>1. p[1] \in Nat /\ p[2] \in Nat /\ AtMost(p, <<0, tail.at>>)
      BY <1>9, <1>10, <2>1
    <3> QED BY <1>3, <1>9, <3>1 DEF AtMost
  <2>2. CASE p \in LinesOf(todo)
    <3>1. PICK k \in DOMAIN todo : p = todo[k].line
      BY <2>2, InLogs
    <3>2. N # 0 /\ \E n \in Nat : p = <<0, n>> /\ n <= Count
      <4>1. CASE k \in 1..N /\ todo[k].line = <<0, tail.at + k>>
        <5>1. N # 0 /\ tail.at + k \in Nat /\ tail.at + k <= Count
          BY <1>3, <1>6, <1>8, <4>1
        <5> QED BY <3>1, <4>1, <5>1
      <4>2. CASE N # 0 /\ todo[k].line = <<0, Count>>
        BY <1>3, <3>1, <4>2
      <4> QED BY <1>7, <4>1, <4>2
    <3> QED BY <1>3, <1>8, <1>9, <3>2 DEF AtMost
  <2> QED BY <2>1, <2>2
<1>13. InFlight({client.pos})' = P
  BY <1>2 DEF InFlight
<1> QED BY <1>2, <1>11, <1>12, <1>13 DEF Ordered, todo

LEMMA OrderStep ==
    ASSUME StreamType, PhaseOK, GensOK, up /\ log.gen = 0 => Ordered,
           [StreamNext]_streamVars, ~lapse', up', log'.gen = 0
    PROVE  Ordered'
<1>1. CASE UNCHANGED streamVars
  BY <1>1 DEF streamVars, Ordered, InFlight, Place
<1>2. CASE Lost
  BY <1>2 DEF Lost
<1>3. CASE Reconnect
  <2>1. /\ wire' = <<>> /\ tail'.todo = <<>> /\ events'.items = <<>> /\ Place' = client'.pos
        /\ client'.pos \in Nat \X Nat
    BY <1>3, ReconnectAt DEF NoQueue, StreamType
  <2>2. LinesOf(<<>>) = {} /\ AtMost(client'.pos, client'.pos)
    BY <2>1 DEF LinesOf, AtMost
  <2> QED BY <2>1, <2>2 DEF Ordered, InFlight, Sorted
<1>4. CASE WriteLog
  <2>1. log.gen = 0 /\ UNCHANGED <<tail, events, wire, up, client>>
    <3>1. log.gen \in Nat
      BY DEF StreamType
    <3>2. log'.gen = log.gen \/ log'.gen = log.gen + 1
      BY <1>4, WriteIs
    <3>3. log.gen = 0
      BY <3>1, <3>2
    <3> QED BY <1>4, <3>3, WriteIs
  <2> QED BY <2>1 DEF Ordered, InFlight, Place
<1>5. CASE Stat
  <2>1. log.gen = 0 /\ UNCHANGED <<log, events, wire, up, client>>
    BY <1>5 DEF Stat
  <2>2. ~Shrunk
    <3>1. tail.size \in Int \cup {Unset} /\ Size \in Int
      BY DEF StreamType, Size, Count
    <3> QED BY <2>1, <3>1 DEF Shrunk, PhaseOK
  <2>3. tail'.todo = tail.todo /\ Place' = Place
    BY <1>5, <2>2 DEF Stat, StartsOver, StreamType, Place
  <2> QED BY <2>1, <2>3 DEF Ordered, InFlight
<1>6. CASE Read
  BY <1>6, OrderRead DEF Read
<1>7. CASE PutNext
  BY <1>7, OrderPut DEF PutNext
<1>8. CASE Send
  BY <1>8, OrderSend DEF Send
<1>9. CASE Receive
  BY <1>9, OrderReceive DEF Receive
<1> QED BY TailSteps, <1>1, <1>2, <1>3, <1>4, <1>5, <1>6, <1>7, <1>8, <1>9

-----------------------------------------------------------------------------
LEMMA AccountStep ==
    ASSUME StreamType, PhaseOK, GensOK, AccountOK, up /\ log.gen = 0 => Ordered,
           [StreamNext]_streamVars, ~lapse'
    PROVE  AccountOK'
<1>1. CASE UNCHANGED streamVars
  <2>1. /\ UNCHANGED <<log, tail, events, wire, up, client, read, lapse>>
    BY <1>1 DEF streamVars
  <2>2. /\ Due' = Due /\ Place' = Place /\ Doomed' = Doomed
    BY <2>1 DEF Due, Place, Doomed
  <2>3. ASSUME NEW X, ClientOK(X) PROVE ClientOK(X)'
    BY <2>1, <2>2, <2>3 DEF ClientOK, Had
  <2>4. ASSUME NEW X, NEW Q, NEW G, PathOK(X, Q, G) PROVE PathOK(X, Q, G)'
    <3>1. /\ Had(X)' = Had(X) /\ Sent(X, G)' = Sent(X, G)
          /\ Made(X, Q, G)' = Made(X, Q, G) /\ All(X, Q, G)' = All(X, Q, G)
      BY <2>1 DEF Had, Sent, Made, All
    <3> QED BY <2>1, <2>2, <2>4, <3>1 DEF PathOK
  <2> QED BY <2>1, <2>3, <2>4 DEF AccountOK
<1>2. CASE Lost
  BY <1>2, LostAccounts
<1>3. CASE Reconnect
  BY <1>3, ReconnectAccounts
<1>4. CASE WriteLog
  BY <1>4, WriteAccounts
<1>5. CASE Stat \/ Read \/ PutNext \/ Send \/ Receive
  <2>1. up
    BY <1>5 DEF Stat, Read, PutNext, Send, Receive
  <2>2. PICK X, Q, G : ClientOK(X) /\ PathOK(X, Q, G)
    BY <2>1 DEF AccountOK
  <2>3. CASE Stat
    BY <2>2, <2>3, StatAccounts
  <2>4. CASE Read
    BY <2>2, <2>4, ReadAccounts
  <2>5. CASE PutNext
    BY <2>2, <2>5, PutAccounts
  <2>6. CASE Send
    BY <2>2, <2>6, SendAccounts
  <2>7. CASE Receive
    BY <2>2, <2>7, ReceiveAccounts
  <2> QED BY <1>5, <2>3, <2>4, <2>5, <2>6, <2>7
<1> QED BY TailSteps, <1>1, <1>2, <1>3, <1>4, <1>5

LEMMA StreamStart ==
    StreamInit => StreamInv
<1> SUFFICES ASSUME StreamInit PROVE StreamInv
  OBVIOUS
<1>1. StreamType /\ PhaseOK /\ GensOK
  BY StreamTypeInit
<1>2. /\ log.gen = 0 /\ tail.gen = 0 /\ tail.at = Count /\ tail.todo = <<>> /\ events = NoQueue
      /\ wire = <<>> /\ client.pos = <<0, Count>> /\ client.gaps = 0 /\ read = {} /\ Count \in Nat
  BY DEF StreamInit, TailFrom, Count
<1>3. Due = {}
  BY <1>2 DEF Due
<1>4. ClientOK({})
  BY <1>2, <1>3, FS_EmptySet DEF ClientOK, Reaches
<1>5. PathOK({}, {}, <<>>)
  BY <1>2, <1>3, FS_EmptySet DEF PathOK, Tells, Covers, Reaches, NoQueue
<1>6. Ordered
  <2>1. LinesOf(<<>>) = {} /\ AtMost(client.pos, Place)
    BY <1>2 DEF LinesOf, AtMost, Place
  <2> QED BY <1>2, <2>1 DEF Ordered, InFlight, Sorted, NoQueue
<1> QED BY <1>1, <1>4, <1>5, <1>6 DEF StreamInv, AccountOK

LEMMA StreamStep ==
    StreamInv /\ [StreamNext]_streamVars => StreamInv'
<1> SUFFICES ASSUME StreamInv, [StreamNext]_streamVars PROVE StreamInv'
  OBVIOUS
<1>1. StreamType /\ PhaseOK /\ GensOK
  BY DEF StreamInv
<1>2. StreamType' /\ PhaseOK' /\ GensOK'
  BY <1>1, StreamTypeStep, PhaseStep, GensStep
<1>3. ASSUME ~lapse'
      PROVE  AccountOK' /\ (up' /\ log'.gen = 0 => Ordered')
  <2>1. ~lapse
    BY <1>3 DEF StreamNext, streamVars
  <2>2. AccountOK /\ (up /\ log.gen = 0 => Ordered)
    BY <2>1 DEF StreamInv
  <2> QED BY <1>1, <1>3, <2>2, AccountStep, OrderStep
<1> QED BY <1>2, <1>3 DEF StreamInv

(* What the client came past without receiving it is among what it was told. *)
LEMMA NoHoles ==
    StreamInv => NoSilentHole
<1> DEFINE hole == {l \in read : AtMost(l, client.pos)} \ client.seen
<1> SUFFICES ASSUME StreamInv, ~lapse PROVE Cardinality(hole) <= client.gaps
  BY DEF NoSilentHole
<1>1. PICK X : ClientOK(X)
  BY DEF StreamInv, AccountOK
<1>2. hole \subseteq X
  BY <1>1 DEF ClientOK, Reaches, Due, Had
<1>3. IsFiniteSet(X) /\ Cardinality(X) <= client.gaps /\ client.gaps \in Nat
  BY <1>1 DEF ClientOK, StreamInv, StreamType
<1>4. IsFiniteSet(hole) /\ Cardinality(hole) <= Cardinality(X)
  BY <1>2, <1>3, FS_Subset
<1> HIDE DEF hole
<1> QED BY <1>3, <1>4, FS_CardinalityType

LEMMA OnlyOnwards ==
    ASSUME StreamInv, StreamNext, log.gen = 0, NEW l \in client'.seen \ client.seen
    PROVE  ~AtMost(l, client.pos)
<1>1. StreamType /\ ~lapse
  BY DEF StreamInv, StreamNext
<1>2. Receive
  BY TailSteps DEF Lost, Reconnect, WriteLog, Stat, Read, PutNext, Send
<1>3. up /\ Ordered
  BY <1>1, <1>2 DEF StreamInv, Receive
<1>4. wire[1].kind = "log" /\ l = wire[1].line /\ wire # <<>>
  BY <1>1, <1>2, ReceiveMoves DEF OwnOf
<1>5. Sorted({client.pos}, wire) /\ wire \in Seq(LineEvents \cup GapFrames)
  BY <1>1, <1>3 DEF Ordered, StreamType
<1> QED BY <1>4, <1>5, FirstOf

(* "resume after that line, no replay", and "a silent drop would fake a quiet *)
(* log": for queues and connections of any size, however often it breaks and  *)
(* is resumed and the log is truncated, the client comes past no line in      *)
(* silence, and to none of the first log twice.                              *)
THEOREM StreamsResumeExactly ==
    StreamSpec => ResumesExactly
<1>1. StreamInv /\ StreamInv' /\ [StreamNext]_streamVars =>
        [/\ NoSilentHole'
         /\ log.gen = 0 =>
               \A l \in client'.seen \ client.seen : ~AtMost(l, client.pos)]_streamVars
  <2> SUFFICES ASSUME StreamInv, StreamInv', StreamNext
               PROVE  /\ NoSilentHole'
                      /\ log.gen = 0 =>
                            \A l \in client'.seen \ client.seen : ~AtMost(l, client.pos)
    OBVIOUS
  <2>1. NoSilentHole'
    BY NoHoles, PTL
  <2> QED BY <2>1, OnlyOnwards
<1> QED BY <1>1, StreamStart, StreamStep, PTL DEF StreamSpec, ResumesExactly
=============================================================================
