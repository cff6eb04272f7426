-------------------------- MODULE AuditChainProofs --------------------------
(***************************************************************************)
(* The ledger theorems, for any number of appenders, faults and lines.     *)
(*                                                                         *)
(* FlockInv says what flock protects: whoever is about to write holds the  *)
(* hash of the line that is last, which can be read; so a line is added    *)
(* behind an intact one, or, when the last line lacks its newline,         *)
(* destroys that line and itself and nothing else.                         *)
(*                                                                         *)
(* The fallback lock protects none of this, and the index is true all the  *)
(* same: where a ledger verifies, a hash is as long as its line's number,  *)
(* so a line written behind another than its writer read breaks the chain, *)
(* and nothing repairs it.                                                 *)
(***************************************************************************)
EXTENDS AuditChain, TLAPS, WellFoundedInduction

(* A last line that no appender can chain off. *)
TailNoise == chain # <<>> /\ chain[Len(chain)].form = "noise"
TailHash == IF chain = <<>> THEN Genesis ELSE chain[Len(chain)].hash

(* The calls that have written their line and mean to acknowledge it. *)
Written == {w \in Appends :
               \/ pc[w] \in {"index", "done"}
               \/ pc[w] = "unlock" /\ result[w] = "indexed"}
Gone == {w \in Written : ~Kept(w)}

(* A row that IndexTrue accepts. *)
RowTrue(n, hash) == Intact(chain) => n < Len(chain) /\ chain[n + 1].hash = hash

MutexOK == \A v, w \in Appends : pc[v] \in Inside /\ pc[w] \in Inside => v = w
CountsOK == \A w \in Appends : pc[w] = "write" /\ Intact(chain) => Len(tail[w]) = seq[w]
TailOK ==
    damages = 0 =>
        \A w \in Appends : pc[w] = "write" => ~TailNoise /\ tail[w] = TailHash
EndedOK == ~ended => chain # <<>>
HashesOK ==
    \A i \in DOMAIN chain :
        chain[i].form = "entry" =>
            \E b \in Appends : chain[i].hash = Hash(chain[i].prev, b)
RowsOK ==
    /\ \A row \in index : RowTrue(row.seq, row.hash)
    /\ \A w \in Written : RowTrue(seq[w], Hash(tail[w], w))
    /\ rebuild.at = "read" =>
          \A i \in DOMAIN rebuild.entries : RowTrue(i - 1, rebuild.entries[i].hash)
GoneOK ==
    damages = 0 /\ Gone # {} =>
        TailNoise /\ \E v, w \in Appends : Gone \subseteq {v, w}

FlockInv == MutexOK /\ TailOK /\ IntactButTail /\ GoneOK

IInv == TypeOK /\ EndedOK /\ HashesOK /\ CountsOK /\ RowsOK /\ (fcntl => FlockInv)

-----------------------------------------------------------------------------
(* The kinds of step, as the ledger sees them. *)
WriteStep(w) ==
    /\ pc[w] = "write"
    /\ \E extent \in Extents : Write(w, extent)
    /\ UNCHANGED <<fcntl, tail, seq, index, rebuild, damages>>
    /\ \/ Goto(w, "unlock") /\ UNCHANGED result
       \/ Goto(w, "unlock") /\ result' = [result EXCEPT ![w] = "failed"]
       \/ Goto(w, "killed") /\ UNCHANGED result

QuietStep == UNCHANGED <<fcntl, chain, ended, damages>>

LEMMA StepKinds ==
    ASSUME [Next]_vars
    PROVE  \/ QuietStep
           \/ \E w \in Appends : WriteStep(w)
           \/ \E i \in 1..Cardinality(Appends) : Damage(i)
<1>1. CASE UNCHANGED vars
  BY <1>1 DEF vars, QuietStep
<1>2. CASE \E w \in Appends : Step(w)
  <2>1. PICK w \in Appends : Step(w)
    BY <1>2
  <2>2. CASE \E extent \in Extents : AppendLine(w, extent)
    BY <2>2 DEF AppendLine, WriteStep, call, derived
  <2>3. CASE AppendRaises(w)
    BY <2>3 DEF AppendRaises, WriteStep, QuietStep, ledger, derived, Extents
  <2>4. CASE Acquire(w) \/ Expire(w) \/ ReadTail(w) \/ RefuseTail(w) \/ Unlock(w)
              \/ IndexEntry(w) \/ IndexFails(w)
    BY <2>4 DEF Acquire, Expire, ReadTail, RefuseTail, Unlock, IndexEntry, IndexFails,
                QuietStep, ledger, faults
  <2> QED BY <2>1, <2>2, <2>3, <2>4 DEF Step
<1>3. CASE \E w \in Appends : Kill(w)
  BY <1>3 DEF Kill, WriteStep, QuietStep, ledger, call, derived
<1>4. CASE RebuildVerifies \/ RebuildReads \/ RebuildReplaces
  BY <1>4 DEF RebuildVerifies, RebuildReads, RebuildReplaces, QuietStep, ledger, faults
<1>5. CASE \E i \in 1..Cardinality(Appends) : Damage(i)
  BY <1>5
<1> QED BY <1>1, <1>2, <1>3, <1>4, <1>5 DEF Next

(* A line that is written is a line, and leaves the ledger a sequence of    *)
(* lines: one more, or one fewer that can be read.                          *)
LEMMA Putting ==
    ASSUME TypeOK, EndedOK, NEW w \in Appends, NEW extent \in Extents, Write(w, extent)
    PROVE  /\ chain' \in Seq(Line) /\ ended' \in BOOLEAN /\ tears' \in Nat
           /\ chain' # <<>>
           /\ \/ /\ ended
                 /\ \E line \in {Noise, Entry(w, tail[w])} : chain' = Append(chain, line)
              \/ /\ chain # <<>>
                 /\ chain' = [chain EXCEPT ![Len(chain)] = Noise]
<1>1. Noise \in Line
  BY DEF Noise, Line, Bodies, Genesis
<1>2. Entry(w, tail[w]) \in Line
  <2>1. tail[w] \in Seq(Bodies) /\ w \in Bodies
    BY DEF TypeOK, Bodies
  <2> QED BY <2>1 DEF Entry, Line, Hash
<1>3. tears' \in Nat /\ ended' \in BOOLEAN
  BY DEF Write, TypeOK
<1>4. chain \in Seq(Line)
  BY DEF TypeOK
<1>5. CASE ended
  <2>1. \E line \in {Noise, Entry(w, tail[w])} : chain' = Append(chain, line)
    BY <1>5 DEF Write, Put
  <2> QED BY <2>1, <1>1, <1>2, <1>3, <1>4, <1>5
<1>6. CASE ~ended
  <2>1. chain # <<>> /\ chain' = [chain EXCEPT ![Len(chain)] = Noise]
    BY <1>6 DEF Write, Put, EndedOK
  <2>2. Len(chain) \in 1..Len(chain)
    BY <2>1, <1>4
  <2>3. chain' \in Seq(Line) /\ chain' # <<>>
    BY <2>1, <2>2, <1>1, <1>4
  <2> QED BY <2>1, <2>3, <1>3
<1> QED BY <1>5, <1>6

LEMMA Damaging ==
    ASSUME TypeOK, NEW i \in 1..Cardinality(Appends), Damage(i)
    PROVE  /\ i \in DOMAIN chain
           /\ chain' \in Seq(Line) /\ Len(chain') = Len(chain)
           /\ \E line \in {Noise, [chain[i] EXCEPT !.body = Forged]} :
                 line # chain[i] /\ chain' = [chain EXCEPT ![i] = line]
<1>1. chain \in Seq(Line) /\ i \in 1..Len(chain) /\ chain[i] \in Line
  BY DEF TypeOK, Damage
<1>2. PICK line \in {Noise, [chain[i] EXCEPT !.body = Forged]} :
         line # chain[i] /\ chain' = [chain EXCEPT ![i] = line]
  BY DEF Damage
<1>3. line \in Line
  <2>1. Noise \in Line
    BY DEF Noise, Line, Bodies, Genesis
  <2>2. \A x \in Line : [x EXCEPT !.body = Forged] \in Line
    BY DEF Line, Bodies
  <2> QED BY <1>1, <1>2, <2>1, <2>2
<1>4. chain' \in Seq(Line) /\ Len(chain') = Len(chain)
  BY <1>1, <1>2, <1>3
<1>5. i \in DOMAIN chain
  BY <1>1
<1>6. \E ln \in {Noise, [chain[i] EXCEPT !.body = Forged]} :
         ln # chain[i] /\ chain' = [chain EXCEPT ![i] = ln]
  BY <1>2
<1> QED BY <1>4, <1>5, <1>6

(* TypeOK and EndedOK need each other only. *)
LEMMA TypeStep ==
    ASSUME TypeOK, EndedOK, [Next]_vars
    PROVE  TypeOK' /\ EndedOK'
<1>1. CASE UNCHANGED vars
  BY <1>1 DEF vars, TypeOK, EndedOK
<1>2. ASSUME NEW w \in Appends, Step(w) PROVE TypeOK' /\ EndedOK'
  <2>1. CASE \E extent \in Extents : AppendLine(w, extent)
    <3>1. PICK extent \in Extents : AppendLine(w, extent)
      BY <2>1
    <3>2. Write(w, extent)
      BY <3>1 DEF AppendLine
    <3> QED BY <3>1, <3>2, Putting
            DEF AppendLine, Goto, TypeOK, EndedOK, PCs, Inside, call, derived
  <2>2. CASE AppendRaises(w)
    <3>1. ASSUME NEW extent \in Extents, Write(w, extent) PROVE TypeOK' /\ EndedOK'
      BY <2>2, <3>1, Putting
      DEF AppendRaises, Goto, TypeOK, EndedOK, PCs, Inside, Outcomes, derived
    <3>2. CASE UNCHANGED <<ledger, tears>>
      BY <2>2, <3>2 DEF AppendRaises, Goto, TypeOK, EndedOK, PCs, Inside, Outcomes,
                        ledger, derived
    <3> QED BY <2>2, <3>1, <3>2 DEF AppendRaises
  <2>3. CASE Acquire(w)
    BY <2>3 DEF Acquire, Goto, TypeOK, EndedOK, PCs, Inside, ledger, call, derived, faults
  <2>4. CASE Expire(w)
    BY <2>4 DEF Expire, TypeOK, EndedOK, ledger, call, derived, faults
  <2>5. CASE ReadTail(w)
    <3>1. chain # <<>> => chain[Len(chain)].hash \in Seq(Bodies)
      <4>1. chain \in Seq(Line)
        BY DEF TypeOK
      <4>2. chain # <<>> => chain[Len(chain)] \in Line
        BY <4>1
      <4> QED BY <4>2 DEF Line
    <3>2. Genesis \in Seq(Bodies) /\ Len(chain) \in Nat
      BY DEF TypeOK, Genesis
    <3> QED BY <2>5, <3>1, <3>2
            DEF ReadTail, Goto, TypeOK, EndedOK, PCs, Inside, ledger, derived, faults
  <2>6. CASE RefuseTail(w)
    BY <2>6 DEF RefuseTail, Goto, TypeOK, EndedOK, PCs, Inside, Outcomes, ledger,
                derived, faults
  <2>7. CASE Unlock(w)
    BY <2>7 DEF Unlock, Goto, TypeOK, EndedOK, PCs, Inside, Outcomes, ledger, call,
                derived, faults
  <2>8. CASE IndexEntry(w)
    <3>1. tail[w] \in Seq(Bodies) /\ w \in Bodies /\ seq[w] \in Nat
      BY DEF TypeOK, Bodies
    <3>2. Row(seq[w], Hash(tail[w], w)) \in [seq: Nat, hash: Seq(Bodies)]
      BY <3>1 DEF Row, Hash
    <3>3. index' \subseteq [seq: Nat, hash: Seq(Bodies)]
      BY <2>8, <3>2 DEF IndexEntry, Insert, TypeOK
    <3> QED BY <2>8, <3>3 DEF IndexEntry, Goto, TypeOK, EndedOK, PCs, Inside, ledger,
                              call, faults
  <2>9. CASE IndexFails(w)
    BY <2>9 DEF IndexFails, Goto, TypeOK, EndedOK, PCs, Inside, ledger, call, derived,
                faults
  <2> QED BY <1>2, <2>1, <2>2, <2>3, <2>4, <2>5, <2>6, <2>7, <2>8, <2>9 DEF Step
<1>3. ASSUME NEW w \in Appends, Kill(w) PROVE TypeOK' /\ EndedOK'
  <2>1. CASE \E extent \in Extents : Write(w, extent)
    <3>1. PICK extent \in Extents : Write(w, extent)
      BY <2>1
    <3> QED BY <1>3, <3>1, Putting
            DEF Kill, Goto, TypeOK, EndedOK, PCs, Inside, call, derived
  <2>2. CASE UNCHANGED <<ledger, tears>>
    BY <1>3, <2>2 DEF Kill, Goto, TypeOK, EndedOK, PCs, Inside, ledger, call, derived
  <2> QED BY <1>3, <2>1, <2>2 DEF Kill
<1>4. CASE RebuildVerifies
  BY <1>4 DEF RebuildVerifies, Rebuilding, TypeOK, EndedOK, ledger, call, faults
<1>5. CASE RebuildReads
  BY <1>5 DEF RebuildReads, Rebuilding, TypeOK, EndedOK, ledger, call, faults
<1>6. CASE RebuildReplaces
  <2>1. rebuild.entries \in Seq(Line)
    BY DEF TypeOK
  <2>2. \A i \in DOMAIN rebuild.entries :
           Row(i - 1, rebuild.entries[i].hash) \in [seq: Nat, hash: Seq(Bodies)]
    <3>1. SUFFICES ASSUME NEW i \in DOMAIN rebuild.entries
                   PROVE  Row(i - 1, rebuild.entries[i].hash)
                             \in [seq: Nat, hash: Seq(Bodies)]
      OBVIOUS
    <3>2. rebuild.entries[i] \in Line /\ i - 1 \in Nat
      BY <2>1
    <3>3. rebuild.entries[i].hash \in Seq(Bodies)
      BY <3>2 DEF Line
    <3> QED BY <3>2, <3>3 DEF Row
  <2>3. index' = {Row(i - 1, rebuild.entries[i].hash) : i \in DOMAIN rebuild.entries}
    BY <1>6 DEF RebuildReplaces
  <2>4. index' \subseteq [seq: Nat, hash: Seq(Bodies)]
    BY <2>2, <2>3
  <2> QED BY <1>6, <2>4 DEF RebuildReplaces, Rebuilding, TypeOK, EndedOK, ledger, call,
                            faults
<1>7. ASSUME NEW i \in 1..Cardinality(Appends), Damage(i) PROVE TypeOK' /\ EndedOK'
  <2>1. chain' \in Seq(Line) /\ Len(chain') = Len(chain) /\ i \in DOMAIN chain
    BY <1>7, Damaging
  <2>2. chain' # <<>>
    BY <2>1 DEF TypeOK
  <2> QED BY <1>7, <2>1, <2>2 DEF Damage, TypeOK, EndedOK, call, derived
<1> QED BY <1>1, <1>2, <1>3, <1>4, <1>5, <1>6, <1>7 DEF Next

-----------------------------------------------------------------------------
(* Every entry in the ledger was hashed by the appender that wrote it.      *)
LEMMA HashStep ==
    ASSUME TypeOK, EndedOK, HashesOK, [Next]_vars
    PROVE  HashesOK'
<1> SUFFICES ASSUME NEW k \in DOMAIN chain', chain'[k].form = "entry"
             PROVE  \E b \in Appends : chain'[k].hash = Hash(chain'[k].prev, b)
  BY DEF HashesOK, Hash
<1>1. chain \in Seq(Line)
  BY DEF TypeOK
<1>2. CASE QuietStep
  BY <1>2 DEF QuietStep, HashesOK
<1>3. ASSUME NEW w \in Appends, WriteStep(w)
      PROVE  \E b \in Appends : chain'[k].hash = Hash(chain'[k].prev, b)
  <2>1. PICK extent \in Extents : Write(w, extent)
    BY <1>3 DEF WriteStep
  <2>2. CASE \E line \in {Noise, Entry(w, tail[w])} : chain' = Append(chain, line)
    <3>1. PICK line \in {Noise, Entry(w, tail[w])} : chain' = Append(chain, line)
      BY <2>2
    <3>2. CASE k = Len(chain) + 1
      <4>1. chain'[k] = line
        BY <1>1, <3>1, <3>2
      <4>2. line = Entry(w, tail[w])
        BY <3>1, <4>1 DEF Noise
      <4> QED BY <4>1, <4>2 DEF Entry
    <3>3. CASE k # Len(chain) + 1
      <4>1. k \in DOMAIN chain /\ chain'[k] = chain[k]
        BY <1>1, <3>1, <3>3
      <4> QED BY <4>1 DEF HashesOK
    <3> QED BY <3>2, <3>3
  <2>3. CASE chain # <<>> /\ chain' = [chain EXCEPT ![Len(chain)] = Noise]
    <3>1. k \in DOMAIN chain
      BY <1>1, <2>3
    <3>2. chain'[k] = Noise \/ chain'[k] = chain[k]
      BY <1>1, <2>3, <3>1
    <3>3. chain'[k] = chain[k]
      BY <3>2 DEF Noise
    <3> QED BY <3>1, <3>3 DEF HashesOK
  <2> QED BY <2>1, <2>2, <2>3, Putting
<1>4. ASSUME NEW i \in 1..Cardinality(Appends), Damage(i)
      PROVE  \E b \in Appends : chain'[k].hash = Hash(chain'[k].prev, b)
  <2>1. PICK line \in {Noise, [chain[i] EXCEPT !.body = Forged]} :
           chain' = [chain EXCEPT ![i] = line]
    BY <1>4, Damaging
  <2>2. k \in DOMAIN chain /\ i \in DOMAIN chain /\ chain[i] \in Line
    <3>1. i \in DOMAIN chain
      BY <1>4, Damaging
    <3>2. DOMAIN chain' = DOMAIN chain
      BY <2>1
    <3> QED BY <1>1, <3>1, <3>2
  <2>3. CASE k # i
    <3>1. chain'[k] = chain[k]
      BY <2>1, <2>2, <2>3
    <3> QED BY <2>2, <3>1 DEF HashesOK
  <2>4. CASE k = i
    <3>1. chain'[k] = line
      BY <2>1, <2>2, <2>4
    <3>2. line = [chain[i] EXCEPT !.body = Forged]
      BY <3>1 DEF Noise
    <3>3. /\ chain'[k].form = chain[k].form
          /\ chain'[k].prev = chain[k].prev /\ chain'[k].hash = chain[k].hash
      BY <2>2, <2>4, <3>1, <3>2 DEF Line
    <3> QED BY <2>2, <3>3 DEF HashesOK
  <2> QED BY <2>3, <2>4
<1> QED BY <1>2, <1>3, <1>4, StepKinds

(* One appender at a time, where there is flock. *)
LEMMA MutexStep ==
    ASSUME TypeOK, fcntl, MutexOK, [Next]_vars
    PROVE  MutexOK'
<1> SUFFICES ASSUME NEW u \in Appends, NEW v \in Appends,
                    pc'[u] \in Inside, pc'[v] \in Inside
             PROVE  u = v
  BY DEF MutexOK
<1>1. ASSUME NEW w \in Appends, Step(w) \/ Kill(w), ~Acquire(w) PROVE u = v
  <2>1. \A x \in Appends : pc'[x] \in Inside => pc[x] \in Inside
    BY <1>1 DEF Step, Kill, Expire, ReadTail, RefuseTail, AppendLine, AppendRaises,
                Unlock, IndexEntry, IndexFails, Goto, Inside, TypeOK, Outcomes
  <2> QED BY <2>1 DEF MutexOK
<1>2. ASSUME NEW w \in Appends, Acquire(w) PROVE u = v
  <2>1. \A x \in Appends : pc'[x] \in Inside => x = w
    BY <1>2 DEF Acquire, Goto, Inside, TypeOK
  <2> QED BY <2>1
<1>3. CASE UNCHANGED pc
  BY <1>3 DEF MutexOK
<1>4. ASSUME NEW i \in 1..Cardinality(Appends), Damage(i) PROVE UNCHANGED pc
  BY <1>4 DEF Damage
<1> QED BY <1>1, <1>2, <1>3, <1>4
        DEF Next, vars, RebuildVerifies, RebuildReads, RebuildReplaces

(* What an appender read inside the lock is still so when it writes. *)
LEMMA TailStep ==
    ASSUME TypeOK, EndedOK, fcntl, MutexOK, TailOK, [Next]_vars
    PROVE  TailOK'
<1>1. CASE UNCHANGED <<chain, damages, tail, seq>>
           /\ \A w \in Appends : pc'[w] = "write" => pc[w] = "write"
  BY <1>1 DEF TailOK, TailNoise, TailHash
<1>2. ASSUME NEW w \in Appends, ReadTail(w) PROVE TailOK'
  <2>1. UNCHANGED <<chain, damages>>
    BY <1>2 DEF ReadTail, ledger, faults
  <2>2. \A x \in Appends : pc'[x] = "write" => x = w
    <3>1. \A x \in Appends \ {w} : pc[x] # "write"
      BY <1>2 DEF ReadTail, MutexOK, Inside
    <3> QED BY <1>2, <3>1 DEF ReadTail, Goto, TypeOK
  <2>3. tail'[w] = IF chain = <<>> THEN Genesis ELSE chain[Len(chain)].hash
    BY <1>2 DEF ReadTail, TypeOK
  <2>4. ~TailNoise
    BY <1>2 DEF ReadTail, TailNoise
  <2>5. tail'[w] = TailHash
    BY <2>3 DEF TailHash
  <2>6. TailHash' = TailHash /\ (TailNoise' <=> TailNoise)
    BY <2>1 DEF TailHash, TailNoise
  <2> QED BY <2>2, <2>4, <2>5, <2>6 DEF TailOK
<1>3. ASSUME NEW w \in Appends, WriteStep(w) PROVE TailOK'
  <2>1. \A x \in Appends : pc'[x] # "write"
    BY <1>3 DEF WriteStep, Goto, MutexOK, Inside, TypeOK
  <2> QED BY <2>1 DEF TailOK
<1>4. ASSUME NEW i \in 1..Cardinality(Appends), Damage(i) PROVE TailOK'
  <2>1. damages' # 0
    BY <1>4 DEF Damage, TypeOK
  <2> QED BY <2>1 DEF TailOK
<1>5. ASSUME NEW w \in Appends, Step(w), ~ReadTail(w), ~WriteStep(w)
      PROVE  /\ UNCHANGED <<chain, damages, tail, seq>>
             /\ \A x \in Appends : pc'[x] = "write" => pc[x] = "write"
  <2>1. CASE \E extent \in Extents : AppendLine(w, extent)
    BY <1>5, <2>1 DEF AppendLine, WriteStep, call, derived
  <2>2. CASE AppendRaises(w)
    <3>1. UNCHANGED ledger
      BY <1>5, <2>2 DEF AppendRaises, WriteStep, derived, Extents
    <3> QED BY <2>2, <3>1 DEF AppendRaises, Goto, ledger, TypeOK
  <2>3. CASE Acquire(w) \/ Expire(w) \/ RefuseTail(w) \/ IndexEntry(w) \/ IndexFails(w)
    BY <2>3 DEF Acquire, Expire, RefuseTail, IndexEntry, IndexFails, Goto, ledger, call,
                faults, TypeOK
  <2>4. CASE Unlock(w)
    BY <2>4 DEF Unlock, Goto, ledger, call, faults, TypeOK, Outcomes
  <2> QED BY <1>5, <2>1, <2>2, <2>3, <2>4 DEF Step
<1>6. ASSUME NEW w \in Appends, Kill(w), ~WriteStep(w)
      PROVE  /\ UNCHANGED <<chain, damages, tail, seq>>
             /\ \A x \in Appends : pc'[x] = "write" => pc[x] = "write"
  <2>1. UNCHANGED ledger
    BY <1>6 DEF Kill, WriteStep, derived, call
  <2> QED BY <1>6, <2>1 DEF Kill, Goto, ledger, call, TypeOK
<1>7. CASE RebuildVerifies \/ RebuildReads \/ RebuildReplaces \/ UNCHANGED vars
  BY <1>1, <1>7 DEF RebuildVerifies, RebuildReads, RebuildReplaces, vars, ledger, call,
                    faults
<1> QED BY <1>1, <1>2, <1>3, <1>4, <1>5, <1>6, <1>7 DEF Next

-----------------------------------------------------------------------------
(* A line added behind an intact one, or a last line destroyed, leaves the  *)
(* verdict on all the others as it was.                                     *)
LEMMA VerdictStays ==
    ASSUME NEW lines \in Seq(Line), NEW more, NEW i \in DOMAIN lines,
           \/ \E line : more = Append(lines, line)
           \/ i < Len(lines) /\ more = [lines EXCEPT ![Len(lines)] = Noise]
    PROVE  i \in DOMAIN more /\ (LineOK(more, i) <=> LineOK(lines, i))
<1>1. i \in DOMAIN more /\ more[i] = lines[i]
  OBVIOUS
<1>2. i # 1 => i - 1 \in DOMAIN lines /\ more[i - 1] = lines[i - 1]
  OBVIOUS
<1> QED BY <1>1, <1>2 DEF LineOK

LEMMA IntactStep ==
    ASSUME TypeOK, EndedOK, fcntl, TailOK, IntactButTail, [Next]_vars
    PROVE  IntactButTail'
<1> SUFFICES ASSUME damages' = 0, NEW k \in DOMAIN chain'
             PROVE  \/ LineOK(chain', k)
                    \/ k = Len(chain') /\ chain'[k].form = "noise"
  BY DEF IntactButTail, LineOK
<1>1. chain \in Seq(Line)
  BY DEF TypeOK
<1>2. CASE QuietStep
  BY <1>2 DEF QuietStep, IntactButTail, LineOK
<1>3. ASSUME NEW w \in Appends, WriteStep(w)
      PROVE  \/ LineOK(chain', k)
             \/ k = Len(chain') /\ chain'[k].form = "noise"
  <2>1. PICK extent \in Extents : Write(w, extent)
    BY <1>3 DEF WriteStep
  <2>2. damages = 0 /\ pc[w] = "write"
    BY <1>3 DEF WriteStep
  <2>3. ~TailNoise /\ tail[w] = TailHash
    BY <2>2 DEF TailOK
  <2>4. \A i \in DOMAIN chain : LineOK(chain, i)
    BY <2>2, <2>3, <1>1 DEF IntactButTail, TailNoise
  <2>5. CASE \E line \in {Noise, Entry(w, tail[w])} : chain' = Append(chain, line)
    <3>1. PICK line \in {Noise, Entry(w, tail[w])} : chain' = Append(chain, line)
      BY <2>5
    <3>2. CASE k \in DOMAIN chain
      BY <1>1, <2>4, <3>1, <3>2, VerdictStays
    <3>3. CASE k \notin DOMAIN chain
      <4>1. k = Len(chain) + 1 /\ chain'[k] = line /\ k = Len(chain')
        BY <1>1, <3>1, <3>3
      <4>2. CASE line = Noise
        BY <4>1, <4>2 DEF Noise
      <4>3. CASE line = Entry(w, tail[w])
        <5>1. tail[w] = IF k = 1 THEN Genesis ELSE chain'[k - 1].hash
          BY <1>1, <2>3, <3>1, <4>1 DEF TailHash
        <5> QED BY <4>1, <4>3, <5>1 DEF LineOK, Entry
      <4> QED BY <4>2, <4>3
    <3> QED BY <3>2, <3>3
  <2>6. CASE chain # <<>> /\ chain' = [chain EXCEPT ![Len(chain)] = Noise]
    <3>1. k \in DOMAIN chain /\ Len(chain') = Len(chain)
      BY <1>1, <2>6
    <3>2. CASE k < Len(chain)
      BY <1>1, <2>4, <2>6, <3>1, <3>2, VerdictStays
    <3>3. CASE k = Len(chain)
      <4>1. chain'[k] = Noise
        BY <1>1, <2>6, <3>1, <3>3
      <4> QED BY <3>1, <3>3, <4>1 DEF Noise
    <3> QED BY <1>1, <3>1, <3>2, <3>3
  <2> QED BY <2>1, <2>5, <2>6, Putting
<1>4. ASSUME NEW i \in 1..Cardinality(Appends), Damage(i) PROVE FALSE
  BY <1>4 DEF Damage, TypeOK
<1> QED BY <1>2, <1>3, <1>4, StepKinds

(* A ledger that verifies after a step verified before it. *)
LEMMA NoRepair ==
    ASSUME TypeOK, EndedOK, HashesOK, [Next]_vars, Intact(chain')
    PROVE  \/ UNCHANGED chain
           \/ Intact(chain) /\ \E line : chain' = Append(chain, line)
<1>1. chain \in Seq(Line)
  BY DEF TypeOK
<1>2. CASE QuietStep
  BY <1>2 DEF QuietStep
<1>3. ASSUME NEW w \in Appends, WriteStep(w)
      PROVE  Intact(chain) /\ \E line : chain' = Append(chain, line)
  <2>1. PICK extent \in Extents : Write(w, extent)
    BY <1>3 DEF WriteStep
  <2>2. ~(chain # <<>> /\ chain' = [chain EXCEPT ![Len(chain)] = Noise])
    <3>1. SUFFICES ASSUME chain # <<>>, chain' = [chain EXCEPT ![Len(chain)] = Noise]
                   PROVE  FALSE
      OBVIOUS
    <3>2. Len(chain) \in DOMAIN chain' /\ chain'[Len(chain)] = Noise
      BY <1>1, <3>1
    <3> QED BY <3>2 DEF Intact, LineOK, Noise
  <2>3. PICK line : chain' = Append(chain, line)
    BY <2>1, <2>2, Putting
  <2>4. \A i \in DOMAIN chain : LineOK(chain, i)
    BY <1>1, <2>3, VerdictStays DEF Intact
  <2> QED BY <2>3, <2>4 DEF Intact
<1>4. ASSUME NEW i \in 1..Cardinality(Appends), Damage(i) PROVE FALSE
  <2>1. PICK line \in {Noise, [chain[i] EXCEPT !.body = Forged]} :
           line # chain[i] /\ chain' = [chain EXCEPT ![i] = line]
    BY <1>4, Damaging
  <2>2. i \in DOMAIN chain
    BY <1>4, Damaging
  <2>3. i \in DOMAIN chain' /\ chain'[i] = line /\ chain[i] \in Line
    BY <1>1, <2>1, <2>2
  <2>4. LineOK(chain', i)
    BY <2>3 DEF Intact
  <2>5. line = [chain[i] EXCEPT !.body = Forged]
    BY <2>3, <2>4 DEF LineOK, Noise
  <2>6. /\ line.form = chain[i].form /\ line.prev = chain[i].prev
        /\ line.hash = chain[i].hash /\ line.body = Forged
    BY <2>3, <2>5 DEF Line
  <2>7. PICK b \in Appends : chain[i].hash = Append(chain[i].prev, b)
    BY <2>2, <2>3, <2>4, <2>6 DEF HashesOK, LineOK, Hash
  <2>8. Append(chain[i].prev, b) = Append(chain[i].prev, Forged)
    BY <2>3, <2>4, <2>6, <2>7 DEF LineOK, Hash
  <2>9. chain[i].prev \in Seq(Bodies) /\ b \in Bodies /\ Forged \in Bodies
    BY <2>3 DEF Line, Bodies
  <2>10. b = Forged
    BY <2>8, <2>9
  <2> QED BY <2>10, AuditChainAssumption
<1> QED BY <1>2, <1>3, <1>4, StepKinds

(* So a row that is right stays right. *)
LEMMA RowStays ==
    ASSUME TypeOK, EndedOK, HashesOK, [Next]_vars, NEW n \in Nat, NEW hash,
           RowTrue(n, hash)
    PROVE  RowTrue(n, hash)'
<1> SUFFICES ASSUME Intact(chain')
             PROVE  n < Len(chain') /\ chain'[n + 1].hash = hash
  BY DEF RowTrue, Intact, LineOK
<1>1. chain \in Seq(Line)
  BY DEF TypeOK
<1>2. CASE UNCHANGED chain
  <2>1. Intact(chain)
    BY <1>2
  <2> QED BY <1>2, <2>1 DEF RowTrue
<1>3. CASE Intact(chain) /\ \E line : chain' = Append(chain, line)
  <2>1. n < Len(chain) /\ chain[n + 1].hash = hash
    BY <1>3 DEF RowTrue
  <2> QED BY <1>1, <1>3, <2>1
<1> QED BY <1>2, <1>3, NoRepair

-----------------------------------------------------------------------------
(* Every line that verifies adds one body to the history of the line before.*)
LEMMA HashesCount ==
    ASSUME NEW lines \in Seq(Line), Intact(lines)
    PROVE  \A i \in 1..Len(lines) : Len(lines[i].hash) = i
<1> DEFINE odd == {i \in Nat : i \in 1..Len(lines) /\ Len(lines[i].hash) # i}
<1> SUFFICES ASSUME odd # {} PROVE FALSE
  OBVIOUS
<1>1. PICK k \in odd : \A j \in odd : <<j, k>> \notin OpToRel(<, Nat)
  BY WFMin, NatLessThanWellFounded, Zenon
<1>2. k \in 1..Len(lines) /\ Len(lines[k].hash) # k
  OBVIOUS
<1>3. \A j \in odd : ~(j < k)
  BY <1>1, Zenon DEF OpToRel
<1>4. lines[k] \in Line /\ lines[k].hash = Append(lines[k].prev, lines[k].body)
  BY <1>2 DEF Intact, LineOK, Hash
<1>5. Len(lines[k].hash) = Len(lines[k].prev) + 1
  <2>1. lines[k].prev \in Seq(Bodies) /\ lines[k].body \in Bodies
    BY <1>4 DEF Line
  <2> QED BY <1>4, <2>1
<1>6. CASE k = 1
  <2>1. lines[k].prev = <<>>
    BY <1>2, <1>6 DEF Intact, LineOK, Genesis
  <2> QED BY <1>2, <1>5, <1>6, <2>1
<1>7. CASE k # 1
  <2>1. k - 1 \in 1..Len(lines) /\ k - 1 \in Nat /\ k - 1 < k
    BY <1>2, <1>7
  <2>2. lines[k].prev = lines[k - 1].hash
    BY <1>2, <1>7 DEF Intact, LineOK
  <2>3. Len(lines[k - 1].hash) = k - 1
    BY <1>3, <2>1
  <2> HIDE DEF odd
  <2> QED BY <1>2, <1>5, <2>2, <2>3
<1> QED BY <1>6, <1>7

LEMMA CountsStep ==
    ASSUME TypeOK, EndedOK, HashesOK, CountsOK, [Next]_vars
    PROVE  CountsOK'
<1> SUFFICES ASSUME NEW x \in Appends, pc'[x] = "write", Intact(chain')
             PROVE  Len(tail'[x]) = seq'[x]
  BY DEF CountsOK, Intact, LineOK, Hash
<1>1. chain \in Seq(Line)
  BY DEF TypeOK
<1>2. Intact(chain)
  <2>1. UNCHANGED chain => Intact(chain)
    OBVIOUS
  <2> QED BY <2>1, NoRepair
<1>3. CASE pc[x] = "write" /\ tail'[x] = tail[x] /\ seq'[x] = seq[x]
  BY <1>2, <1>3 DEF CountsOK
<1>4. CASE ReadTail(x)
  <2>1. /\ tail'[x] = IF chain = <<>> THEN Genesis ELSE chain[Len(chain)].hash
        /\ seq'[x] = Len(chain)
    BY <1>4 DEF ReadTail, TypeOK
  <2>2. CASE chain = <<>>
    BY <2>1, <2>2 DEF Genesis
  <2>3. CASE chain # <<>>
    <3>1. Len(chain) \in 1..Len(chain)
      BY <1>1, <2>3
    <3>2. Len(chain[Len(chain)].hash) = Len(chain)
      BY <1>1, <1>2, <3>1, HashesCount
    <3> QED BY <2>1, <2>3, <3>2
  <2> QED BY <2>2, <2>3
<1>5. ASSUME NEW w \in Appends, Step(w)
      PROVE  ReadTail(x) \/ (pc[x] = "write" /\ tail'[x] = tail[x] /\ seq'[x] = seq[x])
  <2>1. CASE \E extent \in Extents : AppendLine(w, extent)
    BY <2>1 DEF AppendLine, Goto, TypeOK, call
  <2>2. CASE ReadTail(w)
    BY <2>2 DEF ReadTail, Goto, TypeOK
  <2>3. CASE AppendRaises(w) \/ RefuseTail(w)
    BY <2>3 DEF AppendRaises, RefuseTail, Goto, TypeOK
  <2>4. CASE Acquire(w) \/ Expire(w) \/ IndexEntry(w) \/ IndexFails(w)
    BY <2>4 DEF Acquire, Expire, IndexEntry, IndexFails, Goto, TypeOK, call
  <2>5. CASE Unlock(w)
    BY <2>5 DEF Unlock, Goto, TypeOK, Outcomes, call
  <2> QED BY <1>5, <2>1, <2>2, <2>3, <2>4, <2>5 DEF Step
<1>6. ASSUME NEW w \in Appends, Kill(w)
      PROVE  pc[x] = "write" /\ tail'[x] = tail[x] /\ seq'[x] = seq[x]
  BY <1>6 DEF Kill, Goto, TypeOK, call
<1>7. CASE RebuildVerifies \/ RebuildReads \/ RebuildReplaces \/ UNCHANGED vars
           \/ \E i \in 1..Cardinality(Appends) : Damage(i)
  <2>1. UNCHANGED <<pc, tail, seq>>
    BY <1>7 DEF RebuildVerifies, RebuildReads, RebuildReplaces, Damage, vars, call
  <2> QED BY <1>3, <2>1
<1> QED BY <1>3, <1>4, <1>5, <1>6, <1>7 DEF Next

-----------------------------------------------------------------------------
(* Nobody else joins those who have written, and they keep what they hold.  *)
LEMMA WrittenStays ==
    ASSUME TypeOK, [Next]_vars, NEW x \in Appends, pc'[x] \in {"index", "done"} \/
                (pc'[x] = "unlock" /\ result'[x] = "indexed")
    PROVE  /\ x \in Written \/ WriteStep(x)
           /\ seq'[x] = seq[x] /\ tail'[x] = tail[x]
<1>1. CASE UNCHANGED <<pc, tail, seq, result>>
  BY <1>1 DEF Written
<1>2. ASSUME NEW w \in Appends, WriteStep(w)
      PROVE  /\ x \in Written \/ WriteStep(x)
             /\ seq'[x] = seq[x] /\ tail'[x] = tail[x]
  <2>1. CASE x = w
    BY <1>2, <2>1 DEF WriteStep
  <2>2. CASE x # w
    BY <1>2, <2>2 DEF WriteStep, Goto, Written, TypeOK
  <2> QED BY <2>1, <2>2
<1>3. ASSUME NEW w \in Appends, Step(w), ~WriteStep(w)
      PROVE  /\ x \in Written \/ WriteStep(x)
             /\ seq'[x] = seq[x] /\ tail'[x] = tail[x]
  <2>1. CASE \E extent \in Extents : AppendLine(w, extent)
    BY <1>3, <2>1 DEF AppendLine, WriteStep, call, derived
  <2>2. CASE AppendRaises(w)
    BY <2>2 DEF AppendRaises, Goto, Written, TypeOK
  <2>3. CASE Acquire(w) \/ Expire(w)
    BY <2>3 DEF Acquire, Expire, Goto, Written, TypeOK, call
  <2>4. CASE ReadTail(w)
    BY <2>4 DEF ReadTail, Goto, Written, TypeOK
  <2>5. CASE RefuseTail(w)
    BY <2>5 DEF RefuseTail, Goto, Written, TypeOK
  <2>6. CASE Unlock(w)
    BY <2>6 DEF Unlock, Goto, Written, TypeOK, Outcomes, call
  <2>7. CASE IndexEntry(w) \/ IndexFails(w)
    BY <2>7 DEF IndexEntry, IndexFails, Goto, Written, TypeOK, call
  <2> QED BY <1>3, <2>1, <2>2, <2>3, <2>4, <2>5, <2>6, <2>7 DEF Step
<1>4. ASSUME NEW w \in Appends, Kill(w)
      PROVE  /\ x \in Written \/ WriteStep(x)
             /\ seq'[x] = seq[x] /\ tail'[x] = tail[x]
  BY <1>4 DEF Kill, Goto, Written, TypeOK, call
<1>5. CASE RebuildVerifies \/ RebuildReads \/ RebuildReplaces \/ UNCHANGED vars
           \/ \E i \in 1..Cardinality(Appends) : Damage(i)
  <2>1. UNCHANGED <<pc, tail, seq, result>>
    BY <1>5 DEF RebuildVerifies, RebuildReads, RebuildReplaces, Damage, vars, call
  <2> QED BY <1>1, <2>1
<1> QED BY <1>2, <1>3, <1>4, <1>5 DEF Next

(* The row of an entry that has just been written: if the ledger verifies,  *)
(* the line before it is the one its writer read.                           *)
LEMMA RowOfWriter ==
    ASSUME TypeOK, EndedOK, HashesOK, CountsOK, [Next]_vars,
           NEW w \in Appends, WriteStep(w)
    PROVE  RowTrue(seq[w], Hash(tail[w], w))'
<1>1. chain \in Seq(Line)
  BY DEF TypeOK
<1>2. UNCHANGED <<seq, tail>>
  BY DEF WriteStep
<1>3. SUFFICES ASSUME Intact(chain')
               PROVE  seq[w] < Len(chain') /\ chain'[seq[w] + 1].hash = Hash(tail[w], w)
  BY <1>2 DEF RowTrue, Intact, LineOK, Hash
<1>4. PICK extent \in Extents : Write(w, extent)
  BY DEF WriteStep
<1>5. \A i \in DOMAIN chain' : chain'[i] # Noise
  BY <1>3 DEF Intact, LineOK, Noise
<1>6. CASE \E line \in {Noise, Entry(w, tail[w])} : chain' = Append(chain, line)
  <2>1. PICK line \in {Noise, Entry(w, tail[w])} : chain' = Append(chain, line)
    BY <1>6
  <2>2. /\ Len(chain') = Len(chain) + 1 /\ chain'[Len(chain) + 1] = line
        /\ Len(chain) + 1 \in DOMAIN chain'
    BY <1>1, <2>1
  <2>3. line = Entry(w, tail[w])
    BY <1>5, <2>1, <2>2
  <2>4. Intact(chain)
    <3>1. UNCHANGED chain => Intact(chain)
      BY <1>3
    <3> QED BY <1>3, <3>1, NoRepair
  <2>5. tail[w] = IF chain = <<>> THEN Genesis ELSE chain[Len(chain)].hash
    <3>1. LineOK(chain', Len(chain) + 1)
      BY <1>3, <2>2 DEF Intact
    <3>2. chain'[Len(chain) + 1].prev = tail[w]
      BY <2>2, <2>3 DEF Entry
    <3>3. CASE chain = <<>>
      BY <3>1, <3>2, <3>3 DEF LineOK
    <3>4. CASE chain # <<>>
      <4>1. Len(chain) + 1 # 1 /\ chain'[(Len(chain) + 1) - 1] = chain[Len(chain)]
        BY <1>1, <2>1, <3>4
      <4> QED BY <3>1, <3>2, <3>4, <4>1 DEF LineOK
    <3> QED BY <3>3, <3>4
  <2>6. Len(tail[w]) = Len(chain)
    <3>1. chain # <<>> => Len(chain) \in 1..Len(chain)
      BY <1>1
    <3> QED BY <1>1, <2>4, <2>5, <3>1, HashesCount DEF Genesis
  <2>7. seq[w] = Len(chain)
    BY <2>4, <2>6 DEF CountsOK, WriteStep
  <2> QED BY <1>1, <2>2, <2>3, <2>7 DEF Entry
<1>7. CASE chain # <<>> /\ chain' = [chain EXCEPT ![Len(chain)] = Noise]
  <2>1. Len(chain) \in DOMAIN chain' /\ chain'[Len(chain)] = Noise
    BY <1>1, <1>7
  <2> QED BY <1>5, <2>1
<1> QED BY <1>4, <1>6, <1>7, Putting

LEMMA RowsStep ==
    ASSUME TypeOK, EndedOK, HashesOK, CountsOK, RowsOK, [Next]_vars
    PROVE  RowsOK'
<1>1. ASSUME NEW x \in Written' PROVE RowTrue(seq[x], Hash(tail[x], x))'
  <2>1. /\ x \in Appends
        /\ pc'[x] \in {"index", "done"} \/ (pc'[x] = "unlock" /\ result'[x] = "indexed")
    BY DEF Written
  <2>2. CASE WriteStep(x)
    BY <2>1, <2>2, RowOfWriter
  <2>3. CASE x \in Written
    <3>1. seq'[x] = seq[x] /\ tail'[x] = tail[x] /\ seq[x] \in Nat
      BY <2>1, WrittenStays DEF TypeOK
    <3>2. PICK n \in Nat : n = seq[x]
      BY <3>1
    <3>3. PICK h : h = Hash(tail[x], x)
      OBVIOUS
    <3>4. RowTrue(n, h)
      BY <2>3, <3>2, <3>3 DEF RowsOK
    <3>5. RowTrue(n, h)'
      BY <3>4, RowStays
    <3> QED BY <3>1, <3>2, <3>3, <3>5 DEF RowTrue, Intact, LineOK, Hash
  <2> QED BY <2>1, <2>2, <2>3, WrittenStays
<1>2. ASSUME NEW row \in index' PROVE RowTrue(row.seq, row.hash)'
  <2>1. CASE row \in index
    <3>1. RowTrue(row.seq, row.hash) /\ row.seq \in Nat
      BY <2>1 DEF RowsOK, TypeOK
    <3> QED BY <3>1, RowStays
  <2>2. ASSUME NEW w \in Appends, IndexEntry(w), row \notin index
        PROVE  RowTrue(row.seq, row.hash)'
    <3>1. row = Row(seq[w], Hash(tail[w], w)) /\ w \in Written
      BY <2>2 DEF IndexEntry, Insert, Written
    <3>2. row.seq = seq[w] /\ row.hash = Hash(tail[w], w)
      BY <3>1 DEF Row
    <3>3. RowTrue(row.seq, row.hash) /\ row.seq \in Nat
      BY <3>1, <3>2 DEF RowsOK, TypeOK
    <3> QED BY <3>3, RowStays
  <2>3. ASSUME RebuildReplaces PROVE RowTrue(row.seq, row.hash)'
    <3>1. PICK i \in DOMAIN rebuild.entries : row = Row(i - 1, rebuild.entries[i].hash)
      BY <2>3 DEF RebuildReplaces
    <3>2. row.seq = i - 1 /\ row.hash = rebuild.entries[i].hash
      BY <3>1 DEF Row
    <3>3. RowTrue(row.seq, row.hash)
      BY <2>3, <3>1, <3>2 DEF RowsOK, RebuildReplaces
    <3>4. rebuild.entries \in Seq(Line)
      BY DEF TypeOK
    <3>5. row.seq \in Nat
      BY <3>1, <3>2, <3>4
    <3> QED BY <3>3, <3>5, RowStays
  <2>4. CASE UNCHANGED index
    BY <2>1, <2>4
  <2>5. \/ UNCHANGED index \/ RebuildReplaces
        \/ \E w \in Appends : IndexEntry(w)
    BY DEF Next, vars, Step, Kill, Acquire, Expire, ReadTail, RefuseTail, AppendLine,
           AppendRaises, Unlock, IndexFails, RebuildVerifies, RebuildReads, Damage, derived
  <2> QED BY <2>1, <2>2, <2>3, <2>4, <2>5
<1>3. ASSUME rebuild'.at = "read", NEW i \in DOMAIN rebuild'.entries
      PROVE  RowTrue(i - 1, rebuild.entries[i].hash)'
  <2>1. UNCHANGED rebuild \/ RebuildReads
    <3>1. ASSUME NEW w \in Appends, Step(w) PROVE UNCHANGED rebuild
      BY <3>1 DEF Step, Acquire, Expire, ReadTail, RefuseTail, AppendLine, AppendRaises,
                  Unlock, IndexEntry, IndexFails, derived
    <3>2. ASSUME NEW w \in Appends, Kill(w) PROVE UNCHANGED rebuild
      BY <3>2 DEF Kill, derived
    <3>3. ASSUME RebuildVerifies \/ RebuildReplaces PROVE rebuild'.at # "read"
      BY <3>3 DEF RebuildVerifies, RebuildReplaces, Rebuilding
    <3>4. ASSUME NEW k \in 1..Cardinality(Appends), Damage(k) PROVE UNCHANGED rebuild
      BY <3>4 DEF Damage, derived
    <3> QED BY <1>3, <3>1, <3>2, <3>3, <3>4 DEF Next, vars
  <2>2. CASE UNCHANGED rebuild
    <3>1. rebuild.entries \in Seq(Line) /\ i \in DOMAIN rebuild.entries
      BY <2>2 DEF TypeOK
    <3>2. PICK n \in Nat : n = i - 1
      BY <3>1
    <3>3. PICK h : h = rebuild.entries[i].hash
      OBVIOUS
    <3>4. RowTrue(n, h)
      BY <1>3, <2>2, <3>1, <3>2, <3>3 DEF RowsOK
    <3>5. RowTrue(n, h)'
      BY <3>4, RowStays
    <3> QED BY <2>2, <3>2, <3>3, <3>5 DEF RowTrue, Intact, LineOK, Hash
  <2>3. CASE RebuildReads
    <3>1. UNCHANGED chain /\ rebuild'.entries = chain
      BY <1>3, <2>3 DEF RebuildReads, Rebuilding, ledger
    <3>2. i \in DOMAIN chain /\ chain \in Seq(Line)
      BY <1>3, <3>1 DEF TypeOK
    <3>3. i - 1 < Len(chain) /\ chain[(i - 1) + 1].hash = chain[i].hash
      BY <3>2
    <3> QED BY <3>1, <3>3 DEF RowTrue
  <2> QED BY <1>3, <2>1, <2>2, <2>3
<1> QED BY <1>1, <1>2, <1>3 DEF RowsOK

(* What a torn line takes with it. *)
LEMMA GoneStep ==
    ASSUME TypeOK, EndedOK, TailOK, GoneOK, [Next]_vars
    PROVE  GoneOK'
<1> SUFFICES ASSUME damages' = 0, Gone' # {}
             PROVE  TailNoise' /\ \E u, v \in Appends : Gone' \subseteq {u, v}
  BY DEF GoneOK
<1>1. chain \in Seq(Line)
  BY DEF TypeOK
<1>2. ASSUME QuietStep, \A w \in Appends : ~WriteStep(w)
      PROVE  TailNoise' /\ \E u, v \in Appends : Gone' \subseteq {u, v}
  <2>1. Written' \subseteq Written
    BY <1>2, WrittenStays DEF Written
  <2>2. Gone' \subseteq Gone /\ damages = 0 /\ (TailNoise' <=> TailNoise)
    BY <1>2, <2>1 DEF QuietStep, Gone, Kept, TailNoise
  <2> QED BY <2>2 DEF GoneOK
<1>3. ASSUME NEW w \in Appends, WriteStep(w)
      PROVE  TailNoise' /\ \E u, v \in Appends : Gone' \subseteq {u, v}
  <2>1. PICK extent \in Extents : Write(w, extent)
    BY <1>3 DEF WriteStep
  <2>2. damages = 0 /\ ~TailNoise
    BY <1>3 DEF WriteStep, TailOK
  <2>3. \A x \in Written : Kept(x)
    BY <2>2 DEF GoneOK, Gone
  <2>4. Written' \subseteq Written \cup {w}
    <3>1. \A x \in Appends : x # w => ~WriteStep(x)
      <4>1. SUFFICES ASSUME NEW x \in Appends, x # w, WriteStep(x) PROVE FALSE
        OBVIOUS
      <4>2. pc'[x] = pc[x] /\ pc[x] = "write"
        BY <1>3, <4>1 DEF WriteStep, Goto, TypeOK
      <4> QED BY <4>1, <4>2 DEF WriteStep, Goto, TypeOK
    <3> QED BY <3>1, WrittenStays DEF Written
  <2>5. CASE \E line \in {Noise, Entry(w, tail[w])} : chain' = Append(chain, line)
    <3>1. PICK line \in {Noise, Entry(w, tail[w])} : chain' = Append(chain, line)
      BY <2>5
    <3>2. /\ Len(chain') = Len(chain) + 1 /\ chain'[Len(chain')] = line
          /\ chain' # <<>> /\ Len(chain') \in DOMAIN chain'
      BY <1>1, <3>1
    <3>3. \A i \in DOMAIN chain : i \in DOMAIN chain' /\ chain'[i] = chain[i]
      BY <1>1, <3>1
    <3>4. \A x \in Appends : Kept(x) => Kept(x)'
      BY <3>3 DEF Kept
    <3>5. Gone' \subseteq {w}
      BY <2>3, <2>4, <3>4 DEF Gone, Written
    <3>6. line = Noise
      <4>1. SUFFICES ASSUME line = Entry(w, tail[w]) PROVE FALSE
        BY <3>1
      <4>2. Kept(w)'
        BY <3>2, <4>1 DEF Kept, Entry
      <4> QED BY <3>5, <4>2 DEF Gone
    <3> QED BY <3>2, <3>5, <3>6 DEF TailNoise, Noise
  <2>6. CASE chain # <<>> /\ chain' = [chain EXCEPT ![Len(chain)] = Noise]
    <3> DEFINE n == Len(chain)
    <3>1. n \in DOMAIN chain' /\ chain'[n] = Noise /\ Len(chain') = n /\ chain' # <<>>
      BY <1>1, <2>6
    <3>2. \A i \in DOMAIN chain : i # n => i \in DOMAIN chain' /\ chain'[i] = chain[i]
      BY <1>1, <2>6
    <3>3. \A x \in Appends : Kept(x) /\ x # chain[n].body => Kept(x)'
      BY <3>2 DEF Kept
    <3>4. \A x \in Gone' : x \in Appends /\ (x = w \/ x = chain[n].body)
      BY <2>3, <2>4, <3>3 DEF Gone, Written
    <3>5. PICK v \in Appends : chain[n].body \in Appends => v = chain[n].body
      OBVIOUS
    <3>6. Gone' \subseteq {w, v}
      BY <3>4, <3>5
    <3> QED BY <3>1, <3>6 DEF TailNoise, Noise
  <2> QED BY <2>1, <2>5, <2>6, Putting
<1>4. ASSUME NEW i \in 1..Cardinality(Appends), Damage(i) PROVE FALSE
  BY <1>4 DEF Damage, TypeOK
<1> QED BY <1>2, <1>3, <1>4, StepKinds

-----------------------------------------------------------------------------
(* The invariant holds at the start and is kept by every step. *)
THEOREM InitIInv == Init => IInv
<1> SUFFICES ASSUME Init PROVE IInv
  OBVIOUS
<1>1. TypeOK
  <2>1. Genesis \in Seq(Bodies) /\ <<>> \in Seq(Line)
    BY DEF Genesis
  <2>2. pc \in [Appends -> PCs] /\ result \in [Appends -> Outcomes]
    BY DEF Init, PCs, Outcomes
  <2>3. tail \in [Appends -> Seq(Bodies)] /\ seq \in [Appends -> Nat]
    BY <2>1 DEF Init
  <2>4. rebuild \in [at: {"idle", "verified", "read", "over"}, entries: Seq(Line)]
    BY <2>1 DEF Init, Rebuilding
  <2> QED BY <2>1, <2>2, <2>3, <2>4 DEF Init, TypeOK
<1>2. EndedOK /\ HashesOK
  BY DEF Init, EndedOK, HashesOK
<1>3. Written = {}
  BY DEF Init, Written
<1>4. CountsOK /\ RowsOK
  BY <1>3 DEF Init, CountsOK, RowsOK, Rebuilding
<1>5. FlockInv
  BY <1>3 DEF Init, FlockInv, MutexOK, TailOK, IntactButTail, GoneOK, Gone, Inside
<1> QED BY <1>1, <1>2, <1>4, <1>5 DEF IInv

THEOREM IInvInductive == IInv /\ [Next]_vars => IInv'
<1> SUFFICES ASSUME IInv, [Next]_vars PROVE IInv'
  OBVIOUS
<1>1. TypeOK' /\ EndedOK'
  BY TypeStep DEF IInv
<1>2. HashesOK'
  BY HashStep DEF IInv
<1>3. CountsOK' /\ RowsOK'
  BY CountsStep, RowsStep DEF IInv
<1>4. ASSUME fcntl PROVE FlockInv'
  <2>1. MutexOK'
    BY <1>4, MutexStep DEF IInv, FlockInv
  <2>2. TailOK'
    BY <1>4, TailStep DEF IInv, FlockInv
  <2>3. IntactButTail'
    BY <1>4, IntactStep DEF IInv, FlockInv
  <2>4. GoneOK'
    BY <1>4, GoneStep DEF IInv, FlockInv
  <2> QED BY <2>1, <2>2, <2>3, <2>4 DEF FlockInv
<1>5. UNCHANGED fcntl
  <2>1. ASSUME NEW w \in Appends, WriteStep(w) PROVE UNCHANGED fcntl
    BY <2>1 DEF WriteStep
  <2>2. ASSUME NEW i \in 1..Cardinality(Appends), Damage(i) PROVE UNCHANGED fcntl
    BY <2>2 DEF Damage
  <2> QED BY <2>1, <2>2, StepKinds DEF QuietStep
<1> QED BY <1>1, <1>2, <1>3, <1>4, <1>5 DEF IInv

THEOREM Inductive == Spec => []IInv
BY InitIInv, IInvInductive, PTL DEF Spec

(* The variables of the ledger never leave their types. *)
THEOREM TypeCorrect == Spec => []TypeOK
<1>1. IInv => TypeOK
  BY DEF IInv
<1> QED BY <1>1, Inductive, PTL

(* With flock, no two entries ever chain off the same predecessor: whoever  *)
(* dies and whatever is torn, an unedited ledger verifies up to its last    *)
(* line.                                                                    *)
THEOREM ChainHolds == Spec => []IntactButTail
<1>1. IInv => IntactButTail
  BY DEF IInv, FlockInv, IntactButTail
<1> QED BY <1>1, Inductive, PTL

(* A torn line costs the ledger two acknowledged entries at most, and it    *)
(* shows: the last line cannot be read.                                     *)
THEOREM LossShows == Spec => []LostOnlyAtTail
<1>1. IInv => LostOnlyAtTail
  <2> SUFFICES ASSUME IInv, fcntl, damages = 0, Lost # {}
               PROVE  /\ chain[Len(chain)].form = "noise"
                      /\ \E v, w \in Appends : Lost \subseteq {v, w}
    BY DEF LostOnlyAtTail
  <2>1. Lost \subseteq Gone
    BY DEF Lost, Gone, Acknowledged, Written
  <2>2. Gone # {}
    BY <2>1
  <2>3. TailNoise /\ \E v, w \in Appends : Gone \subseteq {v, w}
    BY <2>2 DEF IInv, FlockInv, GoneOK
  <2> QED BY <2>1, <2>3 DEF TailNoise
<1> QED BY <1>1, Inductive, PTL

(* Under either lock, whatever forks the fallback lets happen and whatever  *)
(* rebuild_index interleaves with: while the ledger verifies, a row of the  *)
(* derived index is a line of it under that line's number.                  *)
THEOREM IndexFollowsLedger == Spec => []IndexTrue
<1>1. IInv => IndexTrue
  BY DEF IInv, RowsOK, RowTrue, IndexTrue
<1> QED BY <1>1, Inductive, PTL

(* No append, rebuild or death of an appender moves the break that          *)
(* verify_chain reports; only an edit of the file does.                     *)
THEOREM NothingRepairs == Spec => AppendingIsNotRepairing
<1>1. ASSUME IInv, [Next]_vars, NEW i \in DOMAIN chain, BreakAt(chain, i),
             damages' = damages
      PROVE  BreakAt(chain', i)
  <2>1. chain \in Seq(Line)
    BY <1>1 DEF IInv, TypeOK
  <2>2. \A j \in 1..(i - 1) : j \in DOMAIN chain /\ j < Len(chain)
    BY <2>1
  <2>3. CASE QuietStep
    <3>1. UNCHANGED chain
      BY <2>3 DEF QuietStep
    <3> QED BY <1>1, <3>1 DEF BreakAt, LineOK
  <2>4. ASSUME NEW w \in Appends, WriteStep(w) PROVE BreakAt(chain', i)
    <3>1. PICK extent \in Extents : Write(w, extent)
      BY <2>4 DEF WriteStep
    <3>2. CASE \E line : chain' = Append(chain, line)
      <4>1. \A j \in 1..i : j \in DOMAIN chain' /\ (LineOK(chain', j) <=> LineOK(chain, j))
        <5>1. \A j \in 1..i : j \in DOMAIN chain
          BY <1>1, <2>1
        <5> QED BY <2>1, <3>2, <5>1, VerdictStays
      <4>2. i \in 1..i /\ (\A j \in 1..(i - 1) : j \in 1..i)
        BY <1>1, <2>1
      <4>3. i \in DOMAIN chain' /\ ~LineOK(chain', i)
        BY <1>1, <4>1, <4>2 DEF BreakAt
      <4>4. \A j \in 1..(i - 1) : LineOK(chain', j)
        BY <1>1, <4>1, <4>2 DEF BreakAt
      <4> QED BY <4>3, <4>4 DEF BreakAt
    <3>3. CASE chain # <<>> /\ chain' = [chain EXCEPT ![Len(chain)] = Noise]
      <4>1. \A j \in DOMAIN chain :
               j < Len(chain) => j \in DOMAIN chain' /\ (LineOK(chain', j) <=> LineOK(chain, j))
        BY <2>1, <3>3, VerdictStays
      <4>2. i \in DOMAIN chain' /\ ~LineOK(chain', i)
        <5>1. CASE i < Len(chain)
          BY <1>1, <4>1, <5>1 DEF BreakAt
        <5>2. CASE i = Len(chain)
          <6>1. i \in DOMAIN chain' /\ chain'[i] = Noise
            BY <1>1, <2>1, <3>3, <5>2
          <6> QED BY <6>1 DEF LineOK, Noise
        <5> QED BY <1>1, <2>1, <5>1, <5>2
      <4>3. \A j \in 1..(i - 1) : LineOK(chain', j)
        BY <1>1, <2>2, <4>1 DEF BreakAt
      <4> QED BY <4>2, <4>3 DEF BreakAt
    <3> QED BY <1>1, <3>1, <3>2, <3>3, Putting DEF IInv
  <2>5. ASSUME NEW k \in 1..Cardinality(Appends), Damage(k) PROVE FALSE
    BY <1>1, <2>5 DEF Damage, IInv, TypeOK
  <2> QED BY <1>1, <2>3, <2>4, <2>5, StepKinds
<1>2. IInv /\ [Next]_vars =>
         \A i \in DOMAIN chain :
             BreakAt(chain, i) /\ damages' = damages => BreakAt(chain', i)
  BY <1>1
<1> QED BY <1>2, Inductive, PTL DEF Spec, AppendingIsNotRepairing
=============================================================================
