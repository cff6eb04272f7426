----------------------------- MODULE AuditChain -----------------------------
(***************************************************************************)
(* The hash-chained audit ledger: console/audit.py over fsafe.py, and the  *)
(* sqlite index store.py derives from it.                                  *)
(*                                                                         *)
(* append() is called by any number of threads and processes.  It reads    *)
(* the tail and writes one line under fsafe.locked, then mirrors the entry *)
(* into the index outside the lock.  The lock is flock where fcntl exists, *)
(* else a lock file created with O_EXCL that any waiter removes once it    *)
(* has waited for ten seconds.                                             *)
(***************************************************************************)
EXTENDS Integers, Sequences, FiniteSets

CONSTANTS
    Appends,     \* the calls of append(); a call names the entry it writes
    Forged,      \* what an entry says once somebody has edited it
    MaxFaults    \* bound on appenders that die, lines that reach the disk in
                 \* part and edits of the file from outside, taken together

ASSUME AuditChainAssumption ==
    /\ Forged \notin Appends
    /\ MaxFaults \in Nat

(* compute_hash: the hash of an entry commits to its own contents and, by   *)
(* prev_hash, to all of the history behind it.  It is taken as collision    *)
(* free: a hash IS that history.                                            *)
Genesis == <<>>
Hash(prev, body) == Append(prev, body)

Bodies == Appends \cup {Forged}
Entry(body, prev) ==
    [form |-> "entry", body |-> body, prev |-> prev, hash |-> Hash(prev, body)]

(* A line json.loads refuses. *)
Noise == [form |-> "noise", body |-> Forged, prev |-> Genesis, hash |-> Genesis]

Inside == {"tail", "write", "unlock"}
Outcomes == {"indexed", "refused", "failed"}
PCs == {"lock", "index", "done", "killed", "refused", "failed"} \cup Inside

VARIABLES
    fcntl,      \* is there an fcntl on this platform
    chain,      \* the lines of chain.jsonl
    ended,      \* does its last line end in a newline
    lockfile,   \* without fcntl: does chain.jsonl.lock exist
    pc,
    tail,       \* prev_hash of the entry each call is writing
    seq,        \* the number of lines each call found
    result,     \* how each call leaves the critical section
    index,      \* audit_index: entry_hash is UNIQUE, seq is not
    rebuild,    \* rebuild_index, run once: how far it is and what it has read
    kills, tears, damages

ledger == <<chain, ended>>
call == <<tail, seq, result>>
derived == <<index, rebuild>>
faults == <<kills, tears, damages>>
vars == <<fcntl, chain, ended, lockfile, pc, tail, seq, result, index, rebuild,
          kills, tears, damages>>

Rebuilding(at, entries) == [at |-> at, entries |-> entries]

Init ==
    /\ fcntl \in BOOLEAN
    /\ chain = <<>> /\ ended = TRUE
    /\ lockfile = FALSE
    /\ pc = [w \in Appends |-> "lock"]
    /\ tail = [w \in Appends |-> Genesis]
    /\ seq = [w \in Appends |-> 0]
    /\ result = [w \in Appends |-> "indexed"]
    /\ index = {}
    /\ rebuild = Rebuilding("idle", <<>>)
    /\ kills = 0 /\ tears = 0 /\ damages = 0

Goto(w, label) == pc' = [pc EXCEPT ![w] = label]

-----------------------------------------------------------------------------
(***************************************************************************)
(* verify_chain walks the lines and stops at the first that fails; each    *)
(* check is of a line and of the entry_hash of the line before it.         *)
(***************************************************************************)
LineOK(lines, i) ==
    /\ lines[i].form = "entry"
    /\ lines[i].prev = IF i = 1 THEN Genesis ELSE lines[i - 1].hash
    /\ lines[i].hash = Hash(lines[i].prev, lines[i].body)

Intact(lines) == \A i \in DOMAIN lines : LineOK(lines, i)

(* The line verify_chain names in "break" (lines are counted from 1 here). *)
BreakAt(lines, i) ==
    /\ i \in DOMAIN lines /\ ~LineOK(lines, i)
    /\ \A j \in 1..(i - 1) : LineOK(lines, j)

-----------------------------------------------------------------------------
(* Mutant: the tail is read outside the lock. *)
AcquireUnguarded(w) ==
    /\ pc[w] = "lock"
    /\ lockfile' = ~fcntl
    /\ Goto(w, "tail")
    /\ UNCHANGED <<fcntl, ledger, call, derived, faults>>

(* The kernel frees the flock of a process that dies; the lock file of the  *)
(* fallback stays.                                                          *)
Acquire(w) ==
    /\ pc[w] = "lock"
    /\ IF fcntl THEN \A v \in Appends : pc[v] \notin Inside ELSE ~lockfile
    /\ lockfile' = ~fcntl
    /\ Goto(w, "tail")
    /\ UNCHANGED <<fcntl, ledger, call, derived, faults>>

(* Mutant: a waiter waits for as long as the lock file is there. *)
ExpirePatient(w) ==
    /\ ~fcntl /\ lockfile
    /\ pc[w] = "lock"
    /\ UNCHANGED vars

(* Past the deadline a waiter unlinks the file it finds, stale or not. *)
Expire(w) ==
    /\ ~fcntl /\ lockfile
    /\ pc[w] = "lock"
    /\ lockfile' = FALSE
    /\ UNCHANGED <<fcntl, ledger, pc, call, derived, faults>>

(* _tail_hash_from_lines reads the tail as it is, broken chain or not. *)
ReadTail(w) ==
    /\ pc[w] = "tail"
    /\ chain # <<>> => chain[Len(chain)].form = "entry"
    /\ tail' = [tail EXCEPT ![w] =
                   IF chain = <<>> THEN Genesis ELSE chain[Len(chain)].hash]
    /\ seq' = [seq EXCEPT ![w] = Len(chain)]
    /\ Goto(w, "write")
    /\ UNCHANGED <<fcntl, ledger, lockfile, result, derived, faults>>

(* ... and raises ValueError if it cannot be parsed. *)
RefuseTail(w) ==
    /\ pc[w] = "tail"
    /\ chain # <<>> /\ chain[Len(chain)].form = "noise"
    /\ result' = [result EXCEPT ![w] = "refused"]
    /\ Goto(w, "unlock")
    /\ UNCHANGED <<fcntl, ledger, lockfile, tail, seq, derived, faults>>

(* Mutant: an unreadable tail is written over. *)
PutRepairing(line) ==
    IF chain # <<>> /\ chain[Len(chain)].form = "noise"
    THEN [chain EXCEPT ![Len(chain)] = line]
    ELSE Append(chain, line)

(* Mutant: without O_APPEND a freshly opened file is written at its start. *)
PutAtStart(line) == IF chain = <<>> THEN <<line>> ELSE [chain EXCEPT ![1] = line]

(* O_APPEND: the bytes land behind the last one.  A last line without its   *)
(* newline and what is written behind it are ONE line to read_lines, and    *)
(* json.loads refuses two objects on a line.                                *)
Put(line) ==
    IF ended THEN Append(chain, line) ELSE [chain EXCEPT ![Len(chain)] = Noise]

(* A write that leaves all of the line, part of it ("cut"), or all but the  *)
(* newline ("unended").                                                     *)
Write(w, extent) ==
    /\ chain' = Put(IF extent = "cut" THEN Noise ELSE Entry(w, tail[w]))
    /\ ended' = (extent = "whole")
    /\ tears' = IF extent = "whole" THEN tears ELSE tears + 1
    /\ kills + tears' + damages <= MaxFaults

Extents == {"whole", "cut", "unended"}

(* os.write may write fewer bytes than it was given (the disk fills up);    *)
(* its result is not looked at.                                             *)
AppendLine(w, extent) ==
    /\ pc[w] = "write"
    /\ Write(w, extent)
    /\ Goto(w, "unlock")
    /\ UNCHANGED <<fcntl, lockfile, call, derived, kills, damages>>

(* os.write raises with nothing written, or fsync raises behind a write of   *)
(* whatever extent: the call fails and its bytes stay in the ledger.         *)
AppendRaises(w) ==
    /\ pc[w] = "write"
    /\ (\E extent \in Extents : Write(w, extent)) \/ UNCHANGED <<ledger, tears>>
    /\ result' = [result EXCEPT ![w] = "failed"]
    /\ Goto(w, "unlock")
    /\ UNCHANGED <<fcntl, lockfile, tail, seq, derived, kills, damages>>

(* LOCK_UN, or unlink of whatever lock file is there. *)
Unlock(w) ==
    /\ pc[w] = "unlock"
    /\ lockfile' = FALSE
    /\ Goto(w, IF result[w] = "indexed" THEN "index" ELSE result[w])
    /\ UNCHANGED <<fcntl, ledger, call, derived, faults>>

-----------------------------------------------------------------------------
(* INSERT OR REPLACE: a row with the same entry_hash gives way. *)
Row(n, hash) == [seq |-> n, hash |-> hash]
Insert(rows, row) == {r \in rows : r.hash # row.hash} \cup {row}

(* Mutant: the sequence number is read off the ledger when indexing. *)
IndexEntryLate(w) ==
    /\ pc[w] = "index"
    /\ index' = Insert(index, Row(Len(chain) - 1, Hash(tail[w], w)))
    /\ Goto(w, "done")
    /\ UNCHANGED <<fcntl, ledger, lockfile, call, rebuild, faults>>

IndexEntry(w) ==
    /\ pc[w] = "index"
    /\ index' = Insert(index, Row(seq[w], Hash(tail[w], w)))
    /\ Goto(w, "done")
    /\ UNCHANGED <<fcntl, ledger, lockfile, call, rebuild, faults>>

(* A failing index is reported under _index_error and append returns. *)
IndexFails(w) ==
    /\ pc[w] = "index"
    /\ Goto(w, "done")
    /\ UNCHANGED <<fcntl, ledger, lockfile, call, derived, faults>>

(* rebuild_index, without the lock: verify, read again, replace all rows. *)
RebuildVerifies ==
    /\ rebuild.at = "idle"
    /\ Intact(chain)
    /\ rebuild' = Rebuilding("verified", <<>>)
    /\ UNCHANGED <<fcntl, ledger, lockfile, pc, call, index, faults>>

RebuildReads ==
    /\ rebuild.at = "verified"
    /\ rebuild' = IF \A i \in DOMAIN chain : chain[i].form = "entry"
                  THEN Rebuilding("read", chain)
                  ELSE Rebuilding("over", <<>>)      \* read_entries raises
    /\ UNCHANGED <<fcntl, ledger, lockfile, pc, call, index, faults>>

RebuildReplaces ==
    /\ rebuild.at = "read"
    /\ index' = {Row(i - 1, rebuild.entries[i].hash) : i \in DOMAIN rebuild.entries}
    /\ rebuild' = Rebuilding("over", <<>>)
    /\ UNCHANGED <<fcntl, ledger, lockfile, pc, call, faults>>

-----------------------------------------------------------------------------
(* An appender dies, in the middle of a write or not. *)
Kill(w) ==
    /\ kills + tears + damages < MaxFaults
    /\ pc[w] \in {"lock", "index"} \cup Inside
    /\ \/ pc[w] = "write" /\ \E extent \in Extents : Write(w, extent)
       \/ UNCHANGED <<ledger, tears>>
    /\ kills' = kills + 1
    /\ Goto(w, "killed")
    /\ UNCHANGED <<fcntl, lockfile, call, derived, damages>>

(* Somebody edits a line: another JSON object, or no JSON any more. *)
Damage(i) ==
    /\ kills + tears + damages < MaxFaults
    /\ i \in DOMAIN chain
    /\ \E line \in {Noise, [chain[i] EXCEPT !.body = Forged]} :
          /\ line # chain[i]
          /\ chain' = [chain EXCEPT ![i] = line]
    /\ damages' = damages + 1
    /\ UNCHANGED <<fcntl, ended, lockfile, pc, call, derived, kills, tears>>

Step(w) ==
    \/ Acquire(w)
    \/ Expire(w)
    \/ ReadTail(w)
    \/ RefuseTail(w)
    \/ \E extent \in Extents : AppendLine(w, extent)
    \/ AppendRaises(w)
    \/ Unlock(w)
    \/ IndexEntry(w)
    \/ IndexFails(w)

Next ==
    \/ \E w \in Appends : Step(w) \/ Kill(w)
    \/ RebuildVerifies \/ RebuildReads \/ RebuildReplaces
    \/ \E i \in 1..Cardinality(Appends) : Damage(i)

Spec == Init /\ [][Next]_vars

(* An appender that is alive keeps running: it is never interrupted for     *)
(* ever, and a call to flock returns once the lock is free for good.        *)
FairSpec == Spec /\ \A w \in Appends : WF_vars(Step(w))

-----------------------------------------------------------------------------
(* Type invariant. *)
Line == [form: {"entry", "noise"}, body: Bodies, prev: Seq(Bodies), hash: Seq(Bodies)]

TypeOK ==
    /\ fcntl \in BOOLEAN /\ ended \in BOOLEAN /\ lockfile \in BOOLEAN
    /\ chain \in Seq(Line)
    /\ pc \in [Appends -> PCs]
    /\ tail \in [Appends -> Seq(Bodies)]
    /\ seq \in [Appends -> Nat]
    /\ result \in [Appends -> Outcomes]
    /\ index \subseteq [seq: Nat, hash: Seq(Bodies)]
    /\ rebuild \in [at: {"idle", "verified", "read", "over"}, entries: Seq(Line)]
    /\ kills \in Nat /\ tears \in Nat /\ damages \in Nat

(* "two concurrent appenders cannot both chain off the same predecessor, and *)
(* cannot interleave partial lines": with flock, whoever dies and whatever   *)
(* the disk drops, a ledger nobody has edited verifies up to its last line.  *)
IntactButTail ==
    fcntl /\ damages = 0 =>
        \A i \in DOMAIN chain :
            LineOK(chain, i) \/ (i = Len(chain) /\ chain[i].form = "noise")

(* An append that returned and whose entry is no longer in the ledger. *)
Acknowledged == {w \in Appends : pc[w] = "done"}
Kept(w) == \E i \in DOMAIN chain : chain[i].form = "entry" /\ chain[i].body = w
Lost == {w \in Acknowledged : ~Kept(w)}

(* What the ledger can lose to a torn write: only its last line, which held  *)
(* two entries at most, and never without a trace.                           *)
LostOnlyAtTail ==
    fcntl /\ damages = 0 /\ Lost # {} =>
        /\ chain[Len(chain)].form = "noise"
        /\ \E v, w \in Appends : Lost \subseteq {v, w}

(* The index is "DERIVED": as long as the ledger verifies, every row is a    *)
(* line of it, under the number of that line.                                *)
IndexTrue ==
    Intact(chain) =>
        \A row \in index :
            row.seq < Len(chain) /\ chain[row.seq + 1].hash = row.hash

(* "Appending is not repairing": no step but an edit from outside moves the  *)
(* break that verify_chain reports.                                          *)
AppendingIsNotRepairing ==
    [][\A i \in DOMAIN chain :
          BreakAt(chain, i) /\ damages' = damages => BreakAt(chain', i)]_vars

(* "must not wedge writes forever behind a lock file left by a crashed       *)
(* holder": every call comes to an end, with either lock.                    *)
Ended == {"done", "refused", "failed", "killed"}
AppendReturns == \A w \in Appends : pc[w] = "lock" ~> pc[w] \in Ended
=============================================================================
