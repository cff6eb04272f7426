----------------------------- MODULE Approvals -----------------------------
(***************************************************************************)
(* The gated-response flow of console/soc.py: POST /api/approvals and its  *)
(* approve / reject sub-resources.                                         *)
(*                                                                         *)
(* serve.py runs every HTTP request on a thread of its own                 *)
(* (ThreadingHTTPServer) and none of the three handlers takes a lock, so a *)
(* handler is a small program counter here, one action per access to       *)
(* something another thread or process can see: the approvals file, the    *)
(* audit ledger, the run state, the connector.  A handler loads the WHOLE  *)
(* approvals.json once and later writes that copy back, WHOLE.             *)
(*                                                                         *)
(* The ledger is one atomic append here; AuditChain models the append      *)
(* itself.                                                                 *)
(***************************************************************************)
EXTENDS Integers, Sequences, FiniteSets

CONSTANTS
    Requests,       \* requests the server is ever asked to serve, one thread each
    Ids,            \* approval ids soc._approval_id may draw (48 random bits: fresh)
    None,           \* "no id yet"
    MaxInFlight,    \* how many requests may be in service at once
    MaxCrashes,     \* bound on process crashes
    LedgerMayRefuse \* whether audit.append may raise (damaged tail, disk full)

ASSUME ApprovalsAssumption ==
    /\ None \notin Ids
    /\ MaxInFlight \in Nat \ {0}
    /\ MaxCrashes \in Nat
    /\ LedgerMayRefuse \in BOOLEAN

(* APPROVAL_STATES, and "absent" for an id that is no key of the file. *)
Settled == {"rejected", "executed", "failed"}
ApprovalStates == {"pending", "approved"} \cup Settled
Status == ApprovalStates \cup {"absent"}
Store == [Ids -> Status]

NoRecords == [a \in Ids |-> "absent"]

(* A file json.loads refuses.  "empty": truncated by open(.., "w"), not     *)
(* written yet.  "garbled": a longer text with a shorter one written over   *)
(* its beginning, which json.loads reports as extra data.                   *)
Unreadable == {"empty", "garbled"}
Torn(form) == [form |-> form, records |-> NoRecords]
Json(store) == [form |-> "json", records |-> store]
File == {Json(store) : store \in Store} \cup {Torn(form) : form \in Unreadable}

Ops == {"create", "approve", "reject"}

(* Where a handler stands, by the step it takes next. *)
InService == {"stepup", "load", "evaluate", "open", "write", "audit", "fire"}
Over == {"answered", "raised", "killed", "unrendered"}
PCs == {"unsent"} \cup InService \cup Over

(* audit.STATUSES: what a ledger entry may report. *)
Entry == [by: Requests, id: Ids, step: {"approve", "reject", "execute"},
          status: {"approved"} \cup Settled]

VARIABLES
    disk,       \* console/.soc/approvals.json
    ledger,     \* console/.soc/audit/chain.jsonl
    verified,   \* the requests whose passphrase the step-up accepted
    fired,      \* the requests whose connector.execute was invoked
    contained,  \* those of them the connector answered ok
    supported,  \* STATE: do the findings of the loaded run meet the requirements
    known,      \* do the incident and the runbook still exist on disk
    pc, op, target,
    seen,       \* the STATE each handler was given when it was dispatched
    mem,        \* the store each handler loaded, with its own edits
    crashes

files == <<disk, ledger>>
world == <<supported, known>>
effects == <<fired, contained>>
counters == <<verified, crashes>>
request == <<op, target, seen>>
vars == <<disk, ledger, verified, fired, contained, supported, known,
          pc, op, target, seen, mem, crashes>>

InFlight == {r \in Requests : pc[r] \in InService}

(* soc._load: {} for a missing or unreadable file. *)
Load(file) == IF file.form = "json" THEN file.records ELSE NoRecords

(* Where a handler goes from r's step, everything it holds unchanged. *)
Goto(r, label) == pc' = [pc EXCEPT ![r] = label]

Init ==
    /\ disk = Json(NoRecords)
    /\ ledger = <<>>
    /\ verified = {} /\ fired = {} /\ contained = {}
    /\ supported \in BOOLEAN /\ known = TRUE
    /\ pc = [r \in Requests |-> "unsent"]
    /\ op = [r \in Requests |-> "create"]
    /\ target = [r \in Requests |-> None]
    /\ seen = [r \in Requests |-> FALSE]
    /\ mem = [r \in Requests |-> NoRecords]
    /\ crashes = 0

(***************************************************************************)
(* Dispatch.  serve.py passes STATE along, so what a handler evaluates is  *)
(* the run that was loaded when the request arrived.                       *)
(***************************************************************************)
Fresh(a) == \A r \in Requests : ~(op[r] = "create" /\ target[r] = a)

Dispatch(r, o) ==
    /\ pc[r] = "unsent"
    /\ Cardinality(InFlight) < MaxInFlight
    /\ op' = [op EXCEPT ![r] = o]
    /\ seen' = [seen EXCEPT ![r] = supported]

SendCreate(r) ==
    /\ Dispatch(r, "create")
    /\ Goto(r, "evaluate")
    /\ UNCHANGED <<files, effects, world, target, mem, counters>>

SendDecision(r, o, a) ==
    /\ Dispatch(r, o)
    /\ ~Fresh(a)                    \* an id the server has drawn
    /\ target' = [target EXCEPT ![r] = a]
    /\ Goto(r, "stepup")
    /\ UNCHANGED <<files, effects, world, mem, counters>>

(***************************************************************************)
(* create_approval.                                                        *)
(***************************************************************************)

(* Unknown incident or runbook: 404; not eligible: 409.  Nothing written. *)
RefuseCreate(r) ==
    /\ pc[r] = "evaluate" /\ op[r] = "create"
    /\ ~(known /\ seen[r])
    /\ Goto(r, "answered")
    /\ UNCHANGED <<files, effects, world, request, mem, counters>>

AcceptCreate(r, a) ==
    /\ pc[r] = "evaluate" /\ op[r] = "create"
    /\ known /\ seen[r]
    /\ Fresh(a)
    /\ target' = [target EXCEPT ![r] = a]
    /\ Goto(r, "load")
    /\ UNCHANGED <<files, effects, world, op, seen, mem, counters>>

LoadForCreate(r) ==
    /\ pc[r] = "load" /\ op[r] = "create"
    /\ mem' = [mem EXCEPT ![r] = [Load(disk) EXCEPT ![target[r]] = "pending"]]
    /\ Goto(r, "open")
    /\ UNCHANGED <<files, effects, world, request, counters>>

(***************************************************************************)
(* reject_approval and approve_approval up to the first save.              *)
(***************************************************************************)
StepUp(r, ok) ==
    /\ pc[r] = "stepup"
    /\ verified' = IF ok THEN verified \cup {r} ELSE verified
    /\ Goto(r, IF ok THEN "load" ELSE "answered")
    /\ UNCHANGED <<files, effects, world, request, mem, crashes>>

(* 404 and 409: the record is missing or no longer pending. *)
NotPending(r) ==
    /\ pc[r] = "load" /\ op[r] # "create"
    /\ Load(disk)[target[r]] # "pending"
    /\ Goto(r, "answered")
    /\ UNCHANGED <<files, effects, world, request, mem, counters>>

(* Mutant: an approval that is no longer pending can still be rejected. *)
LoadForRejectLate(r) ==
    /\ pc[r] = "load" /\ op[r] = "reject"
    /\ Load(disk)[target[r]] # "absent"
    /\ mem' = [mem EXCEPT ![r] = [Load(disk) EXCEPT ![target[r]] = "rejected"]]
    /\ Goto(r, "open")
    /\ UNCHANGED <<files, effects, world, request, counters>>

LoadForReject(r) ==
    /\ pc[r] = "load" /\ op[r] = "reject"
    /\ Load(disk)[target[r]] = "pending"
    /\ mem' = [mem EXCEPT ![r] = [Load(disk) EXCEPT ![target[r]] = "rejected"]]
    /\ Goto(r, "open")
    /\ UNCHANGED <<files, effects, world, request, counters>>

LoadForApprove(r) ==
    /\ pc[r] = "load" /\ op[r] = "approve"
    /\ Load(disk)[target[r]] = "pending"
    /\ mem' = [mem EXCEPT ![r] = Load(disk)]
    /\ Goto(r, "evaluate")
    /\ UNCHANGED <<files, effects, world, request, counters>>

(* Mutant: the proof taken when the approval was created is good enough. *)
ReevaluateTrusting(r) ==
    /\ pc[r] = "evaluate" /\ op[r] = "approve"
    /\ mem' = [mem EXCEPT ![r][target[r]] = IF known THEN "approved" ELSE "failed"]
    /\ Goto(r, "open")
    /\ UNCHANGED <<files, effects, world, request, counters>>

(* The re-evaluation guarantee: incident and runbook as they are on disk    *)
(* now, findings as they were when the request was dispatched.              *)
Reevaluate(r) ==
    /\ pc[r] = "evaluate" /\ op[r] = "approve"
    /\ mem' = [mem EXCEPT ![r][target[r]] =
                  IF known /\ seen[r] THEN "approved" ELSE "failed"]
    /\ Goto(r, "open")
    /\ UNCHANGED <<files, effects, world, request, counters>>

(***************************************************************************)
(* soc._save = Path.write_text: open for writing (truncates), then write   *)
(* the text at offset 0.  If another handler wrote in between, the text    *)
(* lands over the other one: the longer of the two leaves its tail.        *)
(***************************************************************************)
OpenStore(r) ==
    /\ pc[r] = "open"
    /\ disk' = Torn("empty")
    /\ Goto(r, "write")
    /\ UNCHANGED <<ledger, effects, world, request, mem, counters>>

WriteStore(r) ==
    /\ pc[r] = "write"
    /\ \/ disk' = Json(mem[r])
       \/ disk.form # "empty" /\ disk' = Torn("garbled")
    /\ Goto(r, IF op[r] = "create" THEN "answered" ELSE "audit")
    /\ UNCHANGED <<ledger, effects, world, request, mem, counters>>

(***************************************************************************)
(* soc._audit, after the save it reports.                                  *)
(***************************************************************************)
StepOf(r) == IF r \in fired THEN "execute" ELSE op[r]

(* Mutant: the entry reports the record as a fresh read finds it. *)
AppendAuditReread(r) ==
    /\ pc[r] = "audit"
    /\ ledger' = Append(ledger, [by |-> r, id |-> target[r], step |-> StepOf(r),
                                 status |-> Load(disk)[target[r]]])
    /\ Goto(r, IF mem[r][target[r]] = "approved" THEN "fire" ELSE "answered")
    /\ UNCHANGED <<disk, effects, world, request, mem, counters>>

AppendAudit(r) ==
    /\ pc[r] = "audit"
    /\ ledger' = Append(ledger, [by |-> r, id |-> target[r], step |-> StepOf(r),
                                 status |-> mem[r][target[r]]])
    /\ Goto(r, IF mem[r][target[r]] = "approved" THEN "fire" ELSE "answered")
    /\ UNCHANGED <<disk, effects, world, request, mem, counters>>

(* Mutant: an append that raises is swallowed. *)
AuditRaisesUnseen(r) ==
    /\ LedgerMayRefuse
    /\ pc[r] = "audit"
    /\ Goto(r, "answered")
    /\ UNCHANGED <<files, effects, world, request, mem, counters>>

(* audit.append raises: the handler ends there, its record already saved. *)
AuditRaises(r) ==
    /\ LedgerMayRefuse
    /\ pc[r] = "audit"
    /\ Goto(r, "raised")
    /\ UNCHANGED <<files, effects, world, request, mem, counters>>

(* _render_params raises: int() of the line of a finding of the loaded run  *)
(* that has none (n = ""), which neither the eligibility nor a try looks    *)
(* at.  A create has written nothing yet; an approve has its record saved   *)
(* as approved, and audited.  Any run may be loaded between two requests,   *)
(* so each rendering finds such a finding or not.                           *)
RenderRaises(r) ==
    /\ \/ pc[r] = "evaluate" /\ op[r] = "create" /\ known /\ seen[r]
       \/ pc[r] = "fire"
    /\ Goto(r, "unrendered")
    /\ UNCHANGED <<files, effects, world, request, mem, counters>>

(* Mutant: any answer of the connector counts as containment. *)
FireConnectorHopeful(r, ok) ==
    /\ pc[r] = "fire"
    /\ fired' = fired \cup {r}
    /\ contained' = IF ok THEN contained \cup {r} ELSE contained
    /\ mem' = [mem EXCEPT ![r][target[r]] = "executed"]
    /\ Goto(r, "open")
    /\ UNCHANGED <<files, world, request, counters>>

(* Mutant: a failing connector ends the request without a save. *)
FireConnectorForgets(r, ok) ==
    /\ pc[r] = "fire"
    /\ fired' = fired \cup {r}
    /\ contained' = IF ok THEN contained \cup {r} ELSE contained
    /\ mem' = [mem EXCEPT ![r][target[r]] = IF ok THEN "executed" ELSE "failed"]
    /\ Goto(r, IF ok THEN "open" ELSE "answered")
    /\ UNCHANGED <<files, world, request, counters>>

(***************************************************************************)
(* connector.execute, up to tens of seconds after the load.  A connector   *)
(* that raises is one that answers not ok.                                 *)
(***************************************************************************)
FireConnector(r, ok) ==
    /\ pc[r] = "fire"
    /\ fired' = fired \cup {r}
    /\ contained' = IF ok THEN contained \cup {r} ELSE contained
    /\ mem' = [mem EXCEPT ![r][target[r]] = IF ok THEN "executed" ELSE "failed"]
    /\ Goto(r, "open")
    /\ UNCHANGED <<files, world, request, counters>>

(***************************************************************************)
(* The rest of the world.                                                  *)
(***************************************************************************)

(* Another run is loaded or published; an incident or a runbook disappears. *)
WorldChanges ==
    /\ supported' \in BOOLEAN
    /\ known' \in BOOLEAN
    /\ UNCHANGED <<files, effects, pc, request, mem, counters>>

(* The process dies and starts again: every thread is gone, files stay. *)
Crash ==
    /\ crashes < MaxCrashes
    /\ crashes' = crashes + 1
    /\ pc' = [r \in Requests |-> IF r \in InFlight THEN "killed" ELSE pc[r]]
    /\ UNCHANGED <<files, effects, world, request, mem, verified>>

Handle(r) ==
    \/ RefuseCreate(r)
    \/ \E a \in Ids : AcceptCreate(r, a)
    \/ LoadForCreate(r)
    \/ \E ok \in BOOLEAN : StepUp(r, ok)
    \/ NotPending(r)
    \/ LoadForReject(r)
    \/ LoadForApprove(r)
    \/ Reevaluate(r)
    \/ OpenStore(r)
    \/ WriteStore(r)
    \/ AppendAudit(r)
    \/ AuditRaises(r)
    \/ RenderRaises(r)
    \/ \E ok \in BOOLEAN : FireConnector(r, ok)

Next ==
    \/ \E r \in Requests : SendCreate(r)
    \/ \E r \in Requests, o \in {"approve", "reject"}, a \in Ids : SendDecision(r, o, a)
    \/ \E r \in Requests : Handle(r)
    \/ WorldChanges
    \/ Crash

Spec == Init /\ [][Next]_vars

(* A thread the server started keeps running until it answers. *)
FairSpec == Spec /\ \A r \in Requests : WF_vars(Handle(r))

-----------------------------------------------------------------------------
(* The part of a state the safety properties speak of. *)
Recorded(a) == Load(disk)[a]

InLedger(r, a, step, status) ==
    \E k \in DOMAIN ledger :
        ledger[k] = [by |-> r, id |-> a, step |-> step, status |-> status]

(* The entry r writes when it approves a. *)
Approval(r, a) == [by |-> r, id |-> a, step |-> "approve", status |-> "approved"]

(* Type invariant. *)
TypeOK ==
    /\ disk \in File
    /\ ledger \in Seq(Entry)
    /\ verified \subseteq Requests
    /\ fired \subseteq Requests /\ contained \subseteq fired
    /\ supported \in BOOLEAN /\ known \in BOOLEAN
    /\ pc \in [Requests -> PCs]
    /\ op \in [Requests -> Ops]
    /\ target \in [Requests -> Ids \cup {None}]
    /\ seen \in [Requests -> BOOLEAN]
    /\ mem \in [Requests -> Store]
    /\ crashes \in Nat

(* "The ONLY path on which a connector is ever invoked, and only AFTER a     *)
(* successful step-up": whatever the interleaving, the stale copies and the  *)
(* crashes, a connector fired only for an approve whose passphrase was       *)
(* verified, whose findings met the requirements, and whose approval was     *)
(* already in the ledger.                                                    *)
FiredOnlyAfterApproval ==
    \A r \in fired :
        /\ r \in verified
        /\ op[r] = "approve" /\ seen[r]
        /\ InLedger(r, target[r], "approve", "approved")

(* "failed records the real reason and NEVER fake-contains": a record that   *)
(* says executed stands for a connector that did answer ok, and that the     *)
(* ledger can be asked about; so does every copy a handler may still write.  *)
ContainmentIsReal ==
    \A a \in Ids :
        Recorded(a) = "executed" =>
            \E r \in contained :
                target[r] = a /\ InLedger(r, a, "approve", "approved")

(* The ledger never lies: an execute entry follows the approved entry of the *)
(* same request and reports what its connector answered; a rejected entry is *)
(* of a request that touched no connector.                                   *)
EntryIsTrue(k) ==
    LET e == ledger[k] IN
    /\ e.step = "execute" =>
          /\ e.by \in fired
          /\ e.status = (IF e.by \in contained THEN "executed" ELSE "failed")
          /\ \E j \in 1..(k - 1) : ledger[j] = Approval(e.by, e.id)
    /\ e.status = "rejected" => e.by \notin fired

LedgerIsTrue == \A k \in DOMAIN ledger : EntryIsTrue(k)

(* "every approve/reject/execute is written to the ... ledger": a record may *)
(* be ahead of the ledger only while the handler that decided it is about to *)
(* append the entry, or when that handler was cut short right there.         *)
DecidedIsAudited ==
    \A a \in Ids :
        Recorded(a) \in {"approved"} \cup Settled =>
            \/ \E k \in DOMAIN ledger : ledger[k].id = a /\ ledger[k].status = Recorded(a)
            \/ \E r \in Requests :
                  /\ target[r] = a /\ mem[r][a] = Recorded(a)
                  /\ pc[r] \in {"open", "write", "audit", "raised", "killed"}
=============================================================================
