-------------------------- MODULE ApprovalsSerial --------------------------
(***************************************************************************)
(* What the approvals flow promises when requests are served one after     *)
(* the other (MaxInFlight = 1): it implements ApprovalLifecycle, crashes   *)
(* included.  Approvals' own runs show what is left of it when requests    *)
(* overlap.                                                                *)
(***************************************************************************)
EXTENDS Approvals

(* A create has stored its record, or was cut short after drawing the id. *)
Stored(a) ==
    \E r \in Requests :
        /\ op[r] = "create" /\ target[r] = a
        /\ pc[r] \notin {"evaluate", "load", "open"}

(* The records a reader would find once the save in progress is through. *)
Settling ==
    IF \E r \in Requests : pc[r] = "write"
    THEN mem[CHOOSE r \in Requests : pc[r] = "write"]
    ELSE Load(disk)

life == [a \in Ids |->
            IF Settling[a] = "absent" /\ Stored(a) THEN "lost" ELSE Settling[a]]

firings == [a \in Ids |-> Cardinality({r \in fired : target[r] = a})]

Lifecycle == INSTANCE ApprovalLifecycle
                WITH life <- life, firings <- firings, crashes <- crashes,
                     Ids <- Ids

(* The flow, one request at a time, implements the state machine documented *)
(* above APPROVAL_STATES: a save takes effect when it truncates the file,   *)
(* and a crash between truncation and write loses every approval.           *)
ImplementsLifecycle == Lifecycle!LifecycleSpec

(* Unless its handler is cut short (by a crash, by a ledger that refuses   *)
(* the entry, or by evidence without a line number, which raises on the way *)
(* to the connector), an approved record reaches executed or failed; it is  *)
(* not left claiming that a connector is about to run.                      *)
CutShort(a) ==
    \E r \in Requests : target[r] = a /\ pc[r] \in {"raised", "killed", "unrendered"}

ApprovedSettles ==
    \A a \in Ids :
        Recorded(a) = "approved" ~>
            Recorded(a) \in {"executed", "failed"} \/ CutShort(a)
=============================================================================
