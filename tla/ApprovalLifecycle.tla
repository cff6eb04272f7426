------------------------- MODULE ApprovalLifecycle -------------------------
(***************************************************************************)
(* What the approvals flow promises (the state machine stated above        *)
(* APPROVAL_STATES in console/soc.py):                                     *)
(*                                                                         *)
(*    pending -> approved -> executed | failed                             *)
(*    pending -> rejected                                                  *)
(*    pending -> failed        when the re-evaluation refuses              *)
(*                                                                         *)
(* and the connector of an approval fires once at most, while it is        *)
(* approved.  A crash may lose approvals and nothing else does.            *)
(***************************************************************************)
EXTENDS Integers

CONSTANTS Ids

VARIABLES
    life,      \* the state of each approval
    firings,   \* how many times its connector was invoked
    crashes    \* how many times the process died

avars == <<life, firings, crashes>>

Stages == {"absent", "pending", "approved", "rejected", "executed", "failed", "lost"}

LifecycleInit ==
    /\ life = [a \in Ids |-> "absent"]
    /\ firings = [a \in Ids |-> 0]
    /\ crashes = 0

Move(a, from, to) ==
    /\ life[a] = from
    /\ life' = [life EXCEPT ![a] = to]
    /\ UNCHANGED <<firings, crashes>>

Request(a) == Move(a, "absent", "pending")
Approve(a) == Move(a, "pending", "approved")
Reject(a)  == Move(a, "pending", "rejected")
Refuse(a)  == Move(a, "pending", "failed")

Fire(a) ==
    /\ life[a] = "approved"
    /\ firings[a] = 0
    /\ firings' = [firings EXCEPT ![a] = 1]
    /\ UNCHANGED <<life, crashes>>

Settle(a) ==
    /\ firings[a] = 1
    /\ Move(a, "approved", "executed") \/ Move(a, "approved", "failed")

CrashLoses(S) ==
    /\ crashes' = crashes + 1
    /\ life' = [a \in Ids |-> IF a \in S THEN "lost" ELSE life[a]]
    /\ UNCHANGED firings

LifecycleNext ==
    \/ \E a \in Ids : \/ Request(a) \/ Approve(a) \/ Reject(a) \/ Refuse(a)
                      \/ Fire(a) \/ Settle(a)
    \/ \E S \in SUBSET Ids : CrashLoses(S)

LifecycleSpec == LifecycleInit /\ [][LifecycleNext]_avars
=============================================================================
