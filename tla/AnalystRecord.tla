--------------------------- MODULE AnalystRecord ---------------------------
(***************************************************************************)
(* What the incident store promises the analyst: an incident that is there *)
(* stays, its state and its disposition are what the analyst last made     *)
(* them, and the history of dispositions is only appended to.  Analyses,   *)
(* listings and cases make incidents appear; they change no word of it.    *)
(***************************************************************************)
EXTENDS Integers, Sequences

CONSTANTS
    Ids, States,
    Terminal,      \* a subset of States, "closed" among them; "absent" is not in States
    Dispositions,
    None           \* not a disposition

VARIABLES
    standing,   \* the state of each incident, or "absent"
    holding,    \* the disposition in force
    trail       \* dispositionHistory

rvars == <<standing, holding, trail>>

Marks == [action : {"set", "cleared"}, disposition : Dispositions]

Said(action, d) == [action |-> action, disposition |-> d]

RecordInit ==
    /\ standing = [i \in Ids |-> "absent"]
    /\ holding = [i \in Ids |-> None]
    /\ trail = [i \in Ids |-> <<>>]

Appear ==
    /\ standing' \in [Ids -> States \cup {"absent"}]
    /\ \A i \in Ids : standing[i] # "absent" => standing'[i] = standing[i]
    /\ UNCHANGED <<holding, trail>>

(* The analyst moves i to state s, with disposition d on closing it.        *)
Decide(i, s, d) ==
    /\ standing[i] # "absent"
    /\ standing' = [standing EXCEPT ![i] = s]
    /\ \/ /\ d # None /\ s = "closed"
          /\ holding' = [holding EXCEPT ![i] = d]
          /\ trail' = [trail EXCEPT ![i] = Append(trail[i], Said("set", d))]
       \/ /\ d = None /\ s \notin Terminal /\ holding[i] # None
          /\ holding' = [holding EXCEPT ![i] = None]
          /\ trail' = [trail EXCEPT ![i] = Append(trail[i], Said("cleared", holding[i]))]
       \/ /\ d = None /\ (s \in Terminal \/ holding[i] = None)
          /\ UNCHANGED <<holding, trail>>

RecordNext ==
    \/ Appear
    \/ \E i \in Ids, s \in States, d \in Dispositions \cup {None} : Decide(i, s, d)

RecordSpec == RecordInit /\ [][RecordNext]_rvars

(* "a disposition describes a closed outcome, and leaving a stale one on an *)
(* investigating incident would be dishonest": a disposition is in force    *)
(* exactly while the history ends in its being set, and then the incident   *)
(* is resolved or closed.                                                   *)
Coherent ==
    \A i \in Ids :
        /\ holding[i] # None =>
              /\ standing[i] \in Terminal
              /\ trail[i] # <<>>
              /\ trail[i][Len(trail[i])] = Said("set", holding[i])
        /\ holding[i] = None /\ trail[i] # <<>> =>
              trail[i][Len(trail[i])].action = "cleared"
=============================================================================
