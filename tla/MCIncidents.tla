---------------------------- MODULE MCIncidents ----------------------------
(***************************************************************************)
(* The two views of the case store, side by side: whole requests one at a  *)
(* time (Incidents), and the loads and saves of requests that overlap      *)
(* (CaseFile).  Each runs while the other has not begun.                   *)
(***************************************************************************)
EXTENDS Incidents, CaseFile

CONSTANTS d1

MCDerived == {d1}
MCRuns == {{}, {d1}}

\* Two cases, one with an observable, as create_case and add_case_observable
\* leave them. They are alike but for that: the first request is about case 1,
\* or creates case 3.
MCStart == [n \in 1..2 |->
    [activity |-> {}, observables |-> IF n = 1 THEN <<"none">> ELSE <<>>,
     attachments |-> <<>>, links |-> {}]]

MCInit == Init /\ FileInit

MCNext ==
    \/ Next /\ (\A r \in Requests : request[r] = Idle) /\ UNCHANGED fileVars
    \/ /\ FileNext /\ incidents = <<>> /\ run = {} /\ decisions = 0 /\ UNCHANGED vars
      /\ request'[1].case # 2

MCSpec == MCInit /\ [][MCNext]_<<vars, fileVars>>
=============================================================================
