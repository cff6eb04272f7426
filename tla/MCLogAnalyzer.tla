--------------------------- MODULE MCLogAnalyzer ---------------------------
(***************************************************************************)
(* The two halves of log_analyzer.py side by side: reading a file, and     *)
(* asking the model about the chunks of one. Each runs while the other     *)
(* has not begun.                                                          *)
(***************************************************************************)
EXTENDS MCIngest, MCAnalyzer

VARIABLE half

MCInit ==
    /\ half \in {"read", "ask"}
    /\ Init /\ DriverInit
    /\ half = "read" => input = Log(2, TRUE, FALSE, SubSeq(ThreeRules, 1, 2))
    /\ half = "ask" => file = Plain(<<"text">>, ".log", FALSE) /\ mode = "force"

MCNext ==
    /\ UNCHANGED half
    /\ \/ half = "read" /\ Next /\ UNCHANGED driverVars
       \/ half = "ask" /\ DriverNext /\ UNCHANGED vars

MCSpec == MCInit /\ [][MCNext]_<<vars, driverVars, half>>
=============================================================================
