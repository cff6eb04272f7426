---------------------------- MODULE MCRunReview ----------------------------
(* RunReview with two runs on one log, two other requests and one verdict   *)
(* on a finding whose id moves.                                             *)
EXTENDS RunReview

CONSTANTS x1, x2, r1, r2, l1, f1, tp

TwoRuns == {x1, x2}
TwoRequests == {r1, r2}
OneLog == {l1}
OneVerdict == {tp}
OneFinding == {f1}
Moving == {f1}
=============================================================================
