---------------------------- MODULE MCApprovals ----------------------------
(* Approvals on a small instance, any number of requests in service at once *)
(* up to MaxInFlight.                                                       *)
EXTENDS Approvals, TLC

CONSTANTS r1, r2, r3, r4, a1, a2

ThreeRequests == {r1, r2, r3}
OneId == {a1}
TwoIds == {a1, a2}

FourRequests == {r1, r2, r3, r4}

ThreeSymmetric == Permutations(ThreeRequests)
FourSymmetric == Permutations(FourRequests) \cup Permutations(TwoIds)
=============================================================================
