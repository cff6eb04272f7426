-------------------------- MODULE MCApprovalsSerial -------------------------
(* ApprovalsSerial on a small instance: three requests, one at a time.      *)
EXTENDS ApprovalsSerial, TLC

CONSTANTS r1, r2, r3, r4, a1, a2

ThreeRequests == {r1, r2, r3}
OneId == {a1}
TwoIds == {a1, a2}

FourRequests == {r1, r2, r3, r4}

ThreeSymmetric == Permutations(ThreeRequests)
FourSymmetric == Permutations(FourRequests) \cup Permutations(TwoIds)
=============================================================================
