---------------------------- MODULE MCAuditChain ----------------------------
(* AuditChain on small instances, on either platform.                        *)
EXTENDS AuditChain, TLC

CONSTANTS w1, w2, w3

TwoAppends == {w1, w2}
ThreeAppends == {w1, w2, w3}
Symmetric == Permutations(ThreeAppends)
=============================================================================
