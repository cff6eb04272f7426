----------------------------- MODULE MCEfficacy -----------------------------
EXTENDS Efficacy, TLC

CONSTANTS r1, r2

Threads == Permutations(Requests)
=============================================================================
