----------------------------- MODULE MCPosture -----------------------------
EXTENDS Posture, TLC

Requests == Permutations(Request)
=============================================================================
