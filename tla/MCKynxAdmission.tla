-------------------------- MODULE MCKynxAdmission --------------------------
EXTENDS KynxAdmission, TLC

CONSTANTS a, b, t1, t2

TwoIPs == {a, b}
TwoThreads == {t1, t2}
Alike == Permutations(TwoIPs) \cup Permutations(TwoThreads)
=============================================================================
