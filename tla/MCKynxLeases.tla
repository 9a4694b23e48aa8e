---------------------------- MODULE MCKynxLeases ----------------------------
(* Instances of KynxTiers for TLC. *)
EXTENDS KynxTiers, TLC

CONSTANTS m1, m2

TwoMovers == {m1, m2}
MoverSymmetry == Permutations(TwoMovers)
=============================================================================
