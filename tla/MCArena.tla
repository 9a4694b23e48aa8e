------------------------------ MODULE MCArena ------------------------------
(* Instances of Arena for TLC: two units to an alignment, four to a page.   *)
EXTENDS Arena

CONSTANT s1
=============================================================================
