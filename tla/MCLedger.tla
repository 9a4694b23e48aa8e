------------------------------ MODULE MCLedger ------------------------------
EXTENDS Ledger, TLC

CONSTANTS t1, t2, t3, a, ab

(* The path of a is the beginning of the path of ab. *)
Nested == [k \in Keys |-> IF k = ab THEN {a} ELSE {}]

ThreadSymmetry == Permutations(Threads)
=============================================================================
