------------------------------ MODULE MCServer ------------------------------
EXTENDS Server, TLC
CONSTANTS c1, c2, c3, c4, c5
(* c1 sends requests of two units, c2 requests larger than its buffer. *)
MCReqLen == [c \in Conns |-> IF c = c1 THEN 2 ELSE IF c = c2 THEN 4 ELSE 1]
(* Clients that send requests of one unit. *)
Alike == Permutations({c3, c4, c5} \cap Conns)

(* What the pools run tells apart: but for the ranges in TypeOK it never   *)
(* looks at answered, nor at what a closed connection left unread.         *)
PoolsView ==
  <<stop, listening, backlog, closed, [c \in Conns \ closed |-> <<inbox[c], eof[c]>>],
    accVars, wake, queue, workVars, mainPc, owed>>
=============================================================================
