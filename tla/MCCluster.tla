----------------------------- MODULE MCCluster -----------------------------
(***************************************************************************)
(* Two commands at a time on a service of two nodes.  What happens after   *)
(* one wrote over the other, or one was killed, is not followed further:   *)
(* two of the three properties promise nothing then, and the third is      *)
(* proved there as elsewhere.                                              *)
(***************************************************************************)
EXTENDS Cluster, TLC

Undisturbed == ~stale /\ ~faulted

MCSymmetry == Permutations(Tools)
=============================================================================
