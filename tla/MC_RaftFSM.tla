----------------------------- MODULE MC_RaftFSM -----------------------------
(* Three replicas for TLC: a cluster with a quorum of two.                 *)
EXTENDS RaftFSM, TLC

CONSTANTS n1, n2, n3

MCNode == {n1, n2, n3}

Symmetry == Permutations(MCNode)

=============================================================================
