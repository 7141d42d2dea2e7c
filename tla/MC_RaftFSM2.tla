---------------------------- MODULE MC_RaftFSM2 -----------------------------
(* Two replicas for TLC: every vote is needed for a quorum of two.         *)
EXTENDS RaftFSM, TLC

CONSTANTS n1, n2

MCNode == {n1, n2}

=============================================================================
