----------------------------- MODULE MCRaftNode -----------------------------
(* Two nodes: each still needs the other's vote, and every message of one  *)
(* can be late, lost or overtaken by an election.                          *)
EXTENDS RaftNode, TLC

CONSTANTS n1, n2, v1, e0

MCNodes == {n1, n2}
MCValues == {v1}
Symmetry == Permutations(MCNodes)

=============================================================================
