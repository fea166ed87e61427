---------------------------- MODULE MCZeroNetwork ---------------------------
(* Small instances of the network for TLC.                                 *)
EXTENDS ZeroNetwork, TLC

CONSTANTS r1, r2, p1, p2, p3

KeeperSymmetry == Permutations(Keepers)
=============================================================================
