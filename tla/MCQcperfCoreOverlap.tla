------------------------- MODULE MCQcperfCoreOverlap -------------------------
(* QcperfCoreOverlap for TLC: one backend, two threads that call freely, and *)
(* an id equal to BackendMax.                                                *)
EXTENDS QcperfCoreOverlap, TLC

ClientSymmetry == Permutations(Client)
TwoIds == {0, 1}
=============================================================================
