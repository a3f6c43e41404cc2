---------------------------- MODULE MCQcperfCore ----------------------------
(* QcperfCore for TLC: a small set of backend ids, one of them not compiled  *)
(* in, and ids below and above the range.                                    *)
EXTENDS QcperfCore, TLC

ClientSymmetry == Permutations(Client)
LegalIds == {-1, 0, 1, 2, 4}
=============================================================================
