------------------------------ MODULE MCQList ------------------------------
(***************************************************************************)
(* Threads, data and addresses are interchangeable.  Four nodes, because   *)
(* a shorter list is never walked from its tail.                           *)
(***************************************************************************)
EXTENDS QList

CONSTANTS a, b, x, y, n1, n2, n3, n4

Callers == {a, b}
Data == {x, y}
Nodes == {n1, n2, n3, n4}
Indices == 0..4
All == Adds \cup Frees \cup Reads

(* What is right with a mutex that is not recursive: set Recursive = FALSE  *)
(* and Operations <- NoInsert.                                              *)
NoInsert == All \ {"insert"}

Symmetry == Permutations(Callers) \cup Permutations(Data) \cup Permutations(Nodes)
=============================================================================
