---------------------------- MODULE MCOperator -----------------------------
(* Small instances of Operator for TLC: see README.md for the bounds.      *)
EXTENDS Operator, TLC

CONSTANTS p1, p2, m1, m2

SizesUpTo1 == {0, 1}
SizesUpTo2 == 1..2
ThreeSizes == {-1, 1, 2}

Symmetry == Permutations(Procs) \cup Permutations(Pods)
============================================================================
