------------------------------ MODULE MCBTree -------------------------------
(* A tree with leaves of two slots and internal nodes of two keys, small    *)
(* enough that five keys reach three levels.  Values are only stored and    *)
(* compared for equality, so they are interchangeable.                      *)
EXTENDS BTree

CONSTANTS a, b

MCKeys == 1 .. 5
MCValues == {a, b}
MCSymmetry == Permutations(MCValues)
=============================================================================
