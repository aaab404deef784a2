-------------------------- MODULE MCProductListPage --------------------------
(***************************************************************************)
(* An instance of ProductListPage for TLC.                                  *)
(***************************************************************************)
EXTENDS ProductListPage, TLC

CONSTANTS p1, p2, t1, t2

Symmetry == Permutations(Products) \cup Permutations(Tokens)
=============================================================================
