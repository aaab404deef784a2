-------------------------- MODULE MCPublicReadLatency --------------------------
(***************************************************************************)
(* An instance of PublicReadLatency for TLC: three readers on two instances *)
(* that want the same product, so that the rebuild lock is contended, one   *)
(* instance polls while the other rebuilds, and a flight is joined.         *)
(***************************************************************************)
EXTENDS PublicReadLatency, TLC

CONSTANTS r1, r2, r3, i1, i2, p1

TwoInstances == r1 :> i1 @@ r2 :> i1 @@ r3 :> i2
OneProduct == [r \in Readers |-> p1]
StoredProduct == p1 :> "product"

SameInstanceSymmetry == Permutations({r1, r2})
=============================================================================
