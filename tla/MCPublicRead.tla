----------------------------- MODULE MCPublicRead -----------------------------
(***************************************************************************)
(* Instances of PublicRead for TLC: where each reader's request goes.       *)
(***************************************************************************)
EXTENDS PublicRead, TLC

CONSTANTS r1, r2, r3, i1, i2, p1, p2

\* One instance: two readers share a product, a third wants another one, so that
\* flights are joined and the query slots are contended.
OneInstance == [r \in Readers |-> i1]
TwoProducts == r1 :> p1 @@ r2 :> p1 @@ r3 :> p2

\* Two instances, one product: the rebuild lock is contended.
OneProduct == [r \in Readers |-> p1]
TwoReaders == r1 :> i1 @@ r2 :> i2

\* The product of the shared flights is on shelf, the other one is not.
StoredProducts == p1 :> "product" @@ p2 :> "missing"
StoredProduct == [p \in Products |-> "product"]

SameInstanceSymmetry == Permutations({r1, r2})
=============================================================================
