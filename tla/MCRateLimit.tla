----------------------------- MODULE MCRateLimit -----------------------------
(***************************************************************************)
(* An instance of RateLimit for TLC: one request more than the limit, and a *)
(* window that is longer than the skew and the delay together.              *)
(***************************************************************************)
EXTENDS RateLimit, TLC

RequestSymmetry == Permutations(Requests)
=============================================================================
