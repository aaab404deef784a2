--------------------------- MODULE MCCacheCoherence ---------------------------
(***************************************************************************)
(* Instances of CacheCoherence for TLC: one write, one reader and two       *)
(* flights, so that an older reading can overtake a newer one on its way to *)
(* the cache and to the reader.                                             *)
(***************************************************************************)
EXTENDS CacheCoherence, TLC

CONSTANTS i1, w1, f1, f2, r1

OneInstance == [c \in Writes \cup Flights |-> i1]

FlightSymmetry == Permutations(Flights)
=============================================================================
