--------------------------- MODULE MCCacheManager ---------------------------
(***************************************************************************)
(* Small instances of CacheManager: m1 and m2 are two versions of a model. *)
(***************************************************************************)
EXTENDS CacheManager

CONSTANTS m1, m2

MCModelName == [m \in Models |-> "a"]

MCVersion == [m \in Models |-> IF m = m2 THEN 2 ELSE 1]

\* Requests are interchangeable, and so are the two versions: they are only
\* compared for equality.  Not for liveness.
Symmetry == Permutations(Requests) \cup Permutations(Models)
=============================================================================
