----------------------------- MODULE MCLRUCache -----------------------------
(***************************************************************************)
(* Small instance of UseOrder: two versions of one model and one of        *)
(* another, sizes from nothing to more than the whole cache.               *)
(***************************************************************************)
EXTENDS UseOrder

CONSTANTS a1, a2, b1

MCModelName == [m \in Models |-> IF m = b1 THEN "b" ELSE "a"]

MCVersion == [m \in Models |-> IF m = a2 THEN 2 ELSE 1]
=============================================================================
