---------------------------- MODULE MCTaskHandler ----------------------------
(***************************************************************************)
(* Small instances of TaskHandler.  h2 stands for a node with an IPv6      *)
(* address when Valid leaves it out.                                       *)
(***************************************************************************)
EXTENDS TaskHandler, TLC

CONSTANTS h1, h2, k1, k2

MCPreference == k1 :> <<h1, h2>> @@ k2 :> <<h2, h1>>

\* Requests are interchangeable.  Not for liveness.
Symmetry == Permutations(Requests)
=============================================================================
