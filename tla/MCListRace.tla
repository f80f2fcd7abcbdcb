----------------------------- MODULE MCListRace -----------------------------
(***************************************************************************)
(* Three cached models and two requests.                                   *)
(***************************************************************************)
EXTENDS ListRace

CONSTANTS a, b, c

MCOrder == <<a, b, c>>
=============================================================================
