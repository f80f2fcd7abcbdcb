----------------------------- MODULE MCCacheNode -----------------------------
(*************************************************************************)
(* A small instance of CacheNode: a model with no object, with one file  *)
(* (one page), and with a folder and two files (two pages or more).      *)
(*************************************************************************)
EXTENDS CacheNode

CONSTANT m1

MCModelName == [m \in Models |-> "a"]

MCVersion == [m \in Models |-> 1]

Object(f) == [size |-> 1, folder |-> f]

MCCatalogue ==
  {[m \in Models |-> s] :
     s \in {<<>>, <<Object(FALSE)>>, <<Object(TRUE), Object(FALSE), Object(FALSE)>>}}
=============================================================================
