------------------------------ MODULE ListRace ------------------------------
(***************************************************************************)
(* The read section of tryGetModelFromCache below the level of             *)
(* CacheManager: Get relinks the list (container/list.MoveToFront) while   *)
(* the lock is held for reading, so several requests may do so at once.    *)
(*                                                                         *)
(* The list is a ring of elements and a root, linked both ways.  Each      *)
(* statement of MoveToFront is a step; a data race has other outcomes too, *)
(* these are the ones of a machine that executes the statements in order.  *)
(***************************************************************************)
EXTENDS Naturals, Sequences, SequencesExt

CONSTANTS
  Order,    \* the cached models at the start, last used first
  Requests  \* the request goroutines

VARIABLES
  next, prev,  \* the links of each element
  line,        \* the statement each request executes next; 0: not in Get
  val,         \* the element it moves
  used         \* the models that Get has returned

vars == <<next, prev, line, val, used>>

Root == "root"
Models == Range(Order)

Ring == <<Root>> \o Order \o <<Root>>

Init ==
  /\ next = [e \in Models \cup {Root} |-> Ring[CHOOSE i \in 2..Len(Ring) : Ring[i - 1] = e]]
  /\ prev = [e \in Models \cup {Root} |-> Ring[CHOOSE i \in 1..Len(Ring) - 1 : Ring[i + 1] = e]]
  /\ line = [r \in Requests |-> 0]
  /\ val = [r \in Requests |-> Root]
  /\ used = {}

\* RLock, and the map has the model.
Get(r, m) ==
  /\ line[r] = 0
  /\ line' = [line EXCEPT ![r] = 1]
  /\ val' = [val EXCEPT ![r] = m]
  /\ UNCHANGED <<next, prev, used>>

\* Get returns, RUnlock.
Returns(r) ==
  /\ line[r] = 8 \/ (line[r] = 1 /\ next[Root] = val[r])
  /\ line' = [line EXCEPT ![r] = 0]
  /\ used' = used \cup {val[r]}
  /\ UNCHANGED <<next, prev, val>>

Advance(r) == line' = [line EXCEPT ![r] = @ + 1] /\ UNCHANGED <<val, used>>

SetNext(r, e, to) == next' = [next EXCEPT ![e] = to] /\ UNCHANGED prev /\ Advance(r)
SetPrev(r, e, to) == prev' = [prev EXCEPT ![e] = to] /\ UNCHANGED next /\ Advance(r)

\* MoveToFront: the test for the front, then the statements of move.
Statement(r) ==
  LET e == val[r]
  IN  \/ line[r] = 1 /\ next[Root] # e /\ Advance(r) /\ UNCHANGED <<next, prev>>
      \/ line[r] = 2 /\ SetNext(r, prev[e], next[e])
      \/ line[r] = 3 /\ SetPrev(r, next[e], prev[e])
      \/ line[r] = 4 /\ SetPrev(r, e, Root)
      \/ line[r] = 5 /\ SetNext(r, e, next[Root])
      \/ line[r] = 6 /\ SetNext(r, prev[e], e)
      \/ line[r] = 7 /\ SetPrev(r, next[e], e)

Next == \E r \in Requests : (\E m \in Models : Get(r, m)) \/ Returns(r) \/ Statement(r)

Spec == Init /\ [][Next]_vars

-----------------------------------------------------------------------------
\* "unloading the least-recently-used model" (README.md:21): when no request
\* reads, so that one may take the write lock and evict, the back of the list
\* (lrucache.go:70) is the model that was used longest ago.
BackIsLeastUsed ==
  LET unused == SelectSeq(Order, LAMBDA m : m \notin used)
  IN  (\A r \in Requests : line[r] = 0) /\ unused # <<>> => prev[Root] = Last(unused)
=============================================================================
