------------------------------ MODULE LRUCache ------------------------------
(***************************************************************************)
(* The model cache of pkg/cachemanager/lrucache.go: a doubly linked list   *)
(* of models in order of use (front = last used), a map from identifier to *)
(* list element, and the byte count of the models in the list.             *)
(*                                                                         *)
(* A Model is its identifier and its SizeOnDisk; its Path is a function of *)
(* its identifier.  Callers put a model under its own identifier           *)
(* (cachemanager.go:127, and every provider sets Identifier), so the       *)
(* element the map holds for a key is the list element with that           *)
(* identifier, and the map is modelled by its key set.                     *)
(*                                                                         *)
(* The loop of EnsureFreeBytes takes one step per evicted model, because   *)
(* an iteration can end the process (log.Fatalf).  `call' is the call of   *)
(* EnsureFreeBytes in progress; no other operation of the cache starts     *)
(* while one is in progress.  The code has no guard for that: the actions   *)
(* have none either, LRUNext states it as the contract of the cache, and    *)
(* CacheManager is checked to keep it with its lock.                        *)
(***************************************************************************)
EXTENDS Integers, Sequences, SequencesExt

CONSTANTS
  Models,       \* the model identifiers (name, version)
  Sizes,        \* the sizes a provider may report for a model
  Capacity,     \* modelCache.size, in bytes
  PathResolves  \* TRUE iff Model.Path, which is relative to the cache
                \* directory, also names the cached copy when it is resolved
                \* against the working directory, as EnsureFreeBytes does

ASSUME CacheAssumption == /\ Sizes \subseteq Nat
                          /\ Capacity \in Nat
                          /\ PathResolves \in BOOLEAN

VARIABLES
  lruList,      \* the list, front first
  modelMap,     \* the keys of the map
  currentSize,  \* bytes accounted
  call,         \* the EnsureFreeBytes call in progress
  disk          \* the cached copy of each model in the cache directory

lruVars == <<lruList, modelMap, currentSize, call, disk>>

Model == [id : Models, size : Sizes]

\* Model{}, the zero value.
NoModel == [id |-> "", size |-> 0]

NoCall == [op |-> "none", bytes |-> 0, model |-> NoModel]

\* "partial": the directory exists but does not hold the whole model.
CopyState == {"absent", "partial", "whole"}

Ids(s) == {s[i].id : i \in DOMAIN s}

LRUTypeOK ==
  /\ lruList \in Seq(Model)
  /\ modelMap \subseteq Models
  /\ currentSize \in Int
  /\ call \in {NoCall}
       \cup [op : {"free"}, bytes : Sizes, model : {NoModel}]
       \cup {[op |-> "put", bytes |-> m.size, model |-> m] : m \in Model}
  /\ disk \in [Models -> CopyState]

-----------------------------------------------------------------------------
\* NewLRUCache, on whatever the cache directory holds.
NewLRUCache == /\ lruList = <<>>
               /\ modelMap = {}
               /\ currentSize = 0
               /\ call = NoCall

Position(item) == CHOOSE i \in DOMAIN lruList : lruList[i].id = item

MoveToFront(s, i) == Cons(s[i], RemoveAt(s, i))

Mut_GetKeepsOrder(item) == UNCHANGED lruVars

Get(item) ==
  /\ lruList' = IF item \in modelMap THEN MoveToFront(lruList, Position(item)) ELSE lruList
  /\ UNCHANGED <<modelMap, currentSize, call, disk>>

Mut_IgnoresCurrentSize(bytes) == lruList # <<>> /\ Capacity < bytes

\* The condition of the eviction loop.
MustEvict(bytes) == lruList # <<>> /\ Capacity - currentSize < bytes

EnsureFreeBytes(bytes) ==
  /\ call' = [op |-> "free", bytes |-> bytes, model |-> NoModel]
  /\ UNCHANGED <<lruList, modelMap, currentSize, disk>>

\* Put of a model that is in the cache.
PutExisting(model) ==
  /\ model.id \in modelMap
  /\ lruList' = MoveToFront(lruList, Position(model.id))
  /\ UNCHANGED <<modelMap, currentSize, call, disk>>

Mut_PutFreesNothing(model) ==
  /\ model.id \notin modelMap
  /\ call' = [op |-> "put", bytes |-> 0, model |-> model]
  /\ UNCHANGED <<lruList, modelMap, currentSize, disk>>

\* Put of a new model starts by freeing its size.
PutNew(model) ==
  /\ model.id \notin modelMap
  /\ call' = [op |-> "put", bytes |-> model.size, model |-> model]
  /\ UNCHANGED <<lruList, modelMap, currentSize, disk>>

Put(model) == PutExisting(model) \/ PutNew(model)

Mut_ForgetsMap == /\ currentSize' = currentSize - Last(lruList).size
                  /\ lruList' = Front(lruList)
                  /\ UNCHANGED modelMap

Mut_DropsFront == /\ currentSize' = currentSize - Head(lruList).size
                  /\ lruList' = Tail(lruList)
                  /\ modelMap' = modelMap \ {Head(lruList).id}

\* The tail of an iteration: the least recently used model leaves list, map
\* and byte count.
DropBack == /\ currentSize' = currentSize - Last(lruList).size
            /\ lruList' = Front(lruList)
            /\ modelMap' = modelMap \ {Last(lruList).id}

\* os.Remove succeeds on what may be an empty directory only: a whole copy,
\* or a partial one that holds a file, makes it fail.
EvictLRU ==
  /\ call.op # "none"
  /\ MustEvict(call.bytes)
  /\ \/ /\ ~PathResolves \/ disk[Last(lruList).id] = "absent"
        /\ UNCHANGED disk
     \/ /\ PathResolves
        /\ disk[Last(lruList).id] = "partial"
        /\ disk' = [disk EXCEPT ![Last(lruList).id] = "absent"]
  /\ DropBack
  /\ UNCHANGED call

\* The process ends, in mid-call or not, and starts again with an empty cache
\* over the same directory.
Restart == /\ lruList' = <<>>
           /\ modelMap' = {}
           /\ currentSize' = 0
           /\ call' = NoCall
           /\ UNCHANGED disk

\* os.Remove fails, and log.Fatalf ends the process.
RemoveFails ==
  /\ call.op # "none"
  /\ MustEvict(call.bytes)
  /\ PathResolves
  /\ disk[Last(lruList).id] # "absent"

FatalRemove == RemoveFails /\ Restart

\* EnsureFreeBytes returns to its caller.  The error branch after the loop
\* (lrucache.go:84) needs a non-empty list that still must evict, which the
\* loop's exit excludes, so there is nothing to model of it.
Freed ==
  /\ call.op = "free"
  /\ ~MustEvict(call.bytes)
  /\ call' = NoCall
  /\ UNCHANGED <<lruList, modelMap, currentSize, disk>>

Mut_PushUncounted ==
  /\ call.op = "put"
  /\ ~MustEvict(call.bytes)
  /\ lruList' = Cons(call.model, lruList)
  /\ modelMap' = modelMap \cup {call.model.id}
  /\ call' = NoCall
  /\ UNCHANGED <<currentSize, disk>>

Pushed ==
  /\ call.op = "put"
  /\ ~MustEvict(call.bytes)
  /\ lruList' = Cons(call.model, lruList)
  /\ modelMap' = modelMap \cup {call.model.id}
  /\ currentSize' = currentSize + call.model.size
  /\ call' = NoCall
  /\ UNCHANGED disk

-----------------------------------------------------------------------------
\* The directory changes outside the cache: a provider writes a copy, or
\* files disappear.
DiskChanges(m) ==
  /\ \E s \in CopyState \ {disk[m]} : disk' = [disk EXCEPT ![m] = s]
  /\ UNCHANGED <<lruList, modelMap, currentSize, call>>

LRUInit == NewLRUCache /\ disk = [m \in Models |-> "absent"]

\* The contract: an operation starts when no other is in progress.
LRUNext ==
  \/ /\ call.op = "none"
     /\ \/ \E m \in Models : Get(m)
        \/ \E b \in Sizes : EnsureFreeBytes(b)
        \/ \E m \in Model : Put(m)
  \/ EvictLRU
  \/ Freed
  \/ Pushed
  \/ FatalRemove
  \/ Restart
  \/ \E m \in Models : DiskChanges(m)

LRUSpec == LRUInit /\ [][LRUNext]_lruVars

-----------------------------------------------------------------------------
Distinct(s) == \A i, j \in DOMAIN s : s[i].id = s[j].id => i = j

\* List and map agree: the map has exactly the identifiers in the list, no
\* identifier is in the list twice, and the model a Put is making room for is
\* not in it yet.  Every path of Get, Put and EnsureFreeBytes updates the two
\* in separate statements.
MapMatchesList ==
  /\ modelMap = Ids(lruList)
  /\ Distinct(lruList)
  /\ call.op = "put" => call.model.id \notin modelMap

\* The budget: the accounted bytes exceed the capacity only for a single model
\* that is larger than the whole cache (EnsureFreeBytes stops at an empty list
\* and Put adds the model all the same).
CapacityBound == currentSize <= Capacity \/ Len(lruList) = 1

PrefixSums(s) ==
  LET sum[n \in 0..Len(s)] == IF n = 0 THEN 0 ELSE sum[n - 1] + s[n].size
  IN  sum

\* currentSize is exactly the size of the models in the list, through every
\* addition in Put and subtraction in EnsureFreeBytes.
AccountingExact == currentSize = PrefixSums(lruList)[Len(lruList)]

\* The list in the terms of ModelCache: a model nearer to the front was used
\* later.
Newer == {<<lruList[p[1]].id, lruList[p[2]].id>> :
            p \in {q \in (DOMAIN lruList) \X (DOMAIN lruList) : q[1] < q[2]}}

SizeOf == [m \in modelMap |-> lruList[Position(m)].size]

Abstract == INSTANCE ModelCache
              WITH cached <- modelMap, size <- SizeOf, used <- currentSize, newer <- Newer,
                   asked <- call.bytes

\* The list, the map and the eviction loop implement the abstract cache: what
\* is evicted is always the model used longest ago, one is evicted only while
\* the bytes asked for do not fit, EnsureFreeBytes returns only when they do or
\* the cache is empty, and a model enters only then.
ImplementsModelCache == Abstract!Spec
=============================================================================
