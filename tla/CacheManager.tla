---------------------------- MODULE CacheManager ----------------------------
(***************************************************************************)
(* The cache node of pkg/cachemanager: concurrent model requests (one      *)
(* goroutine each) run handleModelRequest -> fetchModel over one LRUCache,  *)
(* one lock, the cache directory, a model provider and a TF Serving server. *)
(*                                                                         *)
(* A step is one call whose effect others can see, or one lock operation.  *)
(* rwMux is modelled by its writer; its readers are the requests at "get". *)
(* They may be several, and Get relinks the list: the outcome of two Gets  *)
(* that overlap is undefined.  `raced' says that this has happened.  From  *)
(* then on, until the process is started again, lruVars no longer say what *)
(* list and map are, and whatever a request learns from them is a free     *)
(* choice.  ListRace has the statements that interleave.                   *)
(*                                                                         *)
(* The provider and TF Serving are external.  Any of their calls may fail. *)
(***************************************************************************)
EXTENDS LRUCache, ServingConfig, FiniteSets

CONSTANTS
  Requests,             \* the request goroutines
  MaxConcurrentModels,  \* how many models TF Serving is asked to load
  ModelFetchTimeout     \* in polls, one every 0.5 s

NoOne == "nobody"

ASSUME ManagerAssumption == /\ MaxConcurrentModels \in Nat
                            /\ ModelFetchTimeout \in Nat
                            /\ NoOne \notin Requests
                            /\ Identifiers = Models

VARIABLES
  pc,        \* where each request is
  req,       \* the identifier it asks for
  fetched,   \* the model LoadModel returned to it
  polls,     \* totalTime of reloadServingConfig
  rwMux,     \* the request that holds the write lock
  raced,     \* two Gets have relinked the list at the same time
  aspired,   \* TF Serving: the models of the last configuration it accepted
  serving    \* TF Serving: the state it reports for each model

reqVars == <<pc, req, fetched, polls>>
servingVars == <<aspired, serving>>
vars == <<lruVars, reqVars, rwMux, raced, servingVars>>

NoId == NoModel.id

\* The code between Lock and the deferred Unlock.
Critical == {"size", "free", "load", "put", "putting", "reload", "poll"}

Labels == {"idle", "tryGet", "get", "status", "missLock", "reloadLock", "forward"} \cup Critical

\* LOADING also stands for UNKNOWN and START, which the code treats alike; NONE
\* is a model TF Serving does not know.
ServingState == {"NONE", "LOADING", "AVAILABLE", "UNLOADING", "END"}

RequestTypeOK ==
  /\ pc \in [Requests -> Labels]
  /\ req \in [Requests -> Models \cup {NoId}]
  /\ \A r \in Requests : pc[r] # "idle" => req[r] \in Models
  /\ fetched \in [Requests -> Model \cup {NoModel}]
  /\ \A r \in Requests : pc[r] \in {"put", "putting"} => fetched[r] \in Model
  /\ polls \in [Requests -> 0..ModelFetchTimeout]
  /\ rwMux \in Requests \cup {NoOne}
  /\ aspired \subseteq Models
  /\ serving \in [Models -> ServingState]

TypeOK == LRUTypeOK /\ RequestTypeOK /\ raced \in BOOLEAN

Init ==
  /\ LRUInit
  /\ pc = [r \in Requests |-> "idle"]
  /\ req = [r \in Requests |-> NoId]
  /\ fetched = [r \in Requests |-> NoModel]
  /\ polls = [r \in Requests |-> 0]
  /\ rwMux = NoOne
  /\ raced = FALSE
  /\ aspired = {}
  /\ serving = [m \in Models |-> "NONE"]

Goto(r, label) == /\ pc' = [pc EXCEPT ![r] = label]
                  /\ UNCHANGED <<req, fetched, polls>>

\* The request ends; its locals go.
End(r) == /\ pc' = [pc EXCEPT ![r] = "idle"]
          /\ req' = [req EXCEPT ![r] = NoId]
          /\ fetched' = [fetched EXCEPT ![r] = NoModel]
          /\ polls' = [polls EXCEPT ![r] = 0]

\* An error return inside the critical section runs the deferred Unlock.
Fail(r) == End(r) /\ rwMux' = NoOne

-----------------------------------------------------------------------------
(* handleModelRequest and the read section.                                *)

\* A version that is not an integer is refused before anything is touched.
Start(r, m) ==
  /\ pc[r] = "idle"
  /\ pc' = [pc EXCEPT ![r] = "tryGet"]
  /\ req' = [req EXCEPT ![r] = m]
  /\ UNCHANGED <<lruVars, fetched, polls, rwMux, raced, servingVars>>

Mut_RLockIgnoresWriter(r) ==
  /\ pc[r] = "tryGet"
  /\ Goto(r, "get")
  /\ UNCHANGED <<lruVars, rwMux, raced, servingVars>>

RLockForGet(r) ==
  /\ pc[r] = "tryGet"
  /\ rwMux = NoOne
  /\ Goto(r, "get")
  /\ UNCHANGED <<lruVars, rwMux, raced, servingVars>>

\* Get, whether the path of the model is on disk, and RUnlock.  No other Get
\* touches the list meanwhile.
TryGet(r) ==
  /\ pc[r] = "get" /\ ~raced
  /\ Get(req[r])
  /\ Goto(r, IF req[r] \in modelMap /\ disk[req[r]] # "absent" THEN "status" ELSE "missLock")
  /\ UNCHANGED <<rwMux, raced, servingVars>>

\* Another reader's MoveToFront may run at the same time, and one of the two
\* moves its element.
Overlaps(r) ==
  \E s \in Requests \ {r} : /\ pc[s] = "get"
                            /\ {req[r], req[s]} \subseteq modelMap
                            /\ {req[r], req[s]} # {Head(lruList).id}

\* TryGet when the two do overlap.  Get still returns the model: the map is
\* only read.  The list may have lost elements or run in a circle; which it is
\* the model forgets, since it allows for all of it from now on.
Race(r) ==
  /\ pc[r] = "get" /\ ~raced
  /\ Overlaps(r)
  /\ raced' = TRUE
  /\ lruList' = <<>>
  /\ Goto(r, IF disk[req[r]] # "absent" THEN "status" ELSE "missLock")
  /\ UNCHANGED <<modelMap, currentSize, call, disk, rwMux, servingVars>>

\* GetModelStatus without any lock.  Every state but UNLOADING and END is a hit.
StatusHit(r) ==
  /\ pc[r] = "status"
  /\ serving[req[r]] \in {"LOADING", "AVAILABLE"}
  /\ Goto(r, "forward")
  /\ UNCHANGED <<lruVars, rwMux, raced, servingVars>>

\* The call fails (as it does for a model TF Serving does not know), or reports
\* UNLOADING or END.
StatusNotServed(r) ==
  /\ pc[r] = "status"
  /\ Goto(r, "reloadLock")
  /\ UNCHANGED <<lruVars, rwMux, raced, servingVars>>

Forward(r) ==
  /\ pc[r] = "forward"
  /\ End(r)
  /\ UNCHANGED <<lruVars, rwMux, raced, servingVars>>

-----------------------------------------------------------------------------
(* The miss path of fetchModel.                                            *)

Lock(r, from, to) ==
  /\ pc[r] = from
  /\ rwMux = NoOne /\ \A s \in Requests : pc[s] # "get"
  /\ rwMux' = r
  /\ Goto(r, to)
  /\ UNCHANGED <<lruVars, raced, servingVars>>

Mut_LockIgnoresHolder(r) ==
  /\ pc[r] = "missLock"
  /\ rwMux' = r
  /\ Goto(r, "size")
  /\ UNCHANGED <<lruVars, raced, servingVars>>

LockForMiss(r) == Lock(r, "missLock", "size")

SizeIs(r, bytes) ==
  /\ pc[r] = "size"
  /\ IF raced THEN UNCHANGED lruVars ELSE EnsureFreeBytes(bytes)
  /\ Goto(r, "free")
  /\ UNCHANGED <<rwMux, raced, servingVars>>

ModelSize(r) == \E bytes \in Sizes : SizeIs(r, bytes)

ModelSizeFails(r) ==
  /\ pc[r] = "size"
  /\ Fail(r)
  /\ UNCHANGED <<lruVars, raced, servingVars>>

\* One iteration of the loop of EnsureFreeBytes, called from here or by Put.
Evict(r) ==
  /\ pc[r] \in {"free", "putting"}
  /\ EvictLRU
  /\ UNCHANGED <<reqVars, rwMux, raced, servingVars>>

FreeDone(r) ==
  /\ pc[r] = "free"
  /\ Freed
  /\ Goto(r, "load")
  /\ UNCHANGED <<rwMux, raced, servingVars>>

\* The provider has copied the model over what the directory held of it, and
\* counted its size anew.
Loaded(r, copy, size) ==
  /\ pc[r] = "load"
  /\ disk' = [disk EXCEPT ![req[r]] = copy]
  /\ fetched' = [fetched EXCEPT ![r] = [id |-> req[r], size |-> size]]
  /\ pc' = [pc EXCEPT ![r] = "put"]
  /\ UNCHANGED <<lruList, modelMap, currentSize, call, req, polls, rwMux, raced, servingVars>>

\* The copy is not whole if the provider has nothing to copy, or if files were
\* lost meanwhile.  CacheNode says what each provider returns.
LoadModel(r) == \E copy \in {"whole", "partial"}, s \in Sizes : Loaded(r, copy, s)

\* It has made the directory or truncated a file, and is not done.  Whatever
\* happens now, a partial copy is what others see and what a crash leaves.
LoadModelWrites(r) ==
  /\ pc[r] = "load"
  /\ disk[req[r]] # "partial"
  /\ disk' = [disk EXCEPT ![req[r]] = "partial"]
  /\ UNCHANGED <<lruList, modelMap, currentSize, call, reqVars, rwMux, raced, servingVars>>

LoadModelFails(r) ==
  /\ pc[r] = "load"
  /\ Fail(r)
  /\ UNCHANGED <<lruVars, raced, servingVars>>

Mut_PutKeepsPlace(r) ==
  /\ pc[r] = "put" /\ ~raced
  /\ \/ /\ fetched[r].id \in modelMap
        /\ Goto(r, "reload")
        /\ UNCHANGED lruVars
     \/ PutNew(fetched[r]) /\ Goto(r, "putting")
  /\ UNCHANGED <<rwMux, raced, servingVars>>

PutModel(r) ==
  /\ pc[r] = "put" /\ ~raced
  /\ \/ PutExisting(fetched[r]) /\ Goto(r, "reload")
     \/ PutNew(fetched[r]) /\ Goto(r, "putting")
  /\ UNCHANGED <<rwMux, raced, servingVars>>

PutDone(r) ==
  /\ pc[r] = "putting"
  /\ Pushed
  /\ Goto(r, "reload")
  /\ UNCHANGED <<rwMux, raced, servingVars>>

-----------------------------------------------------------------------------
(* reloadServingConfig, on the miss path and for a cached model that is    *)
(* not served.                                                             *)

LockForReload(r) == Lock(r, "reloadLock", "reload")

Mut_AllModels == [i \in DOMAIN lruList |-> lruList[i].id]

Mut_LastModels ==
  LET n == IF Len(lruList) < MaxConcurrentModels THEN Len(lruList) ELSE MaxConcurrentModels
  IN  [i \in 1..n |-> lruList[Len(lruList) + 1 - i].id]

\* availableModels[:numActiveModels]
ActiveModels ==
  LET n == IF Len(lruList) < MaxConcurrentModels THEN Len(lruList) ELSE MaxConcurrentModels
  IN  [i \in 1..n |-> lruList[i].id]

\* What the slice may be: the one of the list, or any that a tangled list gives.
Slices == IF raced THEN UNION {[1..n -> Models] : n \in 0..MaxConcurrentModels} ELSE {ActiveModels}

ReloadConfig(r) ==
  /\ pc[r] = "reload"
  /\ \E ids \in Slices : /\ Accepts(createModelConfig(ids))
                         /\ aspired' = Aspired(createModelConfig(ids))
  /\ Goto(r, "poll")
  /\ UNCHANGED <<lruVars, rwMux, raced, serving>>

\* The call fails, but TF Serving may have taken the configuration.
ReloadConfigFails(r) ==
  /\ pc[r] = "reload"
  /\ aspired' \in {aspired} \cup {Aspired(createModelConfig(ids)) : ids \in Slices}
  /\ Fail(r)
  /\ UNCHANGED <<lruVars, raced, serving>>

\* AVAILABLE ends the loop; the test after it can only fail if the timeout is 0.
PollAvailable(r) ==
  /\ pc[r] = "poll"
  /\ serving[req[r]] = "AVAILABLE"
  /\ IF polls[r] < ModelFetchTimeout
     THEN pc' = [pc EXCEPT ![r] = "forward"] /\ UNCHANGED <<req, fetched, polls>>
     ELSE End(r)
  /\ rwMux' = NoOne
  /\ UNCHANGED <<lruVars, raced, servingVars>>

Mut_PollsPastTimeout(r) ==
  /\ pc[r] = "poll"
  /\ \/ /\ polls[r] <= ModelFetchTimeout
        /\ polls' = [polls EXCEPT ![r] = @ + 1]
        /\ UNCHANGED <<pc, req, fetched, rwMux>>
     \/ /\ polls[r] > ModelFetchTimeout
        /\ Fail(r)
  /\ UNCHANGED <<lruVars, raced, servingVars>>

\* Another state, or the call fails: 0.5 s later the loop goes on or times out.
PollAgain(r) ==
  /\ pc[r] = "poll"
  /\ \/ /\ polls[r] + 1 < ModelFetchTimeout
        /\ polls' = [polls EXCEPT ![r] = @ + 1]
        /\ UNCHANGED <<pc, req, fetched, rwMux>>
     \/ /\ polls[r] + 1 >= ModelFetchTimeout
        /\ Fail(r)
  /\ UNCHANGED <<lruVars, raced, servingVars>>

-----------------------------------------------------------------------------
(* The calls of the cache after a race.                                    *)

RacedMoves == {<<"get", "status">>, <<"get", "missLock">>, <<"free", "load">>,
               <<"put", "reload">>, <<"put", "putting">>, <<"putting", "reload">>}

\* A call returns what it will; or EnsureFreeBytes takes the root of the list for
\* a model and panics, which ends the request (the process, for gRPC: Crash).
AfterRace(r) ==
  /\ raced
  /\ \/ \E move \in RacedMoves : pc[r] = move[1] /\ Goto(r, move[2]) /\ UNCHANGED rwMux
     \/ pc[r] \in {"free", "putting"} /\ Fail(r)
  /\ UNCHANGED <<lruVars, raced, servingVars>>

-----------------------------------------------------------------------------
(* TF Serving (external).                                                  *)

\* It loads a model it was asked for once the copy is there, and may try again.
ServingLoads(m) == /\ m \in aspired
                   /\ serving[m] \in {"NONE", "END"}
                   /\ disk[m] # "absent"
                   /\ serving' = [serving EXCEPT ![m] = "LOADING"]

ServingLoadEnds(m) == /\ serving[m] = "LOADING"
                      /\ \E s \in {"AVAILABLE", "END"} : serving' = [serving EXCEPT ![m] = s]

ServingUnloads(m) == /\ m \notin aspired
                     /\ serving[m] \in {"LOADING", "AVAILABLE"}
                     /\ serving' = [serving EXCEPT ![m] = "UNLOADING"]

ServingUnloaded(m) == /\ serving[m] = "UNLOADING"
                      /\ serving' = [serving EXCEPT ![m] = "END"]

ServingStep == /\ \E m \in Models : \/ ServingLoads(m)
                                    \/ ServingLoadEnds(m)
                                    \/ ServingUnloads(m)
                                    \/ ServingUnloaded(m)
               /\ UNCHANGED <<lruVars, reqVars, rwMux, raced, aspired>>

\* It restarts and has forgotten every model.
ServingRestart == /\ aspired # {} \/ \E m \in Models : serving[m] # "NONE"
                  /\ aspired' = {}
                  /\ serving' = [m \in Models |-> "NONE"]
                  /\ UNCHANGED <<lruVars, reqVars, rwMux, raced>>

\* Someone cleans the cache directory.
LoseFiles(m) == /\ disk[m] # "absent"
                /\ disk' = [disk EXCEPT ![m] = "absent"]
                /\ UNCHANGED <<lruList, modelMap, currentSize, call, reqVars, rwMux, raced, servingVars>>

\* The process ends and is started again: only disk and TF Serving remember.
Crash == /\ Restart
         /\ pc' = [r \in Requests |-> "idle"]
         /\ req' = [r \in Requests |-> NoId]
         /\ fetched' = [r \in Requests |-> NoModel]
         /\ polls' = [r \in Requests |-> 0]
         /\ rwMux' = NoOne
         /\ raced' = FALSE
         /\ UNCHANGED servingVars

\* log.Fatalf in EnsureFreeBytes.
EvictFails(r) == pc[r] \in {"free", "putting"} /\ RemoveFails /\ Crash

-----------------------------------------------------------------------------
ProviderStep(r) == \/ ModelSize(r) \/ ModelSizeFails(r)
                   \/ LoadModel(r) \/ LoadModelWrites(r) \/ LoadModelFails(r)

OwnStep(r) == \/ TryGet(r) \/ Race(r) \/ AfterRace(r)
              \/ StatusHit(r) \/ StatusNotServed(r) \/ Forward(r)
              \/ Evict(r) \/ EvictFails(r) \/ FreeDone(r) \/ PutModel(r) \/ PutDone(r)
              \/ ReloadConfig(r) \/ ReloadConfigFails(r) \/ PollAvailable(r) \/ PollAgain(r)

Step(r) == OwnStep(r) \/ ProviderStep(r)

Next == \/ \E r \in Requests : \/ \E m \in Models : Start(r, m)
                               \/ RLockForGet(r)
                               \/ LockForMiss(r)
                               \/ LockForReload(r)
                               \/ Step(r)
        \/ ServingStep
        \/ ServingRestart
        \/ \E m \in Models : LoseFiles(m)
        \/ Crash

Spec == Init /\ [][Next]_vars

\* A request waits for the lock in one place at a time.
Locks(r) == RLockForGet(r) \/ LockForMiss(r) \/ LockForReload(r)

\* A goroutine that can run does run, and every call it makes returns.  Go's
\* RWMutex blocks new readers while a writer waits and lets waiting readers in
\* when a writer leaves, so no one waits for it forever.
Fairness == \A r \in Requests : WF_vars(Step(r)) /\ SF_vars(Locks(r))

FairSpec == Spec /\ Fairness

-----------------------------------------------------------------------------
\* The write lock is held by exactly the request that is between Lock and the
\* deferred Unlock (cachemanager.go:114-132, 137-142), nobody reads the cache
\* meanwhile (:154-156), and a call of EnsureFreeBytes is in progress only there:
\* every error return gives the lock back.  Readers do not exclude each other.
LockDiscipline ==
  /\ \A r \in Requests : rwMux = r <=> pc[r] \in Critical
  /\ rwMux # NoOne => \A r \in Requests : pc[r] # "get"
  /\ call.op = "free" <=> ~raced /\ \E r \in Requests : pc[r] = "free"
  /\ call.op = "put" <=> ~raced /\ \E r \in Requests : pc[r] = "putting"

\* A request that fetched its model asks TF Serving for it: when the
\* configuration is written and while the request polls, the model is the first
\* of the cache (cachemanager.go:127-128).  Otherwise the top-N slice could
\* leave it out and the poll could only time out.  A race undoes this.
RequestedAtFront ==
  \A r \in Requests :
    pc[r] \in {"reload", "poll"} /\ fetched[r] # NoModel /\ ~raced =>
      lruList # <<>> /\ Head(lruList).id = req[r]

\* While such a request polls, TF Serving has been told to load the model,
\* unless it has restarted since and forgot everything.
AwaitedIsConfigured ==
  \A r \in Requests :
    pc[r] = "poll" /\ fetched[r] # NoModel /\ MaxConcurrentModels > 0 /\ ~raced =>
      req[r] \in aspired \/ aspired = {}

\* TF Serving is never asked for more than MaxConcurrentModels models, on any
\* path and after any failure.
ServingBound == Cardinality(aspired) <= MaxConcurrentModels

\* The lock keeps the contract of the cache but for one breach: until two Gets
\* overlap under RLock (cachemanager.go:154-156), every step is one that LRUSpec
\* allows, in which no call starts while one is in progress; and only a restart
\* undoes what they did.
KeepsCacheContract == LRUInit /\ [][raced' \/ IF raced THEN Restart ELSE LRUNext]_lruVars

-----------------------------------------------------------------------------
(* What comments and documentation say, and the code does not do.          *)

\* "Model in disk cache but not loaded in serving" (cachemanager.go:136): a
\* request in the reload path reloads a model that is in the cache.
ReloadIsCached ==
  \A r \in Requests : pc[r] = "reload" /\ ~raced => req[r] \in modelMap

\* "If the model is loaded and ready, the request will be forwarded to TF
\* serving" (README.md:21): a hit is a model that TF Serving can serve.
HitIsReady ==
  [][\A r \in Requests : pc[r] = "status" /\ pc'[r] = "forward" => serving[req[r]] = "AVAILABLE"]_vars

\* "Deletes LRU models until number of bytes are available" (lrucache.go:67):
\* a model evicted for room no longer takes room in the directory.
EvictionDeletes ==
  [][\A r \in Requests, m \in modelMap : Evict(r) /\ m \notin modelMap' => disk'[m] = "absent"]_vars
=============================================================================
