------------------------- MODULE CacheManagerProofs -------------------------
(***************************************************************************)
(* What the lock of the cache manager is good for, for every number of     *)
(* requests and models: until two Gets overlap under RLock, requests use   *)
(* the cache one call at a time, and what LRUCacheProofs proves of the     *)
(* cache alone holds inside the cache manager.  What TF Serving is asked   *)
(* for is bounded, race or not, and before a race it has the model that    *)
(* the holder of the lock waits for.                                       *)
(***************************************************************************)
EXTENDS CacheManager, LRUCacheProofs, ServingConfigProofs, FiniteSetTheorems

\* The inductive invariant.
ManagerInv == LRUTypeOK /\ raced \in BOOLEAN /\ (~raced => LRUInv) /\ RequestTypeOK /\ LockDiscipline

-----------------------------------------------------------------------------
\* An idle lock means an idle cache: no call of it is in progress.
LEMMA UnlockedIsIdle ==
  ASSUME ManagerInv, rwMux = NoOne
  PROVE  call.op = "none"
<1>1. \A r \in Requests : pc[r] \notin Critical
  BY ManagerAssumption DEF ManagerInv, LockDiscipline, ManagerAssumption
<1>2. call.op \in {"none", "free", "put"}
  BY DEF ManagerInv, LRUTypeOK, NoCall
<1>. QED
  BY <1>1, <1>2 DEF ManagerInv, LockDiscipline, Critical

\* While a request holds the lock outside EnsureFreeBytes and Put, no call of
\* the cache is in progress.
LEMMA HolderIsAlone ==
  ASSUME ManagerInv, NEW r \in Requests, pc[r] \in {"size", "load", "put", "reload", "poll"}
  PROVE  call.op = "none"
<1>1. \A s \in Requests : s # r => pc[s] \notin Critical
  BY DEF ManagerInv, LockDiscipline, Critical
<1>2. call.op \in {"none", "free", "put"}
  BY DEF ManagerInv, LRUTypeOK, NoCall
<1>. QED
  BY <1>1, <1>2 DEF ManagerInv, LockDiscipline, Critical

\* Writing a copy of a model, or losing it, is a change of the directory, or
\* none at all.
LEMMA CopyIsDiskChange ==
  ASSUME LRUTypeOK, NEW m \in Models, NEW copy \in CopyState,
         disk' = [disk EXCEPT ![m] = copy],
         UNCHANGED <<lruList, modelMap, currentSize, call>>
  PROVE  [LRUNext]_lruVars
<1>1. CASE copy = disk[m]
  BY <1>1 DEF LRUTypeOK, lruVars
<1>2. CASE copy # disk[m]
  BY <1>2 DEF LRUNext, DiskChanges
<1>. QED
  BY <1>1, <1>2

\* Who reads the cache meets no writer, and no call in progress.
LEMMA ReaderMeetsNoWriter ==
  ASSUME ManagerInv, NEW r \in Requests, pc[r] = "get"
  PROVE  rwMux = NoOne /\ call.op = "none" /\ \A s \in Requests : pc[s] \notin Critical
<1>1. rwMux = NoOne
  BY DEF ManagerInv, LockDiscipline
<1>. QED
  BY <1>1, UnlockedIsIdle, ManagerAssumption DEF ManagerInv, LockDiscipline, ManagerAssumption

\* Only a restart makes a race forgotten.
LEMMA RacedChanges ==
  ASSUME [Next]_vars
  PROVE  Crash \/ raced' = raced \/ \E r \in Requests : Race(r)
<1>1. ASSUME NEW r \in Requests, OwnStep(r)
      PROVE  Crash \/ raced' = raced \/ Race(r)
  BY <1>1 DEF OwnStep, TryGet, AfterRace, StatusHit, StatusNotServed, Forward, Evict, EvictFails,
       FreeDone, PutModel, PutDone, ReloadConfig, ReloadConfigFails, PollAvailable, PollAgain
<1>2. ASSUME NEW r \in Requests, ProviderStep(r)
      PROVE  raced' = raced
  BY <1>2 DEF ProviderStep, ModelSize, SizeIs, ModelSizeFails, LoadModel, Loaded, LoadModelWrites, LoadModelFails
<1>3. ASSUME NEW r \in Requests,
             (\E m \in Models : Start(r, m)) \/ RLockForGet(r) \/ LockForMiss(r) \/ LockForReload(r)
      PROVE  raced' = raced
  BY <1>3 DEF Start, RLockForGet, LockForMiss, LockForReload, Lock
<1>4. ASSUME ServingStep \/ ServingRestart \/ \E m \in Models : LoseFiles(m)
      PROVE  raced' = raced
  BY <1>4 DEF ServingStep, ServingRestart, LoseFiles
<1>. QED
  BY <1>1, <1>2, <1>3, <1>4 DEF Next, Step, vars

\* Before a race, a step of the cache manager is a step of the cache that keeps
\* its contract, or leaves the cache alone.
LEMMA ContractStep ==
  ASSUME ManagerInv, ~raced, ~raced', [Next]_vars
  PROVE  [LRUNext]_lruVars
<1>. USE DEF ManagerInv
<1>0. CASE UNCHANGED lruVars
  BY <1>0
<1>1. ASSUME NEW r \in Requests, NEW m \in Models, Start(r, m)
      PROVE  [LRUNext]_lruVars
  BY <1>1 DEF Start
<1>2. ASSUME NEW r \in Requests, TryGet(r)
      PROVE  [LRUNext]_lruVars
  <2>1. call.op = "none" /\ req[r] \in Models /\ Get(req[r])
    BY <1>2, ReaderMeetsNoWriter DEF TryGet, RequestTypeOK
  <2>. QED
    BY <2>1 DEF LRUNext
<1>3. ASSUME NEW r \in Requests, ModelSize(r)
      PROVE  [LRUNext]_lruVars
  <2>1. call.op = "none"
    BY <1>3, HolderIsAlone DEF ModelSize, SizeIs
  <2>. QED
    BY <1>3, <2>1 DEF ModelSize, SizeIs, LRUNext
<1>4. ASSUME NEW r \in Requests, PutModel(r)
      PROVE  [LRUNext]_lruVars
  <2>1. call.op = "none" /\ fetched[r] \in Model
    BY <1>4, HolderIsAlone DEF PutModel, RequestTypeOK
  <2>2. Put(fetched[r])
    BY <1>4 DEF PutModel, Put
  <2>. QED
    BY <2>1, <2>2 DEF LRUNext
<1>5. ASSUME NEW r \in Requests, LoadModel(r) \/ LoadModelWrites(r)
      PROVE  [LRUNext]_lruVars
  <2>1. req[r] \in Models
    BY <1>5 DEF LoadModel, Loaded, LoadModelWrites, RequestTypeOK
  <2>2. PICK copy \in CopyState : disk' = [disk EXCEPT ![req[r]] = copy]
    BY <1>5 DEF LoadModel, Loaded, LoadModelWrites, CopyState
  <2>3. UNCHANGED <<lruList, modelMap, currentSize, call>>
    BY <1>5 DEF LoadModel, Loaded, LoadModelWrites
  <2>. QED
    BY <2>1, <2>2, <2>3, CopyIsDiskChange
<1>6. ASSUME NEW m \in Models, LoseFiles(m)
      PROVE  [LRUNext]_lruVars
  BY <1>6, CopyIsDiskChange DEF LoseFiles, CopyState
<1>7. ASSUME NEW r \in Requests, Evict(r) \/ FreeDone(r) \/ PutDone(r)
      PROVE  [LRUNext]_lruVars
  BY <1>7 DEF Evict, FreeDone, PutDone, LRUNext
<1>8. ASSUME Crash \/ \E r \in Requests : EvictFails(r)
      PROVE  [LRUNext]_lruVars
  BY <1>8 DEF Crash, EvictFails, LRUNext
<1>9. ASSUME NEW r \in Requests,
             \/ RLockForGet(r) \/ LockForMiss(r) \/ LockForReload(r) \/ StatusHit(r) \/ StatusNotServed(r)
             \/ Forward(r) \/ ModelSizeFails(r) \/ LoadModelFails(r) \/ ReloadConfig(r)
             \/ ReloadConfigFails(r) \/ PollAvailable(r) \/ PollAgain(r)
      PROVE  [LRUNext]_lruVars
  BY <1>9 DEF RLockForGet, LockForMiss, LockForReload, Lock, StatusHit, StatusNotServed, Forward,
       ModelSizeFails, LoadModelFails, ReloadConfig, ReloadConfigFails, PollAvailable, PollAgain
<1>10. ASSUME ServingStep \/ ServingRestart
       PROVE  [LRUNext]_lruVars
  BY <1>10 DEF ServingStep, ServingRestart
<1>11. ASSUME NEW r \in Requests, Race(r) \/ AfterRace(r)
       PROVE  FALSE
  BY <1>11 DEF Race, AfterRace
<1>. QED
  BY <1>0, <1>1, <1>2, <1>3, <1>4, <1>5, <1>6, <1>7, <1>8, <1>9, <1>10, <1>11 DEF Next, Step, OwnStep, ProviderStep,
       vars

\* After a race the model's cache is left as it is; the directory still changes.
LEMMA RacedStep ==
  ASSUME ManagerInv, raced, [Next]_vars
  PROVE  Crash \/ LRUTypeOK'
<1>. DEFINE Frozen == UNCHANGED <<lruList, modelMap, currentSize, call>>
<1>0. LRUTypeOK /\ call.op = "none" /\ RequestTypeOK
  BY DEF ManagerInv, LRUTypeOK, LockDiscipline, NoCall
<1>1. ASSUME Frozen, disk' \in [Models -> CopyState]
      PROVE  LRUTypeOK'
  BY <1>0, <1>1 DEF LRUTypeOK
<1>2. ASSUME UNCHANGED lruVars
      PROVE  LRUTypeOK'
  BY <1>0, <1>2 DEF LRUTypeOK, lruVars
<1>3. ASSUME NEW r \in Requests, LoadModel(r) \/ LoadModelWrites(r)
      PROVE  LRUTypeOK'
  <2>1. Frozen /\ \E copy \in CopyState : disk' = [disk EXCEPT ![req[r]] = copy]
    BY <1>3 DEF LoadModel, Loaded, LoadModelWrites, CopyState
  <2>. QED
    BY <1>0, <1>1, <2>1 DEF LRUTypeOK
<1>4. ASSUME NEW m \in Models, LoseFiles(m)
      PROVE  LRUTypeOK'
  <2>1. Frozen /\ disk' = [disk EXCEPT ![m] = "absent"]
    BY <1>4 DEF LoseFiles
  <2>. QED
    BY <1>0, <1>1, <2>1 DEF LRUTypeOK, CopyState
<1>5. ASSUME NEW r \in Requests, OwnStep(r)
      PROVE  Crash \/ UNCHANGED lruVars
  BY <1>0, <1>5 DEF OwnStep, TryGet, Race, AfterRace, StatusHit, StatusNotServed, Forward, Evict, EvictLRU,
       EvictFails, FreeDone, Freed, PutModel, PutDone, Pushed, ReloadConfig, ReloadConfigFails,
       PollAvailable, PollAgain
<1>6. ASSUME NEW r \in Requests,
             \/ (\E m \in Models : Start(r, m)) \/ RLockForGet(r) \/ LockForMiss(r) \/ LockForReload(r)
             \/ ModelSize(r) \/ ModelSizeFails(r) \/ LoadModelFails(r)
      PROVE  UNCHANGED lruVars
  BY <1>6 DEF Start, RLockForGet, LockForMiss, LockForReload, Lock, ModelSize, SizeIs, ModelSizeFails,
       LoadModelFails
<1>7. ASSUME ServingStep \/ ServingRestart
      PROVE  UNCHANGED lruVars
  BY <1>7 DEF ServingStep, ServingRestart
<1>. QED
  BY <1>2, <1>3, <1>4, <1>5, <1>6, <1>7 DEF Next, Step, ProviderStep, vars


-----------------------------------------------------------------------------
\* The locals of a request keep their types when it moves on or ends.
LEMMA MoveTypes ==
  ASSUME RequestTypeOK, NEW r \in Requests,
         \/ End(r)
         \/ \E label \in Labels : /\ Goto(r, label)
                                  /\ label # "idle" => req[r] \in Models
                                  /\ label \in {"put", "putting"} => fetched[r] \in Model,
         rwMux' \in Requests \cup {NoOne},
         aspired' \subseteq Models,
         serving' = serving
  PROVE  RequestTypeOK'
BY ManagerAssumption DEF ManagerAssumption, RequestTypeOK, End, Goto, Labels, Critical

\* Every action of a request keeps RequestTypeOK.
LEMMA RequestTypes ==
  ASSUME RequestTypeOK, LRUTypeOK, NEW r \in Requests,
         \/ \E m \in Models : Start(r, m)
         \/ RLockForGet(r) \/ LockForMiss(r) \/ LockForReload(r) \/ Step(r)
  PROVE  RequestTypeOK'
<1>. USE DEF Labels, Critical
<1>1. ASSUME NEW m \in Models, Start(r, m)
      PROVE  RequestTypeOK'
  BY <1>1 DEF RequestTypeOK, Start, servingVars
<1>2. CASE RLockForGet(r) \/ TryGet(r) \/ Race(r)
  BY <1>2, MoveTypes DEF RLockForGet, TryGet, Race, RequestTypeOK, servingVars
<1>3. CASE LockForMiss(r) \/ LockForReload(r)
  BY <1>3, MoveTypes DEF LockForMiss, LockForReload, Lock, RequestTypeOK, servingVars
<1>4. CASE StatusHit(r) \/ StatusNotServed(r) \/ Forward(r)
  BY <1>4, MoveTypes DEF StatusHit, StatusNotServed, Forward, RequestTypeOK, servingVars
<1>5. CASE ModelSize(r) \/ FreeDone(r) \/ PutDone(r)
  BY <1>5, MoveTypes DEF ModelSize, SizeIs, FreeDone, PutDone, RequestTypeOK, servingVars
<1>6. CASE ModelSizeFails(r) \/ LoadModelFails(r)
  BY <1>6, MoveTypes DEF ModelSizeFails, LoadModelFails, Fail, RequestTypeOK, servingVars
<1>7. CASE Evict(r) \/ LoadModelWrites(r)
  BY <1>7 DEF Evict, LoadModelWrites, RequestTypeOK, reqVars, servingVars
<1>8. CASE EvictFails(r)
  BY <1>8, ManagerAssumption DEF ManagerAssumption, EvictFails, Crash, RequestTypeOK, servingVars
<1>9. CASE LoadModel(r)
  <2>1. PICK s \in Sizes : fetched' = [fetched EXCEPT ![r] = [id |-> req[r], size |-> s]]
    BY <1>9 DEF LoadModel, Loaded
  <2>2. req[r] \in Models
    BY <1>9 DEF LoadModel, Loaded, RequestTypeOK
  <2>3. [id |-> req[r], size |-> s] \in Model
    BY <2>2 DEF Model
  <2>. QED
    BY <1>9, <2>1, <2>2, <2>3 DEF LoadModel, Loaded, RequestTypeOK, servingVars
<1>10. CASE PutModel(r)
  BY <1>10, MoveTypes DEF PutModel, RequestTypeOK, servingVars
<1>11. CASE ReloadConfig(r) \/ ReloadConfigFails(r)
  <2>1. aspired' \subseteq Models
    BY <1>11, ManagerAssumption DEF ManagerAssumption, ReloadConfig, ReloadConfigFails, Aspired,
         Identifiers, RequestTypeOK
  <2>. QED
    BY <1>11, <2>1, MoveTypes DEF ReloadConfig, ReloadConfigFails, Fail, RequestTypeOK
<1>12. CASE PollAvailable(r)
  <2>1. End(r) \/ Goto(r, "forward")
    BY <1>12 DEF PollAvailable, Goto
  <2>. QED
    BY <1>12, <2>1, MoveTypes DEF PollAvailable, RequestTypeOK, servingVars
<1>13. CASE PollAgain(r)
  <2>1. CASE Fail(r)
    BY <1>13, <2>1, MoveTypes DEF PollAgain, Fail, RequestTypeOK, servingVars
  <2>2. CASE /\ polls[r] + 1 < ModelFetchTimeout
             /\ polls' = [polls EXCEPT ![r] = @ + 1]
             /\ UNCHANGED <<pc, req, fetched, rwMux>>
    BY <1>13, <2>2, ManagerAssumption DEF ManagerAssumption, PollAgain, RequestTypeOK, servingVars
  <2>. QED
    BY <1>13, <2>1, <2>2 DEF PollAgain
<1>14. CASE AfterRace(r)
  BY <1>14, MoveTypes DEF AfterRace, RacedMoves, Fail, RequestTypeOK, servingVars
<1>. QED
  BY <1>1, <1>2, <1>3, <1>4, <1>5, <1>6, <1>7, <1>8, <1>9, <1>10, <1>11, <1>12, <1>13, <1>14
     DEF Step, OwnStep, ProviderStep

\* So does every other step.
LEMMA TypeStep ==
  ASSUME RequestTypeOK, LRUTypeOK, [Next]_vars
  PROVE  RequestTypeOK'
<1>1. CASE UNCHANGED vars
  BY <1>1 DEF RequestTypeOK, vars, reqVars, servingVars
<1>2. ASSUME NEW r \in Requests,
             \/ \E m \in Models : Start(r, m)
             \/ RLockForGet(r) \/ LockForMiss(r) \/ LockForReload(r) \/ Step(r)
      PROVE  RequestTypeOK'
  BY <1>2, RequestTypes
<1>3. CASE ServingStep
  <2>1. serving' \in [Models -> ServingState]
    BY <1>3 DEF ServingStep, ServingLoads, ServingLoadEnds, ServingUnloads, ServingUnloaded,
         RequestTypeOK, ServingState
  <2>. QED
    BY <1>3, <2>1 DEF ServingStep, RequestTypeOK, reqVars
<1>4. CASE ServingRestart
  BY <1>4 DEF ServingRestart, RequestTypeOK, ServingState, reqVars
<1>5. ASSUME NEW m \in Models, LoseFiles(m)
      PROVE  RequestTypeOK'
  BY <1>5 DEF LoseFiles, RequestTypeOK, reqVars, servingVars
<1>6. CASE Crash
  BY <1>6, ManagerAssumption DEF ManagerAssumption, Crash, RequestTypeOK, Labels, servingVars
<1>. QED
  BY <1>1, <1>2, <1>3, <1>4, <1>5, <1>6 DEF Next

-----------------------------------------------------------------------------
\* A request that neither enters nor leaves a critical section, nor a call of
\* the cache, keeps the discipline.
LEMMA StayDiscipline ==
  ASSUME RequestTypeOK, LockDiscipline, NEW r \in Requests, NEW label,
         pc' = [pc EXCEPT ![r] = label],
         pc[r] \in Critical <=> label \in Critical,
         label # "get",
         pc[r] \notin {"free", "putting"}, label \notin {"free", "putting"},
         UNCHANGED <<rwMux, raced, call>>
  PROVE  LockDiscipline'
BY DEF RequestTypeOK, LockDiscipline

\* Unlock: the request that leaves the critical section is the one that held
\* the lock, and leaves no call behind.
LEMMA UnlockDiscipline ==
  ASSUME ManagerInv, NEW r \in Requests, NEW label \in {"idle", "forward"},
         pc[r] \in {"size", "load", "put", "reload", "poll"},
         pc' = [pc EXCEPT ![r] = label],
         rwMux' = NoOne, UNCHANGED <<raced, call>>
  PROVE  LockDiscipline'
<1>1. \A s \in Requests : s # r => pc[s] \notin Critical
  BY DEF ManagerInv, LockDiscipline, Critical
<1>2. \A s \in Requests : pc'[s] \notin Critical
  BY <1>1 DEF ManagerInv, RequestTypeOK, Critical
<1>3. call.op \notin {"free", "put"}
  BY <1>1 DEF ManagerInv, LockDiscipline, Critical
<1>. QED
  BY <1>2, <1>3, ManagerAssumption DEF ManagerAssumption, LockDiscipline, Critical

\* A crash leaves nobody in the critical section and no call in progress.
LEMMA CrashDiscipline ==
  ASSUME Crash
  PROVE  LockDiscipline'
BY ManagerAssumption DEF ManagerAssumption, Crash, Restart, NoCall, LockDiscipline, Critical

\* Every action of a request keeps the discipline.
LEMMA RequestDiscipline ==
  ASSUME ManagerInv, NEW r \in Requests,
         \/ \E m \in Models : Start(r, m)
         \/ RLockForGet(r) \/ LockForMiss(r) \/ LockForReload(r) \/ Step(r)
  PROVE  LockDiscipline'
<1>. USE DEF Critical
<1>0. RequestTypeOK /\ LockDiscipline
  BY DEF ManagerInv
<1>1. ASSUME NEW m \in Models, Start(r, m)
      PROVE  LockDiscipline'
  BY <1>0, <1>1, StayDiscipline DEF Start, lruVars
<1>2. CASE TryGet(r)
  <2>1. PICK label \in {"status", "missLock"} : pc' = [pc EXCEPT ![r] = label]
    BY <1>2 DEF TryGet, Goto
  <2>2. pc[r] = "get" /\ UNCHANGED <<rwMux, raced, call>>
    BY <1>2 DEF TryGet, Get
  <2>. QED
    BY <1>0, <2>1, <2>2, StayDiscipline
<1>2a. CASE RLockForGet(r)
  <2>1. pc[r] = "tryGet" /\ pc' = [pc EXCEPT ![r] = "get"] /\ rwMux = NoOne /\ UNCHANGED <<rwMux, raced, call>>
    BY <1>2a DEF RLockForGet, Goto, lruVars
  <2>. QED
    BY <1>0, <2>1 DEF LockDiscipline, RequestTypeOK
<1>2b. CASE Race(r)
  <2>1. PICK label \in {"status", "missLock"} : pc' = [pc EXCEPT ![r] = label]
    BY <1>2b DEF Race, Goto
  <2>2. rwMux = NoOne /\ call.op = "none" /\ \A s \in Requests : pc[s] \notin Critical
    BY <1>2b, ReaderMeetsNoWriter DEF Race
  <2>3. UNCHANGED <<rwMux, call>>
    BY <1>2b DEF Race
  <2>. QED
    BY <1>0, <2>1, <2>2, <2>3, ManagerAssumption DEF ManagerAssumption, LockDiscipline, RequestTypeOK
<1>2c. CASE AfterRace(r)
  <2>0. raced /\ UNCHANGED <<raced, call>> /\ call.op = "none"
    BY <1>0, <1>2c DEF AfterRace, lruVars, ManagerInv, LockDiscipline, LRUTypeOK, NoCall
  <2>1. ASSUME NEW move \in RacedMoves, pc[r] = move[1], Goto(r, move[2]), UNCHANGED rwMux
        PROVE  LockDiscipline'
    <3>1. pc' = [pc EXCEPT ![r] = move[2]] /\ (pc[r] \in Critical <=> move[2] \in Critical) /\ move[2] # "get"
      BY <2>1 DEF RacedMoves, Goto
    <3>. QED
      BY <1>0, <2>0, <2>1, <3>1 DEF LockDiscipline, RequestTypeOK
  <2>2. CASE pc[r] \in {"free", "putting"} /\ Fail(r)
    <3>1. pc' = [pc EXCEPT ![r] = "idle"] /\ rwMux' = NoOne /\ rwMux = r
      BY <1>0, <2>2 DEF Fail, End, LockDiscipline
    <3>. QED
      BY <1>0, <2>0, <3>1, ManagerAssumption DEF ManagerAssumption, LockDiscipline, RequestTypeOK
  <2>. QED
    BY <1>2c, <2>1, <2>2 DEF AfterRace
<1>3. CASE LockForMiss(r) \/ LockForReload(r)
  <2>1. /\ rwMux = NoOne /\ rwMux' = r /\ UNCHANGED <<raced, call>>
        /\ \A s \in Requests : pc[s] # "get"
        /\ pc' = [pc EXCEPT ![r] = "size"] \/ pc' = [pc EXCEPT ![r] = "reload"]
    BY <1>3 DEF LockForMiss, LockForReload, Lock, Goto, lruVars
  <2>2. call.op = "none"
    BY <2>1, UnlockedIsIdle
  <2>3. \A s \in Requests : pc[s] \notin Critical
    BY <1>0, <2>1, ManagerAssumption DEF ManagerAssumption, LockDiscipline
  <2>. QED
    BY <1>0, <2>1, <2>2, <2>3 DEF LockDiscipline, RequestTypeOK
<1>4. CASE StatusHit(r) \/ StatusNotServed(r) \/ Forward(r)
  BY <1>0, <1>4, StayDiscipline DEF StatusHit, StatusNotServed, Forward, Goto, End, lruVars
<1>5. CASE ModelSize(r)
  <2>1. /\ pc[r] = "size" /\ pc' = [pc EXCEPT ![r] = "free"]
        /\ UNCHANGED <<rwMux, raced>>
        /\ IF raced THEN call' = call ELSE call'.op = "free"
    BY <1>5 DEF ModelSize, SizeIs, EnsureFreeBytes, lruVars, Goto
  <2>2. \A s \in Requests : s # r => pc[s] \notin Critical
    BY <1>0, <2>1 DEF LockDiscipline
  <2>. QED
    BY <1>0, <2>1, <2>2 DEF LockDiscipline, RequestTypeOK
<1>6. CASE ModelSizeFails(r) \/ LoadModelFails(r) \/ ReloadConfigFails(r) \/ PollAvailable(r)
  <2>1. /\ pc[r] \in {"size", "load", "reload", "poll"}
        /\ rwMux' = NoOne /\ UNCHANGED <<raced, call>>
        /\ \E label \in {"idle", "forward"} : pc' = [pc EXCEPT ![r] = label]
    BY <1>6 DEF ModelSizeFails, LoadModelFails, ReloadConfigFails, PollAvailable, Fail, End, lruVars
  <2>2. PICK label \in {"idle", "forward"} : pc' = [pc EXCEPT ![r] = label]
    BY <2>1
  <2>. QED
    BY <2>1, <2>2, UnlockDiscipline
<1>7. CASE Evict(r) \/ LoadModelWrites(r)
  BY <1>0, <1>7 DEF Evict, EvictLRU, LoadModelWrites, LockDiscipline, reqVars
<1>8. CASE EvictFails(r)
  BY <1>8, CrashDiscipline DEF EvictFails
<1>9. CASE FreeDone(r) \/ PutDone(r)
  <2>1. /\ pc[r] \in {"free", "putting"} /\ UNCHANGED <<rwMux, raced>> /\ call'.op = "none"
        /\ \E label \in {"load", "reload"} : pc' = [pc EXCEPT ![r] = label]
    BY <1>9 DEF FreeDone, PutDone, Freed, Pushed, NoCall, Goto
  <2>2. \A s \in Requests : s # r => pc[s] \notin Critical
    BY <1>0, <2>1 DEF LockDiscipline
  <2>. QED
    BY <1>0, <2>1, <2>2 DEF LockDiscipline, RequestTypeOK
<1>10. CASE LoadModel(r)
  <2>1. /\ pc[r] = "load" /\ pc' = [pc EXCEPT ![r] = "put"]
        /\ UNCHANGED <<rwMux, raced, call>>
    BY <1>10 DEF LoadModel, Loaded
  <2>. QED
    BY <1>0, <2>1, StayDiscipline
<1>11. CASE PutModel(r)
  <2>1. CASE PutExisting(fetched[r]) /\ Goto(r, "reload")
    <3>1. pc[r] = "put" /\ pc' = [pc EXCEPT ![r] = "reload"] /\ UNCHANGED <<rwMux, raced, call>>
      BY <1>11, <2>1 DEF PutModel, PutExisting, Goto
    <3>. QED
      BY <1>0, <3>1, StayDiscipline
  <2>2. CASE PutNew(fetched[r]) /\ Goto(r, "putting")
    <3>1. /\ pc[r] = "put" /\ pc' = [pc EXCEPT ![r] = "putting"]
          /\ ~raced /\ UNCHANGED <<rwMux, raced>> /\ call'.op = "put"
      BY <1>11, <2>2 DEF PutModel, PutNew, Goto
    <3>2. \A s \in Requests : s # r => pc[s] \notin Critical
      BY <1>0, <3>1 DEF LockDiscipline
    <3>. QED
      BY <1>0, <3>1, <3>2 DEF LockDiscipline, RequestTypeOK
  <2>. QED
    BY <1>11, <2>1, <2>2 DEF PutModel
<1>12. CASE ReloadConfig(r)
  BY <1>0, <1>12, StayDiscipline DEF ReloadConfig, Goto, lruVars
<1>13. CASE PollAgain(r)
  <2>1. CASE Fail(r)
    <3>1. /\ pc[r] = "poll" /\ rwMux' = NoOne /\ UNCHANGED <<raced, call>>
          /\ pc' = [pc EXCEPT ![r] = "idle"]
      BY <1>13, <2>1 DEF PollAgain, Fail, End, lruVars
    <3>. QED
      BY <3>1, UnlockDiscipline
  <2>2. CASE UNCHANGED <<pc, rwMux>>
    BY <1>0, <1>13, <2>2 DEF PollAgain, LockDiscipline, lruVars
  <2>. QED
    BY <1>13, <2>1, <2>2 DEF PollAgain
<1>. QED
  BY <1>1, <1>2, <1>2a, <1>2b, <1>2c, <1>3, <1>4, <1>5, <1>6, <1>7, <1>8, <1>9, <1>10, <1>11, <1>12, <1>13
     DEF Step, OwnStep, ProviderStep

\* So does every other step.
LEMMA DisciplineStep ==
  ASSUME ManagerInv, [Next]_vars
  PROVE  LockDiscipline'
<1>1. CASE UNCHANGED <<pc, rwMux, raced, call>>
  BY <1>1 DEF ManagerInv, LockDiscipline
<1>2. ASSUME NEW r \in Requests,
             \/ \E m \in Models : Start(r, m)
             \/ RLockForGet(r) \/ LockForMiss(r) \/ LockForReload(r) \/ Step(r)
      PROVE  LockDiscipline'
  BY <1>2, RequestDiscipline
<1>3. CASE ServingStep \/ ServingRestart \/ \E m \in Models : LoseFiles(m)
  BY <1>1, <1>3 DEF ServingStep, ServingRestart, LoseFiles, lruVars, reqVars
<1>4. CASE Crash
  BY <1>4, CrashDiscipline
<1>. QED
  BY <1>1, <1>2, <1>3, <1>4 DEF Next, vars, lruVars, reqVars

-----------------------------------------------------------------------------
\* The initial states satisfy the invariant.
LEMMA ManagerInit == Init => ManagerInv
<1>. SUFFICES ASSUME Init
              PROVE  ManagerInv
  OBVIOUS
<1>1. LRUInv
  BY InitInv DEF Init
<1>2. RequestTypeOK
  BY ManagerAssumption DEF ManagerAssumption, Init, RequestTypeOK, Labels, ServingState
<1>3. LockDiscipline
  BY ManagerAssumption DEF ManagerAssumption, Init, LRUInit, NewLRUCache, NoCall,
       LockDiscipline, Critical
<1>4. LRUTypeOK /\ raced \in BOOLEAN
  BY <1>1 DEF LRUInv, Init
<1>. QED
  BY <1>1, <1>2, <1>3, <1>4 DEF ManagerInv

\* The invariant is inductive: before a race the discipline makes every step one
\* of the cache, which keeps LRUInv; a restart establishes it again.
LEMMA ManagerNext == ManagerInv /\ [Next]_vars => ManagerInv'
<1>. SUFFICES ASSUME ManagerInv, [Next]_vars
              PROVE  ManagerInv'
  OBVIOUS
<1>1. CASE Crash
  <2>1. LRUInv'
    BY <1>1, RestartInv DEF Crash, ManagerInv
  <2>. QED
    BY <1>1, <2>1, TypeStep, DisciplineStep DEF Crash, ManagerInv, LRUInv
<1>2. CASE raced /\ ~Crash
  <2>1. raced' = raced
    BY <1>2, RacedChanges DEF Race
  <2>. QED
    BY <1>2, <2>1, RacedStep, TypeStep, DisciplineStep DEF ManagerInv
<1>3. CASE ~raced /\ raced' /\ ~Crash
  <2>1. PICK r \in Requests : Race(r)
    BY <1>3, RacedChanges
  <2>2. LRUTypeOK' /\ raced' \in BOOLEAN
    BY <2>1, EmptySeq DEF Race, ManagerInv, LRUTypeOK
  <2>. QED
    BY <1>3, <2>2, TypeStep, DisciplineStep DEF ManagerInv
<1>4. CASE ~raced /\ ~raced'
  <2>1. raced' = raced
    BY <1>4, RacedChanges DEF Crash, Race, ManagerInv
  <2>2. LRUInv'
    BY <1>4, ContractStep, NextInv DEF ManagerInv
  <2>. QED
    BY <2>1, <2>2, TypeStep, DisciplineStep DEF ManagerInv, LRUInv
<1>. QED
  BY <1>1, <1>2, <1>3, <1>4

\* The invariant holds in every state of the cache manager.
LEMMA ManagerInvAlways == Spec => []ManagerInv
BY ManagerInit, ManagerNext, PTL DEF Spec

\* The state of cache, requests, lock and TF Serving is well typed: a request
\* past its start has an identifier, one in Put has a model, and no poll runs
\* longer than ModelFetchTimeout (cachemanager.go:91-195).
THEOREM TypeCorrect == Spec => []TypeOK
<1>1. ManagerInv => TypeOK
  BY DEF ManagerInv, TypeOK
<1>. QED
  BY <1>1, ManagerInvAlways, PTL

\* However many requests there are, the write lock is held by exactly the one in
\* the critical section, on every path and after every error
\* (cachemanager.go:114-132, 137-142).
THEOREM LockCorrect == Spec => []LockDiscipline
<1>1. ManagerInv => LockDiscipline
  BY DEF ManagerInv
<1>. QED
  BY <1>1, ManagerInvAlways, PTL

\* The cache manager keeps the contract of the cache until two Gets overlap: as
\* long as none have, what concurrent requests do is, seen from the cache, one
\* call after the other, and only a restart mends it (lrucache.go:43-87).
THEOREM ContractCorrect == Spec => KeepsCacheContract
<1>1. Init => LRUInit
  BY DEF Init
<1>2. ManagerInv /\ [Next]_vars => [raced' \/ IF raced THEN Restart ELSE LRUNext]_lruVars
  <2>. SUFFICES ASSUME ManagerInv, [Next]_vars, ~raced'
                PROVE  (IF raced THEN Restart ELSE LRUNext) \/ UNCHANGED lruVars
    OBVIOUS
  <2>1. CASE raced
    BY <2>1, RacedChanges DEF Race, Crash
  <2>2. CASE ~raced
    BY <2>2, ContractStep
  <2>. QED
    BY <2>1, <2>2
<1>. QED
  BY <1>1, <1>2, ManagerInvAlways, PTL DEF Spec, KeepsCacheContract

\* What is true of the cache alone is true of it here until then: map and list
\* agree, bytes are counted exactly and within the budget.
THEOREM CacheSafeInManager ==
  Spec => [](raced \/ (MapMatchesList /\ CapacityBound /\ AccountingExact))
<1>1. ManagerInv => raced \/ (MapMatchesList /\ CapacityBound /\ AccountingExact)
  BY InvIsExact DEF ManagerInv, LRUInv
<1>. QED
  BY <1>1, ManagerInvAlways, PTL

\* The abstract cache, until the race.
ImplementsUntilRace ==
  Abstract!Init /\ [][raced' \/ IF raced THEN Abstract!Clear ELSE Abstract!Next]_(Abstract!vars)

\* So is the refinement: until two Gets overlap, whatever concurrent requests do,
\* fail to do and leave undone at a crash, the cache evicts only what was used
\* longest ago, and only while the bytes asked for do not fit
\* (lrucache.go:43-87, cachemanager.go:91-132).
THEOREM ManagerImplementsModelCache == Spec => ImplementsUntilRace
<1>1. Init => Abstract!Init
  BY InitRefines DEF Init
<1>2. ManagerInv /\ [Next]_vars =>
        [raced' \/ IF raced THEN Abstract!Clear ELSE Abstract!Next]_(Abstract!vars)
  <2>. SUFFICES ASSUME ManagerInv, [Next]_vars, ~raced'
                PROVE  (IF raced THEN Abstract!Clear ELSE Abstract!Next) \/ UNCHANGED Abstract!vars
    OBVIOUS
  <2>1. CASE raced
    <3>1. Restart
      BY <2>1, RacedChanges DEF Race, Crash
    <3>. QED
      BY <2>1, <3>1, RestartRefines
  <2>2. CASE ~raced
    <3>1. LRUInv /\ [LRUNext]_lruVars
      BY <2>2, ContractStep DEF ManagerInv
    <3>. QED
      BY <2>2, <3>1, StepRefines
  <2>. QED
    BY <2>1, <2>2
<1>. QED
  BY <1>1, <1>2, ManagerInvAlways, PTL DEF Spec, ImplementsUntilRace

-----------------------------------------------------------------------------
(* The model a request fetched is the first of the cache.                  *)

Fetched == {"put", "putting", "reload", "poll", "forward"}

\* What RequestedAtFront needs to be inductive: who has a model got it from
\* LoadModel, it is the one asked for, and it is the one Put is adding.
FrontInv ==
  /\ \A r \in Requests : fetched[r] # NoModel => pc[r] \in Fetched
  /\ \A r \in Requests : pc[r] \in {"put", "putting"} => fetched[r].id = req[r]
  /\ \A r \in Requests : pc[r] = "putting" /\ ~raced => call.model = fetched[r]
  /\ RequestedAtFront

\* Pushed puts its model in front, MoveToFront the one at the given place.
LEMMA HeadAfterPut ==
  ASSUME NEW s \in Seq(Model)
  PROVE  /\ \A m \in Model : Cons(m, s) # <<>> /\ Head(Cons(m, s)) = m
         /\ \A i \in DOMAIN s : MoveToFront(s, i) # <<>> /\ Head(MoveToFront(s, i)) = s[i]
<1>1. ASSUME NEW m \in Model
      PROVE  Cons(m, s) # <<>> /\ Head(Cons(m, s)) = m
  <2>1. Cons(m, s) \in Seq(Model) /\ Len(Cons(m, s)) = Len(s) + 1 /\ Cons(m, s)[1] = m
    BY ConsProperties
  <2>. QED
    BY <2>1
<1>2. ASSUME NEW i \in DOMAIN s
      PROVE  MoveToFront(s, i) # <<>> /\ Head(MoveToFront(s, i)) = s[i]
  <2>1. /\ MoveToFront(s, i) \in Seq(Model) /\ Len(MoveToFront(s, i)) = Len(s)
        /\ MoveToFront(s, i)[1] = s[i]
    BY MoveToFrontProperties
  <2>2. Len(s) >= 1
    OBVIOUS
  <2>. QED
    BY <2>1, <2>2
<1>. QED
  BY <1>1, <1>2

\* A step that leaves the list, the call and everyone's place alone.
LEMMA FrontUnchanged ==
  ASSUME FrontInv, UNCHANGED <<pc, req, fetched, lruList, call, raced>>
  PROVE  FrontInv'
BY DEF FrontInv, RequestedAtFront

\* A request ends, or moves on without a model to a place before Put or to the
\* reload of a cached model, and leaves list and call alone.
LEMMA FrontMoves ==
  ASSUME RequestTypeOK, FrontInv, NEW r \in Requests,
         \/ End(r)
         \/ /\ \E label \in Labels \ {"put", "putting"} : Goto(r, label)
            /\ fetched[r] = NoModel,
         UNCHANGED <<lruList, call, raced>>
  PROVE  FrontInv'
<1>1. \A s \in Requests : s # r =>
        pc'[s] = pc[s] /\ req'[s] = req[s] /\ fetched'[s] = fetched[s]
  BY DEF RequestTypeOK, End, Goto
<1>2. fetched'[r] = NoModel /\ pc'[r] \notin {"put", "putting"}
  BY DEF RequestTypeOK, End, Goto
<1>. QED
  BY <1>1, <1>2 DEF FrontInv, RequestedAtFront

\* At most one request is between Lock and Unlock, nobody when the lock is free.
LEMMA CriticalIsExclusive ==
  ASSUME ManagerInv
  PROVE  /\ \A r, s \in Requests : pc[r] \in Critical /\ pc[s] \in Critical => r = s
         /\ rwMux = NoOne => \A r \in Requests : pc[r] \notin Critical
BY ManagerAssumption DEF ManagerAssumption, ManagerInv, LockDiscipline

\* Every action of a request keeps FrontInv: the list moves only while nobody
\* else waits for TF Serving to load its first model.
LEMMA RequestFront ==
  ASSUME ManagerInv, FrontInv, NEW r \in Requests,
         \/ \E m \in Models : Start(r, m)
         \/ RLockForGet(r) \/ LockForMiss(r) \/ LockForReload(r) \/ Step(r)
  PROVE  FrontInv'
<1>0. RequestTypeOK /\ LRUTypeOK /\ (~raced => MapMatchesList)
  BY DEF ManagerInv, LRUInv
<1>a. pc[r] \notin Fetched => fetched[r] = NoModel
  BY DEF FrontInv
<1>b. pc[r] \in Critical => \A s \in Requests : s # r => pc[s] \notin Critical
  BY CriticalIsExclusive
<1>1. ASSUME NEW m \in Models, Start(r, m)
      PROVE  FrontInv'
  BY <1>0, <1>1, <1>a DEF Start, lruVars, FrontInv, RequestedAtFront, RequestTypeOK, Fetched
<1>2. CASE TryGet(r) \/ Race(r)
  <2>1. \A s \in Requests : pc[s] \notin Critical
    BY <1>2, ReaderMeetsNoWriter DEF TryGet, Race
  <2>2. PICK label \in {"status", "missLock"} : pc' = [pc EXCEPT ![r] = label]
    BY <1>2 DEF TryGet, Race, Goto
  <2>3. \A s \in Requests : pc'[s] \notin Critical
    BY <1>0, <2>1, <2>2 DEF RequestTypeOK, Critical
  <2>4. fetched' = fetched /\ fetched[r] = NoModel
    BY <1>2, <1>a DEF TryGet, Race, Goto, Fetched
  <2>. QED
    BY <1>0, <2>2, <2>3, <2>4 DEF FrontInv, RequestedAtFront, RequestTypeOK, Critical
<1>2a. CASE RLockForGet(r)
  BY <1>0, <1>2a, <1>a, FrontMoves DEF RLockForGet, Fetched, Labels, Critical, lruVars
<1>2b. CASE AfterRace(r)
  <2>0. raced /\ raced'
    BY <1>2b DEF AfterRace
  <2>1. ASSUME NEW move \in RacedMoves, pc[r] = move[1], Goto(r, move[2])
        PROVE  FrontInv'
    <3>1. /\ pc' = [pc EXCEPT ![r] = move[2]] /\ UNCHANGED <<req, fetched>>
          /\ fetched[r] # NoModel => move[2] \in Fetched
          /\ move[2] \in {"put", "putting"} => pc[r] = "put"
      BY <1>a, <2>1 DEF RacedMoves, Goto, Fetched
    <3>. QED
      BY <1>0, <2>0, <3>1 DEF FrontInv, RequestedAtFront, RequestTypeOK
  <2>2. CASE Fail(r)
    BY <1>0, <1>2b, <2>2, FrontMoves DEF AfterRace, Fail, lruVars
  <2>. QED
    BY <1>2b, <2>1, <2>2 DEF AfterRace
<1>3. CASE LockForMiss(r) \/ LockForReload(r) \/ StatusHit(r) \/ StatusNotServed(r) \/ Forward(r)
  BY <1>0, <1>3, <1>a, FrontMoves DEF LockForMiss, LockForReload, Lock, StatusHit, StatusNotServed,
       Forward, Fetched, Labels, Critical, lruVars
<1>4. CASE ModelSizeFails(r) \/ LoadModelFails(r) \/ ReloadConfigFails(r)
  BY <1>0, <1>4, FrontMoves DEF ModelSizeFails, LoadModelFails, ReloadConfigFails, Fail, lruVars
<1>5. CASE ModelSize(r) \/ FreeDone(r)
  <2>1. /\ pc[r] \in {"size", "free"} /\ UNCHANGED <<req, fetched, lruList, raced>>
        /\ \E label \in {"free", "load"} : pc' = [pc EXCEPT ![r] = label]
    BY <1>5 DEF ModelSize, SizeIs, EnsureFreeBytes, FreeDone, Freed, Goto, lruVars
  <2>2. \A s \in Requests : s # r => pc[s] \notin Critical
    BY <1>b, <2>1 DEF Critical
  <2>3. fetched[r] = NoModel
    BY <1>a, <2>1 DEF Fetched
  <2>. QED
    BY <1>0, <2>1, <2>2, <2>3 DEF FrontInv, RequestedAtFront, RequestTypeOK, Critical
<1>6. CASE Evict(r)
  <2>1. pc[r] \in {"free", "putting"} /\ UNCHANGED <<pc, req, fetched, call, raced>>
    BY <1>6 DEF Evict, EvictLRU, reqVars
  <2>2. \A s \in Requests : pc[s] \notin {"reload", "poll"}
    BY <1>b, <2>1 DEF Critical
  <2>. QED
    BY <2>1, <2>2 DEF FrontInv, RequestedAtFront
<1>7. CASE EvictFails(r)
  BY <1>7 DEF EvictFails, Crash, FrontInv, RequestedAtFront
<1>8. CASE LoadModel(r)
  <2>1. PICK n \in Sizes : fetched' = [fetched EXCEPT ![r] = [id |-> req[r], size |-> n]]
    BY <1>8 DEF LoadModel, Loaded
  <2>2. /\ pc' = [pc EXCEPT ![r] = "put"] /\ UNCHANGED <<req, lruList, call, raced>>
    BY <1>8 DEF LoadModel, Loaded
  <2>. QED
    BY <1>0, <2>1, <2>2 DEF FrontInv, RequestedAtFront, RequestTypeOK, Fetched
<1>9. CASE PutModel(r)
  <2>0. pc[r] = "put" /\ fetched[r].id = req[r] /\ UNCHANGED <<req, fetched, raced>> /\ ~raced
    BY <1>9 DEF PutModel, Goto, FrontInv
  <2>1. \A s \in Requests : s # r => pc[s] \notin Critical
    BY <1>b, <2>0 DEF Critical
  <2>2. CASE PutExisting(fetched[r]) /\ Goto(r, "reload")
    <3>1. /\ Position(req[r]) \in DOMAIN lruList
          /\ lruList[Position(req[r])].id = req[r]
          /\ lruList' = MoveToFront(lruList, Position(req[r]))
      BY <1>0, <2>0, <2>2, PositionInList DEF PutExisting
    <3>2. lruList' # <<>> /\ Head(lruList').id = req[r]
      BY <1>0, <3>1, HeadAfterPut DEF LRUTypeOK
    <3>3. pc' = [pc EXCEPT ![r] = "reload"]
      BY <2>2 DEF Goto
    <3>. QED
      BY <1>0, <2>0, <2>1, <3>2, <3>3 DEF FrontInv, RequestedAtFront, RequestTypeOK, Critical, Fetched
  <2>3. CASE PutNew(fetched[r]) /\ Goto(r, "putting")
    <3>1. /\ pc' = [pc EXCEPT ![r] = "putting"] /\ lruList' = lruList
          /\ call'.model = fetched[r]
      BY <2>3 DEF PutNew, Goto
    <3>. QED
      BY <1>0, <2>0, <2>1, <3>1 DEF FrontInv, RequestedAtFront, RequestTypeOK, Critical, Fetched
  <2>. QED
    BY <1>9, <2>2, <2>3 DEF PutModel
<1>10. CASE PutDone(r)
  <2>a. ~raced
    BY <1>10 DEF PutDone, Pushed, ManagerInv, LockDiscipline
  <2>0. /\ pc[r] = "putting" /\ fetched[r].id = req[r] /\ call.model = fetched[r] /\ fetched[r] \in Model
        /\ raced' = raced
    BY <1>0, <1>10, <2>a DEF PutDone, FrontInv, RequestTypeOK
  <2>1. \A s \in Requests : s # r => pc[s] \notin Critical
    BY <1>b, <2>0 DEF Critical
  <2>2. /\ pc' = [pc EXCEPT ![r] = "reload"] /\ UNCHANGED <<req, fetched>>
        /\ lruList' = Cons(fetched[r], lruList)
    BY <1>10, <2>0 DEF PutDone, Pushed, Goto
  <2>3. lruList' # <<>> /\ Head(lruList').id = req[r]
    BY <1>0, <2>0, <2>2, HeadAfterPut DEF LRUTypeOK
  <2>. QED
    BY <1>0, <2>0, <2>1, <2>2, <2>3 DEF FrontInv, RequestedAtFront, RequestTypeOK, Critical, Fetched
<1>8a. CASE LoadModelWrites(r)
  BY <1>8a, FrontUnchanged DEF LoadModelWrites, reqVars
<1>11. CASE ReloadConfig(r)
  BY <1>0, <1>11 DEF ReloadConfig, Goto, lruVars, FrontInv, RequestedAtFront, RequestTypeOK, Fetched
<1>12. CASE PollAvailable(r)
  <2>1. End(r) \/ Goto(r, "forward")
    BY <1>12 DEF PollAvailable, Goto
  <2>2. UNCHANGED <<lruList, call, raced>>
    BY <1>12 DEF PollAvailable, lruVars
  <2>3. CASE End(r)
    BY <1>0, <2>2, <2>3, FrontMoves
  <2>4. CASE Goto(r, "forward")
    BY <1>0, <2>2, <2>4 DEF Goto, FrontInv, RequestedAtFront, RequestTypeOK, Fetched
  <2>. QED
    BY <2>1, <2>3, <2>4
<1>13. CASE PollAgain(r)
  <2>1. UNCHANGED <<lruList, call, raced>>
    BY <1>13 DEF PollAgain, lruVars
  <2>2. CASE Fail(r)
    BY <1>0, <2>1, <2>2, FrontMoves DEF Fail
  <2>3. CASE UNCHANGED <<pc, req, fetched>>
    BY <2>1, <2>3, FrontUnchanged
  <2>. QED
    BY <1>13, <2>2, <2>3 DEF PollAgain
<1>. QED
  BY <1>1, <1>2, <1>2a, <1>2b, <1>3, <1>4, <1>5, <1>6, <1>7, <1>8, <1>8a, <1>9, <1>10, <1>11, <1>12, <1>13
     DEF Step, OwnStep, ProviderStep

\* Every step keeps FrontInv.
LEMMA FrontStep ==
  ASSUME ManagerInv, FrontInv, [Next]_vars
  PROVE  FrontInv'
<1>1. CASE UNCHANGED vars
  BY <1>1, FrontUnchanged DEF vars, lruVars, reqVars
<1>2. ASSUME NEW r \in Requests,
             \/ \E m \in Models : Start(r, m)
             \/ RLockForGet(r) \/ LockForMiss(r) \/ LockForReload(r) \/ Step(r)
      PROVE  FrontInv'
  BY <1>2, RequestFront
<1>3. CASE ServingStep \/ ServingRestart \/ \E m \in Models : LoseFiles(m)
  BY <1>3, FrontUnchanged DEF ServingStep, ServingRestart, LoseFiles, lruVars, reqVars
<1>4. CASE Crash
  BY <1>4 DEF Crash, FrontInv, RequestedAtFront
<1>. QED
  BY <1>1, <1>2, <1>3, <1>4 DEF Next

\* However many requests there are, a request that fetched its model finds it at
\* the front of the cache when it writes the configuration and while it polls
\* (cachemanager.go:127-128): no other request can move it away.
THEOREM FrontCorrect == Spec => []RequestedAtFront
<1>1. Init => FrontInv
  BY DEF Init, FrontInv, RequestedAtFront
<1>2. ManagerInv /\ FrontInv /\ [Next]_vars => FrontInv'
  BY FrontStep
<1>3. FrontInv => RequestedAtFront
  BY DEF FrontInv
<1>. QED
  BY <1>1, <1>2, <1>3, ManagerInvAlways, PTL DEF Spec

-----------------------------------------------------------------------------
(* What TF Serving is asked for.                                           *)

\* The configuration names the first MaxConcurrentModels models of the list, and
\* nothing else: as many as it may at most, the first one among them.
LEMMA ActiveIsPrefix ==
  ASSUME LRUTypeOK
  PROVE  /\ Aspired(createModelConfig(ActiveModels)) = Range(ActiveModels)
         /\ Cardinality(Range(ActiveModels)) <= MaxConcurrentModels
         /\ lruList # <<>> /\ MaxConcurrentModels > 0 => Head(lruList).id \in Range(ActiveModels)
<1>. DEFINE n == IF Len(lruList) < MaxConcurrentModels THEN Len(lruList) ELSE MaxConcurrentModels
<1>0. ActiveModels = [i \in 1..n |-> lruList[i].id]
  BY DEF ActiveModels
<1>1. lruList \in Seq(Model) /\ Len(lruList) \in Nat /\ MaxConcurrentModels \in Nat
  BY ManagerAssumption, LenProperties DEF ManagerAssumption, LRUTypeOK
<1>2. n \in Nat /\ n <= MaxConcurrentModels /\ n <= Len(lruList)
  BY <1>1
<1>3. lruList # <<>> /\ MaxConcurrentModels > 0 => n >= 1 /\ Head(lruList) = lruList[1]
  BY <1>1
<1>. HIDE DEF n
<1>4. \A i \in 1..n : lruList[i].id \in Identifiers
  <2>1. \A i \in 1..n : lruList[i] \in Model
    BY <1>1, <1>2, ElementOfSeq
  <2>. QED
    BY <2>1, ManagerAssumption DEF ManagerAssumption, Model
<1>5. ActiveModels \in Seq(Identifiers)
  BY <1>0, <1>2, <1>4, SeqDef
<1>6. Aspired(createModelConfig(ActiveModels)) = Range(ActiveModels)
  BY <1>5, ConfigOfList
<1>7. Range(ActiveModels) = {lruList[i].id : i \in 1..n}
  BY <1>0 DEF Range
<1>8. Cardinality(Range(ActiveModels)) <= n
  <2>1. [i \in 1..n |-> lruList[i].id] \in Surjection(1..n, {lruList[i].id : i \in 1..n})
    BY DEF Surjection
  <2>2. ExistsSurjection(1..n, Range(ActiveModels))
    BY <1>7, <2>1 DEF ExistsSurjection
  <2>. QED
    BY <1>2, <2>2, FS_SurjCardinalityBound
<1>9. Cardinality(Range(ActiveModels)) <= MaxConcurrentModels
  <2>1. IsFiniteSet(1..n)
    BY <1>2, FS_Interval
  <2>2. [i \in 1..n |-> lruList[i].id] \in Surjection(1..n, {lruList[i].id : i \in 1..n})
    BY DEF Surjection
  <2>3. IsFiniteSet(Range(ActiveModels))
    BY <1>7, <2>1, <2>2, FS_Surjection
  <2>4. Cardinality(Range(ActiveModels)) \in Nat
    BY <2>3, FS_CardinalityType
  <2>. QED
    BY <1>1, <1>2, <1>8, <2>4
<1>10. lruList # <<>> /\ MaxConcurrentModels > 0 => Head(lruList).id \in Range(ActiveModels)
  BY <1>2, <1>3, <1>7
<1>. QED
  BY <1>6, <1>9, <1>10

\* Whatever the slice is, after a race too, it is as short as it may be, and the
\* configuration names exactly its models.
LEMMA SliceIsShort ==
  ASSUME LRUTypeOK, NEW ids \in Slices
  PROVE  /\ Aspired(createModelConfig(ids)) = Range(ids)
         /\ Cardinality(Range(ids)) <= MaxConcurrentModels
<1>1. CASE ~raced
  BY <1>1, ActiveIsPrefix DEF Slices
<1>2. CASE raced
  <2>1. PICK n \in 0..MaxConcurrentModels : ids \in [1..n -> Models]
    BY <1>2 DEF Slices
  <2>2. n \in Nat /\ MaxConcurrentModels \in Nat /\ n <= MaxConcurrentModels
    BY ManagerAssumption DEF ManagerAssumption
  <2>3. ids \in Seq(Identifiers)
    BY <2>1, <2>2, ManagerAssumption, SeqDef DEF ManagerAssumption
  <2>4. Aspired(createModelConfig(ids)) = Range(ids)
    BY <2>3, ConfigOfList
  <2>5. ids \in Surjection(1..n, Range(ids))
    BY <2>1 DEF Surjection, Range
  <2>6. IsFiniteSet(1..n) /\ Cardinality(1..n) = n
    BY <2>2, FS_Interval
  <2>7. Cardinality(Range(ids)) <= n
    BY <2>2, <2>5, FS_SurjCardinalityBound DEF ExistsSurjection
  <2>8. Cardinality(Range(ids)) \in Nat
    BY <2>5, <2>6, FS_Surjection, FS_CardinalityType
  <2>. QED
    BY <2>2, <2>4, <2>7, <2>8
<1>. QED
  BY <1>1, <1>2

\* Only a reload changes what TF Serving is asked for, or a restart that makes
\* it forget; and only a reload starts a poll.
LEMMA OnlyReloadConfigures ==
  ASSUME ManagerInv, [Next]_vars
  PROVE  \/ \E r \in Requests : ReloadConfig(r) \/ ReloadConfigFails(r)
         \/ /\ aspired' \in {aspired, {}}
            /\ \A r \in Requests : pc'[r] = "poll" =>
                 pc[r] = "poll" /\ req'[r] = req[r] /\ fetched'[r] = fetched[r]
<1>. DEFINE Quiet == /\ aspired' \in {aspired, {}}
                     /\ \A r \in Requests : pc'[r] = "poll" =>
                          pc[r] = "poll" /\ req'[r] = req[r] /\ fetched'[r] = fetched[r]
<1>0. RequestTypeOK
  BY DEF ManagerInv
<1>1. ASSUME NEW r \in Requests, NEW label \in Labels \ {"poll"},
             pc' = [pc EXCEPT ![r] = label],
             \A s \in Requests : s # r => req'[s] = req[s] /\ fetched'[s] = fetched[s],
             aspired' = aspired
      PROVE  Quiet
  BY <1>0, <1>1 DEF RequestTypeOK
<1>2. ASSUME UNCHANGED <<pc, req, fetched>>, aspired' \in {aspired, {}}
      PROVE  Quiet
  BY <1>2
<1>3. ASSUME Crash
      PROVE  Quiet
  BY <1>3 DEF Crash, servingVars
<1>. HIDE DEF Quiet
<1>. USE DEF Labels, Critical
<1>4. ASSUME NEW r \in Requests, NEW m \in Models, Start(r, m)
      PROVE  Quiet
  BY <1>0, <1>1, <1>4 DEF Start, servingVars, RequestTypeOK
<1>5. ASSUME NEW r \in Requests, RLockForGet(r) \/ TryGet(r) \/ Race(r)
      PROVE  Quiet
  <2>1. \E label \in {"get", "status", "missLock"} : pc' = [pc EXCEPT ![r] = label]
    BY <1>5 DEF RLockForGet, TryGet, Race, Goto
  <2>2. UNCHANGED <<req, fetched, aspired>>
    BY <1>5 DEF RLockForGet, TryGet, Race, Goto, servingVars
  <2>. QED
    BY <1>1, <2>1, <2>2
<1>6. ASSUME NEW r \in Requests,
             \/ LockForMiss(r) \/ LockForReload(r) \/ StatusHit(r) \/ StatusNotServed(r)
             \/ ModelSize(r) \/ FreeDone(r) \/ PutModel(r) \/ PutDone(r)
      PROVE  Quiet
  <2>1. \E label \in Labels \ {"poll"} : pc' = [pc EXCEPT ![r] = label]
    BY <1>6 DEF LockForMiss, LockForReload, Lock, StatusHit, StatusNotServed, ModelSize, SizeIs, FreeDone,
         PutModel, PutDone, Goto
  <2>2. UNCHANGED <<req, fetched, aspired>>
    BY <1>6 DEF LockForMiss, LockForReload, Lock, StatusHit, StatusNotServed, ModelSize, SizeIs, FreeDone,
         PutModel, PutDone, Goto, servingVars
  <2>. QED
    BY <1>1, <2>1, <2>2
<1>7. ASSUME NEW r \in Requests, End(r), aspired' = aspired
      PROVE  Quiet
  BY <1>0, <1>1, <1>7 DEF End, RequestTypeOK
<1>8. ASSUME NEW r \in Requests, Forward(r) \/ ModelSizeFails(r) \/ LoadModelFails(r)
      PROVE  Quiet
  BY <1>7, <1>8 DEF Forward, ModelSizeFails, LoadModelFails, Fail, servingVars
<1>9. ASSUME NEW r \in Requests, Evict(r) \/ LoadModelWrites(r)
      PROVE  Quiet
  BY <1>2, <1>9 DEF Evict, LoadModelWrites, reqVars, servingVars
<1>10. ASSUME NEW r \in Requests, LoadModel(r)
       PROVE  Quiet
  <2>1. pc' = [pc EXCEPT ![r] = "put"] /\ UNCHANGED <<req, aspired>>
    BY <1>10 DEF LoadModel, Loaded, servingVars
  <2>2. \A s \in Requests : s # r => fetched'[s] = fetched[s]
    BY <1>0, <1>10 DEF LoadModel, Loaded, RequestTypeOK
  <2>. QED
    BY <1>1, <2>1, <2>2
<1>11. ASSUME NEW r \in Requests, PollAvailable(r)
       PROVE  Quiet
  <2>1. aspired' = aspired
    BY <1>11 DEF PollAvailable, servingVars
  <2>2. CASE End(r)
    BY <1>7, <2>1, <2>2
  <2>3. CASE pc' = [pc EXCEPT ![r] = "forward"] /\ UNCHANGED <<req, fetched>>
    BY <1>1, <2>1, <2>3
  <2>. QED
    BY <1>11, <2>2, <2>3 DEF PollAvailable
<1>12. ASSUME NEW r \in Requests, PollAgain(r)
       PROVE  Quiet
  BY <1>2, <1>7, <1>12 DEF PollAgain, Fail, servingVars
<1>13. ASSUME ServingStep \/ ServingRestart \/ \E m \in Models : LoseFiles(m)
       PROVE  Quiet
  BY <1>2, <1>13 DEF ServingStep, ServingRestart, LoseFiles, reqVars, servingVars
<1>14. ASSUME UNCHANGED vars
       PROVE  Quiet
  BY <1>2, <1>14 DEF vars, reqVars, servingVars
<1>15. ASSUME NEW r \in Requests, EvictFails(r)
       PROVE  Quiet
  BY <1>3, <1>15 DEF EvictFails
<1>16. ASSUME NEW r \in Requests, AfterRace(r)
       PROVE  Quiet
  <2>1. aspired' = aspired
    BY <1>16 DEF AfterRace, servingVars
  <2>2. CASE Fail(r)
    BY <1>7, <2>1, <2>2 DEF Fail
  <2>3. CASE \E move \in RacedMoves : Goto(r, move[2])
    <3>1. PICK move \in RacedMoves : Goto(r, move[2])
      BY <2>3
    <3>2. move[2] \in Labels \ {"poll"}
      BY DEF RacedMoves
    <3>3. pc' = [pc EXCEPT ![r] = move[2]] /\ UNCHANGED <<req, fetched>>
      BY <3>1 DEF Goto
    <3>. QED
      BY <1>1, <2>1, <3>2, <3>3
  <2>. QED
    BY <1>16, <2>2, <2>3 DEF AfterRace
<1>. QED
  BY <1>3, <1>4, <1>5, <1>6, <1>8, <1>9, <1>10, <1>11, <1>12, <1>13, <1>14, <1>15, <1>16
     DEF Next, Step, OwnStep, ProviderStep, Quiet

\* However many models the cache holds, whatever call failed and however the list
\* is tangled, TF Serving is never asked for more than MaxConcurrentModels models
\* (cachemanager.go:167-174).
THEOREM BoundCorrect == Spec => []ServingBound
<1>1. Init => ServingBound
  BY FS_EmptySet, ManagerAssumption DEF ManagerAssumption, Init, ServingBound
<1>2. ManagerInv /\ ServingBound /\ [Next]_vars => ServingBound'
  <2>. SUFFICES ASSUME ManagerInv, ServingBound, [Next]_vars
                PROVE  ServingBound'
    OBVIOUS
  <2>1. LRUTypeOK
    BY DEF ManagerInv
  <2>2. CASE \E r \in Requests : ReloadConfig(r) \/ ReloadConfigFails(r)
    <3>1. aspired' \in {aspired} \cup {Aspired(createModelConfig(ids)) : ids \in Slices}
      BY <2>2 DEF ReloadConfig, ReloadConfigFails
    <3>2. aspired' = aspired \/ \E ids \in Slices : aspired' = Aspired(createModelConfig(ids))
      BY <3>1
    <3>. QED
      BY <2>1, <3>2, SliceIsShort DEF ServingBound
  <2>3. CASE aspired' \in {aspired, {}}
    BY <2>3, FS_EmptySet, ManagerAssumption DEF ManagerAssumption, ServingBound
  <2>. QED
    BY <2>2, <2>3, OnlyReloadConfigures
<1>. QED
  BY <1>1, <1>2, ManagerInvAlways, PTL DEF Spec

\* While a request that fetched its model polls, TF Serving has been told to load
\* it, or has restarted: no other request can replace the configuration under
\* the lock (cachemanager.go:127-128, 167-195).
THEOREM AwaitedCorrect == Spec => []AwaitedIsConfigured
<1>1. Init => AwaitedIsConfigured /\ FrontInv
  BY DEF Init, AwaitedIsConfigured, FrontInv, RequestedAtFront
<1>2. ManagerInv /\ FrontInv /\ AwaitedIsConfigured /\ [Next]_vars => AwaitedIsConfigured'
  <2>. SUFFICES ASSUME ManagerInv, FrontInv, AwaitedIsConfigured, [Next]_vars
                PROVE  AwaitedIsConfigured'
    OBVIOUS
  <2>1. RequestTypeOK /\ LRUTypeOK
    BY DEF ManagerInv
  <2>2. ASSUME NEW r \in Requests, ReloadConfig(r)
        PROVE  AwaitedIsConfigured'
    <3>1. /\ pc[r] = "reload" /\ pc' = [pc EXCEPT ![r] = "poll"] /\ UNCHANGED <<req, fetched, raced>>
          /\ ~raced => aspired' = Range(ActiveModels)
      BY <2>1, <2>2, ActiveIsPrefix DEF ReloadConfig, Slices, Goto
    <3>2. \A s \in Requests : s # r => pc'[s] # "poll"
      BY <2>1, <3>1, CriticalIsExclusive DEF RequestTypeOK, Critical
    <3>3. fetched[r] # NoModel /\ MaxConcurrentModels > 0 /\ ~raced => req[r] \in aspired'
      BY <2>1, <3>1, ActiveIsPrefix DEF FrontInv, RequestedAtFront
    <3>. QED
      BY <3>1, <3>2, <3>3 DEF AwaitedIsConfigured
  <2>3. ASSUME NEW r \in Requests, ReloadConfigFails(r)
        PROVE  AwaitedIsConfigured'
    <3>1. pc[r] = "reload" /\ pc' = [pc EXCEPT ![r] = "idle"]
      BY <2>3 DEF ReloadConfigFails, Fail, End
    <3>2. \A s \in Requests : pc'[s] # "poll"
      BY <2>1, <3>1, CriticalIsExclusive DEF RequestTypeOK, Critical
    <3>. QED
      BY <3>2 DEF AwaitedIsConfigured
  <2>4. CASE /\ aspired' \in {aspired, {}}
             /\ \A r \in Requests : pc'[r] = "poll" =>
                  pc[r] = "poll" /\ req'[r] = req[r] /\ fetched'[r] = fetched[r]
    <3>1. CASE Crash
      BY <3>1 DEF Crash, AwaitedIsConfigured
    <3>2. CASE ~Crash
      <4>1. ~raced' => ~raced
        BY <3>2, RacedChanges DEF Race
      <4>. QED
        BY <2>4, <4>1 DEF AwaitedIsConfigured
    <3>. QED
      BY <3>1, <3>2
  <2>. QED
    BY <2>2, <2>3, <2>4, OnlyReloadConfigures
<1>3. ManagerInv /\ FrontInv /\ [Next]_vars => FrontInv'
  BY FrontStep
<1>. QED
  BY <1>1, <1>2, <1>3, ManagerInvAlways, PTL DEF Spec
=============================================================================
