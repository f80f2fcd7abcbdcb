--------------------------- MODULE CacheNodeProofs ---------------------------
(***************************************************************************)
(* Every file is counted once, so the providers return and write only what *)
(* CacheManager allows for: a cache node implements it, and all that       *)
(* CacheManagerProofs proves holds of the node.  Only whole copies enter   *)
(* the cache.  All this for any number of requests, listings of any length *)
(* and pages of any size.                                                  *)
(***************************************************************************)
EXTENDS CacheNode, CacheManagerProofs

-----------------------------------------------------------------------------
(* Only whole copies enter the cache.                                      *)

Busy == {"size", "load"}

Job == [op : {"none"} \cup Busy, step : {"list", "apply", "ended", "failed"}, token : Nat,
        next : Nat, upto : Nat, marker : {"none", "set"}, empty : Nat, total : Int, files : SUBSET Nat]

JobTypeOK ==
  /\ stored \in Catalogue
  /\ job \in Job
  /\ job.op = "none" => job.step = "ended"

\* A call of the provider is made by a request that waits for it.
JobAwaited == job.op # "none" => \E r \in Requests : pc[r] = job.op

\* A page does not go beyond the listing, and the last one goes to its end.
\* LoadModel has written every file before the page and before the next object of
\* it, and in the end every file.
WrittenSoFar(m) ==
  /\ job.step = "list" /\ provider = "diskProvider" => job.next = 1
  /\ job.step = "apply" => 0 < job.next /\ job.upto <= Len(stored[m])
  /\ job.step = "apply" /\ provider # "diskProvider" /\ job.marker = "none" => job.upto = Len(stored[m])
  /\ job.op = "load" =>
       /\ job.files \subseteq Files(m)
       /\ \A i \in Files(m) : i <= job.token => i \in job.files
       /\ job.step = "apply" => /\ provider = "diskProvider" => job.upto = Len(stored[m])
                                /\ \A i \in Files(m) : i < job.next => i \in job.files
       /\ job.step = "ended" => job.files = Files(m)

JobWrites == job.op # "none" => \A r \in Requests : pc[r] = job.op => WrittenSoFar(req[r])

\* The copy of a request in Put is whole, or gone.
CopySound ==
  \A r \in Requests : pc[r] \in {"put", "putting"} => disk[req[r]] # "partial" \/ Files(req[r]) = {}

NodeInv == JobTypeOK /\ JobAwaited /\ JobWrites /\ CopySound

\* At the start no provider call is in progress.
LEMMA NodeInvInit == NodeInit => NodeInv
BY DEF NodeInit, ProviderInit, Init, NodeInv, JobTypeOK, Job, NoJob, JobAwaited, JobWrites, CopySound, Busy

\* The objects of a listing are numbered from 1.
LEMMA FilesAreNumbers ==
  ASSUME stored \in Catalogue, NEW m \in Models
  PROVE  /\ Len(stored[m]) \in Nat
         /\ Files(m) = {i \in 1..Len(stored[m]) : ~stored[m][i].folder}
<1>1. stored[m] \in Seq([size : Nat, folder : BOOLEAN])
  BY NodeAssumption DEF NodeAssumption
<1>. QED
  BY <1>1 DEF Files, FilesOf

\* An element of a sequence over S is in S.
LEMMA ElementInSeq ==
  ASSUME NEW S, NEW seq \in Seq(S), NEW i \in 1..Len(seq)
  PROVE  seq[i] \in S
OBVIOUS

\* The last object of a page is not beyond the listing.
LEMMA MinOfTwo ==
  ASSUME NEW a \in Nat, NEW b \in Nat
  PROVE  Min({a, b}) \in {a, b} /\ Min({a, b}) <= a /\ Min({a, b}) <= b
<1>1. \E x \in {a, b} : \A y \in {a, b} : x <= y
  OBVIOUS
<1>. QED
  BY <1>1 DEF Min

\* What is left of a sum is an int64.
LEMMA Int64InRange ==
  ASSUME NEW n \in Int
  PROVE  Int64(n) \in -IntLimit..IntLimit - 1
<1>1. IntLimit \in Nat \ {0}
  BY ProvidersAssumption DEF ProvidersAssumption
<1>2. PICK a \in Int, w \in Nat \ {0} : a = n + IntLimit /\ w = 2 * IntLimit
  BY <1>1
<1>3. a % w \in 0..w - 1
  OBVIOUS
<1>4. Int64(n) = (a % w) - IntLimit
  BY <1>2 DEF Int64
<1>5. PICK x \in 0..w - 1 : x = a % w
  BY <1>3
<1>. QED
  BY <1>1, <1>2, <1>4, <1>5

\* To wrap around before an addition makes no difference after it.
LEMMA Int64OfSum ==
  ASSUME NEW n \in Nat, NEW k \in Nat
  PROVE  Int64(Int64(n) + k) = Int64(n + k)
<1>1. IntLimit \in Nat \ {0}
  BY ProvidersAssumption DEF ProvidersAssumption
<1>2. PICK a \in Nat, w \in Nat \ {0} : a = n + IntLimit /\ w = 2 * IntLimit
  BY <1>1
<1>3. PICK x \in Int : x = a % w
  OBVIOUS
<1>4. Int64(n) = x - IntLimit
  BY <1>2, <1>3 DEF Int64
<1>5. Int64(Int64(n) + k) = ((x + k) % w) - IntLimit
  <2>1. (Int64(n) + k) + IntLimit = x + k
    BY <1>1, <1>4
  <2>. QED
    BY <1>2, <2>1 DEF Int64
<1>6. Int64(n + k) = ((a + k) % w) - IntLimit
  <2>1. (n + k) + IntLimit = a + k
    BY <1>1, <1>2
  <2>. QED
    BY <1>2, <2>1 DEF Int64
<1>7. (x + k) % w = (a + k) % w
  BY <1>3, WrapBeforeAdding
<1>. QED
  BY <1>5, <1>6, <1>7

\* A number below the limit is left whole.
LEMMA Int64IsExact ==
  ASSUME NEW n \in Nat, n < IntLimit
  PROVE  Int64(n) = n
<1>1. IntLimit \in Nat \ {0}
  BY ProvidersAssumption DEF ProvidersAssumption
<1>2. PICK a \in Nat, w \in Nat \ {0} : a = n + IntLimit /\ w = 2 * IntLimit
  BY <1>1
<1>3. PICK q \in Nat, x \in 0..(w - 1) : a = w * q + x /\ x = a % w
  BY Division
<1>4. a \in 0..(w - 1) /\ w * q + x = w * 0 + a
  BY <1>1, <1>2, <1>3
<1>5. x = a
  BY <1>3, <1>4, RemainderIsUnique, SMTT(40)
<1>6. Int64(n) = x - IntLimit
  BY <1>2, <1>3 DEF Int64
<1>. QED
  BY <1>1, <1>2, <1>5, <1>6

\* A page does not go beyond the listing, nor hold more than PageSize objects, and
\* only the last goes to the end of the listing or has no marker.
LEMMA PageBounds ==
  ASSUME NEW m, Len(stored[m]) \in Nat, job \in Job, NEW marker \in {"none", "set"},
         NEW n \in job.token..Min({job.token + PageSize, Len(stored[m])}), IsPage(m, n, marker)
  PROVE  /\ n \in Nat /\ job.token <= n /\ n <= job.token + PageSize /\ n <= Len(stored[m])
         /\ marker = "none" => n = Len(stored[m])
         /\ provider = "s3Provider" => /\ n \in {job.token + PageSize, Len(stored[m])}
                                       /\ marker = "set" => n < Len(stored[m])
<1>1. job.token \in Nat /\ job.token + PageSize \in Nat
  BY ProvidersAssumption DEF ProvidersAssumption, Job
<1>2. PICK u : u = Min({job.token + PageSize, Len(stored[m])})
  OBVIOUS
<1>3. u \in {job.token + PageSize, Len(stored[m])} /\ u <= job.token + PageSize /\ u <= Len(stored[m])
  BY <1>1, <1>2, MinOfTwo
<1>4. n \in job.token..u
  BY <1>2
<1>5. CASE provider = "s3Provider"
  <2>1. n = u /\ (marker = "set" <=> n < Len(stored[m]))
    BY <1>2, <1>5 DEF IsPage
  <2>. QED
    BY <1>1, <1>3, <1>4, <1>5, <2>1
<1>6. CASE provider # "s3Provider"
  <2>1. marker = "none" => n = Len(stored[m])
    BY <1>6 DEF IsPage
  <2>. QED
    BY <1>1, <1>3, <1>4, <1>6, <2>1
<1>. QED
  BY <1>5, <1>6

\* What listing a page does to the job.
LEMMA PageIsListed ==
  ASSUME NEW m, Len(stored[m]) \in Nat, job \in Job, ListPage(m)
  PROVE  /\ job' \in Job /\ job.step = "list" /\ job'.step = "apply" /\ provider # "diskProvider"
         /\ job'.op = job.op /\ job'.token = job.token /\ job'.next = job.token + 1
         /\ job'.total = job.total /\ job'.files = job.files
         /\ job'.empty = IF job'.upto = job.token /\ job'.marker = "set" THEN job.empty + 1 ELSE job.empty
         /\ job'.upto \in job.token..Min({job.token + PageSize, Len(stored[m])})
         /\ IsPage(m, job'.upto, job'.marker)
<1>1. PICK n \in job.token..Min({job.token + PageSize, Len(stored[m])}), marker \in {"none", "set"} :
        /\ IsPage(m, n, marker)
        /\ job' = [job EXCEPT !.step = "apply", !.next = job.token + 1, !.upto = n, !.marker = marker,
                              !.empty = IF n = job.token /\ marker = "set" THEN @ + 1 ELSE @]
  BY Zenon DEF ListPage
<1>2. PICK empty : empty = IF n = job.token /\ marker = "set" THEN job.empty + 1 ELSE job.empty
  OBVIOUS
<1>3. job' = [job EXCEPT !.step = "apply", !.next = job.token + 1, !.upto = n, !.marker = marker,
                         !.empty = empty]
  BY <1>1, <1>2, Zenon
<1>4. n \in Nat
  BY <1>1, PageBounds
<1>5. job.token + 1 \in Nat /\ empty \in Nat
  BY <1>2 DEF Job
<1>6. job' \in Job
  BY <1>3, <1>4, <1>5 DEF Job
<1>7. /\ job'.op = job.op /\ job'.step = "apply" /\ job'.next = job.token + 1 /\ job'.upto = n
      /\ job'.token = job.token /\ job'.files = job.files /\ job'.marker = marker
      /\ job'.empty = empty /\ job'.total = job.total
  BY <1>3 DEF Job
<1>8. job.step = "list" /\ provider # "diskProvider"
  BY DEF ListPage
<1>. QED
  BY <1>1, <1>2, <1>6, <1>7, <1>8

\* A step of the cache manager beside the provider, other than the end of the
\* process: it does not touch a request that waits for the provider, moves none
\* to Put, and makes no copy partial.
Beside ==
  /\ \A s \in Requests : pc[s] \in Busy => pc'[s] = pc[s] /\ req'[s] = req[s]
  /\ \A s \in Requests : pc'[s] \in Busy => pc[s] \in {pc'[s], "free"} \/ rwMux = NoOne
  /\ \A s \in Requests : pc'[s] \in {"put", "putting"} => pc[s] \in {"put", "putting"} /\ req'[s] = req[s]
  /\ \A m \in Models : disk'[m] = disk[m] \/ disk'[m] = "absent"

\* A request that waits for the provider after such a step waited before, for the
\* same model.
LEMMA AwaitedUnmoved ==
  ASSUME ManagerInv, NodeInv, Beside, NEW r \in Requests, job.op # "none", pc'[r] = job.op
  PROVE  pc[r] = job.op /\ req'[r] = req[r]
<1>1. job.op \in Busy
  BY DEF NodeInv, JobTypeOK, Job
<1>2. PICK s \in Requests : pc[s] = job.op
  BY DEF NodeInv, JobAwaited
<1>3. pc[r] = job.op
  BY <1>1, <1>2, ManagerAssumption
  DEF Beside, Busy, ManagerInv, LockDiscipline, Critical, ManagerAssumption
<1>. QED
  BY <1>1, <1>3 DEF Beside

\* Such a step keeps the invariant.
LEMMA BesideKeeps ==
  ASSUME ManagerInv, NodeInv, Beside, UNCHANGED providerVars
  PROVE  NodeInv'
<1>1. UNCHANGED <<provider, stored, job>>
  BY DEF providerVars
<1>2. \A m : Files(m)' = Files(m)
  BY <1>1 DEF Files, FilesOf
<1>3. JobTypeOK'
  BY <1>1 DEF NodeInv, JobTypeOK
<1>4. JobAwaited'
  BY <1>1 DEF NodeInv, JobTypeOK, Job, JobAwaited, Beside
<1>5. JobWrites'
  <2>1. SUFFICES ASSUME job.op # "none", NEW r \in Requests, pc'[r] = job.op
                 PROVE  WrittenSoFar(req[r])'
    BY <1>1 DEF JobWrites
  <2>2. pc[r] = job.op /\ req'[r] = req[r]
    BY <2>1, AwaitedUnmoved
  <2>3. WrittenSoFar(req[r])
    BY <2>1, <2>2 DEF NodeInv, JobWrites
  <2>. QED
    BY <1>1, <1>2, <2>2, <2>3 DEF WrittenSoFar
<1>6. CopySound'
  BY <1>2 DEF NodeInv, CopySound, Beside, ManagerInv, RequestTypeOK
<1>. QED
  BY <1>3, <1>4, <1>5, <1>6 DEF NodeInv

\* The steps of a request outside the provider are of this kind.
LEMMA OwnIsBeside ==
  ASSUME ManagerInv, NEW r \in Requests,
         \/ \E m \in Models : Start(r, m)
         \/ RLockForGet(r) \/ LockForMiss(r) \/ LockForReload(r)
         \/ OwnStep(r) /\ ~EvictFails(r)
  PROVE  Beside
<1>. USE DEF Beside, Busy, ManagerInv, RequestTypeOK
<1>1. ASSUME NEW m \in Models, Start(r, m)
      PROVE  Beside
  BY <1>1 DEF Start, lruVars
<1>2. CASE RLockForGet(r) \/ TryGet(r) \/ Race(r)
  BY <1>2 DEF RLockForGet, TryGet, Get, Race, Goto, lruVars
<1>3. CASE LockForMiss(r) \/ LockForReload(r)
  BY <1>3 DEF LockForMiss, LockForReload, Lock, Goto, lruVars
<1>4. CASE StatusHit(r) \/ StatusNotServed(r) \/ Forward(r)
  BY <1>4 DEF StatusHit, StatusNotServed, Forward, Goto, End, lruVars
<1>5. CASE Evict(r)
  <2>1. \A m \in Models : disk'[m] = disk[m] \/ disk'[m] = "absent"
    BY <1>5 DEF Evict, EvictLRU, LRUTypeOK
  <2>. QED
    BY <1>5, <2>1 DEF Evict, reqVars
<1>6. CASE FreeDone(r)
  BY <1>6 DEF FreeDone, Freed, Goto
<1>7. CASE PutModel(r)
  BY <1>7 DEF PutModel, PutExisting, PutNew, Goto
<1>8. CASE PutDone(r)
  BY <1>8 DEF PutDone, Pushed, Goto
<1>9. CASE ReloadConfig(r) \/ ReloadConfigFails(r)
  BY <1>9 DEF ReloadConfig, ReloadConfigFails, Goto, Fail, End, lruVars
<1>10. CASE PollAvailable(r) \/ PollAgain(r)
  BY <1>10 DEF PollAvailable, PollAgain, Fail, End, lruVars
<1>11. CASE AfterRace(r)
  <2>1. UNCHANGED disk
    BY <1>11 DEF AfterRace, lruVars
  <2>2. CASE Fail(r) /\ pc[r] \notin Busy
    BY <2>1, <2>2 DEF Fail, End
  <2>3. ASSUME NEW move \in RacedMoves, pc[r] = move[1], Goto(r, move[2])
        PROVE  Beside
    <3>1. pc[r] \notin Busy /\ move[2] \notin {"size"} /\ (move[2] = "load" => pc[r] = "free")
          /\ (move[2] \in {"put", "putting"} => pc[r] = "put")
      BY <2>3 DEF RacedMoves
    <3>. QED
      BY <2>1, <2>3, <3>1 DEF Goto
  <2>. QED
    BY <1>11, <2>2, <2>3 DEF AfterRace
<1>. QED
  BY <1>1, <1>2, <1>3, <1>4, <1>5, <1>6, <1>7, <1>8, <1>9, <1>10, <1>11 DEF OwnStep

\* TF Serving, and whoever cleans the directory, only make such steps.
LEMMA OthersAreBeside ==
  ASSUME ManagerInv, ServingStep \/ ServingRestart \/ \E m \in Models : LoseFiles(m)
  PROVE  Beside
BY DEF ServingStep, ServingRestart, LoseFiles, Beside, Busy, lruVars, reqVars, ManagerInv, LRUTypeOK

\* The process ends.  With log.Fatalf in EnsureFreeBytes no provider call is in
\* progress, since the request that made it would hold the lock too.
LEMMA CrashKeeps ==
  ASSUME ManagerInv, NodeInv, Crash, Keep,
         job' = NoJob \/ (UNCHANGED job /\ \E r \in Requests : EvictFails(r))
  PROVE  NodeInv'
<1>1. job'.op = "none"
  <2>1. CASE job' = NoJob
    BY <2>1 DEF NoJob
  <2>2. ASSUME NEW r \in Requests, EvictFails(r), UNCHANGED job
        PROVE  job'.op = "none"
    BY <2>2 DEF EvictFails, NodeInv, JobTypeOK, Job, JobAwaited, Busy, ManagerInv, LockDiscipline, Critical
  <2>. QED
    BY <2>1, <2>2
<1>2. JobTypeOK'
  BY DEF NodeInv, JobTypeOK, Job, NoJob, Keep, Busy
<1>. QED
  BY <1>1, <1>2 DEF NodeInv, JobAwaited, JobWrites, CopySound, Crash

-----------------------------------------------------------------------------
(* Steps of the provider.                                                  *)

\* The request that calls the provider, or waits for it, is the only one in the
\* critical section.
LEMMA CallerIsAlone ==
  ASSUME ManagerInv, NEW r \in Requests, pc[r] \in Busy
  PROVE  /\ req[r] \in Models
         /\ \A s \in Requests : s # r => pc[s] \notin Critical
BY DEF ManagerInv, RequestTypeOK, LockDiscipline, Critical, Busy

\* While a call is in progress no request is in Put: what is left to show is
\* about the job.
LEMMA JobKeeps ==
  ASSUME ManagerInv, NodeInv, NEW r \in Requests, pc[r] \in Busy,
         UNCHANGED <<pc, req, provider, stored>>,
         JobTypeOK', job'.op = pc[r],
         WrittenSoFar(req[r])'
  PROVE  NodeInv'
<1>1. \A s \in Requests : s # r => pc[s] \notin Critical
  BY CallerIsAlone
<1>2. JobAwaited' /\ JobWrites'
  BY <1>1 DEF JobAwaited, JobWrites, Critical, Busy
<1>3. CopySound'
  BY <1>1 DEF CopySound, Critical, Busy
<1>. QED
  BY <1>2, <1>3 DEF NodeInv

\* ModelSize or LoadModel is called: nothing is listed or written yet.
LEMMA CallKeeps ==
  ASSUME ManagerInv, NodeInv, NEW r \in Requests, CallProvider(r)
  PROVE  NodeInv'
<1>1. pc[r] \in Busy /\ UNCHANGED <<pc, req, provider, stored>>
  BY DEF CallProvider, Begin, Keep, OnlyDisk, reqVars, Busy
<1>2. job' = [NoJob EXCEPT !.op = pc[r], !.step = "list"]
  BY DEF CallProvider, Begin
<1>3. JobTypeOK' /\ job'.op = pc[r]
  <2>1. job' = [op |-> pc[r], step |-> "list", token |-> 0, next |-> 1, upto |-> 0, marker |-> "none",
                empty |-> 0, total |-> 0, files |-> {}]
    BY <1>2 DEF NoJob
  <2>2. job' \in Job
    BY <1>1, <2>1 DEF Job, Busy
  <2>. QED
    BY <1>1, <2>1, <2>2 DEF NodeInv, JobTypeOK, Busy
<1>4. WrittenSoFar(req[r])'
  <2>1. \A i \in Files(req[r]) : i \in Nat /\ i > 0
    BY <1>1, CallerIsAlone, FilesAreNumbers DEF NodeInv, JobTypeOK
  <2>2. Files(req[r])' = Files(req[r])
    BY <1>1 DEF Files, FilesOf
  <2>. QED
    BY <1>2, <2>1, <2>2 DEF WrittenSoFar, NoJob
<1>. QED
  BY <1>1, <1>3, <1>4, JobKeeps

\* A page is listed, an object applied, a page done.
LEMMA JobProgress ==
  ASSUME ManagerInv, NodeInv, NEW r \in Requests, pc[r] \in Busy, job.op = pc[r],
         UNCHANGED <<pc, req>>,
         \/ ListPage(req[r]) \/ FindSrcPath(req[r]) \/ ApplyObject(req[r])
         \/ PageDone(req[r]) \/ StatSrcPath \/ Fails
  PROVE  NodeInv'
<1>. DEFINE m == req[r]
<1>1. /\ m \in Models
      /\ UNCHANGED <<provider, stored>>
      /\ stored \in Catalogue
      /\ job \in Job
  BY CallerIsAlone
  DEF ListPage, FindSrcPath, ApplyObject, PageDone, StatSrcPath, Fails, Keep, NodeInv, JobTypeOK
<1>2. /\ Len(stored[m]) \in Nat
      /\ Files(m) = {i \in 1..Len(stored[m]) : ~stored[m][i].folder}
      /\ stored[m] \in Seq([size : Nat, folder : BOOLEAN])
  BY <1>1, FilesAreNumbers, NodeAssumption DEF NodeAssumption
<1>3. Files(m)' = Files(m) /\ Len(stored[m])' = Len(stored[m])
  BY <1>1 DEF Files, FilesOf
<1>4. WrittenSoFar(m)
  BY DEF NodeInv, JobWrites, Busy
<1>5. job' \in Job /\ job'.op = job.op /\ WrittenSoFar(m)'
  <2>. HIDE DEF m
  <2>1. CASE ListPage(m)
    <3>1. /\ job' \in Job /\ job'.step = "apply" /\ provider # "diskProvider"
          /\ job'.op = job.op /\ job'.token = job.token /\ job'.next = job.token + 1
          /\ job'.files = job.files
          /\ job'.upto \in job.token..Min({job.token + PageSize, Len(stored[m])})
          /\ IsPage(m, job'.upto, job'.marker)
      BY <1>1, <1>2, <2>1, PageIsListed
    <3>2. job'.marker \in {"none", "set"}
      BY <3>1 DEF Job
    <3>3. job'.upto <= Len(stored[m]) /\ (job'.marker = "none" => job'.upto = Len(stored[m]))
      BY <1>1, <1>2, <3>1, <3>2, PageBounds
    <3>4. job.token \in Nat /\ 0 < job.token + 1
      BY <1>1 DEF Job
    <3>5. \A i \in Files(m) : i < job'.next => i <= job.token
      BY <1>2, <3>1, <3>4
    <3>6. job.op = "load" =>
            /\ job.files \subseteq Files(m)
            /\ \A i \in Files(m) : i <= job.token => i \in job.files
      BY <1>4 DEF WrittenSoFar
    <3>. QED
      BY <1>1, <1>3, <3>1, <3>3, <3>4, <3>5, <3>6 DEF WrittenSoFar
  <2>2. CASE FindSrcPath(m)
    <3>1. CASE stored[m] = <<>>
      BY <1>1, <1>3, <1>4, <2>2, <3>1 DEF FindSrcPath, WrittenSoFar, Job
    <3>2. CASE stored[m] # <<>>
      <4>1. PICK n : /\ n = IF job.op = "load" THEN Len(stored[m]) ELSE 0
                     /\ job' = [job EXCEPT !.step = "apply", !.upto = n]
        BY <2>2, <3>2 DEF FindSrcPath
      <4>2. n \in Nat /\ n <= Len(stored[m]) /\ (job.op = "load" => n = Len(stored[m]))
        BY <1>2, <4>1
      <4>3. job' \in Job
        BY <1>1, <4>1, <4>2 DEF Job
      <4>4. job'.op = job.op /\ job'.step = "apply" /\ job'.upto = n
            /\ job'.next = job.next /\ job'.token = job.token /\ job'.files = job.files
        BY <1>1, <4>1 DEF Job
      <4>5. job.next = 1
        BY <1>4, <2>2 DEF WrittenSoFar, FindSrcPath
      <4>6. \A i \in Files(m) : ~(i < 1)
        BY <1>2
      <4>7. provider = "diskProvider"
        BY <2>2 DEF FindSrcPath
      <4>. QED
        BY <1>1, <1>3, <1>4, <4>2, <4>3, <4>4, <4>5, <4>6, <4>7 DEF WrittenSoFar
    <3>. QED
      BY <3>1, <3>2
  <2>3. CASE ApplyObject(m)
    <3>1. PICK total, files :
            /\ job' = [job EXCEPT !.next = @ + 1, !.total = total, !.files = files]
            /\ total = IF stored[m][job.next].folder THEN job.total
                       ELSE Int64(job.total + stored[m][job.next].size)
            /\ files = IF stored[m][job.next].folder \/ job.op = "size" THEN job.files
                       ELSE job.files \cup {job.next}
      BY <1>1, <2>3 DEF ApplyObject, Job
    <3>2. job.step = "apply" /\ job.next \in 1..Len(stored[m])
      BY <1>1, <1>2, <1>4, <2>3, SMTT(40) DEF ApplyObject, WrittenSoFar, Job
    <3>3. stored[m][job.next].size \in Nat /\ stored[m][job.next].folder \in BOOLEAN
      <4>1. stored[m][job.next] \in [size : Nat, folder : BOOLEAN]
        BY <1>2, <3>2, ElementInSeq
      <4>. QED
        BY <4>1
    <3>4. total \in Int /\ files \in SUBSET Nat /\ job.next + 1 \in Nat
      <4>1. job.total \in Int /\ job.total + stored[m][job.next].size \in Int
        BY <1>1, <3>3 DEF Job
      <4>2. Int64(job.total + stored[m][job.next].size) \in Int
        BY <4>1, Int64InRange, SMTT(40)
      <4>. QED
        BY <1>1, <3>1, <4>1, <4>2 DEF Job
    <3>5. job' \in Job
      BY <1>1, <3>1, <3>4 DEF Job
    <3>6. job'.op = job.op /\ job'.step = "apply" /\ job'.next = job.next + 1
          /\ job'.upto = job.upto /\ job'.token = job.token /\ job'.files = files
          /\ job'.marker = job.marker
      BY <1>1, <3>1, <3>2 DEF Job
    <3>7. job.op = "load" => /\ files \subseteq Files(m)
                             /\ job.files \subseteq files
                             /\ job.next \in Files(m) => job.next \in files
      BY <1>2, <1>4, <3>1, <3>2 DEF WrittenSoFar
    <3>8. \A i \in Files(m) : i < job.next + 1 => i < job.next \/ i = job.next
      BY <1>1, <1>2 DEF Job
    <3>9. 0 < job.next + 1
      BY <3>2
    <3>. QED
      BY <1>1, <1>3, <1>4, <3>2, <3>5, <3>6, <3>7, <3>8, <3>9, SMTT(40) DEF WrittenSoFar
  <2>4. CASE PageDone(m)
    <3>1. /\ job.step = "apply" /\ job.next > job.upto /\ provider # "diskProvider"
          /\ job.upto <= Len(stored[m])
      BY <1>4, <2>4 DEF PageDone, WrittenSoFar
    <3>2. job.op = "load" => \A i \in Files(m) : i <= job.upto => i \in job.files
      BY <1>1, <1>2, <1>4, <3>1 DEF WrittenSoFar, Job
    <3>3. CASE job.marker = "set"
      <4>1. job' = [job EXCEPT !.step = "list", !.token = NextToken] /\ NextToken \in {job.token, job.upto}
        BY <2>4, <3>3 DEF PageDone, NextToken
      <4>2. job' \in Job
        BY <1>1, <4>1 DEF Job
      <4>3. /\ job'.op = job.op /\ job'.step = "list" /\ job'.files = job.files
            /\ job'.token \in {job.token, job.upto}
        BY <1>1, <4>1 DEF Job
      <4>. QED
        BY <1>1, <1>3, <1>4, <3>1, <3>2, <4>2, <4>3 DEF WrittenSoFar
    <3>4. CASE job.marker = "none"
      <4>1. \E step \in {"failed", "ended"} : job' = [job EXCEPT !.step = step]
        BY <2>4, <3>4 DEF PageDone
      <4>2. job' \in Job
        BY <1>1, <4>1 DEF Job
      <4>3. /\ job'.op = job.op /\ job'.step \in {"failed", "ended"}
            /\ job'.token = job.token /\ job'.files = job.files
        BY <1>1, <4>1 DEF Job
      <4>4. \A i \in Files(m) : i <= job.upto
        BY <1>1, <1>2, <1>4, <3>1, <3>4 DEF Job, WrittenSoFar
      <4>5. job.op = "load" => job.files = Files(m)
        BY <1>4, <3>2, <4>4 DEF WrittenSoFar
      <4>. QED
        BY <1>1, <1>3, <1>4, <4>2, <4>3, <4>5 DEF WrittenSoFar
    <3>. QED
      BY <1>1, <3>3, <3>4 DEF Job
  <2>5. CASE StatSrcPath
    <3>1. /\ job' = [job EXCEPT !.step = "ended", !.total = DirSize]
          /\ job.step = "apply" /\ job.next > job.upto /\ provider = "diskProvider"
          /\ DirSize \in Nat
      BY <2>5, ProvidersAssumption DEF StatSrcPath, ProvidersAssumption
    <3>2. job' \in Job
      <4>1. PICK d \in Int : d = DirSize
        BY <3>1
      <4>. QED
        BY <1>1, <3>1, <4>1 DEF Job
    <3>3. job'.op = job.op /\ job'.step = "ended" /\ job'.token = job.token /\ job'.files = job.files
      BY <1>1, <3>1 DEF Job
    <3>4. \A i \in Files(m) : job.upto = Len(stored[m]) => i < job.next
      BY <1>1, <1>2, <3>1 DEF Job
    <3>5. job.op = "load" => job.files = Files(m)
      BY <1>4, <3>1, <3>4 DEF WrittenSoFar
    <3>. QED
      BY <1>1, <1>3, <1>4, <3>2, <3>3, <3>5 DEF WrittenSoFar
  <2>6. CASE Fails
    <3>1. job' = [job EXCEPT !.step = "failed"]
      BY <2>6 DEF Fails
    <3>2. job' \in Job
      BY <1>1, <3>1 DEF Job
    <3>3. job'.op = job.op /\ job'.step = "failed" /\ job'.token = job.token /\ job'.files = job.files
      BY <1>1, <3>1 DEF Job
    <3>. QED
      BY <1>1, <1>3, <1>4, <3>2, <3>3 DEF WrittenSoFar
  <2>. QED
    BY <2>1, <2>2, <2>3, <2>4, <2>5, <2>6 DEF m
<1>6. JobTypeOK'
  BY <1>1, <1>5 DEF JobTypeOK, Busy
<1>. QED
  BY <1>1, <1>5, <1>6, JobKeeps

\* ModelSize or LoadModel returns to the cache manager.
LEMMA ReturnKeeps ==
  ASSUME ManagerInv, NodeInv, NEW r \in Requests, job.op \in {"none", pc[r]},
         SizeReturns(r) \/ LoadReturns(r) \/ ProviderFails(r)
  PROVE  NodeInv'
<1>1. pc[r] \in Busy /\ job' = NoJob /\ UNCHANGED <<provider, stored>> /\ job.op = pc[r]
  BY DEF SizeReturns, LoadReturns, ProviderFails, Return, Keep, SizeIs, Loaded, Busy
<1>2. req[r] \in Models /\ \A s \in Requests : s # r => pc[s] \notin Critical
  BY <1>1, CallerIsAlone
<1>3. JobTypeOK' /\ JobAwaited' /\ JobWrites'
  BY <1>1 DEF NodeInv, JobTypeOK, Job, NoJob, JobAwaited, JobWrites
<1>4. CopySound'
  <2>1. SUFFICES ASSUME NEW s \in Requests, pc'[s] \in {"put", "putting"}
                 PROVE  disk'[req'[s]] # "partial" \/ Files(req'[s]) = {}
    BY <1>1 DEF CopySound, Files, FilesOf
  <2>2. s = r /\ LoadReturns(r)
    BY <1>1, <1>2, <2>1
    DEF SizeReturns, ProviderFails, SizeIs, LoadReturns, Loaded,
        Goto, Fail, End, ManagerInv, RequestTypeOK, Critical, Busy
  <2>3. pc[r] = "load" /\ job.step = "ended" /\ req' = req
    BY <2>2 DEF LoadReturns, Loaded
  <2>4. job.files = Files(req[r])
    BY <1>1, <2>3 DEF NodeInv, JobWrites, WrittenSoFar
  <2>5. \/ Files(req[r]) = {}
        \/ disk' = [disk EXCEPT ![req[r]] = "whole"]
    BY <2>2, <2>4 DEF LoadReturns, Loaded
  <2>. QED
    BY <1>2, <2>2, <2>3, <2>5 DEF ManagerInv, LRUTypeOK
<1>. QED
  BY <1>3, <1>4 DEF NodeInv

\* Every step of a fetch keeps the invariant.
LEMMA FetchKeeps ==
  ASSUME ManagerInv, NodeInv, NEW r \in Requests, FetchStep(r)
  PROVE  NodeInv'
<1>1. CASE CallProvider(r)
  BY <1>1, CallKeeps
<1>2. pc[r] \in Busy
  BY DEF FetchStep, CallProvider, Waits, Apply, SizeReturns, LoadReturns, ProviderFails, SizeIs, Loaded, Busy
<1>3. job.op \in {"none", pc[r]}
  BY <1>2, CallerIsAlone DEF NodeInv, JobTypeOK, Job, JobAwaited, Busy, Critical
<1>4. CASE SizeReturns(r) \/ LoadReturns(r) \/ ProviderFails(r)
  BY <1>3, <1>4, ReturnKeeps
<1>5. CASE \/ Waits(r, ListPage(req[r])) \/ Waits(r, FindSrcPath(req[r])) \/ Apply(r)
           \/ Waits(r, PageDone(req[r])) \/ Waits(r, StatSrcPath) \/ Waits(r, Fails)
  <2>1. /\ \/ ListPage(req[r]) \/ FindSrcPath(req[r]) \/ ApplyObject(req[r])
           \/ PageDone(req[r]) \/ StatSrcPath \/ Fails
        /\ UNCHANGED <<pc, req>>
    BY <1>5 DEF Waits, Apply, OnlyDisk, vars, reqVars
  <2>2. job.step \in {"list", "apply"}
    BY <2>1 DEF ListPage, FindSrcPath, ApplyObject, PageDone, StatSrcPath, Fails
  <2>3. job.op = pc[r]
    BY <1>3, <2>2 DEF NodeInv, JobTypeOK
  <2>. QED
    BY <1>2, <2>1, <2>3, JobProgress
<1>. QED
  BY <1>1, <1>4, <1>5 DEF FetchStep

-----------------------------------------------------------------------------
\* Every step of the node keeps the invariant.
LEMMA NodeInvNext ==
  ASSUME ManagerInv, NodeInv, [NodeNext]_nodeVars
  PROVE  NodeInv'
<1>1. CASE UNCHANGED nodeVars
  <2>1. Beside /\ UNCHANGED providerVars
    BY <1>1 DEF Beside, nodeVars, vars, lruVars, reqVars
  <2>. QED
    BY <2>1, BesideKeeps
<1>2. ASSUME NEW r \in Requests,
             \/ \E m \in Models : Alone(Start(r, m))
             \/ Alone(RLockForGet(r)) \/ Alone(LockForMiss(r)) \/ Alone(LockForReload(r))
             \/ Alone(OwnStep(r)) /\ ~EvictFails(r)
      PROVE  NodeInv'
  BY <1>2, OwnIsBeside, BesideKeeps DEF Alone
<1>3. ASSUME NEW r \in Requests, Alone(OwnStep(r)), EvictFails(r)
      PROVE  NodeInv'
  BY <1>3, CrashKeeps DEF EvictFails, Alone, providerVars, Keep
<1>4. ASSUME NEW r \in Requests, FetchStep(r)
      PROVE  NodeInv'
  BY <1>4, FetchKeeps
<1>5. CASE Alone(ServingStep) \/ Alone(ServingRestart) \/ \E m \in Models : Alone(LoseFiles(m))
  BY <1>5, OthersAreBeside, BesideKeeps DEF Alone
<1>6. CASE Crash /\ job' = NoJob /\ Keep
  BY <1>6, CrashKeeps
<1>. QED
  BY <1>1, <1>2, <1>3, <1>4, <1>5, <1>6 DEF NodeNext, NodeStep, Alone

-----------------------------------------------------------------------------
(* What SizeOfFiles is: the sum of the sizes of the files of a listing,    *)
(* object by object.  MapThenSumSet adds them in an order of its own.      *)

\* f[i] is the size of the files among the first i objects.
IsSizes(f, listing) ==
  /\ f \in [0..Len(listing) -> Nat]
  /\ f[0] = 0
  /\ \A i \in 1..Len(listing) :
       f[i] = IF listing[i].folder THEN f[i - 1] ELSE f[i - 1] + listing[i].size

\* The recursive function that MapThenSumSet is defined by, for the files of m.
IsSumOfFiles(f, m) ==
  f = [s \in SUBSET Files(m) |->
         IF s = {} THEN 0
         ELSE stored[m][CHOOSE x \in s : TRUE].size + f[s \ {CHOOSE x \in s : TRUE}]]

\* That function is the sum, whatever the order.
LEMMA SumOfFilesIsSum ==
  ASSUME NEW m, NEW n \in Nat, Files(m) \subseteq 1..n, NEW weight \in [Nat -> Nat],
         \A i \in Files(m) : weight[i] = stored[m][i].size,
         NEW g, IsSum(g, weight, 1..n)
  PROVE  SizeOfFiles(stored[m]) = g[Files(m)]
<1>. DEFINE S == Files(m)
            iter == CHOOSE f : IsSumOfFiles(f, m)
            h == [s \in SUBSET S |-> g[s]]
<1>1. SizeOfFiles(stored[m]) = iter[S]
  BY DEF SizeOfFiles, MapThenSumSet, MapThenFoldSet, IsSumOfFiles, Files
<1>2. ASSUME NEW s \in SUBSET S, NEW x \in s
      PROVE  /\ s \ {x} \in SUBSET S
             /\ g[s] = stored[m][x].size + g[s \ {x}]
  <2>1. s \in SUBSET (1..n) /\ s \ {x} \in SUBSET (1..n) /\ x \in S /\ s \ {x} \in SUBSET S
    OBVIOUS
  <2>2. g[s] = g[s \ {x}] + weight[x] /\ g[s \ {x}] \in Nat
    BY <2>1 DEF IsSum
  <2>3. weight[x] = stored[m][x].size /\ weight[x] \in Nat
    BY <2>1, SMTT(40)
  <2>4. \A a, b \in Nat : a + b = b + a
    OBVIOUS
  <2>5. g[s \ {x}] + weight[x] = weight[x] + g[s \ {x}]
    BY <2>2, <2>3, <2>4, Zenon
  <2>. QED
    BY <2>1, <2>2, <2>3, <2>5
<1>3. g[{}] = 0
  BY DEF IsSum
<1>. HIDE DEF S
<1>4. IsSumOfFiles(h, m)
  <2>1. ASSUME NEW s \in SUBSET S
        PROVE  h[s] = IF s = {} THEN 0
                      ELSE stored[m][CHOOSE x \in s : TRUE].size + h[s \ {CHOOSE x \in s : TRUE}]
    <3>1. CASE s = {}
      BY <1>3, <3>1
    <3>2. CASE s # {}
      <4>1. PICK x \in s : x = CHOOSE y \in s : TRUE
        BY <3>2
      <4>2. h[s] = stored[m][x].size + h[s \ {x}]
        BY <1>2
      <4>. QED
        BY <3>2, <4>1, <4>2
    <3>. QED
      BY <3>1, <3>2
  <2>. QED
    BY <2>1, Zenon DEF IsSumOfFiles, S
<1>5. IsSumOfFiles(iter, m)
  BY <1>4
<1>. HIDE DEF iter, h
<1>. DEFINE B == {s \in SUBSET S : iter[s] # g[s]}
<1>6. B = {}
  <2>. SUFFICES ASSUME B # {}
                PROVE  FALSE
    OBVIOUS
  <2>1. IsFiniteSet(S)
    <3>1. IsFiniteSet(1..n)
      BY FS_Interval
    <3>. QED
      BY <3>1, FS_Subset DEF S
  <2>2. ASSUME NEW s \in SUBSET S
        PROVE  IsFiniteSet(s) /\ Cardinality(s) \in Nat
    BY <2>1, FS_Subset, FS_CardinalityType
  <2>. DEFINE C == {Cardinality(s) : s \in B}
  <2>3. C \subseteq Nat /\ C # {}
    BY <2>2
  <2>4. PICK c \in C : \A y \in C : c <= y
    BY <2>3, LeastElement
  <2>5. PICK s \in B : Cardinality(s) = c
    OBVIOUS
  <2>6. s # {}
    <3>1. {} \in SUBSET S /\ iter[{}] = 0
      BY <1>5 DEF IsSumOfFiles, S
    <3>. QED
      BY <1>3, <3>1
  <2>7. PICK x \in s : x = CHOOSE y \in s : TRUE
    BY <2>6
  <2>8. iter[s] = stored[m][x].size + iter[s \ {x}]
    BY <1>5, <2>6, <2>7 DEF IsSumOfFiles, S
  <2>9. s \ {x} \in B
    <3>1. s \in SUBSET S /\ iter[s] # g[s]
      OBVIOUS
    <3>2. s \ {x} \in SUBSET S /\ g[s] = stored[m][x].size + g[s \ {x}]
      BY <1>2, <3>1
    <3>3. iter[s \ {x}] # g[s \ {x}]
      BY <2>8, <3>1, <3>2
    <3>. QED
      BY <3>2, <3>3
  <2>10. Cardinality(s \ {x}) = Cardinality(s) - 1 /\ Cardinality(s) \in Nat
    <3>1. IsFiniteSet(s) /\ Cardinality(s) \in Nat
      BY <2>2
    <3>. QED
      BY <3>1, FS_RemoveElement
  <2>11. c <= Cardinality(s \ {x})
    BY <2>4, <2>9
  <2>. QED
    BY <2>5, <2>10, <2>11
<1>. QED
  BY <1>1, <1>6 DEF S

\* The sum of the sizes of all files is reached object by object.
LEMMA SizesExist ==
  ASSUME stored \in Catalogue, NEW m \in Models
  PROVE  \E f : IsSizes(f, stored[m]) /\ SizeOfFiles(stored[m]) = f[Len(stored[m])]
<1>. DEFINE listing == stored[m]
            n == Len(listing)
            S == Files(m)
            weight == [i \in Nat |-> IF i \in 1..n THEN listing[i].size ELSE 0]
<1>1. n \in Nat /\ S = {i \in 1..n : ~listing[i].folder} /\ listing \in Seq([size : Nat, folder : BOOLEAN])
  BY FilesAreNumbers, NodeAssumption DEF NodeAssumption
<1>2. \A i \in 1..n : listing[i].size \in Nat /\ listing[i].folder \in BOOLEAN
  <2>1. \A i \in 1..n : listing[i] \in [size : Nat, folder : BOOLEAN]
    BY <1>1, ElementInSeq
  <2>. QED
    BY <2>1
<1>. HIDE DEF listing, n
<1>3. weight \in [Nat -> Nat]
  BY <1>2
<1>4. S \subseteq 1..n /\ \A i \in S : weight[i] = listing[i].size
  BY <1>1
<1>. HIDE DEF weight, S
<1>5. PICK g : IsSum(g, weight, 1..n)
  BY <1>1, <1>3, SumExists
<1>6. SizeOfFiles(listing) = g[S]
  BY <1>1, <1>3, <1>4, <1>5, SumOfFilesIsSum DEF S, listing
<1>. DEFINE f == [k \in 0..n |-> g[S \cap (1..k)]]
<1>7. \A k \in 0..n : S \cap (1..k) \in SUBSET (1..n) /\ g[S \cap (1..k)] \in Nat
  BY <1>4, <1>5 DEF IsSum
<1>8. f \in [0..n -> Nat]
  BY <1>7
<1>9. f[0] = 0 /\ f[n] = g[S]
  <2>1. S \cap (1..0) = {}
    OBVIOUS
  <2>2. S \cap (1..n) = S
    BY <1>4, Zenon
  <2>3. 0 \in 0..n /\ n \in 0..n
    BY <1>1
  <2>4. f[0] = g[S \cap (1..0)] /\ f[n] = g[S \cap (1..n)]
    BY <2>3, Zenon
  <2>5. g[{}] = 0
    BY <1>5 DEF IsSum
  <2>. HIDE DEF f
  <2>. QED
    BY <2>1, <2>2, <2>4, <2>5
<1>10. ASSUME NEW i \in 1..n
       PROVE  f[i] = IF listing[i].folder THEN f[i - 1] ELSE f[i - 1] + listing[i].size
  <2>0. i \in 0..n /\ i - 1 \in 0..n
    BY <1>1
  <2>1. CASE listing[i].folder
    <3>1. S \cap (1..i) = S \cap (1..(i - 1))
      BY <1>1, <2>1
    <3>. QED
      BY <2>0, <2>1, <3>1
  <2>2. CASE ~listing[i].folder
    <3>1. i \in S \cap (1..i) /\ (S \cap (1..i)) \ {i} = S \cap (1..(i - 1))
      BY <1>1, <2>2
    <3>2. g[S \cap (1..i)] = g[(S \cap (1..i)) \ {i}] + weight[i]
      BY <1>5, <1>7, <2>0, <3>1 DEF IsSum
    <3>. QED
      BY <1>4, <2>0, <2>2, <3>1, <3>2
  <2>. QED
    BY <2>1, <2>2
<1>. HIDE DEF f
<1>11. IsSizes(f, listing)
  BY <1>8, <1>9, <1>10 DEF IsSizes, n
<1>. QED
  BY <1>6, <1>9, <1>11 DEF listing, n

-----------------------------------------------------------------------------
(* ModelSize and LoadModel count every file once.                          *)

\* Where the call is in the listing: a page begins after token and holds at most
\* PageSize objects, S3 fills it and lists the first one again and again, and the
\* page without a marker goes to the end of the listing.
InPage(m) ==
  /\ job.token <= job.upto /\ job.upto <= Len(stored[m])
  /\ job.next \in 1..job.upto + 1
  /\ job.files \subseteq 1..job.upto
  /\ job.empty \in 0..MaxEmptyPages
  /\ provider = "diskProvider" /\ job.step = "list" => job.upto = 0
  /\ provider # "diskProvider" => job.upto <= job.token + PageSize
  /\ provider # "diskProvider" /\ job.step = "apply" /\ job.marker = "none" => job.upto = Len(stored[m])
  /\ provider = "azBlobProvider" /\ job.step = "list" => job.upto = job.token
  /\ provider = "s3Provider" => job.token = 0
  /\ provider = "s3Provider" /\ job.step = "apply" =>
       /\ job.upto \in {job.token + PageSize, Len(stored[m])}
       /\ job.marker = "set" => job.upto < Len(stored[m])

\* The files before the page and before the next object of it are counted, unless
\* S3 has counted the first page more than once; then the call never ends.
Counted(m) ==
  /\ job.total \in -IntLimit..IntLimit - 1
  /\ provider # "diskProvider" /\ (provider = "s3Provider" => Len(stored[m]) <= PageSize) =>
       \A f : IsSizes(f, stored[m]) =>
         /\ job.step = "list" => job.total = Int64(f[job.token])
         /\ job.step = "apply" => job.total = Int64(f[job.next - 1])
         /\ job.step = "ended" => job.total = Int64(f[Len(stored[m])])
  /\ provider = "s3Provider" /\ job.step = "ended" => Len(stored[m]) <= PageSize
  /\ provider = "diskProvider" /\ job.step = "ended" => job.total = DirSize

SizeInv ==
  /\ provider \in Providers
  /\ job.op = "none" => job = NoJob
  /\ \A r \in Requests : job.op # "none" /\ pc[r] = job.op => InPage(req[r]) /\ Counted(req[r])

\* An object is counted: the file sizes before it, plus its own, wrap around as
\* their sum does.
LEMMA CountOne ==
  ASSUME NEW listing, NEW f, IsSizes(f, listing), Len(listing) \in Nat,
         NEW i \in 1..Len(listing), listing[i].size \in Nat, NEW total, total = Int64(f[i - 1])
  PROVE  (IF listing[i].folder THEN total ELSE Int64(total + listing[i].size)) = Int64(f[i])
<1>1. f[i - 1] \in Nat
  BY DEF IsSizes
<1>2. f[i] = IF listing[i].folder THEN f[i - 1] ELSE f[i - 1] + listing[i].size
  BY DEF IsSizes
<1>3. Int64(Int64(f[i - 1]) + listing[i].size) = Int64(f[i - 1] + listing[i].size)
  BY <1>1, Int64OfSum
<1>4. CASE listing[i].folder
  BY <1>2, <1>4
<1>5. CASE ~listing[i].folder
  BY <1>2, <1>3, <1>5
<1>. QED
  BY <1>4, <1>5

\* Every step of a call in progress goes on counting.
LEMMA ProgressCounts ==
  ASSUME ManagerInv, NodeInv, SizeInv, NEW r \in Requests, pc[r] \in Busy, job.op = pc[r],
         \/ ListPage(req[r]) \/ FindSrcPath(req[r]) \/ ApplyObject(req[r])
         \/ PageDone(req[r]) \/ StatSrcPath \/ Fails,
         NEW m, m = req[r]
  PROVE  InPage(m)' /\ Counted(m)'
<1>1. /\ m \in Models
      /\ provider' = provider /\ stored' = stored
      /\ stored \in Catalogue
      /\ job \in Job
  BY CallerIsAlone
  DEF ListPage, FindSrcPath, ApplyObject, PageDone, StatSrcPath, Fails, Keep, NodeInv, JobTypeOK
<1>. DEFINE n == Len(stored[m])
<1>2. n \in Nat /\ stored[m] \in Seq([size : Nat, folder : BOOLEAN]) /\ Len(stored[m])' = n
  BY <1>1, FilesAreNumbers, NodeAssumption DEF NodeAssumption
<1>3. InPage(m) /\ Counted(m)
  BY DEF SizeInv, Busy
<1>4. provider \in {"s3Provider", "azBlobProvider", "diskProvider"}
  BY ProvidersAssumption DEF ProvidersAssumption, SizeInv
<1>5. PageSize \in Nat \ {0} /\ IntLimit \in Nat \ {0} /\ DirSize \in 0..IntLimit - 1 /\ MaxEmptyPages \in Nat
  BY ProvidersAssumption DEF ProvidersAssumption
<1>6. /\ job.token \in Nat /\ job.next \in Nat /\ job.upto \in Nat /\ job.total \in Int
      /\ job.empty \in Nat /\ job.marker \in {"none", "set"}
  BY <1>1 DEF Job
<1>7. CASE ListPage(m)
  <2>1. PICK u, marker, empty : u = job'.upto /\ marker = job'.marker /\ empty = job'.empty
    OBVIOUS
  <2>4. /\ job' \in Job /\ job'.step = "apply"
        /\ job'.next = job.token + 1 /\ job'.upto = u /\ job'.marker = marker
        /\ job'.token = job.token /\ job'.files = job.files /\ job'.total = job.total
        /\ job'.empty = empty
        /\ empty = IF u = job.token /\ marker = "set" THEN job.empty + 1 ELSE job.empty
        /\ u \in job.token..Min({job.token + PageSize, n})
        /\ IsPage(m, u, marker)
    BY <1>1, <1>2, <1>7, <2>1, PageIsListed
  <2>0. marker \in {"none", "set"}
    BY <2>4 DEF Job
  <2>2. /\ u \in Nat /\ job.token <= u /\ u <= job.token + PageSize /\ u <= n
        /\ marker = "none" => u = n
        /\ provider = "s3Provider" => u \in {job.token + PageSize, n} /\ (marker = "set" => u < n)
    BY <1>1, <1>2, <2>0, <2>4, PageBounds
  <2>3. job.step = "list" /\ provider # "diskProvider"
    BY <1>7 DEF ListPage
  <2>5. job.upto <= u
    BY <1>2, <1>3, <1>4, <1>5, <1>6, <2>2, <2>3, SMTT(40) DEF InPage
  <2>6. job.files \subseteq 1..u
    BY <1>3, <1>6, <2>2, <2>5 DEF InPage
  <2>7. empty \in 0..MaxEmptyPages
    <3>1. CASE provider = "s3Provider"
      <4>1. ~(u = job.token /\ marker = "set")
        BY <1>2, <1>5, <1>6, <2>2, <3>1
      <4>. QED
        BY <1>3, <2>4, <4>1 DEF InPage
    <3>2. CASE provider # "s3Provider"
      <4>1. u = job.token /\ marker = "set" => job.empty < MaxEmptyPages
        BY <2>4, <3>2 DEF IsPage
      <4>. QED
        BY <1>3, <1>5, <1>6, <2>4, <4>1, SMTT(40) DEF InPage
    <3>. QED
      BY <3>1, <3>2
  <2>8. job.token + 1 \in 1..u + 1
    BY <1>6, <2>2
  <2>9. InPage(m)'
    BY <1>1, <1>3, <1>6, <2>2, <2>3, <2>4, <2>6, <2>7, <2>8, SMTT(40) DEF InPage
  <2>10. job'.next - 1 = job.token
    BY <1>6, <2>4
  <2>. QED
    BY <1>1, <1>3, <2>3, <2>4, <2>9, <2>10 DEF Counted
<1>8. CASE FindSrcPath(m)
  <2>0. job.step = "list" /\ provider = "diskProvider" /\ job.upto = 0 /\ job.token = 0 /\ job.next = 1
    BY <1>3, <1>6, <1>8 DEF FindSrcPath, InPage
  <2>1. CASE stored[m] = <<>>
    <3>1. job' = [job EXCEPT !.step = "failed"]
      BY <1>8, <2>1 DEF FindSrcPath
    <3>2. /\ job'.step = "failed" /\ job'.next = job.next /\ job'.upto = job.upto
          /\ job'.token = job.token /\ job'.files = job.files /\ job'.total = job.total
          /\ job'.marker = job.marker /\ job'.empty = job.empty
      BY <1>1, <3>1 DEF Job
    <3>. QED
      BY <1>1, <1>3, <2>0, <3>2 DEF InPage, Counted
  <2>2. CASE stored[m] # <<>>
    <3>1. PICK u : /\ u = IF job.op = "load" THEN n ELSE 0
                   /\ job' = [job EXCEPT !.step = "apply", !.upto = u]
      BY <1>8, <2>2 DEF FindSrcPath
    <3>2. u \in Nat /\ u <= n
      BY <1>2, <3>1
    <3>3. /\ job'.step = "apply" /\ job'.next = 1 /\ job'.upto = u
          /\ job'.token = 0 /\ job'.files = job.files /\ job'.total = job.total
          /\ job'.marker = job.marker /\ job'.empty = job.empty
      BY <1>1, <2>0, <3>1 DEF Job
    <3>4. job.files = {}
      BY <1>3, <2>0 DEF InPage
    <3>5. 1 \in 1..u + 1 /\ 0 <= u
      BY <3>2
    <3>. QED
      BY <1>1, <1>3, <2>0, <3>2, <3>3, <3>4, <3>5 DEF InPage, Counted
  <2>. QED
    BY <2>1, <2>2
<1>9. CASE ApplyObject(m)
  <2>1. PICK total, files :
          /\ job' = [job EXCEPT !.next = @ + 1, !.total = total, !.files = files]
          /\ total = IF stored[m][job.next].folder THEN job.total
                     ELSE Int64(job.total + stored[m][job.next].size)
          /\ files = IF stored[m][job.next].folder \/ job.op = "size" THEN job.files
                     ELSE job.files \cup {job.next}
    BY <1>1, <1>9 DEF ApplyObject, Job
  <2>2. job.step = "apply" /\ job.next <= job.upto
    BY <1>9 DEF ApplyObject
  <2>3. job.next \in 1..n /\ job.next \in 1..job.upto
    BY <1>2, <1>3, <1>6, <2>2 DEF InPage
  <2>4. stored[m][job.next].size \in Nat
    <3>1. stored[m][job.next] \in [size : Nat, folder : BOOLEAN]
      BY <1>2, <2>3, ElementInSeq
    <3>. QED
      BY <3>1
  <2>5. /\ job'.step = "apply" /\ job'.next = job.next + 1 /\ job'.upto = job.upto
        /\ job'.token = job.token /\ job'.files = files /\ job'.total = total
        /\ job'.marker = job.marker /\ job'.empty = job.empty
    BY <1>1, <2>1, <2>2 DEF Job
  <2>6. files \subseteq 1..job.upto
    BY <1>3, <2>1, <2>3 DEF InPage
  <2>7. job.next + 1 \in 1..job.upto + 1
    BY <1>6, <2>3, SMTT(40)
  <2>8. InPage(m)'
    BY <1>1, <1>3, <2>2, <2>5, <2>6, <2>7 DEF InPage
  <2>9. total \in -IntLimit..IntLimit - 1
    <3>1. job.total + stored[m][job.next].size \in Int
      BY <1>6, <2>4
    <3>. QED
      BY <1>3, <2>1, <3>1, Int64InRange DEF Counted
  <2>10. ASSUME NEW f, IsSizes(f, stored[m]), job.total = Int64(f[job.next - 1])
         PROVE  total = Int64(f[job'.next - 1])
    <3>1. job'.next - 1 = job.next
      BY <1>6, <2>5, SMTT(40)
    <3>2. total = Int64(f[job.next])
      BY <1>2, <2>1, <2>3, <2>4, <2>10, CountOne, SMTT(40)
    <3>. QED
      BY <3>1, <3>2
  <2>. QED
    BY <1>1, <1>3, <2>2, <2>5, <2>8, <2>9, <2>10, SMTT(40) DEF Counted
<1>10. CASE PageDone(m)
  <2>1. /\ job.step = "apply" /\ provider # "diskProvider"
        /\ job.next - 1 = job.upto
    BY <1>3, <1>6, <1>10 DEF PageDone, InPage
  <2>2. CASE job.marker = "set"
    <3>1. job' = [job EXCEPT !.step = "list", !.token = NextToken]
      BY <1>10, <2>2 DEF PageDone
    <3>2. /\ job'.step = "list" /\ job'.next = job.next /\ job'.upto = job.upto
          /\ job'.token = NextToken /\ job'.files = job.files /\ job'.total = job.total
          /\ job'.marker = job.marker /\ job'.empty = job.empty
      BY <1>1, <3>1 DEF Job
    <3>3. CASE provider = "s3Provider"
      <4>1. job'.token = job.token /\ ~(n <= PageSize)
        BY <1>2, <1>3, <1>5, <1>6, <2>1, <2>2, <3>2, <3>3 DEF NextToken, InPage
      <4>. QED
        BY <1>1, <1>3, <2>1, <3>2, <3>3, <4>1 DEF InPage, Counted
    <3>4. CASE provider = "azBlobProvider"
      <4>1. job'.token = job.upto
        BY <3>2, <3>4 DEF NextToken
      <4>2. job.upto <= job.upto /\ job.upto <= job.upto + PageSize
        BY <1>5, <1>6
      <4>. QED
        BY <1>1, <1>3, <2>1, <3>2, <3>4, <4>1, <4>2 DEF InPage, Counted
    <3>. QED
      BY <1>4, <2>1, <3>3, <3>4
  <2>3. CASE job.marker = "none"
    <3>1. PICK step \in {"failed", "ended"} : job' = [job EXCEPT !.step = step]
      BY <1>10, <2>3 DEF PageDone
    <3>2. /\ job'.step = step /\ job'.next = job.next /\ job'.upto = job.upto
          /\ job'.token = job.token /\ job'.files = job.files /\ job'.total = job.total
          /\ job'.marker = job.marker /\ job'.empty = job.empty
      BY <1>1, <3>1 DEF Job
    <3>3. job.upto = n
      BY <1>3, <2>1, <2>3 DEF InPage
    <3>4. provider = "s3Provider" => n <= PageSize
      BY <1>3, <1>5, <1>6, <3>3 DEF InPage
    <3>5. InPage(m)'
      BY <1>1, <1>3, <2>1, <3>2 DEF InPage
    <3>. QED
      BY <1>1, <1>3, <2>1, <3>2, <3>3, <3>4, <3>5 DEF Counted
  <2>. QED
    BY <1>6, <2>2, <2>3
<1>11. CASE StatSrcPath
  <2>1. /\ job' = [job EXCEPT !.step = "ended", !.total = DirSize]
        /\ provider = "diskProvider"
    BY <1>11 DEF StatSrcPath
  <2>2. /\ job'.step = "ended" /\ job'.next = job.next /\ job'.upto = job.upto
        /\ job'.token = job.token /\ job'.files = job.files /\ job'.total = DirSize
        /\ job'.marker = job.marker /\ job'.empty = job.empty
    BY <1>1, <2>1 DEF Job
  <2>. QED
    BY <1>1, <1>3, <1>5, <2>1, <2>2 DEF InPage, Counted
<1>12. CASE Fails
  <2>1. job' = [job EXCEPT !.step = "failed"]
    BY <1>12 DEF Fails
  <2>2. /\ job'.step = "failed" /\ job'.next = job.next /\ job'.upto = job.upto
        /\ job'.token = job.token /\ job'.files = job.files /\ job'.total = job.total
        /\ job'.marker = job.marker /\ job'.empty = job.empty
    BY <1>1, <2>1 DEF Job
  <2>. QED
    BY <1>1, <1>3, <2>2 DEF InPage, Counted
<1>. QED
  BY <1>7, <1>8, <1>9, <1>10, <1>11, <1>12

\* A call begins with nothing listed and nothing counted.
LEMMA CallCounts ==
  ASSUME ManagerInv, NodeInv, NEW r \in Requests, CallProvider(r), NEW m, m = req[r]
  PROVE  InPage(m)' /\ Counted(m)' /\ job'.op # "none"
<1>1. pc[r] \in Busy /\ provider' = provider /\ stored' = stored
  BY DEF CallProvider, Begin, Keep, Busy
<1>2. job' = [NoJob EXCEPT !.op = pc[r], !.step = "list"]
  BY DEF CallProvider, Begin
<1>3. /\ job'.op = pc[r] /\ job'.step = "list" /\ job'.token = 0 /\ job'.next = 1
      /\ job'.upto = 0 /\ job'.total = 0 /\ job'.files = {} /\ job'.empty = 0
  BY <1>2 DEF NoJob
<1>4. m \in Models /\ stored \in Catalogue
  BY <1>1, CallerIsAlone DEF NodeInv, JobTypeOK
<1>5. Len(stored[m]) \in Nat
  BY <1>4, FilesAreNumbers
<1>6. PageSize \in Nat \ {0} /\ IntLimit \in Nat \ {0} /\ MaxEmptyPages \in Nat
  BY ProvidersAssumption DEF ProvidersAssumption
<1>7. InPage(m)'
  BY <1>1, <1>3, <1>5, <1>6 DEF InPage
<1>8. Int64(0) = 0 /\ 0 \in -IntLimit..IntLimit - 1
  BY <1>6, Int64IsExact
<1>9. \A f : IsSizes(f, stored[m]) => f[0] = 0
  BY DEF IsSizes
<1>10. Counted(m)'
  BY <1>1, <1>3, <1>8, <1>9 DEF Counted
<1>. QED
  BY <1>1, <1>3, <1>7, <1>10 DEF Busy

\* Every step of a fetch keeps SizeInv.
LEMMA FetchCounts ==
  ASSUME ManagerInv, NodeInv, SizeInv, NEW r \in Requests, FetchStep(r)
  PROVE  SizeInv'
<1>1. pc[r] \in Busy
  BY DEF FetchStep, CallProvider, Waits, Apply, SizeReturns, LoadReturns, ProviderFails, SizeIs, Loaded, Busy
<1>2. provider' = provider
  BY DEF FetchStep, CallProvider, Waits, Apply, SizeReturns, LoadReturns, ProviderFails, Begin, Return,
         ListPage, FindSrcPath, ApplyObject, PageDone, StatSrcPath, Fails, Keep
<1>3. \A s \in Requests : s # r => pc[s] \notin Critical
  BY <1>1, CallerIsAlone
<1>4. job.op \in {"none", pc[r]}
  BY <1>1, <1>3 DEF NodeInv, JobTypeOK, Job, JobAwaited, Busy, Critical
<1>5. ASSUME UNCHANGED <<pc, req>>, job'.op \in Busy, InPage(req[r])', Counted(req[r])'
      PROVE  SizeInv'
  <2>1. \A s \in Requests : pc'[s] = job'.op => s = r
    BY <1>3, <1>5 DEF Busy, Critical
  <2>. QED
    BY <1>2, <1>5, <2>1 DEF SizeInv, Busy
<1>6. CASE CallProvider(r)
  <2>1. UNCHANGED <<pc, req>> /\ job'.op \in Busy
    BY <1>6 DEF CallProvider, Begin, NoJob, OnlyDisk, reqVars, Busy
  <2>2. PICK m : m = req[r]
    OBVIOUS
  <2>3. InPage(m)' /\ Counted(m)'
    BY <1>6, <2>2, CallCounts
  <2>4. req'[r] = m
    BY <2>1, <2>2
  <2>5. InPage(req[r])' /\ Counted(req[r])'
    BY <2>3, <2>4
  <2>. QED
    BY <1>5, <2>1, <2>5
<1>7. CASE SizeReturns(r) \/ LoadReturns(r) \/ ProviderFails(r)
  <2>1. job' = NoJob
    BY <1>7 DEF SizeReturns, LoadReturns, ProviderFails, Return
  <2>2. job'.op = "none"
    BY <2>1 DEF NoJob
  <2>. QED
    BY <1>2, <2>1, <2>2 DEF SizeInv
<1>8. CASE \/ Waits(r, ListPage(req[r])) \/ Waits(r, FindSrcPath(req[r])) \/ Apply(r)
           \/ Waits(r, PageDone(req[r])) \/ Waits(r, StatSrcPath) \/ Waits(r, Fails)
  <2>1. /\ \/ ListPage(req[r]) \/ FindSrcPath(req[r]) \/ ApplyObject(req[r])
           \/ PageDone(req[r]) \/ StatSrcPath \/ Fails
        /\ UNCHANGED <<pc, req>>
    BY <1>8 DEF Waits, Apply, OnlyDisk, vars, reqVars
  <2>2. job.step \in {"list", "apply"}
    BY <2>1 DEF ListPage, FindSrcPath, ApplyObject, PageDone, StatSrcPath, Fails
  <2>3. job.op = pc[r]
    BY <1>4, <2>2 DEF NodeInv, JobTypeOK
  <2>4. PICK m : m = req[r]
    OBVIOUS
  <2>5. InPage(m)' /\ Counted(m)'
    BY <1>1, <2>1, <2>3, <2>4, ProgressCounts
  <2>6. req'[r] = m
    BY <2>1, <2>4
  <2>7. InPage(req[r])' /\ Counted(req[r])'
    BY <2>5, <2>6
  <2>8. job'.op = job.op
    <3>1. job \in Job
      BY DEF NodeInv, JobTypeOK
    <3>. QED
      BY <2>1, <3>1 DEF ListPage, FindSrcPath, ApplyObject, PageDone, StatSrcPath, Fails, Job
  <2>. QED
    BY <1>1, <1>5, <2>1, <2>3, <2>7, <2>8
<1>. QED
  BY <1>6, <1>7, <1>8 DEF FetchStep

\* A step beside the provider keeps it too.
LEMMA BesideCounts ==
  ASSUME ManagerInv, NodeInv, SizeInv, Beside, UNCHANGED providerVars
  PROVE  SizeInv'
<1>1. UNCHANGED <<provider, stored, job>>
  BY DEF providerVars
<1>2. ASSUME NEW r \in Requests, job.op # "none", pc'[r] = job.op
      PROVE  InPage(req[r])' /\ Counted(req[r])'
  <2>1. pc[r] = job.op /\ req'[r] = req[r]
    BY <1>2, AwaitedUnmoved
  <2>2. InPage(req[r]) /\ Counted(req[r])
    BY <1>2, <2>1 DEF SizeInv
  <2>. QED
    BY <1>1, <2>1, <2>2 DEF InPage, Counted
<1>. QED
  BY <1>1, <1>2 DEF SizeInv

\* The process ends: no request waits for the provider any more.
LEMMA CrashCounts ==
  ASSUME ManagerInv, NodeInv, SizeInv, Crash, Keep,
         job' = NoJob \/ (UNCHANGED job /\ \E r \in Requests : EvictFails(r))
  PROVE  SizeInv'
<1>1. \A r \in Requests : pc'[r] = "idle"
  BY DEF Crash
<1>2. job'.op \in {"none", "size", "load"} /\ provider' = provider
  BY DEF NodeInv, JobTypeOK, Job, Busy, NoJob, Keep
<1>. QED
  BY <1>1, <1>2 DEF SizeInv

\* Every step of the node keeps SizeInv.
LEMMA SizeInvNext ==
  ASSUME ManagerInv, NodeInv, SizeInv, [NodeNext]_nodeVars
  PROVE  SizeInv'
<1>1. CASE UNCHANGED nodeVars
  <2>1. Beside /\ UNCHANGED providerVars
    BY <1>1 DEF Beside, nodeVars, vars, lruVars, reqVars
  <2>. QED
    BY <2>1, BesideCounts
<1>2. ASSUME NEW r \in Requests,
             \/ \E m \in Models : Alone(Start(r, m))
             \/ Alone(RLockForGet(r)) \/ Alone(LockForMiss(r)) \/ Alone(LockForReload(r))
             \/ Alone(OwnStep(r)) /\ ~EvictFails(r)
      PROVE  SizeInv'
  BY <1>2, OwnIsBeside, BesideCounts DEF Alone
<1>3. ASSUME NEW r \in Requests, Alone(OwnStep(r)), EvictFails(r)
      PROVE  SizeInv'
  BY <1>3, CrashCounts DEF EvictFails, Alone, providerVars, Keep
<1>4. ASSUME NEW r \in Requests, FetchStep(r)
      PROVE  SizeInv'
  BY <1>4, FetchCounts
<1>5. CASE Alone(ServingStep) \/ Alone(ServingRestart) \/ \E m \in Models : Alone(LoseFiles(m))
  BY <1>5, OthersAreBeside, BesideCounts DEF Alone
<1>6. CASE Crash /\ job' = NoJob /\ Keep
  BY <1>6, CrashCounts
<1>. QED
  BY <1>1, <1>2, <1>3, <1>4, <1>5, <1>6 DEF NodeNext, NodeStep, Alone

-----------------------------------------------------------------------------
(* The node implements the cache manager.                                  *)

\* What a provider returns is the size of the directory entry, or of the files.
LEMMA TotalIsSize ==
  ASSUME ManagerInv, NodeInv, SizeInv, NEW r \in Requests, pc[r] \in Busy, job.op # "none", job.step = "ended"
  PROVE  /\ rwMux = r
         /\ job.total = IF provider = "diskProvider" THEN DirSize ELSE SizeOfFiles(stored[req[r]])
         /\ job.total \in Sizes
<1>1. req[r] \in Models /\ \A s \in Requests : s # r => pc[s] \notin Critical
  BY CallerIsAlone
<1>2. job.op = pc[r]
  BY <1>1 DEF NodeInv, JobAwaited, JobTypeOK, Job, Busy, Critical
<1>3. rwMux = r
  BY DEF ManagerInv, LockDiscipline, Critical, Busy
<1>4. Counted(req[r]) /\ stored \in Catalogue
  BY <1>2 DEF SizeInv, NodeInv, JobTypeOK
<1>. DEFINE listing == stored[req[r]]
<1>5. PICK f : IsSizes(f, listing) /\ SizeOfFiles(listing) = f[Len(listing)]
  BY <1>1, <1>4, SizesExist
<1>6. SizeOfFiles(listing) \in Sizes /\ SizeOfFiles(listing) < IntLimit /\ DirSize \in Sizes
  BY <1>1, <1>4, NodeAssumption DEF NodeAssumption
<1>7. SizeOfFiles(listing) \in Nat
  BY <1>6, CacheAssumption DEF CacheAssumption
<1>8. CASE provider = "diskProvider"
  BY <1>3, <1>4, <1>6, <1>8 DEF Counted
<1>9. CASE provider # "diskProvider"
  <2>1. job.total = Int64(f[Len(listing)])
    BY <1>4, <1>5, <1>9 DEF Counted
  <2>2. Int64(SizeOfFiles(listing)) = SizeOfFiles(listing)
    BY <1>6, <1>7, Int64IsExact
  <2>3. job.total = SizeOfFiles(listing)
    BY <1>5, <2>1, <2>2
  <2>. QED
    BY <1>3, <1>6, <1>9, <2>3
<1>. QED
  BY <1>8, <1>9

\* To make a copy partial is what LoadModel does meanwhile, or nothing.
LEMMA WritesIsAllowed ==
  ASSUME ManagerInv, NEW r \in Requests, pc[r] = "load", Writes(req[r]), OnlyDisk
  PROVE  LoadModelWrites(r) \/ UNCHANGED vars
<1>1. disk \in [Models -> CopyState] /\ req[r] \in Models
  BY CallerIsAlone DEF ManagerInv, LRUTypeOK, Busy
<1>2. CASE disk[req[r]] = "partial"
  <2>1. UNCHANGED disk
    BY <1>1, <1>2 DEF Writes
  <2>. QED
    BY <2>1 DEF OnlyDisk, vars, lruVars
<1>3. CASE disk[req[r]] # "partial"
  BY <1>3 DEF LoadModelWrites, Writes, OnlyDisk
<1>. QED
  BY <1>2, <1>3

\* What a provider does is a step of some provider in CacheManager, or unseen
\* there: it writes only while it loads and only the copy of its model, and
\* what it returns is a size the cache reckons with.
LEMMA FetchIsManagerStep ==
  ASSUME ManagerInv, NodeInv, SizeInv, NEW r \in Requests, FetchStep(r)
  PROVE  ProviderStep(r) \/ UNCHANGED vars
<1>1. CASE CallProvider(r) \/ Apply(r)
  <2>1. CASE UNCHANGED disk
    BY <1>1, <2>1 DEF CallProvider, Apply, OnlyDisk, vars, lruVars
  <2>2. CASE pc[r] = "load" /\ Writes(req[r])
    BY <1>1, <2>2, WritesIsAllowed DEF CallProvider, Apply, ProviderStep
  <2>. QED
    BY <1>1, <2>1, <2>2 DEF CallProvider, Apply
<1>2. CASE SizeReturns(r) \/ LoadReturns(r)
  <2>1. pc[r] \in Busy /\ job.op # "none" /\ job.step = "ended"
    BY <1>2 DEF SizeReturns, LoadReturns, Return, SizeIs, Loaded, Busy
  <2>2. job.total \in Sizes
    BY <2>1, TotalIsSize
  <2>. QED
    BY <1>2, <2>2 DEF SizeReturns, LoadReturns, ModelSize, LoadModel, ProviderStep
<1>3. CASE ProviderFails(r)
  BY <1>3 DEF ProviderFails, ModelSizeFails, LoadModelFails, ProviderStep
<1>. QED
  BY <1>1, <1>2, <1>3 DEF FetchStep, Waits

\* So is every step of the node.
LEMMA NodeIsManagerStep ==
  ASSUME ManagerInv, NodeInv, SizeInv, [NodeNext]_nodeVars
  PROVE  [Next]_vars
<1>1. CASE UNCHANGED nodeVars
  BY <1>1 DEF nodeVars
<1>2. ASSUME NEW r \in Requests, NodeStep(r)
      PROVE  [Next]_vars
  BY <1>2, FetchIsManagerStep DEF NodeStep, Alone, Next, Step
<1>3. CASE NodeNext
  BY <1>2, <1>3 DEF NodeNext, Alone, Next
<1>. QED
  BY <1>1, <1>3

\* All three invariants hold in every state of the node.
LEMMA NodeInvAlways == NodeSpec => [](ManagerInv /\ NodeInv /\ SizeInv)
<1>1. NodeInit => ManagerInv /\ NodeInv /\ SizeInv
  <2>1. NodeInit => SizeInv
    BY DEF NodeInit, ProviderInit, SizeInv, NoJob
  <2>2. NodeInit => ManagerInv
    BY ManagerInit DEF NodeInit
  <2>. QED
    BY <2>1, <2>2, NodeInvInit
<1>2. ManagerInv /\ NodeInv /\ SizeInv /\ [NodeNext]_nodeVars => ManagerInv' /\ NodeInv' /\ SizeInv'
  BY NodeInvNext, SizeInvNext, NodeIsManagerStep, ManagerNext
<1>. QED
  BY <1>1, <1>2, PTL DEF NodeSpec

\* The listing loops of the providers, page by page and with every failure, do
\* nothing that CacheManager does not allow a provider to do: what they return is
\* a size in Sizes, since each file is counted once and no sum overflows, and they
\* write the copy of the requested model only, and only while LoadModel runs
\* (modelprovider.go, s3modelprovider.go:51-159, azblobmodelprovider.go:60-162,
\* diskmodelprovider.go:20-81).
THEOREM NodeImplementsManager == NodeSpec => Spec
<1>1. NodeInit => Init
  BY DEF NodeInit
<1>2. ManagerInv /\ NodeInv /\ SizeInv /\ [NodeNext]_nodeVars => [Next]_vars
  BY NodeIsManagerStep
<1>. QED
  BY <1>1, <1>2, NodeInvAlways, PTL DEF NodeSpec, Spec

\* In particular, however a provider fails: the lock is given back; until two Gets
\* overlap under RLock, the cache stays consistent and within its budget, and evicts
\* only what was used longest ago; and TF Serving is asked for no more models than
\* it may hold and, until then, for the one that is awaited
\* (cachemanager.go:114-132, 154-195).
THEOREM NodeSafe ==
  NodeSpec => /\ ImplementsUntilRace
              /\ [](TypeOK /\ LockDiscipline /\ RequestedAtFront)
              /\ [](raced \/ (MapMatchesList /\ CapacityBound /\ AccountingExact))
              /\ [](ServingBound /\ AwaitedIsConfigured)
BY NodeImplementsManager, TypeCorrect, LockCorrect, FrontCorrect, CacheSafeInManager,
   ManagerImplementsModelCache, BoundCorrect, AwaitedCorrect, PTL

-----------------------------------------------------------------------------
(* What enters the cache, and what is counted.                             *)

\* A model is added to the map by the last step of Put only.
LEMMA EnteringIsPutDone ==
  ASSUME [Next]_vars, NEW m \in modelMap' \ modelMap
  PROVE  \E r \in Requests : PutDone(r)
<1>1. \A r \in Requests : OwnStep(r) => PutDone(r) \/ modelMap' \subseteq modelMap
  BY DEF OwnStep, TryGet, Get, Race, AfterRace, StatusHit, StatusNotServed, Forward, Evict, EvictLRU,
         DropBack, EvictFails, Crash, Restart, FreeDone, Freed, PutModel, PutExisting, PutNew, ReloadConfig, ReloadConfigFails,
         PollAvailable, PollAgain, lruVars
<1>2. \A r \in Requests : ProviderStep(r) => modelMap' = modelMap
  BY DEF ProviderStep, ModelSize, SizeIs, EnsureFreeBytes, ModelSizeFails, LoadModel, Loaded, LoadModelWrites,
         LoadModelFails, lruVars
<1>3. \A r \in Requests : LockForMiss(r) \/ LockForReload(r) \/ RLockForGet(r) => modelMap' = modelMap
  BY DEF LockForMiss, LockForReload, Lock, RLockForGet, lruVars
<1>4. \A r \in Requests, n \in Models : Start(r, n) => modelMap' = modelMap
  BY DEF Start, lruVars
<1>5. (\E n \in Models : LoseFiles(n)) => modelMap' = modelMap
  BY DEF LoseFiles
<1>6. ServingStep \/ ServingRestart \/ Crash \/ UNCHANGED vars => modelMap' \subseteq modelMap
  BY DEF ServingStep, ServingRestart, Crash, Restart, vars, lruVars
<1>. QED
  BY <1>1, <1>2, <1>3, <1>4, <1>5, <1>6 DEF Next, Step

\* Whatever the provider and the length of its listings, and however many requests
\* fetch, fail and crash around it: a model enters the cache with its whole copy
\* on disk, or with none if files were lost since (s3modelprovider.go:51-106,
\* azblobmodelprovider.go:60-107, diskmodelprovider.go:20-69).
THEOREM WholeCorrect == NodeSpec => EntersWhole
<1>1. NodeSpec => [](ManagerInv /\ FrontInv)
  <2>1. Init => FrontInv
    BY DEF Init, FrontInv, RequestedAtFront
  <2>2. ManagerInv /\ FrontInv /\ [Next]_vars => FrontInv'
    BY FrontStep
  <2>. QED
    BY <2>1, <2>2, NodeImplementsManager, ManagerInvAlways, PTL DEF Spec
<1>2. ManagerInv /\ FrontInv /\ NodeInv /\ SizeInv /\ [NodeNext]_nodeVars
        => [\A m \in modelMap' \ modelMap : disk[m] # "partial" \/ Files(m) = {}]_nodeVars
  <2>1. SUFFICES ASSUME ManagerInv, FrontInv, NodeInv, SizeInv, [NodeNext]_nodeVars, NEW m \in modelMap' \ modelMap
                 PROVE  disk[m] # "partial" \/ Files(m) = {}
    OBVIOUS
  <2>2. PICK r \in Requests : PutDone(r)
    BY <2>1, NodeIsManagerStep, EnteringIsPutDone
  <2>3. m = call.model.id /\ pc[r] = "putting" /\ ~raced
    BY <2>1, <2>2 DEF PutDone, Pushed, ManagerInv, LockDiscipline
  <2>4. m = req[r]
    BY <2>1, <2>3 DEF FrontInv, Fetched
  <2>. QED
    BY <2>1, <2>3, <2>4 DEF NodeInv, CopySound
<1>. QED
  BY <1>1, <1>2, NodeInvAlways, PTL DEF NodeSpec, EntersWhole

\* A provider call in progress is well formed: what is left of a page lies in the
\* page, and nothing is written that is not listed (s3modelprovider.go:109-159,
\* azblobmodelprovider.go:110-162, diskmodelprovider.go:20-81).
THEOREM NodeTypeCorrect == NodeSpec => []NodeTypeOK
<1>1. ManagerInv /\ NodeInv /\ SizeInv => NodeTypeOK
  <2>. SUFFICES ASSUME ManagerInv, NodeInv, SizeInv
                PROVE  NodeTypeOK
    OBVIOUS
  <2>1. TypeOK
    BY DEF ManagerInv, TypeOK
  <2>2. CASE job.op = "none"
    <3>1. job = NoJob
      BY <2>2 DEF SizeInv
    <3>2. /\ job.op = "none" /\ job.step = "ended" /\ job.token = 0 /\ job.next = 1
          /\ job.upto = 0 /\ job.total = 0 /\ job.files = {} /\ job.marker = "none" /\ job.empty = 0
      BY <3>1 DEF NoJob
    <3>3. 0 \in -IntLimit..IntLimit - 1 /\ 0 \in 0..MaxEmptyPages
      BY ProvidersAssumption DEF ProvidersAssumption
    <3>. QED
      BY <2>1, <3>2, <3>3 DEF NodeTypeOK, ProviderTypeOK, SizeInv, NodeInv, JobTypeOK
  <2>3. CASE job.op # "none"
    <3>1. PICK r \in Requests : pc[r] = job.op
      BY <2>3 DEF NodeInv, JobAwaited
    <3>2. InPage(req[r]) /\ Counted(req[r])
      BY <2>3, <3>1 DEF SizeInv
    <3>3. /\ job.op \in {"none", "size", "load"} /\ job.step \in {"list", "apply", "ended", "failed"}
          /\ job.token \in Nat /\ job.upto \in Nat /\ job.marker \in {"none", "set"}
      BY DEF NodeInv, JobTypeOK, Job, Busy
    <3>4. provider \in Providers /\ stored \in Catalogue
      BY DEF SizeInv, NodeInv, JobTypeOK
    <3>. QED
      BY <2>1, <3>2, <3>3, <3>4 DEF NodeTypeOK, ProviderTypeOK, InPage, Counted
  <2>. QED
    BY <2>2, <2>3
<1>. QED
  BY <1>1, NodeInvAlways, PTL

\* However many objects a listing has and however they are split into pages, short
\* and empty ones among them: what ModelSize and LoadModel return counts every file
\* exactly once, so the two agree (s3modelprovider.go:124-159,
\* azblobmodelprovider.go:125-162, diskmodelprovider.go:81).
THEOREM SizeCorrect == NodeSpec => []SizeExact
<1>1. ManagerInv /\ NodeInv /\ SizeInv => SizeExact
  <2>. SUFFICES ASSUME ManagerInv, NodeInv, SizeInv, job.op # "none", job.step = "ended"
                PROVE  job.total = IF provider = "diskProvider" THEN DirSize
                                   ELSE SizeOfFiles(stored[req[rwMux]])
    BY DEF SizeExact
  <2>1. PICK r \in Requests : pc[r] = job.op
    BY DEF NodeInv, JobAwaited
  <2>2. pc[r] \in Busy
    BY <2>1 DEF NodeInv, JobTypeOK, Job
  <2>. QED
    BY <2>2, TotalIsSize
<1>. QED
  BY <1>1, NodeInvAlways, PTL
=============================================================================
