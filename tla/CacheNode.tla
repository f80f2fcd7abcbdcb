------------------------------ MODULE CacheNode ------------------------------
(***************************************************************************)
(* A cache node with its model provider: CacheManager, whose calls of      *)
(* ModelSize and LoadModel are what ModelProviders does.  What a provider  *)
(* writes, and what it returns, is said here and not taken from the        *)
(* actions of CacheManager that stand for any provider: that these allow   *)
(* for it is a theorem (CacheNodeProofs).                                  *)
(***************************************************************************)
EXTENDS CacheManager, ModelProviders

\* No store holds a model of 2^63 bytes.
ASSUME NodeAssumption ==
  /\ DirSize \in Sizes
  /\ \A listing \in Catalogue :
       /\ listing \in [Models -> Seq([size : Nat, folder : BOOLEAN])]
       /\ \A m \in Models : SizeOfFiles(listing[m]) \in Sizes /\ SizeOfFiles(listing[m]) < IntLimit

nodeVars == <<vars, providerVars>>

NodeInit == Init /\ ProviderInit

-----------------------------------------------------------------------------
\* The provider goes on while the cache manager waits for it.
Waits(r, A) == pc[r] \in {"size", "load"} /\ A /\ UNCHANGED vars

\* The provider has touched the copy of m, and is not done.
Writes(m) == disk' = [disk EXCEPT ![m] = "partial"]

OnlyDisk == UNCHANGED <<lruList, modelMap, currentSize, call, reqVars, rwMux, raced, servingVars>>

\* MkdirAll makes the directory, or finds it; the disk provider looks for the
\* source first.
CallProvider(r) ==
  /\ pc[r] \in {"size", "load"} /\ Begin(pc[r])
  /\ IF pc[r] = "load" /\ provider # "diskProvider" /\ disk[req[r]] = "absent"
     THEN Writes(req[r]) ELSE UNCHANGED disk
  /\ OnlyDisk

\* os.Create truncates a file of an earlier copy; the disk provider makes
\* directories too.
Apply(r) ==
  /\ pc[r] \in {"size", "load"}
  /\ ApplyObject(req[r])
  /\ IF pc[r] = "load" /\ (job.next \in Files(req[r]) \/ disk[req[r]] = "absent")
     THEN Writes(req[r]) ELSE UNCHANGED disk
  /\ OnlyDisk

SizeReturns(r) == job.step = "ended" /\ Return /\ SizeIs(r, job.total)

LoadReturns(r) ==
  /\ job.step = "ended" /\ Return
  /\ Loaded(r, IF job.files # {} /\ job.files = Files(req[r]) THEN "whole" ELSE "partial", job.total)

\* What was written stays.
ProviderFails(r) ==
  /\ job.step = "failed" /\ Return
  /\ pc[r] \in {"size", "load"}
  /\ Fail(r)
  /\ UNCHANGED <<lruVars, raced, servingVars>>

FetchStep(r) ==
  \/ CallProvider(r)
  \/ Waits(r, ListPage(req[r])) \/ Waits(r, FindSrcPath(req[r]))
  \/ Apply(r)
  \/ Waits(r, PageDone(req[r])) \/ Waits(r, StatSrcPath)
  \/ Waits(r, Fails)
  \/ SizeReturns(r) \/ LoadReturns(r) \/ ProviderFails(r)

Alone(A) == A /\ UNCHANGED providerVars

NodeStep(r) == Alone(OwnStep(r)) \/ FetchStep(r)

\* Files are lost, but not while they are being written.
NodeNext ==
  \/ \E r \in Requests : \/ \E m \in Models : Alone(Start(r, m))
                         \/ Alone(RLockForGet(r))
                         \/ Alone(LockForMiss(r))
                         \/ Alone(LockForReload(r))
                         \/ NodeStep(r)
  \/ Alone(ServingStep)
  \/ Alone(ServingRestart)
  \/ \E m \in Models : job.op # "load" /\ Alone(LoseFiles(m))
  \/ Crash /\ job' = NoJob /\ Keep

\* As for CacheManager; calls of the store and the file system return.
NodeFairness == \A r \in Requests : WF_nodeVars(NodeStep(r)) /\ SF_nodeVars(Alone(Locks(r)))

NodeSpec == NodeInit /\ [][NodeNext]_nodeVars /\ NodeFairness

-----------------------------------------------------------------------------
NodeTypeOK == TypeOK /\ ProviderTypeOK

\* However many pages a listing has, short and empty ones among them, what
\* ModelSize and LoadModel return counts each file exactly once, so that the two
\* agree and the room made before the download is the room Put needs
\* (s3modelprovider.go:124-159, azblobmodelprovider.go:125-162).  The disk provider returns the size of the
\* directory entry instead (diskmodelprovider.go:81).
SizeExact ==
  job.op # "none" /\ job.step = "ended" =>
    job.total = IF provider = "diskProvider" THEN DirSize ELSE SizeOfFiles(stored[req[rwMux]])

\* A model enters the cache with the whole copy on disk, whatever failed before
\* or during its download; only a model without files has nothing to copy.
\* (The copy may be gone again by then; and after a race of two Gets the model
\* does not follow the map.)
EntersWhole ==
  [][\A m \in modelMap' \ modelMap : disk[m] # "partial" \/ Files(m) = {}]_nodeVars

\* A listing of S3 fits into a page: otherwise the loop lists the first page
\* forever (s3modelprovider.go:156), with the write lock held.
ListingFits == provider = "s3Provider" => \A m \in DOMAIN stored : Len(stored[m]) <= PageSize

\* Every request ends, through as many pages as a listing has and however
\* TF Serving and the other requests behave; unless the list of the cache is
\* tangled, in whose circles a walk need not end.
EveryFetchEnds == ListingFits => \A r \in Requests : pc[r] # "idle" ~> (pc[r] = "idle" \/ raced)
=============================================================================
