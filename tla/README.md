# TFServingCache: TLA+ specifications and proofs

TFServingCache puts a model cache and a load balancer in front of TensorFlow
Serving. A *proxy node* routes a request for a model and version to one of the
nodes that consistent hashing assigns to it; a *cache node* makes sure that the
model is on its disk and loaded in its TF Serving, and forwards the request.
This directory models the parts with state and concurrency, checks them with
TLC and proves with TLAPS the safety of the model cache, of its use by concurrent
requests and their providers, of the membership of a node and of a proxy node:
every invariant that a passing run checks is also a theorem.

## The system

| Part (source) | State | Operations | What is hard | What makes it correct |
| --- | --- | --- | --- | --- |
| LRU model cache (`pkg/cachemanager/lrucache.go`) | list, map, byte count; files in the cache directory | `Get`, `Put`, `EnsureFreeBytes`, `ListModels` | three pieces of state updated separately; budget at its limit; `log.Fatalf` in mid-call | map = list, exact byte count, budget, only the least recently used model goes |
| Cache manager (`cachemanager.go`) | a `RWMutex`, the cache, the TF Serving it controls | `handleModelRequest` → `fetchModel` → `reloadServingConfig`, `IsHealthy`, `Close` | requests run concurrently; state read under the read lock is used under the write lock; provider and TF Serving fail; polling with the lock held | lock always given back; the requested model is configured; requests end |
| TF Serving controller (`servingcontroller.go`) | one gRPC connection | `ReloadConfig`, `GetModelStatus` | versions of one model share a configuration entry | configuration = list of models |
| Model providers (`modelproviders/*`) | a listing in progress (disk, S3, Azure blob) | `LoadModel`, `ModelSize`, `Check` | partial copies, paging | loops end, sizes are right |
| Cluster connection (`pkg/taskhandler/cluster.go`) | hash ring, `State`, channel | `Connect`, `Disconnect`, `clusterUpdated`, `FindNodeForKey` | a goroutine per connection, all sharing `State` and ring | ring = live nodes |
| Discovery (`discovery/{etcd,consul,kubernetes}`) | registry outside, map of known nodes, map of channels | `RegisterService`, `UnregisterService`, heartbeat, watch | heartbeats, leases and watch events race; blocking sends | no change lost; a node that leaves is gone |
| Task handler (`taskhandler.go`) | map of gRPC connections and its `RWMutex` | `restDirector`, `grpcDirector`, `Close` | check and dial in separate critical sections; `Close` without a lock | calls only on open connections; `Close` returns |
| Proxy (`pkg/tfservingproxy`) | counters, gRPC server, health status | `Serve`, the gRPC methods, `Listen`, `SetHealth`, `Close` | shutdown while calls run | every request answered and counted |
| Metrics, main, configuration | none of their own | | | |

A request passes the proxy (`Serve`, director), the hash ring, a connection to
the selected node, then the proxy of that node with the cache manager as its
director. The cache manager calls cache, provider and TF Serving. Discovery
goroutines feed the hash ring through a channel.

## Modules

| Module | Models | Role |
| --- | --- | --- |
| `ModelCache` | interface `ModelCache` | abstract specification of the cache: a set within a budget, evicted by age |
| `LRUCache` | `lrucache.go` | detailed specification; refines `ModelCache` |
| `LRUCacheProofs` | | theorems about `LRUCache`, with the refinement of `ModelCache` |
| `UseOrder` | | `LRUCache` with a history of its calls; the properties of the list as order of use and as configuration |
| `UseOrderProofs` | | theorems about `UseOrder` |
| `ListRace` | `MoveToFront` in `Get` | two readers relink the list, statement by statement |
| `ServingConfig` | `createModelConfig` | pure function, used by `CacheManager`; checked on every list of the cache in `UseOrder` |
| `ServingConfigProofs` | | what the function computes, for every list |
| `NatLemmas` | | least elements, remainders and sums, for the proofs |
| `CacheManager` | `cachemanager.go`, `servingcontroller.go` | composes `LRUCache` and `ServingConfig` with concurrent requests, provider, TF Serving |
| `CacheManagerProofs` | | theorems about `CacheManager` |
| `ModelProviders` | `s3modelprovider.go`, `azblobmodelprovider.go`, `diskmodelprovider.go` | one call of `ModelSize` or `LoadModel`, page by page and object by object |
| `CacheNode` | `fetchModel` with its provider | composes `CacheManager` and `ModelProviders` |
| `CacheNodeProofs` | | theorems about `CacheNode` |
| `ClusterConnection` | `cluster.go` | `Connect`, `Disconnect`, listeners, channels; what every updater does with a list |
| `EtcdDiscovery`, `ConsulDiscovery`, `K8sDiscovery` | `discovery/*` | the updater, the heartbeat and the registry of each service; extend `ClusterConnection` |
| `Cluster` | `CreateDiscoveryService` | composes the connection with whichever service is configured |
| `ClusterProofs` | | theorems about `Cluster` |
| `TaskHandler` | `taskhandler.go`, `tfservingproxy.go`, `FindNodeForKey` | routing, connection map, counters, shutdown |
| `TaskHandlerProofs` | | theorems about `TaskHandler` |
| `MC*` | | instances for TLC |

Definitions whose name starts with `Mut_` are deliberate faults, one or more
beside the definition they vary. They are in no specification; putting one in
the place of its original must make TLC reject the property it is meant for.

### LRUCache

`lruList` (front first), `modelMap` (its keys: callers put a model under its own
identifier, so the element of a key is the list element with that identifier)
and `currentSize` are the fields of the struct. `disk` is the cache directory:
for each model no copy, part of one, or all of it. `EnsureFreeBytes` is a loop
whose every iteration may end the process, so `call` holds the call in progress
and `EvictLRU` is one iteration. `Put` of a new model is `PutNew`, iterations of
`EvictLRU`, and `Pushed`. `PathResolves` tells whether `Model.Path` happens to
name the copy when it is resolved against the working directory, which is what
`EnsureFreeBytes` does: if not, eviction deletes nothing; if it does, `os.Remove`
fails on a directory with files in it and `log.Fatalf` ends the process.

The code has no guard against two calls at once, so the actions have none;
`LRUNext` states the contract (a call starts when none is in progress). The lock
of the cache manager keeps it but for one breach, two `Get`s under the read lock;
see below.

`ModelCache`, which it refines, has a set of models, the bytes used, the relation
"used after" and the bytes that room is being made for: the model used longest
ago may leave only while these bytes do not fit, and room is granted, or a model
enters, only when they do or the cache is empty.

`UseOrder` adds the variable `later`, which no action of the cache reads: the
pairs of a model that was used and a model that has not been used since. It is
updated by what a call means (`Get` of a model that is there and a `Put` that
is done are uses), not by what the code does to the list, so `ListIsUseOrder` has
something to be compared with. `OrderSpec => LRUSpec` is a lemma: the history
watches and does not restrict.

### CacheManager

A request is a process with a `pc`: `tryGet`, `get` (it holds the read lock),
then `status` (hit), or `missLock`, `size`, `free`, `load`, `put`, `putting`, or
`reloadLock`, and `reload`, `poll`, `forward`. Each action is one visible call or
lock operation, with its failure as a separate action. `rwMux` is the writer, the
readers are the requests at `get`. The poll loop counts in units of half a
second. TF Serving is external: it loads what the last accepted configuration
asks for once files are there, may fail to load, unloads the rest, may restart
and forget everything. Files may be lost, and the process may crash anywhere.
`LoadModelWrites` is the moment from which a provider has made a directory or
truncated a file: from then on a partial copy is what TF Serving sees and what a
crash leaves. Here the provider is any provider: it returns any size and copies
all or a part.

Several requests may be at `get`, and `Get` relinks the list: a data race. When
two of them have a model in the cache, and one of the two is not at the front,
the second may run alone (`TryGet`) or at the same time (`Race`). After a race the
list is undefined, so `raced` is set, the variables of the cache stand still, and
every call of the cache takes any branch (`AfterRace`): a hit is found on disk or
not, `EnsureFreeBytes` returns or panics, `Put` takes either path, and the slice of
active models is any (`Slices`). Only the end of the process resets `raced`. What
a property says of the list it says until the race; lock, types and the number of
models asked for it says also after it. `ListRace` shows one of the outcomes.

### ModelProviders and CacheNode

The cache manager calls its provider with the write lock held, so there is one
call at a time, and `job` is its state: the continuation token, what is left of
the page, the bytes counted (`Int64`: the sum wraps around to negative numbers at
`IntLimit`, which stands for 2^63) and the files written. A page of Azure has any
number of objects up to `PageSize`, none included, and may have a marker even
after the last object; `MaxEmptyPages` bounds the empty ones with a marker. S3
fills its pages: they are short only at the end. The S3 provider passes the token
of the *response* on, which is the one it sent: the first page is listed again.
The Azure provider passes the next marker on, and fails if it met no blob. The
disk provider copies a tree and
reports what `Stat` says of its directory. Any call may fail at any point; a
copy of the disk provider whose last `Stat` fails stays "partial" in the model
although its files are there.

In `CacheNode` a step is one of the cache manager alone, or one of the provider
for the request that called it. What the provider writes, returns and leaves
behind is stated there, without the actions of `CacheManager` that stand for any
provider (`ModelSize`, `LoadModel`, `LoadModelWrites` and the failures); that these
allow for it is the theorem `NodeImplementsManager`. The store holds the same
objects during both listings of a fetch, and files are not lost while they are
being written; `cache_safety` has neither restriction.

### ListRace

`Get` moves an element of `container/list` while the lock is held for reading.
The module has the links of the ring and one step per statement of
`MoveToFront`. A data race has other outcomes too; these are the ones of a
machine that executes the statements in order, and they are enough for the
result.

### Cluster

The i-th `Connect` makes channel, listener and updater number i. Channels are
unbuffered, so a send and a receive are one step (`Deliver`). The list of
members travels from the updater's map (`nodeMap`) to `sending`, to `inbox`, to
the ring in separate steps. The updater ranges over the map of channels and then
indexes it (`found`, `IndexChan`), with no lock: `Disconnect` may have removed the
channel in between, and a send to the nil channel waits forever. That Go ends a
process whose map is read and written at once is one of the reasons of `Crash`.
`Connect` may come before the last `Disconnect` has called `UnregisterService`. What an updater reads is up to the service:

- etcd: `registry` is the set of keys, `leased` those under a lease, `events` what
  each watcher has not read; it reads any number of them in one response. A key
  goes with its lease, and only then: a heartbeat that put the key without one
  would leave it for good. The watch starts without the keys
  that exist. A response with an error is the last one (`broken`). The heartbeat
  is never stopped.
- Consul: a poll of the passing services that is sent every time; a heartbeat
  for a service that was deregistered fails.
- Kubernetes: the `Endpoints` object with its subsets, written by the endpoints
  controller from the ready pods; a watch that gets the object and its changes,
  that the server ends and that is opened again, or cannot be (`exited`).

The registries are external. `MaxChurn` bounds peers that come and go, crashes of
this process, failed watches and deletions together. After a crash the process
starts again if `MaxConnects` allows.

`Spec` allows a process to connect again and again, as the interface does.
`MainSpec` is the program as it is deployed: `main.go` connects once, and only the
next process connects again.

### TaskHandler

A request is REST or gRPC, is counted, gets a node from the ring (which changes
at any time) and is forwarded. gRPC requests look a connection up, or take the
write lock and dial. `Close` passes through its stages: listener, `GracefulStop`
(external: returns when no call is in progress), the connections in the map one
by one. Consistent hashing is external: each key meets the hosts in a fixed
order (`Preference`), and `GetN` takes the first members in it. An address that
does not parse is the zero value; one that has more than three parts, of which
the second and third happen to be numbers, would parse to another host: both are
nodes that cannot be reached, and the model has the first.

## Runs

| Run | Question | Bounds |
| --- | --- | --- |
| `lru_cache` | list, map, byte count and use order agree; configuration = list, in order; `LRUCache` implements `ModelCache` | 3 models, two of them versions of one name, sizes 0, 1, 2, 4, capacity 3 |
| `cache_safety` | lock, contract of the cache, what TF Serving is asked for | 2 requests, 2 models, sizes 0 and 1, capacity 1, 1 served model, 2 polls, `os.Remove` can fail |
| `cache_node` | sizes are exact, only whole copies enter the cache, every request ends | 2 requests, 1 model, three providers, listings of no object, one file, and a folder with two files; at most 2 objects per page, 1 empty page with a marker, capacity 1, `IntLimit` 3, 2 polls, eviction finds no file |
| `cluster_reconnect` | a listener is there, both goroutines were started | `Spec`; 3 services, 2 connections, 1 peer, no change |
| `cluster_converges` | no change lost; the ring becomes the set of live nodes; a crashed node leaves; a disconnected one does under Consul | `MainSpec`; 3 services, 2 processes, 1 peer, 2 changes, crashes or failed watches, 2 subsets |
| `proxy` | connections, lock, counters, answers, `Close` | 2 requests, 2 keys, 2 hosts, 1 of them unparsable, 1 replica |

The runs of `Cluster` do not check for deadlock: a process that crashed, whose
lease ran out and that is not started again has nothing left to do.

Why the bounds are enough: the cache properties depend on fit, not fit, and
larger than the cache, and on which of at least two other models is older: three
models and sizes on both sides of the capacity give all of these. The races of
the cache manager are between a holder of the lock and one that waits, so two
requests; models of size 0 and 1 in a cache of size 1 make both cases of a miss,
with and without an eviction, and lists longer than the one served model, so
that the slice of active models matters. The run of the node has one model,
which is fetched by both requests and again when its files are lost; its
listings are on both sides of the size of a page, and one of them does not fit
into the cache. (With one model `Get` never relinks, so this run has no race;
`cache_safety` has, with two models.) An empty page may come before, between and
after the objects; one of them is enough, since the loop keeps no more of a page
than the marker. `IntLimit` is just above the largest size, so a sum that counted
a file twice would wrap around. Two polls are the first and one more. One
peer and this node are two members; a change and a failure
of the watch, in either order, are two changes. Races in the
connection map are between two requests that both missed.
The run with two connections of one process has no changes, which `cluster_converges`
and the proofs have; with one change it takes five times as long.
`MaxConnects`, `MaxChurn` and `MaxSubsets` bound the calls, the changes and the
size of the object in `Cluster`, `MaxEmptyPages` the pages of a listing; the other
specifications need no bound on the length of a behaviour.

These runs show where the code does not do what a comment, a message or the
documentation says:

| Run | Shown |
| --- | --- |
| `list_race` | two hits at once leave a list that runs in a circle, with a model at its back that was just used (3 models, 2 requests; with one request the property holds) |
| `reload_race` | a model evicted in the meantime is polled for although it is not in the configuration |
| `hit_loading` | a model that is still loading counts as a hit |
| `evict_keeps_files` | eviction subtracts the bytes and leaves the files |
| `cluster_disconnect` | the heartbeat registers a disconnected node again |
| `proxy_double_dial` | two connections to one node, one of them lost |

More of this kind is in the models, but no run states it, or a property names it
as an exception; the hazards in `PROJECT.json` name the lines:

- Two requests that both miss fetch the model twice (`cachemanager.go:114`). If
  the second fetch fails, part of a copy is left of a model that is in the cache
  (`s3modelprovider.go:77`); it counts as a hit from then on and is not fetched
  again. If it succeeds, `Put` keeps the old `SizeOnDisk` (`lrucache.go:63`).
- A listing of S3 with more than a page never ends (`s3modelprovider.go:156`),
  and the write lock is held: the premise `ListingFits` of `EveryFetchEnds`.
- The disk provider reports the size of a directory entry
  (`diskmodelprovider.go:81`): the case in `SizeExact`.
- Of an object with several subsets only the last one is used
  (`kubernetes.go:105`): the premise `OneSubset` of `RingConverges`. An object
  without ready addresses is not sent at all (`kubernetes.go:122`): the
  exception in `RingIsView` and the premise `Members # {}`.
- An etcd watch that failed, and a Kubernetes watch that cannot be opened again,
  are not retried (`etcd.go:66`, `kubernetes.go:86`): the premise `Watching`.
- Of a process that connects again the first listener and updater run on: the
  listener may overwrite the ring with an old list (`cluster.go:105`), and an
  updater whose channel is gone is stuck (`etcd.go:107`). This is the premise
  `ConnectedOnce` of `RingIsView` and `RingConverges`. `main.go` does not do it.
- After two `Get`s that overlapped a walk over the list need not end
  (`lrucache.go:46`): the exception `raced` in `EveryFetchEnds`.
- A member that does not parse is selected as the zero value (`cluster.go:127`).
- REST requests that succeed are counted as failed (`tfservingproxy.go:65`).

## Fairness

- Cache node: a goroutine that can run does run, and its calls of the store, the
  file system and TF Serving return (weak fairness of `NodeStep(r)`); Go's
  `RWMutex` lets no reader or writer wait forever (strong fairness of
  `Locks(r)`: `RLock` and the two `Lock`s, of which a request waits for one at a
  time). Nothing is assumed of what TF Serving does, and no request
  has to arrive. That the calls return is an assumption: they are made with
  `context.Background()`. `FairSpec` of `CacheManager` states the same for the
  violations that are temporal formulas.
- Cluster: goroutines run (weak fairness of the listener's steps, of the look-up
  of the channel and of `UnregisterService`); tickers tick, watches deliver, queries are answered
  (weak fairness of polls, reads, and of opening a watch again); leases and
  checks run out, the endpoints controller writes the object. A send that again
  and again meets a receive succeeds (strong fairness). Nobody has to connect,
  disconnect, start or stop, and no watch has to fail.
- Task handler: as for the cache manager; nobody has to call `Close`.

## Proofs

Every invariant and action property of the passing runs, and every refinement,
are theorems for every value of the constants. The assumptions on the constants
are named in the modules that declare them, and TLC evaluates them in the runs.

### The cache

`LRUCacheProofs` proves for every set of models, every set of natural numbers
as sizes and every capacity (`CacheAssumption`):

- `LRUTypeCorrect`: `LRUSpec => []LRUTypeOK`
- `MapCorrect`: `LRUSpec => []MapMatchesList`
- `BudgetCorrect`: `LRUSpec => []CapacityBound`
- `AccountingCorrect`: `LRUSpec => []AccountingExact`
- `CacheImplementsModelCache`: `LRUSpec => ImplementsModelCache`

The inductive invariant is `LRUInv`, the conjunction of types, `MapMatchesList`,
`CapacityBound` and `Accounted(lruList, currentSize)`. None is inductive alone:
that `DropBack` removes the right key from the map needs distinct identifiers;
distinct identifiers after `Pushed` need that the model a `Put` is making room
for is not in the map; and the budget when the last model leaves needs that its
size is all that was counted.

The refinement maps the list to a set of models, their sizes and the relation
"nearer to the front". Three lemmas say what `MoveToFront`, `Cons` and `Front` do
to these (`MoveToFrontMapping`, `ConsMapping`, `FrontMapping`): a move is the
abstract `Use`, the end of a `Put` is `Admit`, an iteration of the eviction loop
is `Evict` of the model that is newer than none, a restart is `Clear`, and every
other step is a stutter.

`AccountingExact` is stated with a recursive function, whose value for every
list takes an induction that the provers cannot instantiate. The proof goes
around it: `Accounted` says that *some* function of partial sums of the list
ends in `currentSize`, each list operation is shown to turn a function of
partial sums into one, and `PrefixSumsValue` shows by a least counterexample
(`LeastElement`, from the well-foundedness of `<`) that the recursive function
agrees with any such function. The same way out serves wherever a fold or a
recursive function occurs: `createModelConfig` and the sum of the file sizes.

`ServingConfigProofs` proves `ConfigOfList`, for every sequence of identifiers
(`IdentifierAssumption`: an identifier is its name and version). `FoldLeft` is a
recursive function on sets of positions; that such a function exists is shown by
extending one from `n` positions to `n + 1`, and then an invariant of the loop
(`Holds`, `InOrder`) is carried from each iteration to the next (`LoopStep`).

`UseOrderProofs` proves, with `OrderAssumption` (every model has a name and a
version):

- `UseOrderCorrect`: `OrderSpec => []ListIsUseOrder`
- `ConfigCorrect`: `OrderSpec => []ConfigIsList`
- `OrderCorrect`: `OrderSpec => []OrderKept`

The first is inductive with `LRUInv`; the other two follow from distinct
identifiers and from what `ServingConfigProofs` says of any list.

### The cache manager

`CacheManagerProofs` proves for every set of requests and models (with
`CacheAssumption`, `IdentifierAssumption` and `ManagerAssumption`: the timeout is
a number of polls, "nobody" is not a request, and every model has a name):

- `TypeCorrect`: `Spec => []TypeOK`
- `LockCorrect`: `Spec => []LockDiscipline`
- `ContractCorrect`: `Spec => KeepsCacheContract`: until two `Get`s overlap every
  step is one of `LRUSpec`, and only a restart undoes a race
- `CacheSafeInManager`: `Spec => [](raced \/ (MapMatchesList /\ CapacityBound /\
  AccountingExact))`
- `ManagerImplementsModelCache`: `Spec => ImplementsUntilRace`, the abstract cache
  until the race
- `FrontCorrect`: `Spec => []RequestedAtFront`
- `BoundCorrect`: `Spec => []ServingBound`
- `AwaitedCorrect`: `Spec => []AwaitedIsConfigured`

The inductive invariant `ManagerInv` joins `LRUInv` (until a race), the types of
the requests and `LockDiscipline`. The parts need each other: the discipline says
that no call of the cache is in progress when one starts, so every step but a race
is a step of `LRUNext` (`ContractStep`) and `LRUInv` is kept by what was proved of the cache
alone; the types give the calls their arguments. `FrontInv` adds to it what
`RequestedAtFront` needs: a request that has a model got it from `LoadModel`, it
is the model asked for, and it is the one the `Put` in progress adds.

What TF Serving is asked for changes only when a request reloads the
configuration or TF Serving restarts (`OnlyReloadConfigures`). What is then asked
for is a prefix of the list, which bounds it, and by `FrontCorrect` the prefix
begins with the model of the request; by `ConfigOfList` nothing of the prefix is
lost in the configuration.

`CacheNodeProofs` proves for every store (`NodeAssumption`: a listing is a
sequence of files and folders, and the size of a model is less than 2^63;
`ProvidersAssumption`):

- `NodeImplementsManager`: `NodeSpec => Spec`. It is not in the definitions: that
  a provider returns a size in `Sizes` takes `SizeInv`; that it writes the copy of
  the request that waits for it, and releases the lock that this request holds,
  takes `NodeInv` and `ManagerInv`
- `NodeSafe`: with it, the theorems about the cache manager hold of the node,
  those about the list until the race
- `WholeCorrect`: `NodeSpec => EntersWhole`
- `NodeTypeCorrect`: `NodeSpec => []NodeTypeOK`
- `SizeCorrect`: `NodeSpec => []SizeExact`

The invariant `NodeInv` says that a provider call belongs to a request that
waits for it, what such a call has written (every file before its page and before
the next object, and in the end every file: `WrittenSoFar` holds with the token
of S3 that stays and with the marker of Azure that moves) and that the copy of a
request in `Put` is whole or gone. The lock is what keeps another request from
truncating it, so the proof rests on `ManagerInv`; that the model which enters is
the one that was loaded is `FrontInv`.

`SizeInv` adds where the call is in its page (`InPage`) and that its total is the
sum of the files up to there, as far as the integer can hold it (`Counted`). The
sum wraps around at every addition and is compared with one that wraps around
once (`Int64OfSum`); of the whole listing it does not wrap around at all
(`Int64IsExact`). An S3 listing of more than a page is counted more
than once, but such a call never ends: in `SizeInv` a call of S3 that has ended
had a listing that fits into a page.

### The proxy node

`TaskHandlerProofs` proves for any number of requests, hosts and keys
(`ProxyAssumption`; for the counters `RequestsAssumption`: the requests that have
come are finitely many):

- `CallsCorrect`: `Spec => []CallsOnOpenConn`
- `PoolCorrect`: `Spec => []PoolExclusive`
- `ProxyTypeCorrect`: `Spec => []TypeOK`
- `FailuresCorrect`: `Spec => []FailuresCounted`

In `PoolInv` the map holds, until `GracefulStop` has returned, only open
connections to the node they are stored under, dialled by a request that keeps
its node; a gRPC call that is not answered keeps `GracefulStop` waiting. That two
requests may dial the same node, and the second overwrite the first, harms
neither.

`CountInv` relates the counters to sets of requests: a counter of failures plus
the requests that may still fail is at most the counter of requests, which is at
most the number of requests that came. `FailuresCounted` alone is not inductive,
since it does not say that a request in progress has room left to be counted as
failed.

`ClusterProofs` proves for any number of nodes, connections, changes, failures
and subsets (`ClusterAssumption`, `ServicesAssumption`, `SubsetsAssumption`):

- `ListenerCorrect`: `Spec => []ListenerServes`
- `ClusterTypeCorrect`: `Spec => []TypeOK`
- `RingCorrect`: `Spec => []RingIsView`

`StepIsLocal` shows that whichever the service, a step does one of eight things
to connection and listeners, and `ListenerInv` is kept by each; it also has that
`Disconnect` is called at most once for each `Connect`, which the types need.
`ViewInv` adds where the list of the only connection of a process is: with the
updater it is what the updater knows, with the listener it is the list received,
and otherwise it is the ring. It needs that the updaters of other connections are
untouched, that ring and maps are empty when a process starts, and that an etcd
response that counts as no update changes nothing (`EtcdNotUpdated`).

### Only model-checked

- Liveness: `EveryFetchEnds`, `RingConverges`, `CrashRemoves`,
  `ConsulDisconnectRemoves`, `EveryRequestAnswered` and `CloseEnds`. They rest on
  fairness, that is on ENABLED, which is out of the prover's reach.
- The runs that show a disagreement: a counterexample needs no proof. `ListRace`
  is only used by one of them.

## Not modelled

- `src/proto/**/*.pb.go`: about 29,500 of the 32,134 lines of Go in the
  repository, generated from the protocol buffers of TensorFlow. They are data
  types and their encoding, have no state or control of this program, and there
  is nothing in them to translate. The code written by hand is some 2,700 lines.
- The health loop of `main`, with `IsHealthy`, `Check` of the providers,
  `SetHealth`: one goroutine copies the result of one probe into one value.
- `Listen` of the proxies and `CacheManager.Close`: opening and closing sockets.
- The metrics of the cache, the metrics endpoint, reading the configuration.
- In the providers: building keys, prefixes and URLs. In the discovery services:
  how a node is formatted and parsed, except that some members do not parse
  (`TaskHandler`).
- `TaskHandler.Close` is modelled although `main` never reaches it: its health
  loop has no exit.

## Plan

Done, in this order: `ModelCache`, `LRUCache`, `LRUCacheProofs`,
`ServingConfig`, `CacheManager`, `CacheManagerProofs`, `Cluster`, `TaskHandler`;
then the three discovery services with their failures, `ModelProviders`,
`CacheNode`, `CacheNodeProofs`, `ListRace`, `TaskHandlerProofs`,
`ClusterProofs`; then `UseOrder`, `NatLemmas`, `ServingConfigProofs`,
`UseOrderProofs` and the theorems for every invariant that was only checked.
Next:

1. Proofs of more than the runs state: what is on disk of a model in the cache,
   and which members a request may be routed to.
2. A composition of proxy node and cache nodes: a request for a model reaches a
   node that serves it, while members come and go.
