----------------------------- MODULE TaskHandler -----------------------------
(***************************************************************************)
(* The proxy node: RestProxy and GrpcProxy (pkg/tfservingproxy) with the   *)
(* directors of taskhandler/taskhandler.go.  A request is counted, routed  *)
(* to a member of the hash ring and forwarded; gRPC requests share a map   *)
(* of client connections, guarded by a RWMutex.  Close drains the gRPC     *)
(* server and then closes the connections in the map.                      *)
(*                                                                         *)
(* A request is handled once and dials at most one connection, so it also  *)
(* names the connection it dialled.  The mutex is modelled by its writer;  *)
(* the read section (one map lookup) is one step.                          *)
(***************************************************************************)
EXTENDS Naturals, Sequences, FiniteSets

CONSTANTS
  Requests,
  Keys,              \* the models asked for (modelName ## version)
  Hosts,             \* what may be on the hash ring
  Valid,             \* the ones serviceFromString can parse: it splits at ":",
                     \* so not those with an IPv6 address
  Preference,        \* external: for each key the order in which the circle
                     \* of hashes meets the hosts, clockwise from the key
  ReplicasPerModel

None == "none"

ASSUME ProxyAssumption ==
  /\ None \notin Requests
  /\ Valid \subseteq Hosts
  /\ ReplicasPerModel \in Nat
  /\ \A k \in Keys : /\ Preference[k] \in [1..Cardinality(Hosts) -> Hosts]
                     /\ \A h \in Hosts : \E i \in DOMAIN Preference[k] : Preference[k][i] = h

\* The requests of a run of the process can be counted.
ASSUME RequestsAssumption == IsFiniteSet(Requests)

VARIABLES
  pc,          \* where each request is
  proto,       \* how it came
  host,        \* the node selected for it
  conn,        \* the connection it uses
  connMap,     \* grpcConnections.ConnMap
  mutex,       \* the request that holds its write lock
  open,        \* the connections that were dialled and not closed
  consistent,  \* the members on the hash ring
  closing,     \* where Close is
  total,       \* promRequestsTotal
  failed,      \* promRequestsFailed
  answeredErr  \* history: the requests that got an error for an answer

poolVars == <<connMap, mutex, open>>
counters == <<total, failed, answeredErr>>
vars == <<pc, proto, host, conn, poolVars, consistent, closing, counters>>

Protocols == {"rest", "grpc"}

\* ServingService{}: no host name, port 0.
NoHost == "zero service"

InRPC == {"direct", "lookup", "lock", "dial", "call"}

TypeOK ==
  /\ pc \in [Requests -> {"new", "proxied", "done"} \cup InRPC]
  /\ proto \in [Requests -> Protocols \cup {None}]
  /\ host \in [Requests -> Hosts \cup {NoHost, None}]
  /\ conn \in [Requests -> Requests \cup {None}]
  /\ connMap \in [Hosts \cup {NoHost} -> Requests \cup {None}]
  /\ mutex \in Requests \cup {None}
  /\ open \subseteq Requests
  /\ consistent \subseteq Hosts
  /\ closing \in {"no", "listener", "drain", "conns", "closed"}
  /\ total \in [Protocols -> 0..Cardinality(Requests)]
  /\ failed \in [Protocols -> 0..Cardinality(Requests)]
  /\ answeredErr \subseteq Requests

Init ==
  /\ pc = [r \in Requests |-> "new"]
  /\ proto = [r \in Requests |-> None]
  /\ host = [r \in Requests |-> None]
  /\ conn = [r \in Requests |-> None]
  /\ connMap = [h \in Hosts \cup {NoHost} |-> None]
  /\ mutex = None
  /\ open = {}
  /\ consistent = {}
  /\ closing = "no"
  /\ total = [p \in Protocols |-> 0]
  /\ failed = [p \in Protocols |-> 0]
  /\ answeredErr = {}

Inc(c, p) == [c EXCEPT ![p] = @ + 1]

\* A request is over.
Answer(r, isErr) ==
  /\ pc' = [pc EXCEPT ![r] = "done"]
  /\ answeredErr' = IF isErr THEN answeredErr \cup {r} ELSE answeredErr

-----------------------------------------------------------------------------
(* Routing.                                                                *)

\* GetN of the hash ring: the first n distinct members after the key.
GetN(key, n) ==
  LET members == SelectSeq(Preference[key], LAMBDA h : h \in consistent)
  IN  {members[i] : i \in {j \in DOMAIN members : j <= n}}

serviceFromString(h) == IF h \in Valid THEN h ELSE NoHost

\* FindNodeForKey: a member that does not parse is logged and kept, as the zero
\* value.
FindNodeForKey(key) ==
  {serviceFromString(h) : h \in GetN(key, IF ReplicasPerModel > 1 THEN ReplicasPerModel ELSE 1)}

-----------------------------------------------------------------------------
(* REST: RestProxy.Serve and the directors.                                *)

Mut_RefusedTwice(r) ==
  /\ pc[r] = "new"
  /\ proto' = [proto EXCEPT ![r] = "rest"]
  /\ total' = Inc(total, "rest")
  /\ failed' = Inc(Inc(failed, "rest"), "rest")
  /\ Answer(r, TRUE)
  /\ UNCHANGED <<host, conn, poolVars, consistent, closing>>

\* Not the URL of a model, or no version: 404 or 400.
RestRefused(r) ==
  /\ pc[r] = "new"
  /\ proto' = [proto EXCEPT ![r] = "rest"]
  /\ total' = Inc(total, "rest")
  /\ failed' = Inc(failed, "rest")
  /\ Answer(r, TRUE)
  /\ UNCHANGED <<host, conn, poolVars, consistent, closing>>

\* A valid request reaches the director.
ServeHTTP(r) ==
  /\ pc[r] = "new"
  /\ pc' = [pc EXCEPT ![r] = "direct"]
  /\ proto' = [proto EXCEPT ![r] = "rest"]
  /\ total' = Inc(total, "rest")
  /\ UNCHANGED <<host, conn, poolVars, consistent, closing, failed, answeredErr>>

\* The director has no way to stop the request: on an error it leaves the URL
\* as it is, without a host.  It counts a failure in both of its branches.
RestDirector(r) ==
  /\ pc[r] = "direct" /\ proto[r] = "rest"
  /\ \E key \in Keys :
       \/ FindNodeForKey(key) = {} /\ host' = [host EXCEPT ![r] = NoHost]
       \/ \E h \in FindNodeForKey(key) : host' = [host EXCEPT ![r] = h]
  /\ pc' = [pc EXCEPT ![r] = "proxied"]
  /\ failed' = Inc(failed, "rest")
  /\ UNCHANGED <<proto, conn, poolVars, consistent, closing, total, answeredErr>>

\* ReverseProxy answers with what the node answers, or with 502.
Proxied(r) ==
  /\ pc[r] = "proxied"
  /\ \/ host[r] # NoHost /\ Answer(r, FALSE)
     \/ Answer(r, TRUE)
  /\ UNCHANGED <<proto, host, conn, poolVars, consistent, closing, total, failed>>

-----------------------------------------------------------------------------
(* gRPC: the methods of proxyServiceServer and grpcDirector.               *)

\* Clients keep their connections after the listener is closed.
Accepting == closing \in {"no", "listener", "drain"}

\* Classify, Regress, Predict, GetModelMetadata and SessionRun.
GrpcCall(r) ==
  /\ pc[r] = "new" /\ Accepting
  /\ pc' = [pc EXCEPT ![r] = "direct"]
  /\ proto' = [proto EXCEPT ![r] = "grpc"]
  /\ total' = Inc(total, "grpc")
  /\ UNCHANGED <<host, conn, poolVars, consistent, closing, failed, answeredErr>>

\* Refused, and counted nowhere.
MultiInference(r) ==
  /\ pc[r] = "new" /\ Accepting
  /\ proto' = [proto EXCEPT ![r] = "grpc"]
  /\ Answer(r, TRUE)
  /\ UNCHANGED <<host, conn, poolVars, consistent, closing, total, failed>>

\* grpcDirector returns an error.
NoClient(r) == Answer(r, TRUE) /\ failed' = Inc(failed, "grpc") /\ UNCHANGED total

SelectNode(r) ==
  /\ pc[r] = "direct" /\ proto[r] = "grpc"
  /\ \E key \in Keys :
       \/ /\ FindNodeForKey(key) = {}
          /\ NoClient(r)
          /\ UNCHANGED host
       \/ \E h \in FindNodeForKey(key) :
            /\ host' = [host EXCEPT ![r] = h]
            /\ pc' = [pc EXCEPT ![r] = "lookup"]
            /\ UNCHANGED counters
  /\ UNCHANGED <<proto, conn, poolVars, consistent, closing>>

\* RLock, look the connection up, RUnlock.
LookUp(r) ==
  /\ pc[r] = "lookup"
  /\ mutex = None
  /\ conn' = [conn EXCEPT ![r] = connMap[host[r]]]
  /\ pc' = [pc EXCEPT ![r] = IF connMap[host[r]] = None THEN "lock" ELSE "call"]
  /\ UNCHANGED <<proto, host, poolVars, consistent, closing, counters>>

SwapLock(r) ==
  /\ pc[r] = "lock"
  /\ mutex = None
  /\ mutex' = r
  /\ pc' = [pc EXCEPT ![r] = "dial"]
  /\ UNCHANGED <<proto, host, conn, connMap, open, consistent, closing, counters>>

\* The map is not looked at again.
Dial(r) ==
  /\ pc[r] = "dial"
  /\ open' = open \cup {r}
  /\ connMap' = [connMap EXCEPT ![host[r]] = r]
  /\ conn' = [conn EXCEPT ![r] = r]
  /\ mutex' = None
  /\ pc' = [pc EXCEPT ![r] = "call"]
  /\ UNCHANGED <<proto, host, consistent, closing, counters>>

Mut_DialFailsKeepsLock(r) ==
  /\ pc[r] = "dial"
  /\ NoClient(r)
  /\ UNCHANGED <<proto, host, conn, connMap, mutex, open, consistent, closing>>

Mut_DialFailsStores(r) ==
  /\ pc[r] = "dial"
  /\ mutex' = None
  /\ connMap' = [connMap EXCEPT ![host[r]] = r]
  /\ NoClient(r)
  /\ UNCHANGED <<proto, host, conn, open, consistent, closing>>

DialFails(r) ==
  /\ pc[r] = "dial"
  /\ mutex' = None
  /\ NoClient(r)
  /\ UNCHANGED <<proto, host, conn, connMap, open, consistent, closing>>

Mut_CountsEveryCall(r) ==
  /\ pc[r] = "call"
  /\ \/ host[r] # NoHost /\ Answer(r, FALSE)
     \/ Answer(r, TRUE)
  /\ failed' = Inc(failed, "grpc")
  /\ UNCHANGED <<proto, host, conn, poolVars, consistent, closing, total>>

\* The forwarded call returns.  Its error is passed on, not counted.
CallReturns(r) ==
  /\ pc[r] = "call"
  /\ \/ host[r] # NoHost /\ Answer(r, FALSE)
     \/ Answer(r, TRUE)
  /\ UNCHANGED <<proto, host, conn, poolVars, consistent, closing, total, failed>>

-----------------------------------------------------------------------------
(* Close, and the cluster.                                                 *)

CloseTo(from, to) == /\ closing = from
                     /\ closing' = to
                     /\ UNCHANGED <<pc, proto, host, conn, poolVars, consistent, counters>>

\* DisconnectFromCluster: the ring keeps its members.
Close == CloseTo("no", "listener")

CloseListener == CloseTo("listener", "drain")

Mut_StopsAtOnce == CloseTo("drain", "conns")

\* GracefulStop returns when no call is in progress (external).
GracefulStop == /\ \A r \in Requests : proto[r] = "grpc" => pc[r] \notin InRPC
                /\ CloseTo("drain", "conns")

Pooled == {connMap[h] : h \in DOMAIN connMap} \ {None}

\* grpcConnMap.Close, one connection at a time, without the mutex.
CloseConn(c) == /\ closing = "conns"
                /\ c \in Pooled \cap open
                /\ open' = open \ {c}
                /\ UNCHANGED <<pc, proto, host, conn, connMap, mutex, consistent, closing, counters>>

CloseReturns == Pooled \cap open = {} /\ CloseTo("conns", "closed")

\* clusterUpdated sets a new list of members.
ClusterUpdated == /\ \E members \in SUBSET Hosts \ {consistent} : consistent' = members
                  /\ UNCHANGED <<pc, proto, host, conn, poolVars, closing, counters>>

-----------------------------------------------------------------------------
Step(r) == \/ RestDirector(r) \/ Proxied(r)
           \/ SelectNode(r) \/ Dial(r) \/ DialFails(r) \/ CallReturns(r)

CloseSteps == CloseListener \/ GracefulStop \/ CloseReturns \/ \E c \in Requests : CloseConn(c)

Next == \/ \E r \in Requests : \/ RestRefused(r) \/ ServeHTTP(r)
                               \/ GrpcCall(r) \/ MultiInference(r)
                               \/ LookUp(r) \/ SwapLock(r) \/ Step(r)
        \/ Close
        \/ CloseSteps
        \/ ClusterUpdated

\* Goroutines run, the calls they make return, and RWMutex lets no one wait
\* forever.  No one has to send a request or call Close.
Fairness == /\ \A r \in Requests : WF_vars(Step(r)) /\ SF_vars(LookUp(r)) /\ SF_vars(SwapLock(r))
            /\ WF_vars(CloseSteps)

Spec == Init /\ [][Next]_vars /\ Fairness

-----------------------------------------------------------------------------
\* A call is only ever forwarded on a connection that is open and leads to the
\* node selected for it: the map never holds a connection of another node or
\* one that was not established, and Close (taskhandler.go:57-69) closes none
\* that a call still uses, although grpcConnMap.Close takes no lock.
CallsOnOpenConn ==
  \A r \in Requests : pc[r] = "call" => conn[r] \in open /\ host[conn[r]] = host[r]

\* The write lock is held by exactly the request between Lock and the deferred
\* Unlock, and whoever closes connections meets neither a reader nor a writer
\* of the map (taskhandler.go:127-146, 149-158).
PoolExclusive ==
  /\ \A r \in Requests : mutex = r <=> pc[r] = "dial"
  /\ closing \in {"conns", "closed"} =>
       \A r \in Requests : pc[r] \notin {"lookup", "lock", "dial"}

\* A gRPC request counted as failed was answered with an error, and no request
\* is counted as failed that was not counted at all.
FailuresCounted ==
  /\ failed["grpc"] <= Cardinality({r \in answeredErr : proto[r] = "grpc"})
  /\ \A p \in Protocols : failed[p] <= total[p]

\* Every request that came in is answered.
EveryRequestAnswered == \A r \in Requests : pc[r] # "new" ~> pc[r] = "done"

\* Close returns: the calls it waits for end, and the loop over the map too.
CloseEnds == closing # "no" ~> closing = "closed"

-----------------------------------------------------------------------------
(* What a comment says, and the code does not do.                          *)

\* "Check if connection exists - otherwise create new connection"
\* (taskhandler.go:126): a node never has two open connections.
OneConnPerHost == \A c, d \in open : host[c] = host[d] => c = d
=============================================================================
