-------------------------- MODULE TaskHandlerProofs --------------------------
(***************************************************************************)
(* Theorems about TaskHandler: the connection map of the proxy is used     *)
(* safely by any number of requests, while Close runs, and the counters    *)
(* never count a failure twice or for nothing.                             *)
(***************************************************************************)
EXTENDS TaskHandler, FiniteSetTheorems, TLAPS

Routed == {"lookup", "lock", "dial", "call"}

\* The types of what the connection map depends on.
PoolTypeOK ==
  /\ pc \in [Requests -> {"new", "proxied", "done"} \cup InRPC]
  /\ proto \in [Requests -> Protocols \cup {None}]
  /\ host \in [Requests -> Hosts \cup {NoHost, None}]
  /\ conn \in [Requests -> Requests \cup {None}]
  /\ connMap \in [Hosts \cup {NoHost} -> Requests \cup {None}]
  /\ mutex \in Requests \cup {None}
  /\ open \subseteq Requests
  /\ closing \in {"no", "listener", "drain", "conns", "closed"}

LockHeld == \A r \in Requests : mutex = r <=> pc[r] = "dial"

\* Only a gRPC call that got a node uses the map.
RoutedIsGrpc ==
  \A r \in Requests : pc[r] \in Routed => proto[r] = "grpc" /\ host[r] \in Hosts \cup {NoHost}

\* GracefulStop has waited for the calls.
Drained == \A r \in Requests : proto[r] = "grpc" /\ pc[r] \in InRPC => Accepting

\* A connection that is dialled: its request keeps the node it selected.
Dialled(c) == c \in Requests /\ pc[c] \in {"call", "done"}

\* The map holds connections to the node they are stored for, open until Close
\* gets to them.
PoolSound ==
  \A h \in Hosts \cup {NoHost} :
    connMap[h] # None => /\ Dialled(connMap[h])
                         /\ host[connMap[h]] = h
                         /\ Accepting => connMap[h] \in open

CallSound ==
  \A r \in Requests : pc[r] = "call" => /\ Dialled(conn[r])
                                        /\ conn[r] \in open
                                        /\ host[conn[r]] = host[r]

PoolInv == PoolTypeOK /\ LockHeld /\ RoutedIsGrpc /\ Drained /\ PoolSound /\ CallSound

\* FindNodeForKey returns members of the ring or the zero value.
LEMMA FoundIsHost ==
  ASSUME NEW key, NEW h \in FindNodeForKey(key)
  PROVE  h \in Hosts \cup {NoHost}
<1>1. PICK g : h = serviceFromString(g)
  BY DEF FindNodeForKey
<1>2. QED
  BY <1>1, ProxyAssumption DEF serviceFromString, ProxyAssumption

\* At the start nobody uses the map and it is empty.
LEMMA PoolInit == Init => PoolInv
BY ProxyAssumption
DEF ProxyAssumption, Init, PoolInv, PoolTypeOK, LockHeld, RoutedIsGrpc, Drained, PoolSound, CallSound,
    Routed, InRPC, None, Protocols

\* A step of one request that dials nothing: it leaves the map alone, and keeps
\* its node unless it has just been routed.
LEMMA RequestStep ==
  ASSUME PoolInv, NEW r \in Requests,
         RestRefused(r) \/ ServeHTTP(r) \/ GrpcCall(r) \/ MultiInference(r)
           \/ RestDirector(r) \/ Proxied(r) \/ SelectNode(r) \/ CallReturns(r)
  PROVE  PoolInv'
<1>1. /\ UNCHANGED <<conn, connMap, mutex, open, closing>>
      /\ pc[r] \notin {"done", "dial", "lookup", "lock"}
      /\ \A q \in Requests \ {r} : pc'[q] = pc[q] /\ proto'[q] = proto[q] /\ host'[q] = host[q]
      /\ host'[r] # host[r] => pc[r] = "direct"
  BY DEF RestRefused, ServeHTTP, GrpcCall, MultiInference, RestDirector, Proxied, SelectNode,
         CallReturns, poolVars, Answer, NoClient, PoolInv, PoolTypeOK
<1>2. /\ pc' \in [Requests -> {"new", "proxied", "done"} \cup InRPC]
      /\ proto' \in [Requests -> Protocols \cup {None}]
      /\ host' \in [Requests -> Hosts \cup {NoHost, None}]
      /\ pc'[r] \in {"direct", "proxied", "lookup", "done"}
      /\ pc[r] = "call" => pc'[r] = "done"
  BY FoundIsHost
  DEF RestRefused, ServeHTTP, GrpcCall, MultiInference, RestDirector, Proxied, SelectNode,
      CallReturns, Answer, NoClient, PoolInv, PoolTypeOK, InRPC, Protocols
<1>3. pc'[r] = "lookup" => proto'[r] = "grpc" /\ host'[r] \in Hosts \cup {NoHost} /\ SelectNode(r)
  BY FoundIsHost
  DEF RestRefused, ServeHTTP, GrpcCall, MultiInference, RestDirector, Proxied, SelectNode,
      CallReturns, Answer, NoClient, PoolInv, PoolTypeOK, InRPC, Protocols
<1>4. proto'[r] = "grpc" /\ pc'[r] \in InRPC => Accepting
  BY DEF RestRefused, ServeHTTP, GrpcCall, MultiInference, RestDirector, Proxied, SelectNode,
         CallReturns, Answer, NoClient, PoolInv, PoolTypeOK, InRPC, Protocols, Drained
<1>5. PoolTypeOK' /\ LockHeld' /\ RoutedIsGrpc'
  BY <1>1, <1>2, <1>3 DEF PoolInv, PoolTypeOK, LockHeld, RoutedIsGrpc, Routed
<1>6. Drained'
  BY <1>1, <1>4 DEF PoolInv, Drained, Accepting
<1>7. \A c : Dialled(c) => Dialled(c)' /\ host'[c] = host[c]
  BY <1>1, <1>2 DEF Dialled
<1>8. PoolSound' /\ CallSound'
  BY <1>1, <1>2, <1>7 DEF PoolInv, PoolSound, CallSound, Accepting, Dialled
<1>9. QED
  BY <1>5, <1>6, <1>8 DEF PoolInv

\* A step of a request that looks a connection up, or swaps the locks.
LEMMA LockStep ==
  ASSUME PoolInv, NEW r \in Requests, LookUp(r) \/ SwapLock(r)
  PROVE  PoolInv'
<1>1. UNCHANGED <<proto, host, connMap, open, closing>>
  BY DEF LookUp, SwapLock, poolVars
<1>2. None \notin Requests
  BY ProxyAssumption DEF ProxyAssumption
<1>3. CASE LookUp(r)
  <2>1. proto[r] = "grpc" /\ host[r] \in Hosts \cup {NoHost} /\ Accepting
    BY <1>3 DEF LookUp, PoolInv, RoutedIsGrpc, Routed, Drained, InRPC
  <2>2. PoolTypeOK' /\ LockHeld' /\ RoutedIsGrpc' /\ Drained'
    BY <1>1, <1>3, <2>1
    DEF LookUp, PoolInv, PoolTypeOK, LockHeld, RoutedIsGrpc, Routed, Drained, InRPC, Accepting, poolVars
  <2>3. \A c : Dialled(c) => Dialled(c)'
    BY <1>3 DEF Dialled, LookUp, PoolInv, PoolTypeOK
  <2>4. PoolSound'
    BY <1>1, <2>3 DEF PoolInv, PoolSound, Accepting
  <2>5. CallSound'
    <3>1. SUFFICES ASSUME NEW q \in Requests, pc'[q] = "call"
                   PROVE  Dialled(conn'[q]) /\ conn'[q] \in open /\ host[conn'[q]] = host[q]
      BY <1>1, <2>3 DEF CallSound
    <3>2. CASE q = r
      <4>1. connMap[host[r]] # None /\ conn'[q] = connMap[host[r]]
        BY <1>3, <3>1, <3>2 DEF LookUp, PoolInv, PoolTypeOK
      <4>2. QED
        BY <2>1, <3>2, <4>1 DEF PoolInv, PoolSound
    <3>3. CASE q # r
      BY <1>3, <3>1, <3>3 DEF LookUp, PoolInv, PoolTypeOK, CallSound
    <3>4. QED
      BY <3>2, <3>3
  <2>6. QED
    BY <2>2, <2>4, <2>5 DEF PoolInv
<1>4. CASE SwapLock(r)
  <2>1. proto[r] = "grpc" /\ host[r] \in Hosts \cup {NoHost} /\ Accepting
    BY <1>4 DEF SwapLock, PoolInv, RoutedIsGrpc, Routed, Drained, InRPC
  <2>2. PoolTypeOK' /\ RoutedIsGrpc' /\ Drained'
    BY <1>1, <1>4, <2>1
    DEF SwapLock, PoolInv, PoolTypeOK, RoutedIsGrpc, Routed, Drained, InRPC, Accepting
  <2>3. LockHeld'
    BY <1>2, <1>4 DEF SwapLock, PoolInv, PoolTypeOK, LockHeld
  <2>4. \A c : Dialled(c) => Dialled(c)'
    BY <1>4 DEF Dialled, SwapLock, PoolInv, PoolTypeOK
  <2>5. PoolSound' /\ CallSound'
    BY <1>1, <1>4, <2>4 DEF SwapLock, PoolInv, PoolTypeOK, PoolSound, CallSound, Accepting
  <2>6. QED
    BY <2>2, <2>3, <2>5 DEF PoolInv
<1>5. QED
  BY <1>3, <1>4

\* The request with the write lock dials, or fails to.
LEMMA DialStep ==
  ASSUME PoolInv, NEW r \in Requests, Dial(r) \/ DialFails(r)
  PROVE  PoolInv'
<1>1. /\ pc[r] = "dial" /\ mutex = r /\ mutex' = None
      /\ UNCHANGED <<proto, host, closing>>
      /\ proto[r] = "grpc" /\ host[r] \in Hosts \cup {NoHost} /\ Accepting
  BY DEF Dial, DialFails, PoolInv, LockHeld, RoutedIsGrpc, Routed, Drained, InRPC
<1>2. None \notin Requests
  BY ProxyAssumption DEF ProxyAssumption
<1>3. \A c : Dialled(c) => Dialled(c)'
  BY DEF Dialled, Dial, DialFails, NoClient, Answer, PoolInv, PoolTypeOK
<1>4. LockHeld'
  BY <1>1, <1>2
  DEF Dial, DialFails, NoClient, Answer, PoolInv, PoolTypeOK, LockHeld
<1>5. CASE Dial(r)
  <2>1. PoolTypeOK' /\ RoutedIsGrpc' /\ Drained'
    BY <1>1, <1>5 DEF Dial, PoolInv, PoolTypeOK, RoutedIsGrpc, Routed, Drained, InRPC, Accepting
  <2>2. Dialled(r)'
    BY <1>5 DEF Dial, Dialled, PoolInv, PoolTypeOK
  <2>3. PoolSound' /\ CallSound'
    BY <1>1, <1>3, <1>5, <2>2 DEF Dial, PoolInv, PoolTypeOK, PoolSound, CallSound, Accepting
  <2>4. QED
    BY <1>4, <2>1, <2>3 DEF PoolInv
<1>6. CASE DialFails(r)
  <2>1. PoolTypeOK' /\ RoutedIsGrpc' /\ Drained'
    BY <1>1, <1>6
    DEF DialFails, NoClient, Answer, PoolInv, PoolTypeOK, RoutedIsGrpc, Routed, Drained, InRPC, Accepting
  <2>2. PoolSound' /\ CallSound'
    BY <1>1, <1>3, <1>6
    DEF DialFails, NoClient, Answer, PoolInv, PoolTypeOK, PoolSound, CallSound, Accepting
  <2>3. QED
    BY <1>4, <2>1, <2>2 DEF PoolInv
<1>7. QED
  BY <1>5, <1>6

\* Close and its stages, and a new list of members.
LEMMA CloseStep ==
  ASSUME PoolInv, Close \/ CloseSteps \/ ClusterUpdated
  PROVE  PoolInv'
<1>1. UNCHANGED <<pc, proto, host, conn, connMap, mutex>>
  BY DEF Close, CloseSteps, CloseListener, GracefulStop, CloseReturns, CloseConn, ClusterUpdated,
         CloseTo, poolVars
<1>2. closing' \in {"no", "listener", "drain", "conns", "closed"}
  BY DEF Close, CloseSteps, CloseListener, GracefulStop, CloseReturns, CloseConn, ClusterUpdated,
         CloseTo, PoolInv, PoolTypeOK
<1>3. Accepting' => Accepting /\ UNCHANGED open
  BY DEF Accepting, Close, CloseSteps, CloseListener, GracefulStop, CloseReturns, CloseConn,
         ClusterUpdated, CloseTo, poolVars
<1>4. Accepting /\ ~Accepting' => GracefulStop
  BY DEF Accepting, Close, CloseSteps, CloseListener, GracefulStop, CloseReturns, CloseConn,
         ClusterUpdated, CloseTo
<1>5. open' \subseteq open
  BY DEF Close, CloseSteps, CloseListener, GracefulStop, CloseReturns, CloseConn, ClusterUpdated,
         CloseTo, poolVars
<1>6. Drained'
  BY <1>1, <1>4 DEF PoolInv, Drained, GracefulStop
<1>7. PoolTypeOK' /\ LockHeld' /\ RoutedIsGrpc'
  BY <1>1, <1>2, <1>5 DEF PoolInv, PoolTypeOK, LockHeld, RoutedIsGrpc
<1>8. PoolSound'
  BY <1>1, <1>3 DEF PoolInv, PoolSound, Dialled
<1>9. CallSound'
  <2>1. SUFFICES ASSUME NEW r \in Requests, pc'[r] = "call" PROVE UNCHANGED open
    BY <1>1 DEF PoolInv, CallSound, Dialled
  <2>2. Accepting'
    BY <1>1, <1>6, <2>1 DEF Drained, PoolInv, RoutedIsGrpc, Routed, InRPC
  <2>3. QED
    BY <1>3, <2>2
<1>10. QED
  BY <1>6, <1>7, <1>8, <1>9 DEF PoolInv

\* PoolInv is an invariant of the proxy.
THEOREM PoolInvariant == Spec => []PoolInv
<1>1. Init => PoolInv
  BY PoolInit
<1>2. PoolInv /\ [Next]_vars => PoolInv'
  <2>1. SUFFICES ASSUME PoolInv, [Next]_vars PROVE PoolInv'
    OBVIOUS
  <2>2. CASE UNCHANGED vars
    BY <2>1, <2>2
    DEF vars, poolVars, PoolInv, PoolTypeOK, LockHeld, RoutedIsGrpc, Drained, PoolSound, CallSound,
        Accepting, Dialled
  <2>3. ASSUME NEW r \in Requests,
               \/ RestRefused(r) \/ ServeHTTP(r) \/ GrpcCall(r) \/ MultiInference(r)
               \/ LookUp(r) \/ SwapLock(r) \/ Step(r)
        PROVE  PoolInv'
    BY <2>1, <2>3, RequestStep, LockStep, DialStep DEF Step
  <2>4. CASE Close \/ CloseSteps \/ ClusterUpdated
    BY <2>1, <2>4, CloseStep
  <2>5. QED
    BY <2>1, <2>2, <2>3, <2>4 DEF Next
<1>3. QED
  BY <1>1, <1>2, PTL DEF Spec

\* For any number of requests, hosts and keys: no call is forwarded on a connection
\* that is closed or leads to another node, although grpcConnMap.Close takes no
\* lock (taskhandler.go:57-69).
THEOREM CallsCorrect == Spec => []CallsOnOpenConn
<1>1. PoolInv => CallsOnOpenConn
  BY DEF PoolInv, CallSound, CallsOnOpenConn
<1>2. QED
  BY <1>1, PoolInvariant, PTL

\* For any number of requests: the write lock is held from Lock to Unlock and not
\* longer, and the loop of Close never meets a request that uses the map
\* (taskhandler.go:127-158).
THEOREM PoolCorrect == Spec => []PoolExclusive
<1>1. PoolInv => PoolExclusive
  BY DEF PoolInv, LockHeld, RoutedIsGrpc, Routed, Drained, InRPC, Accepting, PoolExclusive
<1>2. QED
  BY <1>1, PoolInvariant, PTL

-----------------------------------------------------------------------------
(* The counters.                                                           *)

\* The requests that came in by one protocol, and those of them that are still
\* in the code that may count a failure.
Came(p) == {r \in Requests : pc[r] # "new" /\ proto[r] = p}
Pending(p) == {r \in Requests : pc[r] \in InRPC /\ proto[r] = p}
GrpcErrors == {r \in answeredErr : proto[r] = "grpc"}

\* Each request is counted at most once, and the ones that may still fail are
\* counted and have not failed: without them failed <= total is not inductive.
CountInv ==
  /\ total \in [Protocols -> Nat]
  /\ failed \in [Protocols -> Nat]
  /\ answeredErr \subseteq {r \in Requests : pc[r] = "done"}
  /\ \A p \in Protocols : /\ total[p] <= Cardinality(Came(p))
                          /\ failed[p] + Cardinality(Pending(p)) <= total[p]
  /\ failed["grpc"] <= Cardinality(GrpcErrors)

\* What a step of request r, which uses protocol p, does to the counters: dt
\* and df are what it adds to them.
Counts(r, p, dt, df) ==
  /\ pc[r] # "done" /\ pc'[r] # "new"
  /\ proto'[r] = p /\ (pc[r] = "new" \/ proto[r] = p)
  /\ \A q \in Requests \ {r} : pc'[q] = pc[q] /\ proto'[q] = proto[q]
  /\ total' = [total EXCEPT ![p] = @ + dt]
  /\ failed' = [failed EXCEPT ![p] = @ + df]
  /\ answeredErr' = answeredErr \/ (answeredErr' = answeredErr \cup {r} /\ pc'[r] = "done")
  /\ dt = 1 => pc[r] = "new"
  /\ df = 1 \/ pc'[r] \in InRPC => dt = 1 \/ pc[r] \in InRPC
  /\ ~(df = 1 /\ pc'[r] \in InRPC)
  /\ df = 1 /\ p = "grpc" => r \in answeredErr'

\* The sets of requests the invariant counts are finite.
LEMMA CountedFinite ==
  ASSUME NEW T, T \subseteq Requests
  PROVE  IsFiniteSet(T) /\ Cardinality(T) \in Nat /\ Cardinality(T) <= Cardinality(Requests)
BY RequestsAssumption, FS_Subset, FS_CardinalityType DEF RequestsAssumption

\* Such a step keeps the invariant.
LEMMA CountStep ==
  ASSUME CountInv, NEW r \in Requests, NEW p \in Protocols, NEW dt \in {0, 1}, NEW df \in {0, 1},
         Counts(r, p, dt, df)
  PROVE  CountInv'
<1>. USE DEF Counts
<1>1. /\ total' \in [Protocols -> Nat] /\ failed' \in [Protocols -> Nat]
      /\ total'[p] = total[p] + dt /\ failed'[p] = failed[p] + df
      /\ \A o \in Protocols \ {p} : total'[o] = total[o] /\ failed'[o] = failed[o]
      /\ \A o \in Protocols : total[o] \in Nat /\ failed[o] \in Nat
  BY DEF CountInv
<1>2. answeredErr' \subseteq {q \in Requests : pc'[q] = "done"} /\ r \notin answeredErr
  BY DEF CountInv
<1>3. ASSUME NEW o \in Protocols \ {p}
      PROVE  Came(o)' = Came(o) /\ Pending(o)' = Pending(o)
  <2>1. r \notin Came(o)' /\ r \notin Came(o) /\ r \notin Pending(o)' /\ r \notin Pending(o)
    BY DEF Came, Pending, InRPC
  <2>. QED
    BY <2>1 DEF Came, Pending
<1>4. Came(p)' = Came(p) \cup {r} /\ (dt = 1 => r \notin Came(p))
  BY DEF Came
<1>5. Pending(p)' = IF pc'[r] \in InRPC THEN Pending(p) \cup {r} ELSE Pending(p) \ {r}
  BY DEF Pending
<1>6. /\ IsFiniteSet(Came(p)) /\ Cardinality(Came(p)) \in Nat
      /\ IsFiniteSet(Pending(p)) /\ Cardinality(Pending(p)) \in Nat
      /\ IsFiniteSet(GrpcErrors) /\ Cardinality(GrpcErrors) \in Nat
  <2>1. Came(p) \subseteq Requests /\ Pending(p) \subseteq Requests /\ GrpcErrors \subseteq Requests
    BY DEF Came, Pending, GrpcErrors, CountInv
  <2>. QED
    BY <2>1, CountedFinite
<1>7. total'[p] <= Cardinality(Came(p)')
  <2>1. Cardinality(Came(p) \cup {r}) = IF r \in Came(p) THEN Cardinality(Came(p))
                                        ELSE Cardinality(Came(p)) + 1
    BY <1>6, FS_AddElement
  <2>2. total[p] <= Cardinality(Came(p))
    BY DEF CountInv
  <2>. QED
    BY <1>1, <1>4, <1>6, <2>1, <2>2
<1>8. failed'[p] + Cardinality(Pending(p)') <= total'[p]
  <2>1. /\ Cardinality(Pending(p) \cup {r}) = IF r \in Pending(p) THEN Cardinality(Pending(p))
                                              ELSE Cardinality(Pending(p)) + 1
        /\ Cardinality(Pending(p) \ {r}) = IF r \in Pending(p) THEN Cardinality(Pending(p)) - 1
                                           ELSE Cardinality(Pending(p))
    BY <1>6, FS_AddElement, FS_RemoveElement
  <2>2. failed[p] + Cardinality(Pending(p)) <= total[p]
    BY DEF CountInv
  <2>3. r \in Pending(p) <=> pc[r] \in InRPC
    BY DEF Pending, InRPC
  <2>4. CASE pc'[r] \in InRPC
    <3>1. df = 0 /\ (dt = 1 \/ r \in Pending(p))
      BY <2>3, <2>4
    <3>. QED
      BY <1>1, <1>5, <1>6, <2>1, <2>2, <2>4, <3>1
  <2>5. CASE pc'[r] \notin InRPC
    <3>1. df = 1 => (dt = 1 \/ r \in Pending(p))
      BY <2>3
    <3>. QED
      BY <1>1, <1>5, <1>6, <2>1, <2>2, <2>5, <3>1
  <2>. QED
    BY <2>4, <2>5
<1>9. failed'["grpc"] <= Cardinality(GrpcErrors')
  <2>1. CASE p = "grpc" /\ r \in answeredErr'
    <3>1. GrpcErrors' = GrpcErrors \cup {r} /\ r \notin GrpcErrors
      BY <1>2, <2>1 DEF GrpcErrors, CountInv
    <3>2. Cardinality(GrpcErrors') = Cardinality(GrpcErrors) + 1
      BY <1>6, <3>1, FS_AddElement
    <3>3. failed["grpc"] <= Cardinality(GrpcErrors)
      BY DEF CountInv
    <3>. QED
      BY <1>1, <1>6, <2>1, <3>2, <3>3
  <2>2. CASE ~(p = "grpc" /\ r \in answeredErr')
    <3>1. GrpcErrors' = GrpcErrors
      BY <1>2, <2>2 DEF GrpcErrors, CountInv
    <3>2. failed'["grpc"] = failed["grpc"]
      BY <1>1, <2>2 DEF Protocols
    <3>. QED
      BY <3>1, <3>2 DEF CountInv
  <2>. QED
    BY <2>1, <2>2
<1>10. ASSUME NEW o \in Protocols
       PROVE  /\ total'[o] <= Cardinality(Came(o)')
              /\ failed'[o] + Cardinality(Pending(o)') <= total'[o]
  <2>1. CASE o = p
    BY <1>7, <1>8, <2>1
  <2>2. CASE o # p
    BY <1>1, <1>3, <2>2 DEF CountInv
  <2>. QED
    BY <2>1, <2>2
<1>. QED
  BY <1>1, <1>2, <1>9, <1>10 DEF CountInv

\* Every step of a request is of that form.
LEMMA RequestCounts ==
  ASSUME PoolInv, CountInv, NEW r \in Requests,
         \/ RestRefused(r) \/ ServeHTTP(r) \/ GrpcCall(r) \/ MultiInference(r)
         \/ LookUp(r) \/ SwapLock(r) \/ Step(r)
  PROVE  CountInv'
<1>0. /\ "rest" \in Protocols /\ "grpc" \in Protocols
      /\ pc \in [Requests -> {"new", "proxied", "done"} \cup InRPC]
      /\ proto \in [Requests -> Protocols \cup {None}]
      /\ total \in [Protocols -> Nat] /\ failed \in [Protocols -> Nat]
  BY DEF Protocols, PoolInv, PoolTypeOK, CountInv
<1>1. \A p \in Protocols : /\ total = [total EXCEPT ![p] = @ + 0]
                           /\ failed = [failed EXCEPT ![p] = @ + 0]
  BY <1>0
<1>. USE DEF Inc, InRPC
<1>2. CASE RestRefused(r)
  <2>1. Counts(r, "rest", 1, 1)
    BY <1>0, <1>2 DEF RestRefused, Counts, Answer
  <2>. QED
    BY <1>0, <2>1, CountStep
<1>3. CASE ServeHTTP(r)
  <2>1. Counts(r, "rest", 1, 0)
    BY <1>0, <1>1, <1>3 DEF ServeHTTP, Counts
  <2>. QED
    BY <1>0, <2>1, CountStep
<1>4. CASE GrpcCall(r)
  <2>1. Counts(r, "grpc", 1, 0)
    BY <1>0, <1>1, <1>4 DEF GrpcCall, Counts
  <2>. QED
    BY <1>0, <2>1, CountStep
<1>5. CASE MultiInference(r)
  <2>1. Counts(r, "grpc", 0, 0)
    BY <1>0, <1>1, <1>5 DEF MultiInference, Counts, Answer
  <2>. QED
    BY <1>0, <2>1, CountStep
<1>6. CASE LookUp(r) \/ SwapLock(r)
  <2>1. pc[r] \in Routed /\ proto[r] = "grpc"
    BY <1>6 DEF LookUp, SwapLock, PoolInv, RoutedIsGrpc, Routed
  <2>2. Counts(r, "grpc", 0, 0)
    BY <1>0, <1>1, <1>6, <2>1 DEF LookUp, SwapLock, Counts, counters, Routed
  <2>. QED
    BY <1>0, <2>2, CountStep
<1>7. CASE RestDirector(r)
  <2>1. Counts(r, "rest", 0, 1)
    BY <1>0, <1>1, <1>7 DEF RestDirector, Counts
  <2>. QED
    BY <1>0, <2>1, CountStep
<1>8. CASE Proxied(r)
  <2>1. /\ total' = total /\ failed' = failed /\ proto' = proto
        /\ pc[r] = "proxied" /\ pc' = [pc EXCEPT ![r] = "done"]
        /\ answeredErr' \in {answeredErr, answeredErr \cup {r}}
    BY <1>8 DEF Proxied, Answer
  <2>2. \A p : Came(p)' = Came(p) /\ Pending(p)' = Pending(p)
    BY <1>0, <2>1 DEF Came, Pending
  <2>3. answeredErr' \subseteq {q \in Requests : pc'[q] = "done"}
    BY <1>0, <2>1 DEF CountInv
  <2>4. failed["grpc"] <= Cardinality(GrpcErrors')
    <3>1. GrpcErrors \subseteq GrpcErrors' /\ GrpcErrors' \subseteq Requests
      BY <2>1, <2>3 DEF GrpcErrors
    <3>2. /\ IsFiniteSet(GrpcErrors') /\ Cardinality(GrpcErrors) \in Nat
          /\ Cardinality(GrpcErrors') \in Nat
      BY <3>1, CountedFinite
    <3>3. Cardinality(GrpcErrors) <= Cardinality(GrpcErrors')
      BY <3>1, <3>2, FS_Subset
    <3>4. failed["grpc"] <= Cardinality(GrpcErrors) /\ failed["grpc"] \in Nat
      BY <1>0 DEF CountInv
    <3>. QED
      BY <3>2, <3>3, <3>4
  <2>. QED
    BY <2>1, <2>2, <2>3, <2>4 DEF CountInv
<1>9. CASE SelectNode(r)
  <2>1. Counts(r, "grpc", 0, 0) \/ Counts(r, "grpc", 0, 1)
    BY <1>0, <1>1, <1>9 DEF SelectNode, Counts, NoClient, Answer, counters
  <2>. QED
    BY <1>0, <2>1, CountStep
<1>10. CASE Dial(r) \/ CallReturns(r)
  <2>1. pc[r] \in Routed /\ proto[r] = "grpc"
    BY <1>10 DEF Dial, CallReturns, PoolInv, RoutedIsGrpc, Routed
  <2>2. Counts(r, "grpc", 0, 0)
    BY <1>0, <1>1, <1>10, <2>1 DEF Dial, CallReturns, Counts, counters, Routed, Answer
  <2>. QED
    BY <1>0, <2>2, CountStep
<1>11. CASE DialFails(r)
  <2>1. pc[r] \in Routed /\ proto[r] = "grpc"
    BY <1>11 DEF DialFails, PoolInv, RoutedIsGrpc, Routed
  <2>2. Counts(r, "grpc", 0, 1)
    BY <1>0, <1>1, <1>11, <2>1 DEF DialFails, NoClient, Counts, Routed, Answer
  <2>. QED
    BY <1>0, <2>2, CountStep
<1>. QED
  BY <1>2, <1>3, <1>4, <1>5, <1>6, <1>7, <1>8, <1>9, <1>10, <1>11 DEF Step

\* The counters keep their invariant, and the ring holds hosts.
THEOREM CountInvariant == Spec => [](CountInv /\ consistent \subseteq Hosts)
<1>1. Init => CountInv /\ consistent \subseteq Hosts
  <2>. SUFFICES ASSUME Init PROVE CountInv /\ consistent \subseteq Hosts
    OBVIOUS
  <2>1. \A p : Came(p) = {} /\ Pending(p) = {}
    BY DEF Init, Came, Pending, InRPC
  <2>2. GrpcErrors = {}
    BY DEF Init, GrpcErrors
  <2>. QED
    BY <2>1, <2>2, FS_EmptySet DEF Init, CountInv, Protocols
<1>2. PoolInv /\ CountInv /\ consistent \subseteq Hosts /\ [Next]_vars
        => CountInv' /\ (consistent \subseteq Hosts)'
  <2>. SUFFICES ASSUME PoolInv, CountInv, consistent \subseteq Hosts, [Next]_vars
                PROVE  CountInv' /\ consistent' \subseteq Hosts
    OBVIOUS
  <2>1. ASSUME NEW r \in Requests,
               \/ RestRefused(r) \/ ServeHTTP(r) \/ GrpcCall(r) \/ MultiInference(r)
               \/ LookUp(r) \/ SwapLock(r) \/ Step(r)
        PROVE  CountInv' /\ consistent' \subseteq Hosts
    <3>1. consistent' = consistent
      BY <2>1 DEF RestRefused, ServeHTTP, GrpcCall, MultiInference, LookUp, SwapLock, Step,
                  RestDirector, Proxied, SelectNode, Dial, DialFails, CallReturns
    <3>. QED
      BY <2>1, <3>1, RequestCounts
  <2>2. CASE Close \/ CloseSteps \/ ClusterUpdated \/ UNCHANGED vars
    <3>1. UNCHANGED <<pc, proto, total, failed, answeredErr>> /\ consistent' \subseteq Hosts
      BY <2>2 DEF Close, CloseSteps, CloseListener, GracefulStop, CloseReturns, CloseConn,
                  ClusterUpdated, CloseTo, counters, vars
    <3>. QED
      BY <3>1 DEF CountInv, Came, Pending, GrpcErrors
  <2>. QED
    BY <2>1, <2>2 DEF Next
<1>. QED
  BY <1>1, <1>2, PoolInvariant, PTL DEF Spec

\* Every state of the proxy is well typed; in particular no counter passes the
\* number of requests (taskhandler.go:20-31, tfservingproxy.go:25-32).
THEOREM ProxyTypeCorrect == Spec => []TypeOK
<1>1. PoolInv /\ CountInv /\ consistent \subseteq Hosts => TypeOK
  <2>. SUFFICES ASSUME PoolInv, CountInv, consistent \subseteq Hosts PROVE TypeOK
    OBVIOUS
  <2>1. Cardinality(Requests) \in Nat
    BY CountedFinite
  <2>2. ASSUME NEW p \in Protocols
        PROVE  total[p] \in 0..Cardinality(Requests) /\ failed[p] \in 0..Cardinality(Requests)
    <3>1. /\ Cardinality(Came(p)) \in Nat /\ Cardinality(Came(p)) <= Cardinality(Requests)
          /\ Cardinality(Pending(p)) \in Nat
      <4>1. Came(p) \subseteq Requests /\ Pending(p) \subseteq Requests
        BY DEF Came, Pending
      <4>. QED
        BY <4>1, CountedFinite
    <3>2. /\ total[p] \in Nat /\ failed[p] \in Nat
          /\ total[p] <= Cardinality(Came(p))
          /\ failed[p] + Cardinality(Pending(p)) <= total[p]
      BY DEF CountInv
    <3>. QED
      BY <2>1, <3>1, <3>2
  <2>3. /\ total \in [Protocols -> 0..Cardinality(Requests)]
        /\ failed \in [Protocols -> 0..Cardinality(Requests)]
    BY <2>2 DEF CountInv
  <2>. QED
    BY <2>3 DEF TypeOK, PoolInv, PoolTypeOK, CountInv
<1>. QED
  BY <1>1, PoolInvariant, CountInvariant, PTL

\* Every gRPC failure that is counted was answered with an error, and no
\* request is counted as failed that was not counted, or counted so twice, by
\* any interleaving of the handlers (tfservingproxy.go:54-238,
\* taskhandler.go:95-146).
THEOREM FailuresCorrect == Spec => []FailuresCounted
<1>1. CountInv => FailuresCounted
  <2>. SUFFICES ASSUME CountInv PROVE FailuresCounted
    OBVIOUS
  <2>1. ASSUME NEW p \in Protocols
        PROVE  failed[p] <= total[p]
    <3>1. Pending(p) \subseteq Requests
      BY DEF Pending
    <3>2. Cardinality(Pending(p)) \in Nat
      BY <3>1, CountedFinite
    <3>. QED
      BY <3>2 DEF CountInv
  <2>. QED
    BY <2>1 DEF CountInv, FailuresCounted, GrpcErrors
<1>. QED
  BY <1>1, CountInvariant, PTL
=============================================================================
