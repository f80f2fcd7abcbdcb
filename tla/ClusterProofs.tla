---------------------------- MODULE ClusterProofs ----------------------------
(***************************************************************************)
(* A connected node always has a listener for its current channel, and on  *)
(* the only connection of a process the ring is what the updater knows,    *)
(* once no list is on its way, under every discovery service, for any      *)
(* number of nodes, connections, failures and crashes.                     *)
(***************************************************************************)
EXTENDS Cluster, SequenceTheorems, NatLemmas, TLAPS

Listening == {"check", "receive", "set"}

\* ListenerServes is inductive together with the types and with the fact that
\* Disconnect is called at most once for each Connect.
ListenerInv ==
  /\ State \in {"Ready", "Started"}
  /\ connects \in 0..MaxConnects
  /\ listener \in [Conn -> {"off", "exited"} \cup Listening]
  /\ unregister \in 0..connects
  /\ State = "Started" => /\ unregister < connects
                          /\ clusterChan = connects
                          /\ listener[connects] \in Listening

\* What a step may do to connection and listeners.
LocalStep ==
  \/ \E start \in Updater : Connect(start)
  \/ Disconnect
  \/ Crash
  \/ Unregister
  \/ \E i \in Conn : ListenerChecks(i) \/ ListenerSets(i) \/ \E l \in Conn : Deliver(i, l)
  \/ UNCHANGED <<localVars, listener>>

\* No discovery service does anything else to them.
LEMMA StepIsLocal == [Next]_vars => LocalStep
<1>1. EtcdNext => LocalStep
  BY DEF EtcdNext, EtcdConnect, EtcdUnregister, EtcdCrash, EtcdReads, Publish, EtcdWatchFails,
         EtcdHeartbeat, EtcdLeaseExpires, LocalStep, Updater, localVars, listenerVars
<1>2. ConsulNext => LocalStep
  BY DEF ConsulNext, ConsulConnect, ConsulUnregister, ConsulCrash, ConsulPolls, Publish,
         ConsulHeartbeat, ConsulExpires, LocalStep, Updater, localVars, listenerVars
<1>3. K8sNext => LocalStep
  BY DEF K8sNext, K8sConnect, K8sUnregister, K8sCrash, K8sSync, K8sDelete, K8sOpens,
         K8sOpenFails, K8sWatchEnds, K8sReads, Publish, LocalStep, Updater, localVars, listenerVars
<1>4. ConnNext => LocalStep
  BY DEF ConnNext, IndexChan, NodeChanges, LocalStep, localVars, listenerVars
<1>5. UNCHANGED vars => LocalStep
  BY DEF vars, connVars, localVars, listenerVars, LocalStep
<1>. QED
  BY <1>1, <1>2, <1>3, <1>4, <1>5 DEF Next, Etcd, Consul, K8s, Any

\* These steps keep the invariant.
LEMMA LocalKeeps == ListenerInv /\ LocalStep => ListenerInv'
<1>. SUFFICES ASSUME ListenerInv, LocalStep PROVE ListenerInv'
  OBVIOUS
<1>. USE ClusterAssumption DEF ClusterAssumption, ListenerInv, Conn, Listening
<1>1. ASSUME NEW start \in Updater, Connect(start)
      PROVE  ListenerInv'
  BY <1>1 DEF Connect
<1>2. CASE Disconnect
  BY <1>2 DEF Disconnect, listenerVars
<1>3. CASE Crash
  BY <1>3 DEF Crash
<1>4. ASSUME NEW i \in Conn, ListenerChecks(i)
      PROVE  ListenerInv'
  BY <1>4 DEF ListenerChecks, localVars
<1>5. ASSUME NEW i \in Conn, ListenerSets(i)
      PROVE  ListenerInv'
  BY <1>5 DEF ListenerSets, localVars
<1>6. ASSUME NEW i \in Conn, NEW l \in Conn, Deliver(i, l)
      PROVE  ListenerInv'
  BY <1>6 DEF Deliver, localVars
<1>7. CASE Unregister
  BY <1>7 DEF Unregister, listenerVars
<1>8. CASE UNCHANGED <<localVars, listener>>
  BY <1>8 DEF localVars
<1>. QED
  BY <1>1, <1>2, <1>3, <1>4, <1>5, <1>6, <1>7, <1>8 DEF LocalStep

\* It holds before the first Connect.
LEMMA ListenerStarts == Init => ListenerInv
BY ClusterAssumption DEF ClusterAssumption, Init, ConnInit, ListenerInv, Conn, Listening

\* However often a node connects and disconnects, watches fail and the process
\* crashes: while it is connected, the channel that updates are sent to is the
\* one of the last Connect, and its listener runs (cluster.go:57-111).
THEOREM ListenerCorrect == Spec => []ListenerServes
<1>1. Init => ListenerInv
  BY ListenerStarts
<1>2. ListenerInv /\ [Next]_vars => ListenerInv'
  BY StepIsLocal, LocalKeeps
<1>3. ListenerInv => ListenerServes
  BY DEF ListenerInv, ListenerServes, Listening
<1>. QED
  BY <1>1, <1>2, <1>3, PTL DEF Spec

-----------------------------------------------------------------------------
(* Types.                                                                  *)

\* Connect keeps the types of the connection.
LEMMA ConnectTyped ==
  ASSUME ConnTypeOK, NEW start \in Updater \ {"off"}, Connect(start), beating' \in BOOLEAN
  PROVE  ConnTypeOK'
BY ClusterAssumption DEF ConnTypeOK, Connect, ClusterAssumption, Conn, worldVars

\* Publish keeps the types of the connection.
LEMMA PublishTyped ==
  ASSUME ConnTypeOK, NEW i \in Conn, NEW ns \in SUBSET Nodes, NEW b, updater[i] = "read", Publish(i, ns, b)
  PROVE  ConnTypeOK'
<1>. USE DEF ConnTypeOK, Publish, localVars, listenerVars, worldVars
<1>1. nodeMap' \in [Conn -> SUBSET Nodes]
  OBVIOUS
<1>2. updater' \in [Conn -> Updater] /\ \A j \in Conn : listener'[j] = "off" <=> updater'[j] = "off"
  BY DEF Updater
<1>3. sending' \in [Conn -> [chan : 0..MaxConnects, list : SUBSET Nodes]]
  <2>1. [chan |-> 0, list |-> ns] \in [chan : 0..MaxConnects, list : SUBSET Nodes]
    BY ClusterAssumption DEF ClusterAssumption
  <2>. QED
    BY <2>1
<1>. QED
  BY <1>1, <1>2, <1>3

\* Disconnect, UnregisterService and a crash keep the types of the connection.
LEMMA ShutdownTyped ==
  ASSUME ConnTypeOK, ListenerInv, Disconnect \/ Crash \/ (Unregister /\ registry' \in SUBSET Nodes)
  PROVE  ConnTypeOK'
<1>1. NoSend \in [chan : 0..MaxConnects, list : SUBSET Nodes]
  BY ClusterAssumption DEF NoSend, ClusterAssumption
<1>2. CASE Disconnect
  BY <1>2, ClusterAssumption
  DEF ConnTypeOK, ListenerInv, Disconnect, ClusterAssumption, listenerVars, updaterVars, worldVars
<1>3. CASE Crash
  <2>1. churn' \in 0..MaxChurn /\ clusterChan' \in 0..MaxConnects /\ unregister' \in 0..MaxConnects
    BY <1>3, ClusterAssumption DEF ConnTypeOK, Crash, ClusterAssumption
  <2>2. sending' \in [Conn -> [chan : 0..MaxConnects, list : SUBSET Nodes]]
    BY <1>1, <1>3 DEF Crash
  <2>. QED
    BY <1>3, <2>1, <2>2 DEF ConnTypeOK, Crash, Updater
<1>4. CASE Unregister /\ registry' \in SUBSET Nodes
  BY <1>4, ClusterAssumption DEF ConnTypeOK, Unregister, ClusterAssumption, listenerVars, updaterVars, worldVars
<1>. QED
  BY <1>2, <1>3, <1>4

\* The steps of the listeners and of the nodes keep the types of the connection.
LEMMA ConnNextTyped ==
  ASSUME ConnTypeOK, ListenerInv, ConnNext
  PROVE  ConnTypeOK'
<1>. USE DEF ConnTypeOK, localVars, listenerVars, updaterVars, worldVars
<1>0. NoSend \in [chan : 0..MaxConnects, list : SUBSET Nodes]
  BY ClusterAssumption DEF NoSend, ClusterAssumption
<1>1. ASSUME NEW i \in Conn, ListenerChecks(i)
      PROVE  ConnTypeOK'
  BY <1>1 DEF ListenerChecks
<1>2. ASSUME NEW i \in Conn, ListenerSets(i)
      PROVE  ConnTypeOK'
  BY <1>2 DEF ListenerSets
<1>3. ASSUME NEW i \in Conn, NEW l \in Conn, Deliver(i, l)
      PROVE  ConnTypeOK'
  <2>1. sending[i].list \in SUBSET Nodes
    OBVIOUS
  <2>2. inbox' \in [Conn -> SUBSET Nodes]
    BY <1>3, <2>1 DEF Deliver
  <2>3. updater' \in [Conn -> Updater]
    BY <1>3 DEF Deliver, Updater
  <2>4. sending' \in [Conn -> [chan : 0..MaxConnects, list : SUBSET Nodes]]
    BY <1>0, <1>3 DEF Deliver
  <2>5. /\ listener' \in [Conn -> {"off", "check", "receive", "set", "exited"}]
        /\ \A j \in Conn : listener'[j] = "off" <=> updater'[j] = "off"
    BY <1>3 DEF Deliver
  <2>. QED
    BY <1>3, <2>2, <2>3, <2>4, <2>5 DEF Deliver
<1>4. ASSUME NEW n \in Nodes, NodeChanges(n)
      PROVE  ConnTypeOK'
  <2>1. alive' \subseteq Nodes
    BY <1>4 DEF NodeChanges
  <2>2. churn' \in 0..MaxChurn
    BY <1>4, ClusterAssumption DEF NodeChanges, ClusterAssumption
  <2>. QED
    BY <1>4, <2>1, <2>2 DEF NodeChanges
<1>5. ASSUME NEW i \in Conn, IndexChan(i)
      PROVE  ConnTypeOK'
  <2>1. updater' \in [Conn -> Updater] /\ \A j \in Conn : listener'[j] = "off" <=> updater'[j] = "off"
    BY <1>5 DEF IndexChan, Updater
  <2>2. sending' \in [Conn -> [chan : 0..MaxConnects, list : SUBSET Nodes]]
    BY <1>5 DEF IndexChan
  <2>. QED
    BY <1>5, <2>1, <2>2 DEF IndexChan
<1>6. Peers \subseteq Nodes
  BY DEF Nodes
<1>. QED
  BY <1>1, <1>2, <1>3, <1>4, <1>5, <1>6, ShutdownTyped DEF ConnNext

\* The churn a failing watch causes.
LEMMA WatchTyped ==
  ASSUME ConnTypeOK, NEW i \in Conn, NEW u \in Updater \ {"off"}, updater[i] # "off",
         updater' = [updater EXCEPT ![i] = u],
         nodeMap' \in [Conn -> SUBSET Nodes],
         churn' = churn \/ (churn < MaxChurn /\ churn' = churn + 1),
         UNCHANGED <<localVars, consistent, listenerVars, sending, registry, beating, alive>>
  PROVE  ConnTypeOK'
<1>1. churn' \in 0..MaxChurn
  BY ClusterAssumption DEF ConnTypeOK, ClusterAssumption
<1>2. updater' \in [Conn -> Updater] /\ \A j \in Conn : listener[j] = "off" <=> updater'[j] = "off"
  BY DEF ConnTypeOK
<1>. QED
  BY <1>1, <1>2 DEF ConnTypeOK, localVars, listenerVars

\* A step that changes only the registry, and at most the churn.
LEMMA RegistryTyped ==
  ASSUME ConnTypeOK, registry' \in SUBSET Nodes,
         churn' = churn \/ (churn < MaxChurn /\ churn' = churn + 1),
         UNCHANGED <<localVars, consistent, listenerVars, updaterVars, beating, alive>>
  PROVE  ConnTypeOK'
BY ClusterAssumption DEF ConnTypeOK, ClusterAssumption, localVars, listenerVars, updaterVars

\* The registry of etcd and the events of its watches keep their types.
LEMMA KeysTyped ==
  ASSUME ConnTypeOK, EtcdTypeOK, NEW n \in Nodes, (KeyPut(n) /\ leased' \in SUBSET Nodes) \/ KeyDeleted(n)
  PROVE  registry' \in SUBSET Nodes /\ EtcdTypeOK'
<1>1. \A t \in {"put", "delete"} : [type |-> t, key |-> n] \in EtcdEvent
  BY DEF EtcdEvent
<1>2. \A i \in Conn : events[i] \in Seq(EtcdEvent)
  BY DEF EtcdTypeOK
<1>3. \A i \in Conn : \A t \in {"put", "delete"} :
        Append(events[i], [type |-> t, key |-> n]) \in Seq(EtcdEvent)
  BY <1>1, <1>2, AppendProperties
<1>4. registry' \in SUBSET Nodes
  BY DEF ConnTypeOK, KeyPut, KeyDeleted
<1>5. CASE KeyPut(n) /\ leased' \in SUBSET Nodes
  <2>1. events' \in [Conn -> Seq(EtcdEvent)]
    BY <1>2, <1>3, <1>5, Zenon DEF KeyPut
  <2>. QED
    BY <1>4, <1>5, <2>1 DEF EtcdTypeOK
<1>6. CASE KeyDeleted(n)
  <2>1. events' \in [Conn -> Seq(EtcdEvent)]
    BY <1>2, <1>3, <1>6, Zenon DEF KeyDeleted
  <2>2. leased' \subseteq Nodes
    BY <1>6 DEF KeyDeleted, EtcdTypeOK
  <2>. QED
    BY <1>4, <2>1, <2>2 DEF EtcdTypeOK
<1>. QED
  BY <1>5, <1>6

\* A step of etcd keeps all types.
LEMMA EtcdTyped ==
  ASSUME ConnTypeOK, ListenerInv, EtcdTypeOK, EtcdNext
  PROVE  ConnTypeOK' /\ EtcdTypeOK'
<1>0. Self \in Nodes /\ \A u \in {"read", "broken"} : u \in Updater \ {"off"}
  BY DEF Nodes, Updater
<1>1. CASE EtcdConnect
  <2>1. Connect("read") /\ beating' \in BOOLEAN /\ leased' = leased /\ events' = events
    BY <1>1 DEF EtcdConnect, etcdVars
  <2>2. ConnTypeOK'
    BY <1>0, <2>1, ConnectTyped
  <2>. QED
    BY <2>1, <2>2 DEF EtcdTypeOK
<1>2. CASE EtcdUnregister
  <2>1. Unregister /\ KeyDeleted(Self)
    BY <1>2 DEF EtcdUnregister
  <2>2. registry' \in SUBSET Nodes /\ EtcdTypeOK'
    BY <1>0, <2>1, KeysTyped
  <2>. QED
    BY <2>1, <2>2, ShutdownTyped
<1>3. CASE EtcdCrash
  <2>1. <<>> \in Seq(EtcdEvent)
    BY EmptySeq
  <2>. QED
    BY <1>3, <2>1, ShutdownTyped DEF EtcdCrash, EtcdTypeOK
<1>4. ASSUME NEW i \in Conn, NEW k \in 1..Len(events[i]), EtcdReads(i, k)
      PROVE  ConnTypeOK' /\ EtcdTypeOK'
  <2>1. After(i, k) \in SUBSET Nodes
    BY DEF After
  <2>2. ConnTypeOK'
    BY <1>4, <2>1, PublishTyped DEF EtcdReads
  <2>3. events[i] \in Seq(EtcdEvent)
    BY DEF EtcdTypeOK
  <2>4. SubSeq(events[i], k + 1, Len(events[i])) \in Seq(EtcdEvent)
    <3>1. \A j \in (k + 1)..Len(events[i]) : events[i][j] \in EtcdEvent
      BY <2>3, LenProperties, ElementOfSeq
    <3>. QED
      BY <2>3, <3>1, LenProperties, SubSeqProperties
  <2>. QED
    BY <1>4, <2>2, <2>4 DEF EtcdReads, EtcdTypeOK
<1>5. ASSUME NEW i \in Conn, EtcdWatchFails(i)
      PROVE  ConnTypeOK' /\ EtcdTypeOK'
  <2>1. ConnTypeOK'
    BY <1>0, <1>5, WatchTyped DEF EtcdWatchFails, ConnTypeOK
  <2>2. <<>> \in Seq(EtcdEvent)
    BY EmptySeq
  <2>. QED
    BY <1>5, <2>1, <2>2 DEF EtcdWatchFails, EtcdTypeOK
<1>6. ASSUME NEW n \in Nodes, EtcdHeartbeat(n) \/ EtcdLeaseExpires(n)
      PROVE  ConnTypeOK' /\ EtcdTypeOK'
  <2>1. (KeyPut(n) /\ leased' \in SUBSET Nodes) \/ KeyDeleted(n)
    BY <1>6 DEF EtcdHeartbeat, EtcdLeaseExpires, EtcdTypeOK
  <2>2. UNCHANGED <<localVars, consistent, listenerVars, updaterVars, beating, alive, churn>>
    BY <1>6 DEF EtcdHeartbeat, EtcdLeaseExpires, worldVars
  <2>. QED
    BY <2>1, <2>2, KeysTyped, RegistryTyped
<1>. QED
  BY <1>1, <1>2, <1>3, <1>4, <1>5, <1>6 DEF EtcdNext

\* A step of Consul keeps all types.
LEMMA ConsulTyped ==
  ASSUME ConnTypeOK, ListenerInv, ConsulTypeOK, ConsulNext
  PROVE  ConnTypeOK' /\ ConsulTypeOK'
<1>0. Self \in Nodes /\ "read" \in Updater \ {"off"} /\ registry \in SUBSET Nodes
  BY DEF Nodes, Updater, ConnTypeOK
<1>1. CASE ConsulConnect
  BY <1>0, <1>1, ConnectTyped DEF ConsulConnect, ConsulTypeOK
<1>2. CASE ConsulUnregister
  BY <1>0, <1>2, ShutdownTyped DEF ConsulUnregister, ConsulTypeOK
<1>3. CASE ConsulCrash
  BY <1>3, ShutdownTyped DEF ConsulCrash, ConsulTypeOK
<1>4. ASSUME NEW i \in Conn, ConsulPolls(i)
      PROVE  ConnTypeOK' /\ ConsulTypeOK'
  BY <1>0, <1>4, PublishTyped DEF ConsulPolls, ConsulTypeOK
<1>5. ASSUME NEW n \in Nodes, ConsulHeartbeat(n) \/ ConsulExpires(n)
      PROVE  ConnTypeOK' /\ ConsulTypeOK'
  <2>1. /\ UNCHANGED <<localVars, consistent, listenerVars, updaterVars, beating, alive, churn>>
        /\ registered' = registered
        /\ registry' \in SUBSET Nodes
    BY <1>0, <1>5 DEF ConsulHeartbeat, ConsulExpires, worldVars
  <2>. QED
    BY <2>1, RegistryTyped DEF ConsulTypeOK
<1>. QED
  BY <1>1, <1>2, <1>3, <1>4, <1>5 DEF ConsulNext

\* The subsets of an Endpoints object: a list of sets of nodes.
LEMMA SubsetsTyped ==
  ASSUME NEW s \in Subsets
  PROVE  /\ s \in Seq(SUBSET Nodes)
         /\ Addresses(s) \in SUBSET Nodes
         /\ s # <<>> => s[Len(s)] \in SUBSET Nodes /\ s[Len(s)] \subseteq Addresses(s)
<1>1. PICK n \in 0..MaxSubsets : s \in [1..n -> SUBSET Nodes]
  BY DEF Subsets
<1>2. n \in Nat
  BY SubsetsAssumption DEF SubsetsAssumption
<1>3. s \in Seq(SUBSET Nodes) /\ Len(s) = n /\ DOMAIN s = 1..n
  BY <1>1, <1>2, SeqDef, LenProperties
<1>4. s # <<>> => n \in DOMAIN s
  BY <1>2, <1>3, EmptySeq
<1>. QED
  BY <1>1, <1>3, <1>4 DEF Addresses

\* An event reaches every open watch, and nothing else changes.
LEMMA EmitTyped ==
  ASSUME results \in [Conn -> Seq(K8sEvent)], NEW e \in K8sEvent, Emit(e)
  PROVE  results' \in [Conn -> Seq(K8sEvent)]
<1>1. \A i \in Conn : Append(results[i], e) \in Seq(K8sEvent)
  BY AppendProperties
<1>. QED
  BY <1>1 DEF Emit

\* A step of Kubernetes keeps all types.
LEMMA K8sTyped ==
  ASSUME ConnTypeOK, ListenerInv, K8sTypeOK, K8sNext
  PROVE  ConnTypeOK' /\ K8sTypeOK'
<1>0. /\ \A u \in {"open", "read", "exited"} : u \in Updater \ {"off"}
      /\ <<>> \in Seq(K8sEvent)
      /\ alive \in SUBSET Nodes /\ {} \in SUBSET Nodes
      /\ results \in [Conn -> Seq(K8sEvent)]
      /\ endpoints # <<>> => endpoints[1] \in Subsets
      /\ endpoints # <<>> => \A t \in {"Added", "Modified", "Deleted"} :
                               [type |-> t, subsets |-> endpoints[1]] \in K8sEvent
  <2>1. /\ \A u \in {"open", "read", "exited"} : u \in Updater \ {"off"}
        /\ <<>> \in Seq(K8sEvent)
        /\ alive \in SUBSET Nodes /\ {} \in SUBSET Nodes
        /\ results \in [Conn -> Seq(K8sEvent)]
    BY EmptySeq DEF Updater, ConnTypeOK, K8sTypeOK
  <2>2. endpoints # <<>> => endpoints[1] \in Subsets
    BY DEF K8sTypeOK
  <2>3. \A x \in Subsets : \A t \in {"Added", "Modified", "Deleted"} :
          [type |-> t, subsets |-> x] \in K8sEvent
    BY DEF K8sEvent
  <2>. QED
    BY <2>1, <2>2, <2>3
<1>1. CASE K8sConnect
  <2>1. Connect("open") /\ beating' \in BOOLEAN /\ endpoints' = endpoints /\ results' = results
    BY <1>1 DEF K8sConnect, k8sVars, ConnTypeOK
  <2>2. ConnTypeOK'
    BY <1>0, <2>1, ConnectTyped
  <2>. QED
    BY <2>1, <2>2 DEF K8sTypeOK
<1>2. CASE K8sUnregister
  <2>1. Unregister /\ registry' \in SUBSET Nodes /\ endpoints' = endpoints /\ results' = results
    BY <1>2 DEF K8sUnregister, k8sVars, ConnTypeOK
  <2>2. ConnTypeOK'
    BY <2>1, ShutdownTyped
  <2>. QED
    BY <2>1, <2>2 DEF K8sTypeOK
<1>3. CASE K8sCrash
  BY <1>0, <1>3, ShutdownTyped DEF K8sCrash, K8sTypeOK
<1>4. CASE K8sSync
  <2>1. PICK s \in Subsets :
          /\ endpoints' = <<s>>
          /\ Emit([type |-> IF endpoints = <<>> THEN "Added" ELSE "Modified", subsets |-> s])
    BY <1>4 DEF K8sSync
  <2>2. [type |-> IF endpoints = <<>> THEN "Added" ELSE "Modified", subsets |-> s] \in K8sEvent
    BY DEF K8sEvent
  <2>3. K8sTypeOK'
    BY <1>0, <2>1, <2>2, EmitTyped DEF K8sTypeOK
  <2>4. ConnTypeOK'
    BY <1>0, <1>4, RegistryTyped DEF K8sSync, worldVars
  <2>. QED
    BY <2>3, <2>4
<1>5. CASE K8sDelete
  <2>1. K8sTypeOK'
    BY <1>0, <1>5, EmitTyped DEF K8sDelete, K8sTypeOK
  <2>2. ConnTypeOK'
    BY <1>0, <1>5, RegistryTyped DEF K8sDelete
  <2>. QED
    BY <2>1, <2>2
<1>6. ASSUME NEW i \in Conn, K8sOpens(i)
      PROVE  ConnTypeOK' /\ K8sTypeOK'
  <2>1. nodeMap' \in [Conn -> SUBSET Nodes]
    BY <1>6 DEF K8sOpens, ConnTypeOK
  <2>2. ConnTypeOK'
    BY <1>0, <1>6, <2>1, WatchTyped DEF K8sOpens, worldVars
  <2>3. (IF endpoints = <<>> THEN <<>> ELSE <<[type |-> "Added", subsets |-> endpoints[1]]>>)
          \in Seq(K8sEvent)
    BY <1>0
  <2>4. K8sTypeOK'
    BY <1>0, <1>6, <2>3 DEF K8sOpens, K8sTypeOK
  <2>. QED
    BY <2>2, <2>4
<1>7. ASSUME NEW i \in Conn, K8sOpenFails(i)
      PROVE  ConnTypeOK' /\ K8sTypeOK'
  BY <1>0, <1>7, WatchTyped DEF K8sOpenFails, K8sTypeOK, k8sVars, ConnTypeOK
<1>8. ASSUME NEW i \in Conn, K8sWatchEnds(i)
      PROVE  ConnTypeOK' /\ K8sTypeOK'
  BY <1>0, <1>8, WatchTyped DEF K8sWatchEnds, K8sTypeOK, ConnTypeOK
<1>9. ASSUME NEW i \in Conn, K8sReads(i)
      PROVE  ConnTypeOK' /\ K8sTypeOK'
  <2>1. results[i] \in Seq(K8sEvent) /\ results[i] # <<>>
    BY <1>0, <1>9 DEF K8sReads
  <2>2. PICK e \in K8sEvent : e = Head(results[i])
    BY <2>1, HeadTailProperties
  <2>3. e.subsets \in Subsets
    BY DEF K8sEvent
  <2>4. K8sNodes(i, e) \in SUBSET Nodes
    BY <2>3, SubsetsTyped DEF K8sNodes, ConnTypeOK
  <2>5. ConnTypeOK'
    BY <1>9, <2>2, <2>4, PublishTyped DEF K8sReads
  <2>6. Tail(results[i]) \in Seq(K8sEvent)
    BY <2>1, HeadTailProperties
  <2>. QED
    BY <1>0, <1>9, <2>5, <2>6 DEF K8sReads, K8sTypeOK
<1>. QED
  BY <1>1, <1>2, <1>3, <1>4, <1>5, <1>6, <1>7, <1>8, <1>9 DEF K8sNext

\* Every step keeps all types.
LEMMA TypeKeeps == TypeOK /\ ListenerInv /\ [Next]_vars => TypeOK'
<1>. SUFFICES ASSUME TypeOK, ListenerInv, [Next]_vars PROVE TypeOK'
  OBVIOUS
<1>. USE DEF TypeOK
<1>1. CASE Etcd(EtcdNext)
  BY <1>1, EtcdTyped DEF Etcd, ConsulTypeOK, K8sTypeOK, k8sVars
<1>2. CASE Consul(ConsulNext)
  BY <1>2, ConsulTyped DEF Consul, EtcdTypeOK, K8sTypeOK, etcdVars, k8sVars
<1>3. CASE K8s(K8sNext)
  BY <1>3, K8sTyped DEF K8s, EtcdTypeOK, ConsulTypeOK, etcdVars
<1>4. CASE Any(ConnNext)
  BY <1>4, ConnNextTyped DEF Any, EtcdTypeOK, ConsulTypeOK, K8sTypeOK, etcdVars, k8sVars
<1>5. CASE UNCHANGED vars
  BY <1>5 DEF vars, connVars, localVars, listenerVars, updaterVars, worldVars, etcdVars, k8sVars, ConnTypeOK,
              EtcdTypeOK, ConsulTypeOK, K8sTypeOK
<1>. QED
  BY <1>1, <1>2, <1>3, <1>4, <1>5 DEF Next

\* Every state of a node and its discovery service is well typed, whatever the
\* service, the nodes, the connections and the failures (cluster.go:44-49,
\* etcd.go:18-27, consul.go:14-21, kubernetes.go:26-37).
THEOREM ClusterTypeCorrect == Spec => []TypeOK
<1>1. Init => TypeOK
  <2>. SUFFICES ASSUME Init PROVE TypeOK
    OBVIOUS
  <2>0. /\ NoSend \in [chan : 0..MaxConnects, list : SUBSET Nodes]
        /\ 0 \in 0..MaxConnects /\ 0 \in 0..MaxChurn
    BY ClusterAssumption DEF NoSend, ClusterAssumption
  <2>1. alive \subseteq Nodes /\ registry \subseteq Nodes
    BY DEF Init, Nodes
  <2>2. ConnTypeOK
    BY <2>0, <2>1 DEF Init, ConnInit, ConnTypeOK, Updater
  <2>3. EtcdTypeOK /\ K8sTypeOK
    BY <2>1, EmptySeq DEF Init, EtcdInit, EtcdTypeOK, K8sInit, K8sTypeOK
  <2>. QED
    BY <2>2, <2>3 DEF Init, TypeOK, ConsulInit, ConsulTypeOK
<1>2. Init => ListenerInv
  BY ListenerStarts
<1>3. TypeOK /\ ListenerInv /\ [Next]_vars => TypeOK' /\ ListenerInv'
  BY TypeKeeps, StepIsLocal, LocalKeeps
<1>. QED
  BY <1>1, <1>2, <1>3, PTL DEF Spec

-----------------------------------------------------------------------------
(* From the updater's map to the ring.                                     *)

\* What is not sent under Kubernetes.
EmptyMap == dService = "k8s" /\ nodeMap[connects] = {}

\* Connections that were not made yet, or by a process that ended, have done
\* nothing.
Untouched ==
  /\ \A i \in Conn : i > connects => updater[i] = "off"
  /\ \A i \in Conn : updater[i] = "off" => nodeMap[i] = {}
  /\ (\A i \in Conn : updater[i] = "off") => consistent = {} /\ State = "Ready"

\* Where the list of the only connection is: with the updater, with the listener,
\* or on the ring.
ListOnItsWay ==
  /\ updater[connects] \in {"found", "send"} => sending[connects].list = nodeMap[connects]
  /\ updater[connects] = "read" =>
       \/ EmptyMap
       \/ IF listener[connects] = "set" THEN inbox[connects] = nodeMap[connects]
                                       ELSE consistent = nodeMap[connects]

\* RingIsView is inductive together with what is in flight.
ViewInv == Untouched /\ (ConnectedOnce /\ State = "Started" => ListOnItsWay)

\* In a response of the etcd watch that is no update, every event puts a node
\* the updater knows: its map stays the same (etcd.go:79-97).
LEMMA EtcdNotUpdated ==
  ASSUME EtcdTypeOK, ConnTypeOK, NEW i \in Conn, NEW k \in 1..Len(events[i]), ~Updated(i, k)
  PROVE  After(i, k) = nodeMap[i]
<1>0. /\ events[i] \in Seq(EtcdEvent) /\ nodeMap[i] \subseteq Nodes
      /\ k \in Nat
      /\ \A j \in 1..k : events[i][j] \in EtcdEvent
  <2>1. events[i] \in Seq(EtcdEvent) /\ nodeMap[i] \subseteq Nodes
    BY DEF EtcdTypeOK, ConnTypeOK
  <2>. QED
    BY <2>1, LenProperties, ElementOfSeq
<1>1. \A j \in 1..k : events[i][j].type = "put" /\ events[i][j].key \in After(i, j - 1)
  BY <1>0 DEF Updated, EtcdEvent
<1>2. ASSUME NEW n \in Nodes
      PROVE  n \in After(i, k) <=> n \in nodeMap[i]
  <2>. DEFINE about(h) == {j \in 1..h : events[i][j].key = n}
  <2>1. \A h : n \in After(i, h) <=>
          IF about(h) = {} THEN n \in nodeMap[i]
          ELSE events[i][CHOOSE j \in about(h) : \A l \in about(h) : l <= j].type = "put"
    BY DEF After
  <2>2. CASE about(k) = {}
    BY <2>1, <2>2
  <2>3. CASE about(k) # {}
    <3>1. \E j \in about(k) : \A l \in about(k) : l <= j
      <4>1. about(k) \subseteq 0..k
        BY <1>0
      <4>. HIDE DEF about
      <4>. QED
        BY <1>0, <2>3, <4>1, GreatestElement
    <3>2. n \in After(i, k)
      <4>1. (CHOOSE j \in about(k) : \A l \in about(k) : l <= j) \in about(k)
        BY <3>1
      <4>. QED
        BY <1>1, <2>1, <2>3, <4>1
    <3>3. PICK j \in about(k) : \A l \in about(k) : j <= l
      <4>1. about(k) \subseteq Nat
        BY <1>0
      <4>. HIDE DEF about
      <4>. QED
        BY <2>3, <4>1, LeastElement
    <3>4. about(j - 1) = {}
      BY <1>0, <3>3
    <3>5. n \in After(i, j - 1)
      BY <1>1, <3>3
    <3>6. n \in nodeMap[i]
      BY <2>1, <3>4, <3>5
    <3>. QED
      BY <3>2, <3>6
  <2>. QED
    BY <2>2, <2>3
<1>. QED
  BY <1>0, <1>2 DEF After

\* An event of the Kubernetes watch that is no update leaves the map as it is or
\* empty (kubernetes.go:102-132).
LEMMA K8sNotUpdated ==
  ASSUME NEW i, NEW e \in K8sEvent, ~K8sUpdated(e)
  PROVE  K8sNodes(i, e) \in {nodeMap[i], {}}
<1>1. e.subsets \in Subsets /\ e.type # "Deleted" /\ Addresses(e.subsets) = {}
  BY DEF K8sEvent, K8sUpdated
<1>2. CASE e.subsets = <<>>
  BY <1>1, <1>2 DEF K8sNodes
<1>3. CASE e.subsets # <<>>
  <2>1. e.subsets[Len(e.subsets)] = {}
    BY <1>1, <1>3, SubsetsTyped
  <2>. QED
    BY <1>1, <1>3, <2>1 DEF K8sNodes
<1>. QED
  BY <1>2, <1>3

\* An updater that runs stays the only one, if it was.
LEMMA OnlyOne ==
  ASSUME ConnTypeOK, NEW i \in Conn, NEW u \in Updater \ {"off"}, updater[i] # "off",
         updater' = [updater EXCEPT ![i] = u], connects' = connects, ConnectedOnce'
  PROVE  ConnectedOnce /\ i = connects /\ updater'[connects] = u
BY DEF ConnTypeOK, ConnectedOnce

\* What an updater that runs does leaves the others untouched.
LEMMA OthersUntouched ==
  ASSUME ConnTypeOK, Untouched, NEW i \in Conn, NEW u \in Updater \ {"off"}, updater[i] # "off",
         NEW ns \in SUBSET Nodes, updater' = [updater EXCEPT ![i] = u],
         nodeMap' = [nodeMap EXCEPT ![i] = ns], connects' = connects
  PROVE  Untouched'
BY DEF ConnTypeOK, Untouched

\* Publish puts the list on its way, if it is an update or the map is as before.
LEMMA PublishView ==
  ASSUME ConnTypeOK, ListenerInv, ViewInv, NEW i \in Conn, NEW ns \in SUBSET Nodes, NEW b \in BOOLEAN,
         updater[i] = "read", Publish(i, ns, b), dService' = dService,
         ~b => ns = nodeMap[i] \/ (dService = "k8s" /\ ns = {})
  PROVE  ViewInv'
<1>1. /\ connects' = connects /\ State' = State /\ clusterChan' = clusterChan /\ consistent' = consistent
      /\ listener' = listener /\ inbox' = inbox
      /\ nodeMap' = [nodeMap EXCEPT ![i] = ns]
  BY DEF Publish, localVars, listenerVars
<1>2. PICK u \in {"read", "found"} :
        /\ updater' = [updater EXCEPT ![i] = u]
        /\ u = "found" => sending' = [sending EXCEPT ![i] = [chan |-> 0, list |-> ns]]
        /\ u = "read" => ~b \/ clusterChan = 0
  BY DEF Publish, ConnTypeOK
<1>3. u \in Updater \ {"off"}
  BY DEF Updater
<1>4. Untouched'
  BY <1>1, <1>2, <1>3, OthersUntouched DEF ViewInv
<1>5. ASSUME ConnectedOnce', State' = "Started"
      PROVE  ListOnItsWay'
  <2>1. ConnectedOnce /\ i = connects /\ updater'[connects] = u
    BY <1>1, <1>2, <1>3, <1>5, OnlyOne
  <2>2. ListOnItsWay /\ clusterChan # 0
    BY <1>1, <1>5, <2>1, ClusterAssumption DEF ViewInv, ListenerInv, Conn, ClusterAssumption
  <2>3. nodeMap'[connects] = ns
    BY <1>1, <2>1 DEF ConnTypeOK
  <2>4. CASE u = "found"
    BY <1>1, <1>2, <2>1, <2>3, <2>4 DEF ListOnItsWay, ConnTypeOK
  <2>5. CASE u = "read"
    BY <1>1, <1>2, <2>1, <2>2, <2>3, <2>5 DEF ListOnItsWay, EmptyMap
  <2>. QED
    BY <2>4, <2>5
<1>. QED
  BY <1>4, <1>5 DEF ViewInv

\* A step of a watch that is no read: the map stays or becomes the empty one of
\* Kubernetes, and nothing is sent.
LEMMA WatchView ==
  ASSUME ConnTypeOK, ViewInv, NEW i \in Conn, NEW u \in {"open", "read", "broken", "exited"},
         updater[i] # "off",
         updater' = [updater EXCEPT ![i] = u],
         u = "read" => dService = "k8s" /\ nodeMap' = [nodeMap EXCEPT ![i] = {}],
         u # "read" => nodeMap' = nodeMap,
         UNCHANGED <<State, connects, consistent, listener, inbox, sending, dService>>
  PROVE  ViewInv'
<1>1. u \in Updater \ {"off"}
  BY DEF Updater
<1>2. Untouched'
  <2>1. PICK ns \in SUBSET Nodes : nodeMap' = [nodeMap EXCEPT ![i] = ns]
    BY DEF ConnTypeOK
  <2>. QED
    BY <1>1, <2>1, OthersUntouched DEF ViewInv
<1>3. ASSUME ConnectedOnce'
      PROVE  ListOnItsWay'
  <2>1. i = connects /\ updater'[connects] = u
    BY <1>1, <1>3, OnlyOne
  <2>2. CASE u = "read"
    <3>1. EmptyMap'
      BY <2>1, <2>2 DEF EmptyMap, ConnTypeOK
    <3>. QED
      BY <2>1, <2>2, <3>1 DEF ListOnItsWay
  <2>3. CASE u # "read"
    BY <2>1, <2>3 DEF ListOnItsWay
  <2>. QED
    BY <2>2, <2>3
<1>. QED
  BY <1>2, <1>3 DEF ViewInv

\* A step of the world leaves the way of the list alone.
LEMMA WorldView ==
  ASSUME ViewInv,
         UNCHANGED <<State, connects, consistent, listener, inbox, updater, nodeMap, sending, dService>>
  PROVE  ViewInv'
BY DEF ViewInv, Untouched, ConnectedOnce, ListOnItsWay, EmptyMap

\* The first Connect of a process starts from an empty ring and an empty map;
\* after another one there is nothing to show.
LEMMA ConnectView ==
  ASSUME ConnTypeOK, ViewInv, NEW start \in {"read", "open"}, Connect(start), dService' = dService
  PROVE  ViewInv'
<1>1. /\ connects' = connects + 1 /\ connects' \in Conn
      /\ updater' = [updater EXCEPT ![connects'] = start]
      /\ nodeMap' = nodeMap /\ consistent' = consistent /\ listener'[connects'] = "check"
  BY ClusterAssumption DEF Connect, ConnTypeOK, Conn, ClusterAssumption
<1>2. \A j \in Conn : updater'[j] = IF j = connects' THEN start ELSE updater[j]
  BY <1>1 DEF ConnTypeOK
<1>3. updater[connects'] = "off" /\ Untouched'
  BY <1>1, <1>2, ClusterAssumption DEF ViewInv, Untouched, ConnTypeOK, Conn, ClusterAssumption
<1>4. ASSUME ConnectedOnce'
      PROVE  ListOnItsWay'
  <2>1. \A j \in Conn : updater[j] = "off"
    BY <1>1, <1>2, <1>3, <1>4 DEF ConnectedOnce
  <2>2. consistent = {} /\ nodeMap[connects'] = {}
    BY <1>1, <2>1 DEF ViewInv, Untouched
  <2>. QED
    BY <1>1, <1>2, <2>2 DEF ListOnItsWay
<1>. QED
  BY <1>3, <1>4 DEF ViewInv

\* Disconnect, UnregisterService and a crash end what the invariant is about.
LEMMA ShutdownView ==
  ASSUME ConnTypeOK, ViewInv, Disconnect \/ Crash \/ Unregister, dService' = dService
  PROVE  ViewInv'
<1>1. CASE Disconnect
  BY <1>1 DEF Disconnect, ViewInv, Untouched, listenerVars, updaterVars
<1>2. CASE Crash
  BY <1>2 DEF Crash, ViewInv, Untouched
<1>3. CASE Unregister
  BY <1>3, WorldView DEF Unregister, listenerVars, updaterVars
<1>. QED
  BY <1>1, <1>2, <1>3

\* The listener's steps move the list one place further.
LEMMA ListenerView ==
  ASSUME ConnTypeOK, ListenerInv, ViewInv, NEW i \in Conn, dService' = dService,
         ListenerChecks(i) \/ ListenerSets(i)
  PROVE  ViewInv'
<1>1. /\ connects' = connects /\ State' = State /\ updater' = updater /\ nodeMap' = nodeMap
      /\ sending' = sending
  BY DEF ListenerChecks, ListenerSets, localVars, updaterVars
<1>2. updater[i] # "off"
  BY DEF ListenerChecks, ListenerSets, ConnTypeOK
<1>3. Untouched'
  BY <1>1, <1>2 DEF ViewInv, Untouched
<1>4. ASSUME ConnectedOnce', State' = "Started"
      PROVE  ListOnItsWay'
  <2>1. i = connects /\ ListOnItsWay
    BY <1>1, <1>2, <1>4 DEF ViewInv, ConnectedOnce
  <2>2. CASE ListenerChecks(i)
    BY <1>1, <2>1, <2>2 DEF ListenerChecks, ListOnItsWay, EmptyMap, ConnTypeOK
  <2>3. CASE ListenerSets(i)
    BY <1>1, <2>1, <2>3 DEF ListenerSets, ListOnItsWay, EmptyMap, ConnTypeOK
  <2>. QED
    BY <2>2, <2>3
<1>. QED
  BY <1>3, <1>4 DEF ViewInv

\* The updater looks the channel up; the list stays with it.
LEMMA IndexView ==
  ASSUME ConnTypeOK, ListenerInv, ViewInv, NEW i \in Conn, IndexChan(i), dService' = dService
  PROVE  ViewInv'
<1>1. /\ connects' = connects /\ State' = State /\ nodeMap' = nodeMap /\ consistent' = consistent
      /\ updater[i] = "found" /\ updater' = [updater EXCEPT ![i] = "send"]
  BY DEF IndexChan, localVars
<1>2. "send" \in Updater \ {"off"}
  BY DEF Updater
<1>3. Untouched'
  <2>1. nodeMap[i] \in SUBSET Nodes /\ nodeMap' = [nodeMap EXCEPT ![i] = nodeMap[i]]
    BY <1>1 DEF ConnTypeOK
  <2>. QED
    BY <1>1, <1>2, <2>1, OthersUntouched DEF ViewInv
<1>4. ASSUME ConnectedOnce', State' = "Started"
      PROVE  ListOnItsWay'
  <2>1. ConnectedOnce /\ i = connects /\ updater'[connects] = "send"
    BY <1>1, <1>2, <1>4, OnlyOne
  <2>2. sending'[i].list = sending[i].list
    BY DEF IndexChan, ConnTypeOK
  <2>. QED
    BY <1>1, <1>4, <2>1, <2>2 DEF ViewInv, ListOnItsWay
<1>. QED
  BY <1>3, <1>4 DEF ViewInv

\* The send of an updater meets the receive of the listener of its channel.
LEMMA DeliverView ==
  ASSUME ConnTypeOK, ListenerInv, ViewInv, NEW i \in Conn, NEW l \in Conn, Deliver(i, l),
         dService' = dService
  PROVE  ViewInv'
<1>1. /\ connects' = connects /\ State' = State /\ nodeMap' = nodeMap /\ consistent' = consistent
      /\ updater[i] = "send" /\ updater' = [updater EXCEPT ![i] = "read"]
  BY DEF Deliver, localVars
<1>2. "read" \in Updater \ {"off"}
  BY DEF Updater
<1>3. Untouched'
  <2>1. nodeMap[i] \in SUBSET Nodes /\ nodeMap' = [nodeMap EXCEPT ![i] = nodeMap[i]]
    BY <1>1 DEF ConnTypeOK
  <2>. QED
    BY <1>1, <1>2, <2>1, OthersUntouched DEF ViewInv
<1>4. ASSUME ConnectedOnce', State' = "Started"
      PROVE  ListOnItsWay'
  <2>1. ConnectedOnce /\ i = connects /\ updater'[connects] = "read"
    BY <1>1, <1>2, <1>4, OnlyOne
  <2>2. l = connects
    BY <2>1 DEF Deliver, ConnTypeOK, ConnectedOnce
  <2>3. sending[connects].list = nodeMap[connects]
    BY <1>1, <1>4, <2>1 DEF ViewInv, ListOnItsWay
  <2>4. inbox'[connects] = sending[connects].list /\ listener'[connects] = "set"
    BY <2>1, <2>2 DEF Deliver, ConnTypeOK
  <2>. QED
    BY <1>1, <2>1, <2>3, <2>4 DEF ListOnItsWay
<1>. QED
  BY <1>3, <1>4 DEF ViewInv

\* One case per kind of step, for each discovery service.
LEMMA ViewKeeps ==
  ASSUME TypeOK, ListenerInv, ViewInv, [Next]_vars
  PROVE  ViewInv'
<1>0. ConnTypeOK /\ EtcdTypeOK /\ K8sTypeOK
  BY DEF TypeOK
<1>1. ASSUME EtcdNext, dService' = dService
      PROVE  ViewInv'
  <2>1. CASE EtcdConnect
    BY <1>0, <1>1, <2>1, ConnectView DEF EtcdConnect
  <2>2. CASE EtcdUnregister \/ EtcdCrash
    BY <1>0, <1>1, <2>2, ShutdownView DEF EtcdUnregister, EtcdCrash
  <2>3. ASSUME NEW i \in Conn, NEW k \in 1..Len(events[i]), EtcdReads(i, k)
        PROVE  ViewInv'
    <3>1. After(i, k) \in SUBSET Nodes /\ Updated(i, k) \in BOOLEAN
      BY DEF After, Updated
    <3>2. ~Updated(i, k) => After(i, k) = nodeMap[i]
      BY <1>0, EtcdNotUpdated
    <3>3. updater[i] = "read" /\ Publish(i, After(i, k), Updated(i, k))
      BY <2>3 DEF EtcdReads
    <3>. QED
      BY <1>0, <1>1, <3>1, <3>2, <3>3, PublishView
  <2>4. ASSUME NEW i \in Conn, EtcdWatchFails(i)
        PROVE  ViewInv'
    <3>1. /\ updater[i] # "off" /\ updater' = [updater EXCEPT ![i] = "broken"] /\ nodeMap' = nodeMap
          /\ UNCHANGED <<State, connects, consistent, listener, inbox, sending>>
      BY <2>4 DEF EtcdWatchFails, localVars, listenerVars
    <3>. QED
      BY <1>0, <1>1, <3>1, WatchView
  <2>5. ASSUME NEW n \in Nodes, EtcdHeartbeat(n) \/ EtcdLeaseExpires(n)
        PROVE  ViewInv'
    BY <1>1, <2>5, WorldView DEF EtcdHeartbeat, EtcdLeaseExpires, localVars, listenerVars, updaterVars
  <2>. QED
    BY <1>1, <2>1, <2>2, <2>3, <2>4, <2>5 DEF EtcdNext
<1>2. ASSUME ConsulNext, dService' = dService
      PROVE  ViewInv'
  <2>1. CASE ConsulConnect
    BY <1>0, <1>2, <2>1, ConnectView DEF ConsulConnect
  <2>2. CASE ConsulUnregister \/ ConsulCrash
    BY <1>0, <1>2, <2>2, ShutdownView DEF ConsulUnregister, ConsulCrash
  <2>3. ASSUME NEW i \in Conn, ConsulPolls(i)
        PROVE  ViewInv'
    <3>1. registry \in SUBSET Nodes /\ updater[i] = "read" /\ Publish(i, registry, TRUE)
      BY <1>0, <2>3 DEF ConnTypeOK, ConsulPolls
    <3>. QED
      BY <1>0, <1>2, <3>1, PublishView
  <2>4. ASSUME NEW n \in Nodes, ConsulHeartbeat(n) \/ ConsulExpires(n)
        PROVE  ViewInv'
    BY <1>2, <2>4, WorldView DEF ConsulHeartbeat, ConsulExpires, localVars, listenerVars, updaterVars
  <2>. QED
    BY <1>2, <2>1, <2>2, <2>3, <2>4 DEF ConsulNext
<1>3. ASSUME K8sNext, dService = "k8s", dService' = dService
      PROVE  ViewInv'
  <2>1. CASE K8sConnect
    BY <1>0, <1>3, <2>1, ConnectView DEF K8sConnect
  <2>2. CASE K8sUnregister \/ K8sCrash
    BY <1>0, <1>3, <2>2, ShutdownView DEF K8sUnregister, K8sCrash
  <2>3. CASE K8sSync \/ K8sDelete
    BY <1>3, <2>3, WorldView DEF K8sSync, K8sDelete, localVars, listenerVars, updaterVars
  <2>4. ASSUME NEW i \in Conn, K8sOpens(i)
        PROVE  ViewInv'
    <3>1. /\ updater[i] # "off" /\ updater' = [updater EXCEPT ![i] = "read"]
          /\ nodeMap' = [nodeMap EXCEPT ![i] = {}]
          /\ UNCHANGED <<State, connects, consistent, listener, inbox, sending>>
      BY <2>4 DEF K8sOpens, localVars, listenerVars
    <3>. QED
      BY <1>0, <1>3, <3>1, WatchView
  <2>5. ASSUME NEW i \in Conn, K8sOpenFails(i) \/ K8sWatchEnds(i)
        PROVE  ViewInv'
    <3>1. PICK u \in {"open", "exited"} :
            /\ updater[i] # "off" /\ updater' = [updater EXCEPT ![i] = u] /\ nodeMap' = nodeMap
            /\ UNCHANGED <<State, connects, consistent, listener, inbox, sending>>
      BY <2>5 DEF K8sOpenFails, K8sWatchEnds, localVars, listenerVars
    <3>. QED
      BY <1>0, <1>3, <3>1, WatchView
  <2>6. ASSUME NEW i \in Conn, K8sReads(i)
        PROVE  ViewInv'
    <3>1. results[i] \in Seq(K8sEvent) /\ results[i] # <<>>
      BY <1>0, <2>6 DEF K8sReads, K8sTypeOK
    <3>2. PICK e \in K8sEvent : e = Head(results[i])
      BY <3>1, HeadTailProperties
    <3>3. K8sNodes(i, e) \in SUBSET Nodes
      <4>1. e.subsets \in Subsets
        BY DEF K8sEvent
      <4>. QED
        BY <1>0, <4>1, SubsetsTyped DEF K8sNodes, ConnTypeOK
    <3>4. updater[i] = "read" /\ Publish(i, K8sNodes(i, e), K8sUpdated(e)) /\ K8sUpdated(e) \in BOOLEAN
      BY <2>6, <3>2 DEF K8sReads, K8sUpdated
    <3>5. ~K8sUpdated(e) => K8sNodes(i, e) \in {nodeMap[i], {}}
      BY K8sNotUpdated
    <3>. QED
      BY <1>0, <1>3, <3>3, <3>4, <3>5, PublishView
  <2>. QED
    BY <1>3, <2>1, <2>2, <2>3, <2>4, <2>5, <2>6 DEF K8sNext
<1>4. ASSUME ConnNext, dService' = dService
      PROVE  ViewInv'
  <2>1. CASE Disconnect
    BY <1>0, <1>4, <2>1, ShutdownView
  <2>2. ASSUME NEW n, NodeChanges(n)
        PROVE  ViewInv'
    BY <1>4, <2>2, WorldView DEF NodeChanges, localVars, listenerVars, updaterVars
  <2>. QED
    BY <1>0, <1>4, <2>1, <2>2, ListenerView, IndexView, DeliverView DEF ConnNext
<1>5. CASE UNCHANGED vars
  BY <1>5, WorldView DEF vars, connVars, localVars, listenerVars, updaterVars
<1>. QED
  BY <1>1, <1>2, <1>3, <1>4, <1>5 DEF Next, Etcd, Consul, K8s, Any

\* Whatever the discovery service, the other nodes and the failures: on a
\* connection that is the only one of its process no list is lost between updater
\* and ring, and none overtakes another (cluster.go:57-111, etcd.go:70-108,
\* consul.go:76-112, kubernetes.go:102-143).
THEOREM RingCorrect == Spec => []RingIsView
<1>1. Init => ListenerInv /\ ViewInv
  <2>1. Init => ListenerInv
    BY ListenerStarts
  <2>2. Init => ViewInv
    BY DEF Init, ConnInit, ViewInv, Untouched
  <2>. QED
    BY <2>1, <2>2
<1>2. TypeOK /\ ListenerInv /\ ViewInv /\ [Next]_vars => ListenerInv' /\ ViewInv'
  BY StepIsLocal, LocalKeeps, ViewKeeps
<1>3. ViewInv => RingIsView
  BY DEF ViewInv, ListOnItsWay, EmptyMap, RingIsView
<1>. QED
  BY <1>1, <1>2, <1>3, ClusterTypeCorrect, PTL DEF Spec
=============================================================================
