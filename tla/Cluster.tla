------------------------------- MODULE Cluster -------------------------------
(***************************************************************************)
(* One proxy node and its discovery service: the cluster connection        *)
(* composed with whichever of etcd, Consul and Kubernetes is configured    *)
(* (CreateDiscoveryService, cmd/taskhandler/main.go).                      *)
(***************************************************************************)
EXTENDS EtcdDiscovery, ConsulDiscovery, K8sDiscovery

CONSTANT Services  \* the values of serviceDiscovery.type to consider

ASSUME ServicesAssumption == Services \subseteq {"etcd", "consul", "k8s"}

VARIABLE dService

vars == <<connVars, etcdVars, registered, k8sVars, dService>>

TypeOK == ConnTypeOK /\ EtcdTypeOK /\ ConsulTypeOK /\ K8sTypeOK /\ dService \in Services

\* The other nodes have been running for a while.
Init ==
  /\ ConnInit
  /\ dService \in Services
  /\ alive \in SUBSET Peers
  /\ registry = IF dService = "k8s" THEN {} ELSE alive
  /\ EtcdInit
  /\ ConsulInit
  /\ K8sInit

-----------------------------------------------------------------------------
\* A step of the configured service, and one that does not depend on it.
Etcd(A) == dService = "etcd" /\ A /\ UNCHANGED <<registered, k8sVars, dService>>
Consul(A) == dService = "consul" /\ A /\ UNCHANGED <<etcdVars, k8sVars, dService>>
K8s(A) == dService = "k8s" /\ A /\ UNCHANGED <<etcdVars, registered, dService>>
Any(A) == A /\ UNCHANGED <<etcdVars, registered, k8sVars, dService>>

EtcdNext ==
  \/ EtcdConnect
  \/ EtcdUnregister
  \/ EtcdCrash
  \/ \E i \in Conn : \/ \E k \in 1..Len(events[i]) : EtcdReads(i, k)
                     \/ EtcdWatchFails(i)
  \/ \E n \in Nodes : EtcdHeartbeat(n) \/ EtcdLeaseExpires(n)

ConsulNext ==
  \/ ConsulConnect
  \/ ConsulUnregister
  \/ ConsulCrash
  \/ \E i \in Conn : ConsulPolls(i)
  \/ \E n \in Nodes : ConsulHeartbeat(n) \/ ConsulExpires(n)

K8sNext ==
  \/ K8sConnect
  \/ K8sUnregister
  \/ K8sCrash
  \/ K8sSync
  \/ K8sDelete
  \/ \E i \in Conn : K8sOpens(i) \/ K8sOpenFails(i) \/ K8sWatchEnds(i) \/ K8sReads(i)

ConnNext ==
  \/ Disconnect
  \/ \E i \in Conn : \/ ListenerChecks(i)
                     \/ ListenerSets(i)
                     \/ IndexChan(i)
                     \/ \E l \in Conn : Deliver(i, l)
  \/ \E n \in IF dService = "k8s" THEN Nodes ELSE Peers : NodeChanges(n)

Next == Etcd(EtcdNext) \/ Consul(ConsulNext) \/ K8s(K8sNext) \/ Any(ConnNext)

\* Goroutines run, tickers tick, leases expire, watches deliver and queries are
\* answered.  No one has to call Connect or Disconnect, start or stop a node,
\* or end a watch.
Fairness ==
  /\ \A i \in Conn :
       /\ WF_vars(Any(ListenerChecks(i)))
       /\ WF_vars(Any(ListenerSets(i)))
       /\ WF_vars(Any(IndexChan(i)))
       /\ \A l \in Conn : SF_vars(Any(Deliver(i, l)))
       /\ WF_vars(Etcd(\E k \in 1..Len(events[i]) : EtcdReads(i, k)))
       /\ WF_vars(Consul(ConsulPolls(i)))
       /\ WF_vars(K8s(K8sOpens(i) \/ K8sReads(i)))
  /\ \A n \in Nodes :
       /\ WF_vars(Etcd(EtcdHeartbeat(n) \/ EtcdLeaseExpires(n)))
       /\ WF_vars(Consul(ConsulHeartbeat(n) \/ ConsulExpires(n)))
  /\ WF_vars(Etcd(EtcdUnregister))
  /\ WF_vars(Consul(ConsulUnregister))
  /\ WF_vars(K8s(K8sUnregister))
  /\ WF_vars(K8s(K8sSync))

Spec == Init /\ [][Next]_vars /\ Fairness

\* The process has called Connect once since it was started, or not yet.
ConnectedOnce == \A i \in Conn : i # connects => updater[i] = "off"

\* The program as it is deployed: main.go calls Connect once, TaskHandler.Close
\* calls Disconnect, and nothing connects again but the next process.
MainSpec == Init /\ [][Next /\ ConnectedOnce']_vars /\ Fairness

-----------------------------------------------------------------------------
\* The nodes that should be on the ring: under Kubernetes the ready ones,
\* otherwise the ones that send heartbeats, this one among them.
Members == IF dService = "k8s" THEN alive ELSE alive \cup {Self}

Watching == connects > 0 /\ updater[connects] \notin {"broken", "exited"}

\* All ready addresses are in one subset, as when the pods have the same ports.
OneSubset == endpoints = <<>> \/ Len(endpoints[1]) <= 1

\* No membership change is lost on its way from the discovery service to the
\* hash ring: while a process has its first connection, when neither goroutine
\* holds a list, the ring is exactly what the updater knows (etcd.go:70-108,
\* consul.go:76-112, kubernetes.go:102-143, cluster.go:106-111).  The exception
\* is the empty map of Kubernetes, with which a new watch starts and which an
\* object without ready addresses leaves: it is not sent.
RingIsView ==
  ConnectedOnce /\ State = "Started" /\ updater[connects] = "read" /\ listener[connects] # "set" =>
    consistent = nodeMap[connects] \/ (dService = "k8s" /\ nodeMap[connects] = {})

\* A connected node always has a goroutine for its current channel that will
\* receive: the listener of the last Connect does not end while Started.
ListenerServes ==
  State = "Started" => clusterChan = connects /\ listener[connects] \in {"check", "receive", "set"}

\* Once nodes and connection no longer change, the ring of a node that connected
\* once since its process was started becomes the set of members and stays so,
\* whichever the discovery service: although the process may have ended and been
\* started again, the watch of etcd begins without any node and learns of the
\* others from their heartbeats, and that of Kubernetes loses what happens while
\* it is opened again.  It needs a watch that has not failed for good (etcd.go:66,
\* kubernetes.go:86) and, under Kubernetes, at least one member and an object with
\* one subset in the end (kubernetes.go:105 keeps the last one only).  Of a
\* process that connects again it is not true: its first listener and updater run
\* on, and may set the ring or take the channel (cluster.go:105, etcd.go:107).
RingConverges ==
  <>[](State = "Started" /\ ConnectedOnce /\ Watching /\ Members # {} /\ OneSubset)
    => <>[](consistent = Members)

\* The node of a process that ended, by whichever failure, leaves the registry
\* although UnregisterService was not called: every key is put under a lease, so
\* that it goes when no heartbeat renews it (etcd.go:139-143), as the service of
\* Consul does with its check (consul.go:59).
CrashRemoves ==
  LET down == \A i \in Conn : updater[i] = "off"
  IN  dService # "k8s" => [](down => <>(Self \notin registry \/ ~down))

\* Disconnect under Consul is final: the heartbeat goes on, but without the
\* service it does not bring the node back (consul.go:122-160).
ConsulDisconnectRemoves ==
  dService = "consul" /\ <>[](State = "Ready") => <>[](Self \notin registry)

-----------------------------------------------------------------------------
(* What a comment says, and the code does not do.                          *)

\* "Disconnect removes this node from the cluster" (cluster.go:85): after a
\* Disconnect that is not followed by a Connect the node is gone for good.
DisconnectRemoves == <>[](State = "Ready") => <>[](Self \notin registry)
=============================================================================
