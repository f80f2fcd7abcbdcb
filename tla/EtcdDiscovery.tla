---------------------------- MODULE EtcdDiscovery ----------------------------
(***************************************************************************)
(* discovery/etcd/etcd.go: a watch on the keys of all nodes, and a         *)
(* heartbeat that puts the key of this node under a new lease.             *)
(*                                                                         *)
(* etcd is external: registry is the set of keys, leased are those under a *)
(* lease that ends if it is not granted anew, events has the events each   *)
(* updater has not read.  An event that repeats what the updater will      *)
(* know anyway changes nothing in updaterFunc and is left out.             *)
(***************************************************************************)
EXTENDS ClusterConnection

VARIABLES leased, events

etcdVars == <<leased, events>>

EtcdEvent == [type : {"put", "delete"}, key : Nodes]

EtcdTypeOK == leased \subseteq Nodes /\ events \in [Conn -> Seq(EtcdEvent)]

EtcdInit == leased = registry /\ events = [i \in Conn |-> <<>>]

\* The nodes updater i knows after the first k of its events.
After(i, k) ==
  {n \in Nodes :
     LET about == {j \in 1..k : events[i][j].key = n}
     IN  IF about = {}
         THEN n \in nodeMap[i]
         ELSE events[i][CHOOSE j \in about : \A l \in about : l <= j].type = "put"}

KeyPut(n) ==
  /\ registry' = registry \cup {n}
  /\ events' = [i \in Conn |->
       IF updater[i] \in {"off", "broken"} \/ n \in After(i, Len(events[i]))
       THEN events[i]
       ELSE Append(events[i], [type |-> "put", key |-> n])]

KeyDeleted(n) ==
  /\ registry' = registry \ {n}
  /\ leased' = leased \ {n}
  /\ events' = [i \in Conn |->
       IF updater[i] \in {"off", "broken"} \/ n \notin registry
       THEN events[i]
       ELSE Append(events[i], [type |-> "delete", key |-> n])]

-----------------------------------------------------------------------------
EtcdConnect == Connect("read") /\ beating' = TRUE /\ UNCHANGED etcdVars

EtcdUnregister == Unregister /\ KeyDeleted(Self)

EtcdCrash == Crash /\ events' = [i \in Conn |-> <<>>] /\ UNCHANGED leased

Mut_DeleteIsNoUpdate(i, k) ==
  \E j \in 1..k : events[i][j].type = "put" /\ events[i][j].key \notin After(i, j - 1)

\* isUpdated: an unknown node was put, or any node was deleted.
Updated(i, k) ==
  \E j \in 1..k : \/ events[i][j].type = "delete"
                  \/ events[i][j].key \notin After(i, j - 1)

\* One response of the watch, with the first k events.
EtcdReads(i, k) ==
  /\ updater[i] = "read"
  /\ Publish(i, After(i, k), Updated(i, k))
  /\ events' = [events EXCEPT ![i] = SubSeq(@, k + 1, Len(@))]
  /\ UNCHANGED leased

\* A response with an error is the last one: etcd closes the channel, and the
\* loop reads empty responses from it ever after.
EtcdWatchFails(i) ==
  /\ updater[i] = "read"
  /\ churn < MaxChurn
  /\ churn' = churn + 1
  /\ updater' = [updater EXCEPT ![i] = "broken"]
  /\ events' = [events EXCEPT ![i] = <<>>]
  /\ UNCHANGED <<localVars, consistent, listenerVars, nodeMap, sending, registry, beating, alive, leased>>

Mut_PutsWithoutLease(n) ==
  /\ Beats(n)
  /\ KeyPut(n)
  /\ UNCHANGED <<localVars, consistent, listenerVars, updaterVars, beating, worldVars, leased>>

\* updateTTL: every half TTL the key is put again, under a new lease.  Nothing
\* stops it.
EtcdHeartbeat(n) ==
  /\ Beats(n)
  /\ KeyPut(n)
  /\ leased' = leased \cup {n}
  /\ UNCHANGED <<localVars, consistent, listenerVars, updaterVars, beating, worldVars>>

\* The lease of a node that stopped runs out, and etcd deletes its key (external).
EtcdLeaseExpires(n) ==
  /\ n \in leased /\ ~Beats(n)
  /\ KeyDeleted(n)
  /\ UNCHANGED <<localVars, consistent, listenerVars, updaterVars, beating, worldVars>>
=============================================================================
