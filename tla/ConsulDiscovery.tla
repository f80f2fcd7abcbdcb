--------------------------- MODULE ConsulDiscovery ---------------------------
(***************************************************************************)
(* discovery/consul/consul.go: a service with a TTL check at the local     *)
(* agent, a heartbeat that passes the check, and a poll of the passing     *)
(* services every 5 seconds.                                               *)
(*                                                                         *)
(* Consul is external: registry is the set of passing nodes.  main.go      *)
(* gives it a health check that always succeeds.  A query that fails is    *)
(* logged and tried again: it is not a step.                               *)
(***************************************************************************)
EXTENDS ClusterConnection

VARIABLE registered  \* the agent has this node's service

ConsulTypeOK == registered \in BOOLEAN

ConsulInit == registered = FALSE

ConsulConnect == Connect("read") /\ beating' = TRUE /\ registered' = TRUE

Mut_KeepsCheck == Unregister /\ registry' = registry \ {Self} /\ UNCHANGED registered

\* The check goes with the service: later updates of it fail.
ConsulUnregister == Unregister /\ registry' = registry \ {Self} /\ registered' = FALSE

\* The agent outlives the process.
ConsulCrash == Crash /\ UNCHANGED registered

\* One round of updaterFunc: the list is sent whether or not it changed.
ConsulPolls(i) ==
  /\ updater[i] = "read"
  /\ Publish(i, registry, TRUE)
  /\ UNCHANGED registered

\* updateTTL.  An update for a service the agent does not have fails.
ConsulHeartbeat(n) ==
  /\ Beats(n) /\ (n = Self => registered)
  /\ registry' = registry \cup {n}
  /\ UNCHANGED <<localVars, consistent, listenerVars, updaterVars, beating, worldVars, registered>>

\* The check of a node that stopped becomes critical (external).
ConsulExpires(n) ==
  /\ n \in registry /\ ~Beats(n)
  /\ registry' = registry \ {n}
  /\ UNCHANGED <<localVars, consistent, listenerVars, updaterVars, beating, worldVars, registered>>
=============================================================================
