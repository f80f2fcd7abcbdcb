---------------------------- MODULE K8sDiscovery ----------------------------
(***************************************************************************)
(* discovery/kubernetes/kubernetes.go: a watch on one Endpoints object,    *)
(* which is opened again when the server ends it.                          *)
(*                                                                         *)
(* Kubernetes is external.  It keeps the object: the ready addresses in    *)
(* groups of equal ports (subsets; one may have no ready address).  A new  *)
(* watch first gets the object, if there is one, and then every change of  *)
(* it.  registry is the set of ready addresses in the object.              *)
(***************************************************************************)
EXTENDS ClusterConnection

CONSTANT MaxSubsets  \* how many subsets the object may have

ASSUME SubsetsAssumption == MaxSubsets \in Nat \ {0}

VARIABLES
  endpoints,  \* the object: <<>>, or <<its subsets>>
  results     \* the events each updater has not read

k8sVars == <<endpoints, results>>

Addresses(subsets) == UNION {subsets[j] : j \in DOMAIN subsets}

Subsets == UNION {[1..n -> SUBSET Nodes] : n \in 0..MaxSubsets}

K8sEvent == [type : {"Added", "Modified", "Deleted"}, subsets : Subsets]

K8sTypeOK == /\ endpoints = <<>> \/ \E s \in Subsets : endpoints = <<s>>
             /\ results \in [Conn -> Seq(K8sEvent)]

K8sInit == /\ endpoints = <<>>
           /\ results = [i \in Conn |-> <<>>]

\* Every open watch gets the event.
Emit(event) == results' = [i \in Conn |->
  IF updater[i] \in {"read", "found", "send"} THEN Append(results[i], event) ELSE results[i]]

\* The endpoints controller writes the object.
K8sSync ==
  /\ endpoints = <<>> \/ registry # alive
  /\ \E s \in Subsets :
       /\ Addresses(s) = alive
       /\ endpoints' = <<s>>
       /\ Emit([type |-> IF endpoints = <<>> THEN "Added" ELSE "Modified", subsets |-> s])
  /\ registry' = alive
  /\ UNCHANGED <<localVars, consistent, listenerVars, updaterVars, beating, worldVars>>

\* The service is deleted, and its Endpoints with it.
K8sDelete ==
  /\ endpoints # <<>>
  /\ churn < MaxChurn
  /\ churn' = churn + 1
  /\ endpoints' = <<>>
  /\ registry' = {}
  /\ Emit([type |-> "Deleted", subsets |-> endpoints[1]])
  /\ UNCHANGED <<localVars, consistent, listenerVars, updaterVars, beating, alive>>

-----------------------------------------------------------------------------
\* RegisterService only starts the updater, UnregisterService does nothing.
K8sConnect == Connect("open") /\ UNCHANGED <<beating, k8sVars>>

K8sUnregister == Unregister /\ UNCHANGED <<registry, k8sVars>>

K8sCrash == Crash /\ results' = [i \in Conn |-> <<>>] /\ UNCHANGED endpoints

\* Watch, with an empty map that is not sent.
K8sOpens(i) ==
  /\ updater[i] = "open"
  /\ updater' = [updater EXCEPT ![i] = "read"]
  /\ nodeMap' = [nodeMap EXCEPT ![i] = {}]
  /\ results' = [results EXCEPT ![i] = IF endpoints = <<>> THEN <<>>
                                       ELSE <<[type |-> "Added", subsets |-> endpoints[1]]>>]
  /\ UNCHANGED <<localVars, consistent, listenerVars, sending, registry, beating, worldVars, endpoints>>

\* Watch fails, and updaterFunc returns.
K8sOpenFails(i) ==
  /\ updater[i] = "open"
  /\ churn < MaxChurn
  /\ churn' = churn + 1
  /\ updater' = [updater EXCEPT ![i] = "exited"]
  /\ UNCHANGED <<localVars, consistent, listenerVars, nodeMap, sending, registry, beating, alive, k8sVars>>

Mut_GivesUp(i) ==
  /\ updater[i] = "read"
  /\ churn < MaxChurn
  /\ churn' = churn + 1
  /\ updater' = [updater EXCEPT ![i] = "read"]
  /\ results' = [results EXCEPT ![i] = <<>>]
  /\ UNCHANGED <<localVars, consistent, listenerVars, nodeMap, sending, registry, beating, alive, endpoints>>

\* The server ends the watch, or sends something else than Endpoints: what was
\* not read is lost, and the watch is opened again.
K8sWatchEnds(i) ==
  /\ updater[i] = "read"
  /\ churn < MaxChurn
  /\ churn' = churn + 1
  /\ updater' = [updater EXCEPT ![i] = "open"]
  /\ results' = [results EXCEPT ![i] = <<>>]
  /\ UNCHANGED <<localVars, consistent, listenerVars, nodeMap, sending, registry, beating, alive, endpoints>>

\* The map is made anew for each subset, so that it ends with the addresses of
\* the last one; without subsets it stays as it is.
K8sNodes(i, event) ==
  IF event.type = "Deleted" THEN {}
  ELSE IF event.subsets = <<>> THEN nodeMap[i]
  ELSE event.subsets[Len(event.subsets)]

\* isUpdated: the object was deleted, or some address was seen.
K8sUpdated(event) == event.type = "Deleted" \/ Addresses(event.subsets) # {}

K8sReads(i) ==
  /\ updater[i] = "read"
  /\ results[i] # <<>>
  /\ Publish(i, K8sNodes(i, Head(results[i])), K8sUpdated(Head(results[i])))
  /\ results' = [results EXCEPT ![i] = Tail(@)]
  /\ UNCHANGED endpoints
=============================================================================
