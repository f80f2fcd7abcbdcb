-------------------------- MODULE ClusterConnection --------------------------
(***************************************************************************)
(* Membership of one proxy node: ClusterConnection and the                 *)
(* DiscoveryService interface of taskhandler/cluster.go.                   *)
(*                                                                         *)
(* The i-th call of Connect makes channel i, starts listener i             *)
(* (clusterUpdated) and, in RegisterService, updater i (updaterFunc).      *)
(* Channels are unbuffered: a send waits for a receive.  The discovery     *)
(* services that extend this module say what an updater reads.             *)
(*                                                                         *)
(* The actions leave registry, beating, alive and churn to the module that *)
(* conjoins them.                                                          *)
(***************************************************************************)
EXTENDS Naturals, Sequences, FiniteSets

CONSTANTS
  Peers,        \* the other nodes
  Self,         \* this node
  MaxConnects,  \* bound: calls of Connect
  MaxChurn      \* bound: how often nodes start or stop and watches end

ASSUME ClusterAssumption == Self \notin Peers /\ MaxConnects \in Nat /\ MaxChurn \in Nat

VARIABLES
  State,        \* "Ready" or "Started"
  connects,     \* calls of Connect so far
  clusterChan,  \* ListUpdatedChans["clusterChan"], 0 if absent
  unregister,   \* how many calls of Disconnect have still to call UnregisterService
  consistent,   \* the members on the hash ring
  listener,     \* where each listener is
  inbox,        \* the list it received
  updater,      \* where each updater is
  nodeMap,      \* the nodes it knows
  sending,      \* the channel and the list it is sending
  registry,     \* what the discovery service lists as members
  beating,      \* this node sends heartbeats: updateTTL runs
  alive,        \* the nodes that should be members; of this node only where
                \* it does not register itself
  churn

localVars == <<State, connects, clusterChan, unregister>>
listenerVars == <<listener, inbox>>
updaterVars == <<updater, nodeMap, sending>>
worldVars == <<alive, churn>>
connVars == <<localVars, consistent, listenerVars, updaterVars, registry, beating, worldVars>>

Nodes == Peers \cup {Self}
Conn == 1..MaxConnects

NoSend == [chan |-> 0, list |-> {}]

\* "open": the watch has to be opened (again); "broken": it will never deliver.
\* "found": there is a channel to send to.
Updater == {"off", "open", "read", "found", "send", "broken", "exited"}

\* Each Connect of the process that runs now has started both goroutines.
ConnTypeOK ==
  /\ State \in {"Ready", "Started"}
  /\ connects \in 0..MaxConnects
  /\ clusterChan \in 0..MaxConnects
  /\ unregister \in 0..MaxConnects
  /\ consistent \subseteq Nodes
  /\ listener \in [Conn -> {"off", "check", "receive", "set", "exited"}]
  /\ inbox \in [Conn -> SUBSET Nodes]
  /\ updater \in [Conn -> Updater]
  /\ \A i \in Conn : listener[i] = "off" <=> updater[i] = "off"
  /\ nodeMap \in [Conn -> SUBSET Nodes]
  /\ sending \in [Conn -> [chan : 0..MaxConnects, list : SUBSET Nodes]]
  /\ registry \subseteq Nodes
  /\ beating \in BOOLEAN
  /\ alive \subseteq Nodes
  /\ churn \in 0..MaxChurn

ConnInit ==
  /\ State = "Ready"
  /\ connects = 0
  /\ clusterChan = 0
  /\ unregister = 0
  /\ consistent = {}
  /\ listener = [i \in Conn |-> "off"]
  /\ inbox = [i \in Conn |-> {}]
  /\ updater = [i \in Conn |-> "off"]
  /\ nodeMap = [i \in Conn |-> {}]
  /\ sending = [i \in Conn |-> NoSend]
  /\ beating = FALSE
  /\ churn = 0

-----------------------------------------------------------------------------
(* Connect and Disconnect.                                                 *)

Mut_NoListener(start) ==
  /\ State = "Ready"
  /\ connects < MaxConnects
  /\ connects' = connects + 1
  /\ clusterChan' = connects + 1
  /\ State' = "Started"
  /\ updater' = [updater EXCEPT ![connects + 1] = start]
  /\ UNCHANGED <<unregister, consistent, listener, inbox, nodeMap, sending, registry, worldVars>>

\* Connect refuses to run unless Ready.  Nothing another goroutine does between
\* its statements can be told from doing it before or after, so it is one step.
\* start is where the updater begins.
Connect(start) ==
  /\ State = "Ready"
  /\ connects < MaxConnects
  /\ connects' = connects + 1
  /\ clusterChan' = connects + 1
  /\ State' = "Started"
  /\ listener' = [listener EXCEPT ![connects + 1] = "check"]
  /\ updater' = [updater EXCEPT ![connects + 1] = start]
  /\ UNCHANGED <<unregister, consistent, inbox, nodeMap, sending, registry, worldVars>>

\* Disconnect, up to the call of UnregisterService.  Another Connect may come
\* before that.
Disconnect ==
  /\ State = "Started"
  /\ clusterChan' = 0
  /\ State' = "Ready"
  /\ unregister' = unregister + 1
  /\ UNCHANGED <<connects, consistent, listenerVars, updaterVars, registry, beating, worldVars>>

\* The call of UnregisterService, without what the service does.
Unregister ==
  /\ unregister > 0
  /\ unregister' = unregister - 1
  /\ UNCHANGED <<State, connects, clusterChan, consistent, listenerVars, updaterVars, beating,
                 worldVars>>

\* The process ends (log.Fatal, the lease that Grant did not return is
\* dereferenced, or the map of channels is read while it is written) and is
\* started again, if MaxConnects allows another Connect.
Crash ==
  /\ churn < MaxChurn /\ connects > 0
  /\ churn' = churn + 1
  /\ State' = "Ready" /\ clusterChan' = 0 /\ unregister' = 0 /\ consistent' = {}
  /\ listener' = [i \in Conn |-> "off"] /\ inbox' = [i \in Conn |-> {}]
  /\ updater' = [i \in Conn |-> "off"] /\ nodeMap' = [i \in Conn |-> {}]
  /\ sending' = [i \in Conn |-> NoSend]
  /\ beating' = FALSE
  /\ UNCHANGED <<connects, registry, alive>>

-----------------------------------------------------------------------------
(* clusterUpdated.                                                         *)

\* The test of the loop.  The receive is Deliver.
ListenerChecks(i) ==
  /\ listener[i] = "check"
  /\ listener' = [listener EXCEPT ![i] = IF State = "Started" THEN "receive" ELSE "exited"]
  /\ UNCHANGED <<localVars, consistent, inbox, updaterVars, registry, beating, worldVars>>

Mut_ListensOnce(i) ==
  /\ listener[i] = "set"
  /\ consistent' = inbox[i]
  /\ listener' = [listener EXCEPT ![i] = "exited"]
  /\ inbox' = [inbox EXCEPT ![i] = {}]
  /\ UNCHANGED <<localVars, updaterVars, registry, beating, worldVars>>

ListenerSets(i) ==
  /\ listener[i] = "set"
  /\ consistent' = inbox[i]
  /\ listener' = [listener EXCEPT ![i] = "check"]
  /\ inbox' = [inbox EXCEPT ![i] = {}]
  /\ UNCHANGED <<localVars, updaterVars, registry, beating, worldVars>>

-----------------------------------------------------------------------------
(* What every updater does with a list.                                    *)

\* The map of updater i becomes nodes; if isUpdated, the list goes to the channel
\* in ListUpdatedChans, if there is one.
Publish(i, nodes, isUpdated) ==
  /\ nodeMap' = [nodeMap EXCEPT ![i] = nodes]
  /\ IF isUpdated /\ clusterChan # 0
     THEN /\ updater' = [updater EXCEPT ![i] = "found"]
          /\ sending' = [sending EXCEPT ![i] = [chan |-> 0, list |-> nodes]]
     ELSE UNCHANGED <<updater, sending>>
  /\ UNCHANGED <<localVars, consistent, listenerVars, registry, beating, worldVars>>

\* The loop over the map has found the key; the channel is what the map holds for
\* it now.  No lock keeps Disconnect from removing it in between: then it is the
\* nil channel (0), and the send waits forever.
IndexChan(i) ==
  /\ updater[i] = "found"
  /\ updater' = [updater EXCEPT ![i] = "send"]
  /\ sending' = [sending EXCEPT ![i].chan = clusterChan]
  /\ UNCHANGED <<localVars, consistent, listenerVars, nodeMap, registry, beating, worldVars>>

\* The send of updater i meets the receive of listener l.
Deliver(i, l) ==
  /\ updater[i] = "send"
  /\ sending[i].chan = l
  /\ listener[l] = "receive"
  /\ inbox' = [inbox EXCEPT ![l] = sending[i].list]
  /\ listener' = [listener EXCEPT ![l] = "set"]
  /\ updater' = [updater EXCEPT ![i] = "read"]
  /\ sending' = [sending EXCEPT ![i] = NoSend]
  /\ UNCHANGED <<localVars, consistent, nodeMap, registry, beating, worldVars>>

-----------------------------------------------------------------------------
(* The other nodes.                                                        *)

\* A node starts or stops (or, where it does not register itself, its readiness
\* changes).
NodeChanges(n) ==
  /\ churn < MaxChurn
  /\ churn' = churn + 1
  /\ alive' = IF n \in alive THEN alive \ {n} ELSE alive \cup {n}
  /\ UNCHANGED <<localVars, consistent, listenerVars, updaterVars, registry, beating>>

Beats(n) == IF n = Self THEN beating ELSE n \in alive
=============================================================================
