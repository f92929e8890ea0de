------------------------------ MODULE NetDiscovery ------------------------------
(***************************************************************************)
(* The discovery protocol of src/src/network_discovery.c between several   *)
(* nodes of one local network: each node broadcasts a request every five   *)
(* seconds, answers the requests it hears, keeps a table of the nodes it   *)
(* has heard and deactivates those it has not heard for NODE_TIMEOUT.      *)
(* Datagrams are lost and reordered; nodes start, stop, crash and restart. *)
(*                                                                         *)
(* A critical section of nodes_lock contains no other lock and no I/O that *)
(* matters, so that each is one step.  The programs that link the protocol *)
(* add their own state: the actions here leave it to them.                 *)
(***************************************************************************)
EXTENDS Naturals, Sequences, FiniteSets

CONSTANTS Nodes,        \* the machines; a node's id is its local_node_id
          MaxNodes,     \* MAX_NODES, entries of a node's table
          Loopback,     \* whether a node's broadcasts come back to its own socket
          MaxInFlight,  \* bound: datagrams on the wire at a time
          MaxBoots      \* bound: how often a machine starts the program

ASSUME MaxNodesAssumption  == MaxNodes \in Nat
ASSUME LoopbackAssumption  == Loopback \in BOOLEAN
ASSUME BoundsAssumption    == MaxInFlight \in Nat /\ MaxBoots \in Nat

VARIABLES
    proc,     \* the process of each machine: "down", "up", "quitting" (main's loop
              \* is to end: g_kernel->running is false) or "leaving" (shutdown_
              \* network_discovery has cleared g_network->running)
    boots,    \* how often it was started
    nodes,    \* g_network->nodes[0 .. node_count - 1] of each machine
    judged,   \* the nodes that were silent too long at the instant "current" that
              \* the heartbeat thread has read and not yet used; {}: it sleeps
    listening,\* the machines whose listener thread has not ended
    net       \* datagrams on the wire

netVars == <<proc, boots, nodes, judged, listening, net>>

Entry   == [node_id : Nodes, active : BOOLEAN]
Message == [type : {"REQUEST", "RESPONSE", "LEAVE"}, from : Nodes, to : Nodes]

-----------------------------------------------------------------------------

Ids(n)       == {nodes[n][k].node_id : k \in DOMAIN nodes[n]}
ActiveIds(n) == {nodes[n][k].node_id : k \in {j \in DOMAIN nodes[n] : nodes[n][j].active}}

NetRunning(n) == proc[n] \in {"up", "quitting"}
Started       == {n \in Nodes : proc[n] # "down"}

(* Datagrams for a machine without a process are gone.                       *)
Datagrams(type, n, reach) == {[type |-> type, from |-> n, to |-> m] : m \in reach}

(* A broadcast reaches any of the machines that run the program, with         *)
(* Loopback the sender's own socket too.                                      *)
Reachable(n) == SUBSET {m \in Started : Loopback \/ m # n}

Refreshed(table, m) ==
    [k \in DOMAIN table |-> IF table[k].node_id = m THEN [node_id |-> m, active |-> TRUE]
                            ELSE table[k]]

(* What a node sends back: a response to another node's request.             *)
Answers(n, m) ==
    IF m.type = "REQUEST" /\ m.from # n THEN Datagrams("RESPONSE", n, {m.from} \cap Started)
    ELSE {}

(* Mutant: the table's bound is off by one upwards.                          *)
UpsertOverflows(n, m) ==
    IF m \in Ids(n) THEN Refreshed(nodes[n], m)
    ELSE IF Len(nodes[n]) <= MaxNodes
         THEN Append(nodes[n], [node_id |-> m, active |-> TRUE])
         ELSE nodes[n]

(* Mutant: the table's last place is never used.                             *)
UpsertLeavesRoom(n, m) ==
    IF m \in Ids(n) THEN Refreshed(nodes[n], m)
    ELSE IF Len(nodes[n]) + 1 < MaxNodes
         THEN Append(nodes[n], [node_id |-> m, active |-> TRUE])
         ELSE nodes[n]

(* Update the sender's entry, or append one, or drop the news: table full.   *)
Upsert(n, m) ==
    IF m \in Ids(n) THEN Refreshed(nodes[n], m)
    ELSE IF Len(nodes[n]) < MaxNodes
         THEN Append(nodes[n], [node_id |-> m, active |-> TRUE])
         ELSE nodes[n]

Deactivated(table, S) ==
    [k \in DOMAIN table |-> [node_id |-> table[k].node_id,
                             active |-> table[k].active /\ table[k].node_id \notin S]]

-----------------------------------------------------------------------------

NetInit ==
    /\ proc = [n \in Nodes |-> "down"]
    /\ boots = [n \in Nodes |-> 0]
    /\ nodes = [n \in Nodes |-> <<>>]
    /\ judged = [n \in Nodes |-> {}]
    /\ listening = {}
    /\ net = {}

(* init_network_discovery: calloc, socket, the three threads.                *)
Boot(n) ==
    /\ proc[n] = "down"
    /\ boots[n] < MaxBoots
    /\ proc' = [proc EXCEPT ![n] = "up"]
    /\ boots' = [boots EXCEPT ![n] = @ + 1]
    /\ listening' = listening \cup {n}
    /\ UNCHANGED <<nodes, judged, net>>

(* discovery_thread sends a broadcast and sleeps.  (One that passed its test  *)
(* before running was cleared may send after it: the datagrams are the same   *)
(* as if it had sent before.)                                                 *)
SendDiscoveryBroadcast(n, reach) ==
    /\ NetRunning(n)
    /\ reach \in Reachable(n)
    /\ Cardinality(net \cup Datagrams("REQUEST", n, reach)) <= MaxInFlight
    /\ net' = net \cup Datagrams("REQUEST", n, reach)
    /\ UNCHANGED <<proc, boots, nodes, judged, listening>>

(* Mutant: the listener's loop does not test running.                        *)
ListenerReceiveForever(n, m, answers) ==
    /\ n \in listening
    /\ m \in net /\ m.to = n
    /\ answers \subseteq Answers(n, m)
    /\ net' = (net \ {m}) \cup answers
    /\ IF m.type \in {"REQUEST", "RESPONSE"} /\ m.from # n
       THEN /\ nodes' = [nodes EXCEPT ![n] = Upsert(n, m.from)]
            /\ judged' = [judged EXCEPT ![n] = @ \ {m.from}]
       ELSE UNCHANGED <<nodes, judged>>
    /\ UNCHANGED <<proc, boots, listening>>

(* listener_thread and process_discovery_message: requests and responses     *)
(* refresh the sender's entry, requests are answered (the answer may be      *)
(* lost), a node's leave message is not looked at.  After a datagram the     *)
(* loop tests running.                                                       *)
ListenerReceive(n, m, answers) ==
    /\ n \in listening
    /\ m \in net /\ m.to = n
    /\ answers \subseteq Answers(n, m)
    /\ net' = (net \ {m}) \cup answers
    /\ IF m.type \in {"REQUEST", "RESPONSE"} /\ m.from # n
       THEN /\ nodes' = [nodes EXCEPT ![n] = Upsert(n, m.from)]
            /\ judged' = [judged EXCEPT ![n] = @ \ {m.from}]
       ELSE UNCHANGED <<nodes, judged>>
    /\ listening' = IF NetRunning(n) THEN listening ELSE listening \ {n}
    /\ UNCHANGED <<proc, boots>>

(* heartbeat_thread reads the clock before it takes nodes_lock: by then some *)
(* of the nodes it finds too old have been heard again.                      *)
HeartbeatRead(n, old) ==
    /\ NetRunning(n)
    /\ judged[n] = {}
    /\ old # {} /\ old \subseteq ActiveIds(n)
    /\ judged' = [judged EXCEPT ![n] = old]
    /\ UNCHANGED <<proc, boots, nodes, listening, net>>

(* Mutant: the scan starts at the second entry.                              *)
HeartbeatScanSkipsFirst(n) ==
    /\ judged[n] # {}
    /\ nodes' = [nodes EXCEPT ![n] = Deactivated(@, judged[n] \ {nodes[n][1].node_id})]
    /\ judged' = [judged EXCEPT ![n] = {}]
    /\ UNCHANGED <<proc, boots, listening, net>>

(* Mutant: entries that are too old are taken out of the table.              *)
HeartbeatScanRemoves(n) ==
    /\ judged[n] # {}
    /\ nodes' = [nodes EXCEPT ![n] = SelectSeq(@, LAMBDA e : e.node_id \notin judged[n])]
    /\ judged' = [judged EXCEPT ![n] = {}]
    /\ UNCHANGED <<proc, boots, listening, net>>

HeartbeatScan(n) ==
    /\ judged[n] # {}
    /\ nodes' = [nodes EXCEPT ![n] = Deactivated(@, judged[n])]
    /\ judged' = [judged EXCEPT ![n] = {}]
    /\ UNCHANGED <<proc, boots, listening, net>>

(* main's loop has seen that the program is to end: running is cleared and    *)
(* the leave message broadcast.  With Loopback the node's own socket gets it  *)
(* too.  The listener either is blocked in recvfrom or between two datagrams, *)
(* and then sees running = 0 at once.                                         *)
ShutdownNetworkDiscovery(n, reach, blocked) ==
    /\ proc[n] = "quitting"
    /\ reach \in Reachable(n)
    /\ proc' = [proc EXCEPT ![n] = "leaving"]
    /\ net' = net \cup Datagrams("LEAVE", n, reach \cup (IF Loopback THEN {n} ELSE {}))
    /\ listening' = IF blocked THEN listening ELSE listening \ {n}
    /\ UNCHANGED <<boots, nodes, judged>>

(* What every end of a process does to the protocol's state.                 *)
Vanish(n) ==
    /\ proc' = [proc EXCEPT ![n] = "down"]
    /\ nodes' = [nodes EXCEPT ![n] = <<>>]
    /\ judged' = [judged EXCEPT ![n] = {}]
    /\ listening' = listening \ {n}
    /\ net' = {m \in net : m.to # n}
    /\ UNCHANGED boots

(* The rest of shutdown_network_discovery, once the three threads are joined  *)
(* (the discovery thread ends after its sleep, the heartbeat thread after the *)
(* pass it may be in), and main's cleanup and return, which end the process.  *)
ShutdownEnd(n) ==
    /\ proc[n] = "leaving"
    /\ n \notin listening /\ judged[n] = {}
    /\ Vanish(n)

Crash(n) == proc[n] # "down" /\ Vanish(n)

(* What the protocol's three threads do.                                     *)
DiscoveryStep(n) ==
    \/ \E reach \in Reachable(n) : SendDiscoveryBroadcast(n, reach)
    \/ \E m \in net : \E answers \in SUBSET Answers(n, m) : ListenerReceive(n, m, answers)
    \/ \E old \in SUBSET ActiveIds(n) : HeartbeatRead(n, old)
    \/ HeartbeatScan(n)

-----------------------------------------------------------------------------

NetTypeOK ==
    /\ proc \in [Nodes -> {"down", "up", "quitting", "leaving"}]
    /\ boots \in [Nodes -> Nat]
    /\ nodes \in [Nodes -> Seq(Entry)]
    /\ judged \in [Nodes -> SUBSET Nodes]
    /\ listening \subseteq Nodes
    /\ net \subseteq Message

(* However requests, answers and restarts are interleaved, a table has one    *)
(* entry for each node at most, never the node itself, and fits its array.    *)
TableSound ==
    \A n \in Nodes :
        /\ n \notin Ids(n)
        /\ Len(nodes[n]) = Cardinality(Ids(n))
        /\ Len(nodes[n]) <= MaxNodes
================================================================================
