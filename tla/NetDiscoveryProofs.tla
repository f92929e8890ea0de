--------------------------- MODULE NetDiscoveryProofs ---------------------------
(***************************************************************************)
(* What the discovery protocol does to its state, for every set of         *)
(* machines and every bound, whatever program it is linked with.           *)
(***************************************************************************)
EXTENDS NetDiscovery, SequenceTheorems, FiniteSetTheorems, TLAPS

USE MaxNodesAssumption, LoopbackAssumption, BoundsAssumption

-----------------------------------------------------------------------------
(* What the operations on a table return.                                  *)

LEMMA RefreshedTable ==
  ASSUME NEW t \in Seq(Entry), NEW m \in Nodes
  PROVE  /\ Refreshed(t, m) \in Seq(Entry)
         /\ Len(Refreshed(t, m)) = Len(t)
         /\ \A k \in 1..Len(t) : Refreshed(t, m)[k].node_id = t[k].node_id
<1>1. \A k \in 1..Len(t) : t[k] \in Entry
  OBVIOUS
<1>2. \A k \in 1..Len(t) : Refreshed(t, m)[k] \in Entry
                           /\ Refreshed(t, m)[k].node_id = t[k].node_id
  BY <1>1 DEF Refreshed, Entry
<1>3. DOMAIN t = 1..Len(t) /\ Len(t) \in Nat
  OBVIOUS
<1>4. DOMAIN Refreshed(t, m) = 1..Len(t)
  BY <1>3 DEF Refreshed
<1> HIDE DEF Refreshed
<1>5. Refreshed(t, m) = [k \in 1..Len(t) |-> Refreshed(t, m)[k]]
  BY <1>4, Zenon DEF Refreshed
<1>6. Refreshed(t, m) \in [1..Len(t) -> Entry]
  BY <1>2, <1>5, Zenon
<1> QED
  BY <1>2, <1>3, <1>6

LEMMA DeactivatedTable ==
  ASSUME NEW t \in Seq(Entry), NEW S \in SUBSET Nodes
  PROVE  /\ Deactivated(t, S) \in Seq(Entry)
         /\ Len(Deactivated(t, S)) = Len(t)
         /\ \A k \in 1..Len(t) : Deactivated(t, S)[k].node_id = t[k].node_id
<1>1. \A k \in 1..Len(t) : t[k] \in Entry
  OBVIOUS
<1>2. \A k \in 1..Len(t) : Deactivated(t, S)[k] \in Entry
                           /\ Deactivated(t, S)[k].node_id = t[k].node_id
  BY <1>1 DEF Deactivated, Entry
<1>3. DOMAIN t = 1..Len(t) /\ Len(t) \in Nat
  OBVIOUS
<1>4. DOMAIN Deactivated(t, S) = 1..Len(t)
  BY <1>3 DEF Deactivated
<1> HIDE DEF Deactivated
<1>5. Deactivated(t, S) = [k \in 1..Len(t) |-> Deactivated(t, S)[k]]
  BY <1>4, Zenon DEF Deactivated
<1>6. Deactivated(t, S) \in [1..Len(t) -> Entry]
  BY <1>2, <1>5, Zenon
<1> QED
  BY <1>2, <1>3, <1>6

LEMMA UpsertTable ==
  ASSUME NEW n \in Nodes, NEW m \in Nodes, nodes[n] \in Seq(Entry)
  PROVE  /\ Upsert(n, m) \in Seq(Entry)
         /\ Len(Upsert(n, m)) >= Len(nodes[n])
         /\ Len(Upsert(n, m)) <= MaxNodes \/ Len(Upsert(n, m)) = Len(nodes[n])
         /\ \A k \in 1..Len(nodes[n]) : Upsert(n, m)[k].node_id = nodes[n][k].node_id
         /\ \A k \in 1..Len(Upsert(n, m)) : k > Len(nodes[n]) =>
               Upsert(n, m)[k].node_id = m /\ k = Len(nodes[n]) + 1 /\ m \notin Ids(n)
<1> DEFINE e == [node_id |-> m, active |-> TRUE]
<1>1. e \in Entry
  BY DEF Entry
<1>2. CASE m \in Ids(n)
  <2>1. Upsert(n, m) = Refreshed(nodes[n], m)
    BY <1>2 DEF Upsert
  <2> QED
    BY <2>1, RefreshedTable
<1>3. CASE m \notin Ids(n) /\ Len(nodes[n]) < MaxNodes
  <2>1. Upsert(n, m) = Append(nodes[n], e)
    BY <1>3 DEF Upsert
  <2>2. /\ Append(nodes[n], e) \in Seq(Entry)
        /\ Len(Append(nodes[n], e)) = Len(nodes[n]) + 1
        /\ Append(nodes[n], e)[Len(nodes[n]) + 1] = e
        /\ \A k \in 1..Len(nodes[n]) : Append(nodes[n], e)[k] = nodes[n][k]
    BY <1>1
  <2>3. e.node_id = m
    OBVIOUS
  <2> HIDE DEF e
  <2> QED
    BY <1>3, <2>1, <2>2, <2>3
<1>4. CASE m \notin Ids(n) /\ ~(Len(nodes[n]) < MaxNodes)
  BY <1>4 DEF Upsert
<1> QED
  BY <1>2, <1>3, <1>4

(* get_active_nodes never counts more nodes than the table has entries.      *)
LEMMA ActiveCount ==
  ASSUME NEW n \in Nodes, nodes[n] \in Seq(Entry)
  PROVE  Cardinality(ActiveIds(n)) \in Nat /\ Cardinality(ActiveIds(n)) <= Len(nodes[n])
<1> DEFINE J == {j \in DOMAIN nodes[n] : nodes[n][j].active}
           f == [j \in J |-> nodes[n][j].node_id]
<1>1. DOMAIN nodes[n] = 1..Len(nodes[n]) /\ Len(nodes[n]) \in Nat
  OBVIOUS
<1>2. IsFiniteSet(1..Len(nodes[n])) /\ Cardinality(1..Len(nodes[n])) = Len(nodes[n])
  BY <1>1, FS_Interval
<1>3. J \in SUBSET (1..Len(nodes[n]))
  BY <1>1
<1>4. IsFiniteSet(J) /\ Cardinality(J) <= Len(nodes[n])
  BY <1>2, <1>3, FS_Subset
<1>5. f \in Surjection(J, ActiveIds(n))
  BY DEF Surjection, ActiveIds
<1> HIDE DEF J, f
<1>6. IsFiniteSet(ActiveIds(n)) /\ Cardinality(ActiveIds(n)) <= Cardinality(J)
  BY <1>4, <1>5, FS_Surjection
<1>7. Cardinality(J) \in Nat /\ Cardinality(ActiveIds(n)) \in Nat
  BY <1>4, <1>6, FS_CardinalityType
<1> QED
  BY <1>1, <1>4, <1>6, <1>7

-----------------------------------------------------------------------------
(* The tables that the protocol's steps leave behind.                        *)
LEMMA NetTypes ==
  ASSUME NetTypeOK, NEW n \in Nodes, DiscoveryStep(n)
  PROVE  /\ NetTypeOK'
         /\ UNCHANGED <<proc, boots>>
         /\ \A p \in Nodes : Len(nodes'[p]) >= Len(nodes[p])
<1> USE DEF NetTypeOK
<1>1. ASSUME NEW reach \in Reachable(n), SendDiscoveryBroadcast(n, reach)
      PROVE  NetTypeOK' /\ UNCHANGED <<proc, boots, nodes>>
  <2>1. Datagrams("REQUEST", n, reach) \subseteq Message
    BY <1>1 DEF Datagrams, Message, Reachable, Started
  <2> QED
    BY <1>1, <2>1 DEF SendDiscoveryBroadcast
<1>2. ASSUME NEW m \in net, NEW answers \in SUBSET Answers(n, m),
             ListenerReceive(n, m, answers)
      PROVE  /\ NetTypeOK' /\ UNCHANGED <<proc, boots>>
             /\ \A p \in Nodes : Len(nodes'[p]) >= Len(nodes[p])
  <2>1. m.from \in Nodes
    BY DEF Message
  <2>2. answers \subseteq Message
    <3>1. Datagrams("RESPONSE", n, {m.from} \cap Started) \subseteq Message
      <4>1. \A k \in Nodes : [type |-> "RESPONSE", from |-> n, to |-> k] \in Message
        BY DEF Message
      <4> HIDE DEF NetTypeOK
      <4> QED
        BY <2>1, <4>1, Zenon DEF Datagrams
    <3>2. Answers(n, m) = Datagrams("RESPONSE", n, {m.from} \cap Started) \/ Answers(n, m) = {}
      BY Zenon DEF Answers
    <3> QED
      BY <3>1, <3>2, Zenon
  <2>3. nodes[n] \in Seq(Entry)
    OBVIOUS
  <2>4. PICK t : /\ t \in Seq(Entry) /\ Len(t) >= Len(nodes[n])
                 /\ \/ nodes' = [nodes EXCEPT ![n] = t]
                    \/ nodes' = nodes
    <3>1. Upsert(n, m.from) \in Seq(Entry) /\ Len(Upsert(n, m.from)) >= Len(nodes[n])
      BY <2>1, <2>3, UpsertTable
    <3>2. nodes' = [nodes EXCEPT ![n] = Upsert(n, m.from)] \/ nodes' = nodes
      BY <1>2 DEF ListenerReceive
    <3> QED
      BY <3>1, <3>2, Zenon
  <2>5. judged' = [judged EXCEPT ![n] = @ \ {m.from}] \/ judged' = judged
    BY <1>2 DEF ListenerReceive
  <2>6. /\ nodes' \in [Nodes -> Seq(Entry)]
        /\ \A p \in Nodes : Len(nodes'[p]) >= Len(nodes[p])
    <3>1. \A p \in Nodes : nodes[p] \in Seq(Entry) /\ Len(nodes[p]) \in Nat
      OBVIOUS
    <3>2. nodes \in [Nodes -> Seq(Entry)]
      OBVIOUS
    <3> HIDE DEF NetTypeOK
    <3>3. CASE nodes' = [nodes EXCEPT ![n] = t]
      <4>1. nodes' \in [Nodes -> Seq(Entry)]
        BY <2>4, <3>2, <3>3
      <4>2. \A p \in Nodes : nodes'[p] = IF p = n THEN t ELSE nodes[p]
        BY <3>2, <3>3
      <4> QED
        BY <2>4, <3>1, <4>1, <4>2
    <3>4. CASE nodes' = nodes
      BY <3>1, <3>2, <3>4
    <3> QED
      BY <2>4, <3>3, <3>4
  <2>7. judged' \in [Nodes -> SUBSET Nodes]
    <3>1. judged \in [Nodes -> SUBSET Nodes]
      OBVIOUS
    <3>2. PICK k : k = m.from
      OBVIOUS
    <3> HIDE DEF NetTypeOK
    <3> QED
      BY <2>5, <3>1, <3>2
  <2>8. net' \subseteq Message
    <3>1. net' = (net \ {m}) \cup answers
      BY <1>2 DEF ListenerReceive
    <3>2. net \subseteq Message
      OBVIOUS
    <3> HIDE DEF NetTypeOK
    <3> QED
      BY <2>2, <3>1, <3>2, Zenon
  <2>9. listening' \subseteq Nodes /\ UNCHANGED <<proc, boots>>
    BY <1>2 DEF ListenerReceive
  <2> QED
    BY <2>6, <2>7, <2>8, <2>9
<1>3. ASSUME NEW old \in SUBSET ActiveIds(n), HeartbeatRead(n, old)
      PROVE  NetTypeOK' /\ UNCHANGED <<proc, boots, nodes>>
  <2>1. nodes[n] \in Seq(Entry)
    OBVIOUS
  <2>2. \A k \in DOMAIN nodes[n] : nodes[n][k].node_id \in Nodes
    <3>1. \A k \in DOMAIN nodes[n] : nodes[n][k] \in Entry
      BY <2>1
    <3> QED
      BY <3>1 DEF Entry
  <2>3. ActiveIds(n) \subseteq Nodes
    BY <2>2 DEF ActiveIds
  <2> QED
    BY <1>3, <2>3 DEF HeartbeatRead
<1>4. ASSUME HeartbeatScan(n)
      PROVE  /\ NetTypeOK' /\ UNCHANGED <<proc, boots>>
             /\ \A p \in Nodes : Len(nodes'[p]) >= Len(nodes[p])
  <2>1. nodes[n] \in Seq(Entry) /\ judged[n] \in SUBSET Nodes
    OBVIOUS
  <2>2. /\ Deactivated(nodes[n], judged[n]) \in Seq(Entry)
        /\ Len(Deactivated(nodes[n], judged[n])) = Len(nodes[n])
    BY <2>1, DeactivatedTable
  <2> QED
    BY <1>4, <2>2 DEF HeartbeatScan
<1>5. \A p \in Nodes : Len(nodes[p]) \in Nat
  OBVIOUS
<1>6. UNCHANGED nodes => \A p \in Nodes : Len(nodes'[p]) >= Len(nodes[p])
  BY <1>5
<1> HIDE DEF NetTypeOK
<1> QED
  BY <1>1, <1>2, <1>3, <1>4, <1>6, Zenon DEF DiscoveryStep

LEMMA VanishTypes ==
  ASSUME NetTypeOK, NEW n \in Nodes, Vanish(n)
  PROVE  /\ NetTypeOK' /\ UNCHANGED boots
         /\ nodes' = [nodes EXCEPT ![n] = <<>>]
         /\ proc' = [proc EXCEPT ![n] = "down"]
  BY EmptySeq DEF Vanish, NetTypeOK

-----------------------------------------------------------------------------
(* The tables of nodes.                                                    *)

SoundTable(n, t) ==
    /\ Len(t) <= MaxNodes
    /\ \A k \in 1..Len(t) : t[k].node_id # n
    /\ \A j, k \in 1..Len(t) : t[j].node_id = t[k].node_id => j = k

TableInv == \A n \in Nodes : SoundTable(n, nodes[n])

LEMMA InitTable == NetInit => TableInv
  BY DEF NetInit, TableInv, SoundTable

(* What a step may do to a table.                                            *)
Kept(p) ==
    \/ nodes'[p] = nodes[p]
    \/ \E m \in Nodes \ {p} : nodes'[p] = Upsert(p, m)
    \/ \E S \in SUBSET Nodes : nodes'[p] = Deactivated(nodes[p], S)

LEMMA TableStep ==
  ASSUME NetTypeOK, NEW p \in Nodes, NEW n \in Nodes, DiscoveryStep(n)
  PROVE  Kept(p)
<1> USE DEF NetTypeOK
<1>1. Kept(p)
  <2>1. CASE \E reach \in Reachable(n) : SendDiscoveryBroadcast(n, reach)
    BY <2>1 DEF SendDiscoveryBroadcast, Kept
  <2>2. ASSUME NEW m \in net, NEW answers \in SUBSET Answers(n, m),
               ListenerReceive(n, m, answers)
        PROVE  nodes'[p] = nodes[p] \/ \E q \in Nodes \ {p} : nodes'[p] = Upsert(p, q)
    <3>1. m.from \in Nodes
      BY DEF Message
    <3>2. CASE m.from # n /\ nodes' = [nodes EXCEPT ![n] = Upsert(n, m.from)]
      <4>1. CASE p = n
        <5>1. nodes'[p] = Upsert(p, m.from)
          BY <3>2, <4>1, Zenon
        <5> QED
          BY <3>1, <3>2, <4>1, <5>1, Zenon
      <4>2. CASE p # n
        BY <3>2, <4>2, Zenon
      <4> QED
        BY <4>1, <4>2
    <3>3. CASE nodes' = nodes
      BY <3>3
    <3> QED
      BY <2>2, <3>2, <3>3, Zenon DEF ListenerReceive
  <2>3. CASE \E old \in SUBSET ActiveIds(n) : HeartbeatRead(n, old)
    BY <2>3 DEF HeartbeatRead, Kept
  <2>4. CASE HeartbeatScan(n)
    <3>1. judged[n] \in SUBSET Nodes
      OBVIOUS
    <3>2. nodes' = [nodes EXCEPT ![n] = Deactivated(nodes[n], judged[n])]
      BY <2>4 DEF HeartbeatScan
    <3>3. nodes \in [Nodes -> Seq(Entry)]
      OBVIOUS
    <3> HIDE DEF NetTypeOK
    <3>4. CASE p = n
      BY <3>1, <3>2, <3>3, <3>4, Zenon DEF Kept
    <3>5. CASE p # n
      BY <3>2, <3>3, <3>5, Zenon DEF Kept
    <3> QED
      BY <3>4, <3>5
  <2> QED
    BY <2>1, <2>2, <2>3, <2>4, Zenon DEF DiscoveryStep, Kept
<1> QED  BY <1>1

LEMMA NextTable ==
  ASSUME NetTypeOK, TableInv, \A p \in Nodes : Kept(p) \/ nodes'[p] = <<>>
  PROVE  TableInv'
<1> SUFFICES ASSUME NEW p \in Nodes PROVE SoundTable(p, nodes'[p])
  BY DEF TableInv
<1>1. nodes[p] \in Seq(Entry) /\ SoundTable(p, nodes[p])
  BY DEF NetTypeOK, TableInv
<1>2. CASE nodes'[p] = nodes[p]
  BY <1>1, <1>2
<1>3. ASSUME NEW m \in Nodes \ {p}, nodes'[p] = Upsert(p, m)
      PROVE  SoundTable(p, nodes'[p])
  <2>1. PICK t : t = Upsert(p, m)
    OBVIOUS
  <2>2. /\ t \in Seq(Entry)
        /\ Len(t) >= Len(nodes[p])
        /\ Len(t) <= MaxNodes \/ Len(t) = Len(nodes[p])
        /\ \A k \in 1..Len(nodes[p]) : t[k].node_id = nodes[p][k].node_id
        /\ \A k \in 1..Len(t) : k > Len(nodes[p]) =>
              t[k].node_id = m /\ k = Len(nodes[p]) + 1 /\ m \notin Ids(p)
    <3>1. m \in Nodes
      OBVIOUS
    <3> QED
      BY <1>1, <2>1, <3>1, UpsertTable
  <2>3. m \notin Ids(p) => \A k \in 1..Len(nodes[p]) : nodes[p][k].node_id # m
    BY <1>1 DEF Ids
  <2>4. Len(nodes[p]) \in Nat /\ Len(t) \in Nat
    BY <1>1, <2>2
  <2>5. SoundTable(p, t)
    <3>1. Len(t) <= MaxNodes
      BY <1>1, <2>2, <2>4 DEF SoundTable
    <3>2. \A k \in 1..Len(t) : \/ k \in 1..Len(nodes[p]) /\ t[k].node_id = nodes[p][k].node_id
                               \/ /\ k = Len(nodes[p]) + 1 /\ t[k].node_id = m
                                  /\ m \notin Ids(p)
      BY <2>2, <2>4
    <3>3. \A k \in 1..Len(nodes[p]) : nodes[p][k].node_id # p
      BY <1>1 DEF SoundTable
    <3>4. \A j, k \in 1..Len(nodes[p]) : nodes[p][j].node_id = nodes[p][k].node_id => j = k
      BY <1>1 DEF SoundTable
    <3>5. ASSUME NEW j \in 1..Len(t), NEW k \in 1..Len(t), t[j].node_id = t[k].node_id
          PROVE  j = k
      <4>1. CASE j \in 1..Len(nodes[p]) /\ k \in 1..Len(nodes[p])
        BY <2>2, <3>4, <3>5, <4>1
      <4>2. CASE j \notin 1..Len(nodes[p]) /\ k \notin 1..Len(nodes[p])
        BY <3>2, <4>2
      <4>3. CASE j \in 1..Len(nodes[p]) /\ k \notin 1..Len(nodes[p])
        BY <2>2, <2>3, <3>2, <3>5, <4>3
      <4>4. CASE j \notin 1..Len(nodes[p]) /\ k \in 1..Len(nodes[p])
        BY <2>2, <2>3, <3>2, <3>5, <4>4
      <4> QED
        BY <4>1, <4>2, <4>3, <4>4
    <3>6. \A k \in 1..Len(t) : t[k].node_id # p
      BY <3>2, <3>3
    <3> QED
      BY <3>1, <3>5, <3>6 DEF SoundTable
  <2> QED
    BY <1>3, <2>1, <2>5, Zenon
<1>4. ASSUME NEW S \in SUBSET Nodes, nodes'[p] = Deactivated(nodes[p], S)
      PROVE  SoundTable(p, nodes'[p])
  <2>1. PICK t : t = Deactivated(nodes[p], S)
    OBVIOUS
  <2>2. /\ Len(t) = Len(nodes[p])
        /\ \A k \in 1..Len(nodes[p]) : t[k].node_id = nodes[p][k].node_id
    BY <1>1, <2>1, DeactivatedTable, Zenon
  <2>3. SoundTable(p, t)
    BY <1>1, <2>2 DEF SoundTable
  <2> QED
    BY <1>4, <2>1, <2>3, Zenon
<1>5. CASE nodes'[p] = <<>>
  BY <1>5 DEF SoundTable
<1> QED
  BY <1>2, <1>3, <1>4, <1>5, Zenon DEF Kept

LEMMA SoundTables == NetTypeOK /\ TableInv => TableSound
<1> SUFFICES ASSUME NetTypeOK, TableInv, NEW n \in Nodes
             PROVE  n \notin Ids(n) /\ Len(nodes[n]) = Cardinality(Ids(n))
                    /\ Len(nodes[n]) <= MaxNodes
  BY DEF TableSound
<1>1. nodes[n] \in Seq(Entry) /\ SoundTable(n, nodes[n])
  BY DEF NetTypeOK, TableInv
<1>2. DOMAIN nodes[n] = 1..Len(nodes[n]) /\ Len(nodes[n]) \in Nat
  BY <1>1
<1> DEFINE f == [k \in 1..Len(nodes[n]) |-> nodes[n][k].node_id]
<1>3. f \in Surjection(1..Len(nodes[n]), Ids(n))
  BY <1>2 DEF Surjection, Ids
<1>4. f \in Injection(1..Len(nodes[n]), Ids(n))
  BY <1>1, <1>2 DEF Injection, IsInjective, Ids, SoundTable
<1> HIDE DEF f
<1>5. IsFiniteSet(1..Len(nodes[n])) /\ Cardinality(1..Len(nodes[n])) = Len(nodes[n])
  BY <1>2, FS_Interval
<1>6. Cardinality(Ids(n)) = Cardinality(1..Len(nodes[n]))
  BY <1>3, <1>4, <1>5, FS_Surjection
<1>7. n \notin Ids(n) /\ Len(nodes[n]) <= MaxNodes
  BY <1>1, <1>2 DEF Ids, SoundTable
<1> QED
  BY <1>5, <1>6, <1>7

(* Entries are deactivated, never taken out.                                 *)
LEMMA IdsKept ==
  ASSUME NetTypeOK, NEW p \in Nodes, Kept(p)
  PROVE  Ids(p) \subseteq Ids(p)'
<1>1. nodes[p] \in Seq(Entry) /\ DOMAIN nodes[p] = 1..Len(nodes[p])
  BY DEF NetTypeOK
<1>2. ASSUME NEW t \in Seq(Entry), nodes'[p] = t, Len(t) >= Len(nodes[p]),
             \A k \in 1..Len(nodes[p]) : t[k].node_id = nodes[p][k].node_id
      PROVE  Ids(p) \subseteq Ids(p)'
  <2>1. DOMAIN t = 1..Len(t) /\ 1..Len(nodes[p]) \subseteq 1..Len(t)
    BY <1>1, <1>2
  <2> QED
    BY <1>1, <1>2, <2>1 DEF Ids
<1>3. ASSUME NEW m \in Nodes \ {p}, nodes'[p] = Upsert(p, m)
      PROVE  Ids(p) \subseteq Ids(p)'
  <2>1. PICK t : t = Upsert(p, m)
    OBVIOUS
  <2>2. /\ t \in Seq(Entry) /\ Len(t) >= Len(nodes[p])
        /\ \A k \in 1..Len(nodes[p]) : t[k].node_id = nodes[p][k].node_id
    BY <1>1, <2>1, UpsertTable
  <2> QED
    BY <1>2, <1>3, <2>1, <2>2, Zenon
<1>4. ASSUME NEW S \in SUBSET Nodes, nodes'[p] = Deactivated(nodes[p], S)
      PROVE  Ids(p) \subseteq Ids(p)'
  <2>1. PICK t : t = Deactivated(nodes[p], S)
    OBVIOUS
  <2>2. /\ t \in Seq(Entry) /\ Len(t) >= Len(nodes[p])
        /\ \A k \in 1..Len(nodes[p]) : t[k].node_id = nodes[p][k].node_id
    <3>1. /\ t \in Seq(Entry) /\ Len(t) = Len(nodes[p])
          /\ \A k \in 1..Len(nodes[p]) : t[k].node_id = nodes[p][k].node_id
      BY <1>1, <2>1, DeactivatedTable, Zenon
    <3>2. Len(nodes[p]) \in Nat
      BY <1>1
    <3> QED
      BY <3>1, <3>2
  <2> QED
    BY <1>2, <1>4, <2>1, <2>2, Zenon
<1>5. CASE nodes'[p] = nodes[p]
  BY <1>5 DEF Ids
<1> QED
  BY <1>3, <1>4, <1>5, Zenon DEF Kept
================================================================================
