--------------------------- MODULE AlpineKernelProofs ---------------------------
(***************************************************************************)
(* What AlpineKernel guarantees for every set of ids and every bound.       *)
(***************************************************************************)
EXTENDS AlpineKernel, NetDiscoveryProofs

USE MaxNodesAssumption, LoopbackAssumption, BoundsAssumption, TasksAssumption

-----------------------------------------------------------------------------
(* Types.  A task command that got past the test of the table has room in it. *)

TypeInv ==
    /\ TypeOK
    /\ \A n \in Nodes : pc[n] \in {"choose", "store"} => Len(tasks[n]) < MaxTasks

LEMMA InitTypeInv == Init => TypeInv
<1> SUFFICES ASSUME Init PROVE TypeInv
  OBVIOUS
<1>1. NetTypeOK
  BY EmptySeq DEF Init, NetInit, NetTypeOK
<1>2. tasks \in [Nodes -> Seq(Task)] /\ \A n \in Nodes : Len(tasks[n]) <= MaxTasks
  BY EmptySeq DEF Init
<1> QED
  BY <1>1, <1>2 DEF Init, TypeInv, TypeOK

LEMMA ActiveNodes ==
  ASSUME NetTypeOK, NEW n \in Nodes
  PROVE  ActiveIds(n) \subseteq Nodes /\ ActiveIds(n) \subseteq Ids(n)
<1>1. nodes[n] \in Seq(Entry)
  BY DEF NetTypeOK
<1>2. \A k \in DOMAIN nodes[n] : nodes[n][k] \in Entry
  BY <1>1
<1>3. \A k \in DOMAIN nodes[n] : nodes[n][k].node_id \in Nodes
  BY <1>2 DEF Entry
<1> QED
  BY <1>3 DEF ActiveIds, Ids

(* A command leaves the protocol's state alone, except for exit.              *)
LEMMA CommandTypes ==
  ASSUME TypeInv, NEW n \in Nodes, Command(n)
  PROVE  TypeInv' /\ UNCHANGED nodes
<1> USE DEF TypeInv, TypeOK, NetTypeOK, netVars
<1>1. LoopTest(n) \in {"prompt", "ended"}
  BY DEF LoopTest
<1> HIDE DEF LoopTest
<1>2. CASE ReportCommand(n)
  BY <1>1, <1>2 DEF ReportCommand
<1>3. CASE TaskCommand(n)
  <2>1. task_id' \in [Nodes -> 0..MaxCommands]
    BY <1>3 DEF TaskCommand
  <2>2. PICK l \in {"prompt", "choose", "ended"} :
           /\ pc' = [pc EXCEPT ![n] = l]
           /\ l = "choose" => Len(tasks[n]) < MaxTasks
    <3>1. Len(tasks[n]) \in Nat
      OBVIOUS
    <3>2. CASE Len(tasks[n]) >= MaxTasks
      BY <1>1, <1>3, <3>2 DEF TaskCommand
    <3>3. CASE ~(Len(tasks[n]) >= MaxTasks)
      BY <1>3, <3>1, <3>3 DEF TaskCommand
    <3> QED
      BY <3>2, <3>3
  <2> QED
    BY <1>3, <2>1, <2>2 DEF TaskCommand
<1>4. CASE FindBestNode(n)
  <2>1. KernelId(n) \in Nodes \cup {NoId}
    BY DEF KernelId
  <2>2. best' \in [Nodes -> Nodes \cup {NoId}]
    BY <1>4, <2>1, ActiveNodes DEF FindBestNode
  <2> QED
    BY <1>4, <2>2 DEF FindBestNode
<1>5. CASE StoreTask(n)
  <2>1. PICK t : t = Append(tasks[n], [task_id |-> task_id[n], assigned_node |-> best[n]])
    OBVIOUS
  <2>2. [task_id |-> task_id[n], assigned_node |-> best[n]] \in Task
    BY DEF Task
  <2>3. t \in Seq(Task) /\ Len(t) = Len(tasks[n]) + 1
    BY <2>1, <2>2
  <2>4. tasks' = [tasks EXCEPT ![n] = t] /\ Len(tasks[n]) < MaxTasks
    BY <1>5, <2>1 DEF StoreTask
  <2>5. tasks' \in [Nodes -> Seq(Task)] /\ \A p \in Nodes : Len(tasks'[p]) <= MaxTasks
    BY <2>3, <2>4
  <2>6. PICK l \in {"prompt", "ended"} : pc' = [pc EXCEPT ![n] = l]
    BY <1>1, <1>5 DEF StoreTask
  <2>7. \A p \in Nodes : pc'[p] \in {"choose", "store"} => Len(tasks'[p]) < MaxTasks
    BY <2>4, <2>6
  <2> QED
    BY <1>5, <2>5, <2>6, <2>7 DEF StoreTask
<1>6. CASE ExitCommand(n)
  BY <1>6 DEF ExitCommand
<1>7. CASE EndOfInput(n)
  BY <1>7 DEF EndOfInput
<1> QED
  BY <1>2, <1>3, <1>4, <1>5, <1>6, <1>7 DEF Command

LEMMA MainTypes ==
  ASSUME TypeInv, NEW n \in Nodes, Main(n)
  PROVE  /\ TypeInv'
         /\ \/ UNCHANGED <<nodes, tasks, best>>
               /\ \A p \in Nodes : pc'[p] = "store" => pc[p] = "store"
            \/ Vanish(n) /\ Forget(n)
<1> USE DEF TypeInv, TypeOK, netVars, kernelVars
<1>1. CASE Start(n)
  BY <1>1 DEF Start, Boot, NetTypeOK
<1>2. CASE CreateCommandThread(n)
  BY <1>2 DEF CreateCommandThread, LoopTest, NetTypeOK
<1>3. CASE HandleSignal(n)
  BY <1>3 DEF HandleSignal, NetTypeOK
<1>4. ASSUME NEW blocked \in BOOLEAN, StopNetwork(n, blocked)
      PROVE  TypeInv' /\ UNCHANGED <<nodes, kernelVars>>
  BY <1>4 DEF StopNetwork, NetTypeOK
<1>5. CASE Vanish(n) /\ Forget(n)
  <2>1. NetTypeOK'
    BY <1>5, VanishTypes
  <2>2. /\ tasks' \in [Nodes -> Seq(Task)]
        /\ \A p \in Nodes : tasks'[p] = IF p = n THEN <<>> ELSE tasks[p]
    BY <1>5, EmptySeq DEF Forget
  <2>3. \A p \in Nodes : Len(tasks'[p]) <= MaxTasks
    BY <2>2
  <2> QED
    BY <1>5, <2>1, <2>2, <2>3 DEF Forget
<1> HIDE DEF TypeInv, TypeOK
<1> QED
  BY <1>1, <1>2, <1>3, <1>4, <1>5
     DEF Main, Start, Boot, CreateCommandThread, LoopTest, HandleSignal, End, ShutdownEnd, Fail, Crash

LEMMA NextTypeInv == TypeInv /\ [Next]_vars => TypeInv'
<1> SUFFICES ASSUME TypeInv, [Next]_vars PROVE TypeInv'
  OBVIOUS
<1>1. ASSUME NEW n \in Nodes, Protocol(n) PROVE TypeInv'
  <2>1. DiscoveryStep(n) /\ UNCHANGED kernelVars
    BY <1>1 DEF Protocol, DiscoveryStep, Broadcast, Receive, Heartbeat
  <2>2. NetTypeOK'
    BY <2>1, NetTypes DEF TypeInv, TypeOK
  <2> QED
    BY <2>1, <2>2 DEF TypeInv, TypeOK, kernelVars
<1>2. CASE UNCHANGED vars
  BY <1>2 DEF vars, netVars, kernelVars, TypeInv, TypeOK, NetTypeOK
<1> QED
  BY <1>1, <1>2, CommandTypes, MainTypes DEF Next

(* The program's state stays in its types and the task table in its array,    *)
(* for any ids and capacities.                                               *)
THEOREM TypeCorrect == Spec => []TypeOK
<1>1. TypeInv => TypeOK
  BY DEF TypeInv
<1> QED
  BY <1>1, InitTypeInv, NextTypeInv, PTL DEF Spec

-----------------------------------------------------------------------------
(* The tables of nodes.                                                    *)

LEMMA TablesKept ==
  ASSUME TypeInv, [Next]_vars, NEW p \in Nodes
  PROVE  Kept(p) \/ nodes'[p] = <<>>
<1>0. NetTypeOK
  BY DEF TypeInv, TypeOK
<1>1. ASSUME NEW n \in Nodes, Protocol(n) PROVE Kept(p)
  BY <1>0, <1>1, TableStep DEF Protocol, DiscoveryStep, Broadcast, Receive, Heartbeat
<1>2. ASSUME NEW n \in Nodes, Command(n) PROVE nodes'[p] = nodes[p]
  BY <1>2, CommandTypes
<1>3. ASSUME NEW n \in Nodes, Main(n) PROVE nodes'[p] = nodes[p] \/ nodes'[p] = <<>>
  BY <1>0, <1>3, MainTypes DEF Vanish, NetTypeOK
<1>4. CASE UNCHANGED vars
  BY <1>4 DEF vars, netVars, Kept
<1> QED
  BY <1>1, <1>2, <1>3, <1>4, Zenon DEF Next, Kept

(* One entry for each id at most, never the node's own, within the array:     *)
(* restarts under new ids fill a table and never break it.                    *)
THEOREM TablesCorrect == Spec => []TableSound
<1>1. Init => TypeInv /\ TableInv
  BY InitTypeInv, InitTable DEF Init
<1>2. TypeInv /\ TableInv /\ [Next]_vars => (TypeInv /\ TableInv)'
  <2> SUFFICES ASSUME TypeInv, TableInv, [Next]_vars PROVE TypeInv' /\ TableInv'
    OBVIOUS
  <2>1. NetTypeOK
    BY DEF TypeInv, TypeOK
  <2> QED
    BY <2>1, NextTypeInv, TablesKept, NextTable
<1>3. TypeInv /\ TableInv => TableSound
  BY SoundTables DEF TypeInv, TypeOK
<1> QED
  BY <1>1, <1>2, <1>3, PTL DEF Spec

-----------------------------------------------------------------------------
(* The nodes tasks are recorded with.                                      *)

(* A node that was chosen under nodes_lock stays known until its task is      *)
(* stored, and after.                                                        *)
KnownInv ==
    /\ AssignedKnown
    /\ \A n \in Nodes : pc[n] = "store" => best[n] \in Ids(n) \cup {KernelId(n)}

LEMMA NextKnown == TypeInv /\ KnownInv /\ [Next]_vars => KnownInv'
<1> SUFFICES ASSUME TypeInv, KnownInv, [Next]_vars PROVE KnownInv'
  OBVIOUS
<1>0. NetTypeOK /\ TypeOK
  BY DEF TypeInv, TypeOK
<1>a. \A p \in Nodes : DOMAIN tasks[p] = 1..Len(tasks[p])
  BY <1>0 DEF TypeOK
<1>1. ASSUME \A p \in Nodes : Ids(p) \subseteq Ids(p)', UNCHANGED <<tasks, best>>,
             \A p \in Nodes : pc'[p] = "store" => pc[p] = "store"
      PROVE  KnownInv'
  BY <1>1 DEF KnownInv, AssignedKnown, KernelId
<1>2. UNCHANGED nodes => \A p \in Nodes : Ids(p) \subseteq Ids(p)'
  BY DEF Ids
<1>3. ASSUME NEW n \in Nodes, Protocol(n) PROVE KnownInv'
  <2>1. DiscoveryStep(n) /\ UNCHANGED kernelVars
    BY <1>3 DEF Protocol, DiscoveryStep, Broadcast, Receive, Heartbeat
  <2>2. \A p \in Nodes : Ids(p) \subseteq Ids(p)'
    BY <1>0, <2>1, TableStep, IdsKept
  <2> QED
    BY <1>1, <2>1, <2>2 DEF kernelVars
<1>4. ASSUME NEW n \in Nodes, Command(n) PROVE KnownInv'
  <2>0. \A p \in Nodes : Ids(p)' = Ids(p)
    BY <1>4, CommandTypes DEF Ids
  <2>1. CASE FindBestNode(n)
    <3>1. PICK b \in Ids(n) \cup {KernelId(n)} : best' = [best EXCEPT ![n] = b]
      BY <1>0, <2>1, ActiveNodes DEF FindBestNode
    <3>2. pc' = [pc EXCEPT ![n] = "store"] /\ UNCHANGED tasks
      BY <2>1 DEF FindBestNode
    <3>3. best' \in [Nodes -> Nodes \cup {NoId}] /\ best'[n] = b
          /\ \A p \in Nodes \ {n} : best'[p] = best[p] /\ pc'[p] = pc[p]
      BY <1>0, <1>4, <3>1, <3>2, CommandTypes DEF TypeOK, TypeInv
    <3> QED
      BY <2>0, <3>2, <3>3 DEF KnownInv, AssignedKnown, KernelId
  <2>2. CASE StoreTask(n)
    <3>1. PICK t : t = Append(tasks[n], [task_id |-> task_id[n], assigned_node |-> best[n]])
      OBVIOUS
    <3>2. /\ DOMAIN t = 1..(Len(tasks[n]) + 1)
          /\ \A k \in 1..Len(tasks[n]) : t[k] = tasks[n][k]
          /\ t[Len(tasks[n]) + 1].assigned_node = best[n]
      BY <1>0, <3>1 DEF TypeOK
    <3>3. \A p \in Nodes : tasks'[p] = IF p = n THEN t ELSE tasks[p]
      BY <1>0, <2>2, <3>1 DEF StoreTask, TypeOK
    <3>4. best[n] \in Ids(n) \cup {KernelId(n)}
      BY <2>2 DEF StoreTask, KnownInv
    <3>5. \A k \in DOMAIN t : t[k].assigned_node \in Ids(n) \cup {KernelId(n)}
      <4>1. \A k \in 1..Len(tasks[n]) : tasks[n][k].assigned_node \in Ids(n) \cup {KernelId(n)}
        BY <1>a DEF KnownInv, AssignedKnown
      <4>2. Len(tasks[n]) \in Nat
        BY <1>0 DEF TypeOK
      <4>3. \A k \in DOMAIN t : k \in 1..Len(tasks[n]) \/ k = Len(tasks[n]) + 1
        BY <3>2, <4>2
      <4> QED
        BY <3>2, <3>4, <4>1, <4>3, Zenon
    <3>6. \A p \in Nodes : pc'[p] = "store" => p # n /\ pc[p] = "store" /\ best'[p] = best[p]
      BY <1>0, <2>2 DEF StoreTask, LoopTest, TypeOK
    <3>7. AssignedKnown'
      BY <2>0, <3>3, <3>5 DEF KnownInv, AssignedKnown, KernelId
    <3> QED
      BY <2>0, <3>6, <3>7 DEF KnownInv, KernelId
  <2>3. CASE ReportCommand(n) \/ TaskCommand(n) \/ ExitCommand(n) \/ EndOfInput(n)
    <3>1. UNCHANGED <<tasks, best>>
      BY <2>3 DEF ReportCommand, TaskCommand, ExitCommand, EndOfInput
    <3>2. PICK l \in {"prompt", "choose", "ended"} : pc' = [pc EXCEPT ![n] = l]
      BY <2>3 DEF ReportCommand, TaskCommand, ExitCommand, EndOfInput, LoopTest
    <3>3. \A p \in Nodes : pc'[p] = "store" => pc[p] = "store"
      BY <1>0, <3>2 DEF TypeOK
    <3> QED
      BY <1>1, <2>0, <3>1, <3>3
  <2> QED
    BY <1>4, <2>1, <2>2, <2>3 DEF Command
<1>5. ASSUME NEW n \in Nodes, Main(n) PROVE KnownInv'
  <2>1. CASE UNCHANGED <<nodes, tasks, best>> /\ \A p \in Nodes : pc'[p] = "store" => pc[p] = "store"
    BY <1>1, <1>2, <2>1
  <2>2. CASE Vanish(n) /\ Forget(n)
    <3>1. \A p \in Nodes \ {n} : /\ Ids(p)' = Ids(p) /\ tasks'[p] = tasks[p]
                                 /\ pc'[p] = pc[p] /\ best'[p] = best[p]
      BY <1>0, <2>2 DEF Vanish, Forget, Ids, NetTypeOK, TypeOK
    <3>2. tasks'[n] = <<>> /\ pc'[n] = "ended"
      BY <1>0, <2>2 DEF Forget, TypeOK
    <3> QED
      BY <3>1, <3>2 DEF KnownInv, AssignedKnown, KernelId
  <2> QED
    BY <1>5, <2>1, <2>2, MainTypes
<1>6. CASE UNCHANGED vars
  BY <1>1, <1>2, <1>6 DEF vars, netVars, kernelVars
<1> QED
  BY <1>3, <1>4, <1>5, <1>6 DEF Next

(* Every task is recorded with the node's own id or with one that its table   *)
(* still knows, although the table changes between choice and record.         *)
THEOREM AssignedCorrect == Spec => []AssignedKnown
<1>1. Init => TypeInv /\ KnownInv
  BY InitTypeInv DEF Init, KnownInv, AssignedKnown
<1>2. TypeInv /\ KnownInv /\ [Next]_vars => (TypeInv /\ KnownInv)'
  BY NextTypeInv, NextKnown
<1>3. KnownInv => AssignedKnown
  BY DEF KnownInv
<1> QED
  BY <1>1, <1>2, <1>3, PTL DEF Spec
================================================================================
