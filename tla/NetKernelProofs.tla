---------------------------- MODULE NetKernelProofs ----------------------------
(***************************************************************************)
(* What NetKernel guarantees for every set of machines and every bound.     *)
(***************************************************************************)
EXTENDS NetKernel, NetDiscoveryProofs

USE MaxNodesAssumption, LoopbackAssumption, BoundsAssumption, TasksAssumption

-----------------------------------------------------------------------------
(* Types.                                                                  *)

Busy == {"evaluate", "send", "connect", "store"}

(* What the loop counts to stays inside the table, a command that got past   *)
(* the test of the task table has room in it, only started machines have     *)
(* threads.                                                                  *)
TypeInv ==
    /\ TypeOK
    /\ \A n \in Nodes : count[n] <= Len(nodes[n])
    /\ \A n \in Nodes : pc[n] \in Busy => Len(tasks[n]) < MaxTasks
    /\ \A n \in Nodes : pc[n] # "ended" => proc[n] # "down"

LEMMA InitTypeInv == Init => TypeInv
  BY EmptySeq DEF Init, NetInit, TypeInv, TypeOK, NetTypeOK, Busy

LEMMA NextTypeInv == TypeInv /\ [Next]_vars => TypeInv'
<1> SUFFICES ASSUME TypeInv, [Next]_vars PROVE TypeInv'
  OBVIOUS
<1> USE DEF TypeInv, TypeOK, Goto, commandVars, serverVars, kernelVars, netVars, Busy
<1>1. \A p \in Nodes : nodes[p] \in Seq(Entry) /\ Len(nodes[p]) \in Nat
  BY DEF NetTypeOK
<1>2. ASSUME NEW n \in Nodes, Protocol(n) PROVE TypeInv'
  <2>1. UNCHANGED kernelVars
    BY <1>2 DEF Protocol
  <2>2. /\ NetTypeOK' /\ UNCHANGED <<proc, boots>>
        /\ \A p \in Nodes : Len(nodes'[p]) >= Len(nodes[p])
    BY <1>2, NetTypes DEF Protocol
  <2>3. \A p \in Nodes : nodes'[p] \in Seq(Entry) /\ Len(nodes'[p]) \in Nat
    BY <2>2 DEF NetTypeOK
  <2>4. \A p \in Nodes : count'[p] <= Len(nodes'[p])
    <3>1. \A p \in Nodes : count'[p] = count[p] /\ count[p] \in Nat
      BY <2>1
    <3>2. \A p \in Nodes : count[p] <= Len(nodes[p])
      OBVIOUS
    <3> HIDE DEF TypeInv, TypeOK
    <3> QED
      BY <1>1, <2>2, <2>3, <3>1, <3>2
  <2>5. /\ \A p \in Nodes : pc'[p] \in Busy => Len(tasks'[p]) < MaxTasks
        /\ \A p \in Nodes : pc'[p] # "ended" => proc'[p] # "down"
    BY <2>1, <2>2
  <2> QED
    BY <2>1, <2>2, <2>4, <2>5
<1>3. ASSUME NEW n \in Nodes, Command(n) PROVE TypeInv'
  <2>1. CASE TaskCommand(n)
    <3>1. Cardinality(ActiveIds(n)) \in Nat /\ Cardinality(ActiveIds(n)) <= Len(nodes[n])
      BY <1>1, ActiveCount
    <3>2. PICK k \in Nat : k = Cardinality(ActiveIds(n)) /\ k <= Len(nodes[n])
      BY <3>1
    <3>3. CASE Len(tasks[n]) >= MaxTasks
      <4>1. PICK l \in {"prompt", "ended"} :
               pc' = [pc EXCEPT ![n] = l] /\ (l = "prompt" => proc[n] = "up")
        BY <2>1, <3>3 DEF TaskCommand, LoopTest
      <4>2. /\ counter' = [counter EXCEPT ![n] = @ + 1] /\ counter[n] < MaxCommands
            /\ UNCHANGED <<netVars, count, next, best, tasks, serverVars>>
        BY <2>1, <3>3 DEF TaskCommand
      <4>3. TypeOK'
        BY <4>1, <4>2, SMTT(30) DEF NetTypeOK
      <4>4. \A p \in Nodes : pc'[p] \in Busy => pc[p] \in Busy
        BY <4>1
      <4>5. \A p \in Nodes : pc'[p] # "ended" => proc'[p] # "down"
        BY <4>1, <4>2
      <4> QED
        BY <4>2, <4>3, <4>4, <4>5
    <3>4. CASE ~(Len(tasks[n]) >= MaxTasks)
      <4>1. /\ count' = [count EXCEPT ![n] = k]
            /\ pc' = [pc EXCEPT ![n] = "evaluate"]
            /\ counter' = [counter EXCEPT ![n] = @ + 1] /\ counter[n] < MaxCommands
            /\ pc[n] = "prompt"
            /\ UNCHANGED <<netVars, next, best, tasks, serverVars>>
        BY <2>1, <3>2, <3>4 DEF TaskCommand
      <4>2. Len(tasks[n]) < MaxTasks
        BY <3>4
      <4> QED
        BY <1>1, <3>2, <4>1, <4>2 DEF NetTypeOK
    <3> QED
      BY <3>3, <3>4
  <2>2. CASE Evaluate(n)
    <3>1. nodes[n][next[n]] \in Entry
      BY <1>1, <2>2 DEF Evaluate
    <3>2. nodes[n][next[n]].node_id \in Nodes
      BY <3>1 DEF Entry
    <3>3. PICK e \in Nodes : best' = best \/ best' = [best EXCEPT ![n] = e]
      BY <2>2, <3>2 DEF Evaluate
    <3>4. /\ next' = [next EXCEPT ![n] = @ + 1]
          /\ UNCHANGED <<netVars, pc, counter, count, tasks, serverVars>>
      BY <2>2 DEF Evaluate
    <3>5. best' \in [Nodes -> Nodes] /\ next' \in [Nodes -> Nat \ {0}]
      <4>1. CASE best' = best
        BY <3>4, <4>1
      <4>2. CASE best' = [best EXCEPT ![n] = e]
        BY <3>4, <4>2
      <4> QED
        BY <3>3, <4>1, <4>2
    <3>6. TypeOK'
      BY <3>4, <3>5 DEF NetTypeOK
    <3>7. /\ \A p \in Nodes : count'[p] <= Len(nodes'[p])
          /\ \A p \in Nodes : pc'[p] \in Busy => Len(tasks'[p]) < MaxTasks
          /\ \A p \in Nodes : pc'[p] # "ended" => proc'[p] # "down"
      BY <3>4
    <3> QED
      BY <3>6, <3>7
  <2>3. CASE EvaluateDone(n)
    BY <1>1, <2>3 DEF EvaluateDone, NetTypeOK
  <2>4. CASE FindTarget(n)
    <3>1. \/ pc' = [pc EXCEPT ![n] = "connect"] /\ UNCHANGED best
          \/ pc' = [pc EXCEPT ![n] = "store"] /\ best' = [best EXCEPT ![n] = n]
      BY <2>4 DEF FindTarget, RunLocally
    <3>2. pc[n] = "send" /\ UNCHANGED <<netVars, counter, count, next, tasks, serverVars>>
      BY <2>4 DEF FindTarget
    <3>3. CASE pc' = [pc EXCEPT ![n] = "connect"] /\ UNCHANGED best
      BY <3>2, <3>3 DEF NetTypeOK
    <3>4. CASE pc' = [pc EXCEPT ![n] = "store"] /\ best' = [best EXCEPT ![n] = n]
      BY <3>2, <3>4 DEF NetTypeOK
    <3> QED
      BY <3>1, <3>3, <3>4
  <2>5. CASE ConnectFails(n)
    BY <2>5 DEF ConnectFails, RunLocally, NetTypeOK
  <2>6. CASE SendTask(n)
    <3>1. [owner |-> n, boot |-> boots[n], task_id |-> counter[n], at |-> best[n]] \in Sent
      BY DEF Sent, NetTypeOK
    <3> QED
      BY <2>6, <3>1 DEF SendTask, NetTypeOK
  <2>7. CASE Store(n)
    <3>1. [task_id |-> counter[n], assigned_node |-> best[n]] \in Task
      BY DEF Task
    <3>2. tasks[n] \in Seq(Task) /\ Len(tasks[n]) < MaxTasks
      BY <2>7 DEF Store
    <3>3. PICK e \in Task : e = [task_id |-> counter[n], assigned_node |-> best[n]]
      BY <3>1
    <3>4. tasks' = [tasks EXCEPT ![n] = Append(@, e)]
      BY <2>7, <3>3 DEF Store
    <3>5. /\ Append(tasks[n], e) \in Seq(Task)
          /\ Len(Append(tasks[n], e)) <= MaxTasks
      BY <3>2
    <3>6. pc'[n] \in {"prompt", "ended"} /\ (pc'[n] = "prompt" => proc[n] = "up")
      BY <2>7 DEF Store, LoopTest
    <3>7. /\ \A p \in Nodes \ {n} : pc'[p] = pc[p]
          /\ pc' \in [Nodes -> {"prompt", "evaluate", "send", "connect", "store", "ended"}]
      BY <2>7 DEF Store, LoopTest
    <3>8. /\ best' = [best EXCEPT ![n] = n]
          /\ UNCHANGED <<netVars, counter, count, next, serverVars>>
      BY <2>7 DEF Store
    <3>9. tasks' \in [Nodes -> Seq(Task)] /\ \A p \in Nodes : Len(tasks'[p]) <= MaxTasks
      BY <3>4, <3>5
    <3>10. \A p \in Nodes \ {n} : tasks'[p] = tasks[p]
      BY <3>4
    <3> QED
      BY <3>6, <3>7, <3>8, <3>9, <3>10 DEF NetTypeOK
  <2>8. CASE ExitCommand(n)
    BY <2>8 DEF ExitCommand, NetTypeOK
  <2>9. CASE EndOfInput(n)
    BY <2>9 DEF EndOfInput, NetTypeOK
  <2> QED
    BY <1>3, <2>1, <2>2, <2>3, <2>4, <2>5, <2>6, <2>7, <2>8, <2>9 DEF Command
<1>4. ASSUME NEW n \in Nodes, Server(n) PROVE TypeInv'
  BY <1>4 DEF Server, Serve, NetTypeOK
<1>5. ASSUME NEW n \in Nodes, Main(n) PROVE TypeInv'
  <2>1. CASE Start(n)
    BY <2>1 DEF Start, Boot, NetTypeOK
  <2>2. CASE HandleSignal(n)
    BY <2>2 DEF HandleSignal, NetTypeOK
  <2>3. CASE Shutdown(n)
    <3>1. PICK reach \in Reachable(n), blocked \in BOOLEAN :
             ShutdownNetworkDiscovery(n, reach, blocked)
      BY <2>3 DEF Shutdown
    <3>2. Datagrams("LEAVE", n, reach \cup (IF Loopback THEN {n} ELSE {})) \subseteq Message
      BY <3>1 DEF Datagrams, Message, Reachable, Started
    <3> QED
      BY <2>3, <3>1, <3>2 DEF Shutdown, ShutdownNetworkDiscovery, NetTypeOK
  <2>4. CASE Vanish(n) /\ Forget(n)
    <3>1. /\ NetTypeOK' /\ UNCHANGED boots
          /\ nodes' = [nodes EXCEPT ![n] = <<>>]
          /\ proc' = [proc EXCEPT ![n] = "down"]
      BY <2>4, VanishTypes
    <3> QED
      BY <1>1, <2>4, <3>1, EmptySeq DEF Forget, NetTypeOK
  <2> QED
    BY <1>5, <2>1, <2>2, <2>3, <2>4 DEF Main, End, Fail, ShutdownEnd, Crash
<1>6. CASE UNCHANGED vars
  BY <1>6 DEF vars, NetTypeOK
<1> QED
  BY <1>2, <1>3, <1>4, <1>5, <1>6 DEF Next

(* Every variable stays in its range, and the task table in its array, for    *)
(* any number of machines and any capacities.                                 *)
THEOREM TypeCorrect == Spec => []TypeOK
<1>1. TypeInv => TypeOK
  BY DEF TypeInv
<1> QED
  BY <1>1, InitTypeInv, NextTypeInv, PTL DEF Spec

(* The unlocked loop of find_best_node_for_task never leaves the table, for   *)
(* any number of machines and any capacities.                                 *)
THEOREM IndexCorrect == Spec => []IndexInTable
<1>1. TypeInv => IndexInTable
  BY DEF TypeInv, IndexInTable
<1> QED
  BY <1>1, InitTypeInv, NextTypeInv, PTL DEF Spec

-----------------------------------------------------------------------------
(* The tables of nodes: no step but the protocol's and the end of a process  *)
(* touches one.                                                            *)

LEMMA TablesKept ==
  ASSUME TypeInv, [Next]_vars, NEW p \in Nodes
  PROVE  Kept(p) \/ nodes'[p] = <<>>
<1>0. NetTypeOK  BY DEF TypeInv, TypeOK
<1>1. ASSUME NEW n \in Nodes, Protocol(n) PROVE Kept(p)
  BY <1>0, <1>1, TableStep DEF Protocol
<1>2. ASSUME NEW n \in Nodes, Command(n) \/ Server(n)
      PROVE  nodes'[p] = nodes[p]
  BY <1>2 DEF Command, Server, TaskCommand, Evaluate, EvaluateDone, FindTarget, ConnectFails,
              SendTask, Store, ExitCommand, EndOfInput, Serve, netVars
<1>3. ASSUME NEW n \in Nodes, Main(n)
      PROVE  nodes'[p] = nodes[p] \/ nodes'[p] = <<>>
  <2>1. UNCHANGED nodes \/ Vanish(n)
    BY <1>3 DEF Main, Start, Boot, HandleSignal, Shutdown, ShutdownNetworkDiscovery, End, Fail,
                ShutdownEnd, Crash
  <2> QED
    BY <1>0, <2>1 DEF Vanish, NetTypeOK
<1>4. CASE UNCHANGED vars
  BY <1>4 DEF vars, netVars, Kept
<1> QED
  BY <1>1, <1>2, <1>3, <1>4, Zenon DEF Next, Kept

(* However requests, answers and restarts are interleaved, every table has    *)
(* one entry for each node at most, never its own, and fits its array.        *)
THEOREM TablesCorrect == Spec => []TableSound
<1>1. Init => TypeInv /\ TableInv
  BY InitTypeInv, InitTable DEF Init
<1>2. TypeInv /\ TableInv /\ [Next]_vars => (TypeInv /\ TableInv)'
  <2> SUFFICES ASSUME TypeInv, TableInv, [Next]_vars PROVE TypeInv' /\ TableInv'
    OBVIOUS
  <2>1. NetTypeOK  BY DEF TypeInv, TypeOK
  <2> QED
    BY <2>1, NextTypeInv, TablesKept, NextTable
<1>3. TypeInv /\ TableInv => TableSound
  BY SoundTables DEF TypeInv, TypeOK
<1> QED
  BY <1>1, <1>2, <1>3, PTL DEF Spec

-----------------------------------------------------------------------------
(* The tasks that were sent.  While the process that sent a task lives, its   *)
(* id is behind the command thread's, which is strictly ahead until the next  *)
(* task is sent.                                                             *)

Deciding == {"evaluate", "send", "connect"}

Current(c) == proc[c.owner] # "down" /\ boots[c.owner] = c.boot

Claim(c) ==
    /\ c.task_id <= counter[c.owner]
    /\ pc[c.owner] \in Deciding => c.task_id < counter[c.owner]
    /\ Recorded(c)

DispatchInv ==
    /\ OneNodePerTask
    /\ \A c \in conns \cup executed : c.boot <= boots[c.owner]
    /\ \A c \in conns \cup executed : Current(c) => Claim(c)

LEMMA InitDispatch == Init => DispatchInv
  BY DEF Init, DispatchInv, OneNodePerTask

(* A step that sends nothing only has to keep the claims.                    *)
LEMMA NothingSent ==
  ASSUME TypeInv, DispatchInv,
         conns' \cup executed' \subseteq conns \cup executed,
         conns' \cap executed' = {},
         \A p \in Nodes : boots[p] <= boots'[p] /\ boots'[p] \in Nat,
         \A c \in conns \cup executed : Current(c)' => Claim(c)'
  PROVE  DispatchInv'
<1>1. \A c \in conns \cup executed : c.owner \in Nodes /\ c.boot \in Nat
  BY DEF TypeInv, TypeOK, Sent
<1>2. \A p \in Nodes : boots[p] \in Nat
  BY DEF TypeInv, TypeOK, NetTypeOK
<1>3. \A c, d \in conns \cup executed : SameTask(c, d) => c = d
  BY DEF DispatchInv, OneNodePerTask
<1>4. OneNodePerTask'
  BY <1>3 DEF OneNodePerTask, SameTask
<1>5. \A c \in conns' \cup executed' : c.boot <= boots'[c.owner]
  BY <1>1, <1>2 DEF DispatchInv
<1> QED
  BY <1>4, <1>5 DEF DispatchInv

(* A step that leaves the command threads alone keeps the claims.            *)
LEMMA CommandsUntouched ==
  ASSUME TypeInv, DispatchInv, UNCHANGED commandVars, UNCHANGED <<conns, executed>>,
         UNCHANGED boots, \A p \in Nodes : proc'[p] # "down" => proc[p] # "down"
  PROVE  DispatchInv'
<1>1. \A c \in conns \cup executed : c.owner \in Nodes
  BY DEF TypeInv, TypeOK, Sent
<1>2. \A c \in conns \cup executed : Current(c)' => Claim(c)'
  BY <1>1 DEF DispatchInv, Current, Claim, Recorded, commandVars
<1>3. conns \cap executed = {}
  BY DEF DispatchInv, OneNodePerTask
<1>4. \A p \in Nodes : boots[p] <= boots'[p] /\ boots'[p] \in Nat
  BY DEF TypeInv, TypeOK, NetTypeOK
<1> QED
  BY <1>2, <1>3, <1>4, NothingSent

LEMMA CommandDispatch ==
  ASSUME TypeInv, DispatchInv, NEW n \in Nodes, Command(n)
  PROVE  DispatchInv'
<1> USE DEF TypeInv, TypeOK, NetTypeOK
<1>1. \A c \in conns \cup executed : c \in Sent /\ c.owner \in Nodes /\ c.task_id \in Nat
                                     /\ c.boot \in Nat
  BY DEF Sent
<1>2. \A c \in conns \cup executed : Current(c) => Claim(c)
  BY DEF DispatchInv
<1>3. conns \cap executed = {}
  BY DEF DispatchInv, OneNodePerTask
<1>4. \A p \in Nodes : boots[p] <= boots[p] /\ boots[p] \in Nat
  OBVIOUS
<1>5. ASSUME UNCHANGED <<proc, boots, conns, executed, tasks>>,
             \A p \in Nodes \ {n} : /\ pc'[p] = pc[p] /\ counter'[p] = counter[p]
                                    /\ best'[p] = best[p],
             counter'[n] \in Nat, counter'[n] >= counter[n],
             pc[n] # "store",
             \/ counter'[n] > counter[n]
             \/ pc[n] \in Deciding
             \/ pc'[n] \notin Deciding
      PROVE  DispatchInv'
  <2>1. ASSUME NEW c \in conns \cup executed, Current(c)' PROVE Claim(c)'
    <3>1. Current(c)
      BY <1>5, <2>1 DEF Current
    <3>2. Claim(c)
      BY <1>2, <3>1
    <3>3. CASE c.owner = n
      <4>1. \E k \in DOMAIN tasks[n] :
               tasks[n][k] = [task_id |-> c.task_id, assigned_node |-> c.at]
        BY <1>5, <3>2, <3>3 DEF Claim, Recorded
      <4>2. Recorded(c)'
        BY <1>5, <3>3, <4>1 DEF Recorded
      <4>3. /\ c.task_id <= counter[n] /\ c.task_id \in Nat
            /\ pc[n] \in Deciding => c.task_id < counter[n]
        BY <1>1, <3>2, <3>3 DEF Claim
      <4>4. counter[n] \in Nat
        OBVIOUS
      <4>5. /\ c.task_id <= counter'[n]
            /\ pc'[n] \in Deciding => c.task_id < counter'[n]
        BY <1>5, <4>3, <4>4 DEF Deciding
      <4> QED
        BY <3>3, <4>2, <4>5 DEF Claim
    <3>4. CASE c.owner # n
      <4>1. c.owner \in Nodes \ {n}
        BY <1>1, <3>4
      <4> QED
        BY <1>5, <3>2, <4>1 DEF Claim, Recorded
    <3> QED
      BY <3>3, <3>4
  <2> QED
    BY <1>3, <1>4, <1>5, <2>1, NothingSent
<1>6. CASE TaskCommand(n) \/ Evaluate(n) \/ EvaluateDone(n) \/ FindTarget(n)
           \/ ConnectFails(n) \/ EndOfInput(n)
  <2>1. UNCHANGED <<proc, boots, conns, executed, tasks>>
    BY <1>6 DEF TaskCommand, Evaluate, EvaluateDone, FindTarget, ConnectFails, EndOfInput,
                netVars, serverVars
  <2>2. \A p \in Nodes \ {n} : /\ pc'[p] = pc[p] /\ counter'[p] = counter[p]
                               /\ best'[p] = best[p]
    BY <1>6 DEF TaskCommand, Evaluate, EvaluateDone, FindTarget, ConnectFails, EndOfInput,
                RunLocally, Goto
  <2>3. \/ counter'[n] = counter[n] + 1 /\ pc[n] = "prompt"
        \/ counter'[n] = counter[n] /\ pc[n] \in Deciding
        \/ counter'[n] = counter[n] /\ pc[n] = "prompt" /\ pc'[n] = "ended"
    <3>1. CASE TaskCommand(n)
      BY <3>1 DEF TaskCommand
    <3>2. CASE Evaluate(n) \/ EvaluateDone(n) \/ FindTarget(n) \/ ConnectFails(n)
      BY <3>2 DEF Evaluate, EvaluateDone, FindTarget, ConnectFails, Deciding
    <3>3. CASE EndOfInput(n)
      BY <3>3 DEF EndOfInput, Goto
    <3> QED
      BY <1>6, <3>1, <3>2, <3>3
  <2>4. counter[n] \in Nat
    OBVIOUS
  <2> QED
    BY <1>5, <2>1, <2>2, <2>3, <2>4 DEF Deciding
<1>7. CASE SendTask(n)
  <2>0. PICK new : new = [owner |-> n, boot |-> boots[n], task_id |-> counter[n], at |-> best[n]]
    OBVIOUS
  <2>1. /\ pc[n] = "connect" /\ pc' = [pc EXCEPT ![n] = "store"]
        /\ conns' = conns \cup {new}
        /\ UNCHANGED <<proc, boots, counter, best, tasks, executed>>
    BY <1>7, <2>0 DEF SendTask, Goto, netVars
  <2>2. proc[n] # "down"
    BY <2>1
  <2>3. /\ new.owner = n /\ new.boot = boots[n] /\ new.task_id = counter[n]
        /\ new.at = best[n]
    BY <2>0
  <2>4. \A c \in conns \cup executed : ~ SameTask(c, new)
    <3> SUFFICES ASSUME NEW c \in conns \cup executed, SameTask(c, new) PROVE FALSE
      OBVIOUS
    <3>1. Current(c) /\ c.owner = n /\ c.task_id = counter[n]
      BY <2>2, <2>3 DEF SameTask, Current
    <3>2. c.task_id < counter[n]
      BY <1>2, <2>1, <3>1 DEF Claim, Deciding
    <3> QED
      BY <1>1, <3>1, <3>2
  <2>5. OneNodePerTask'
    <3>1. \A c, d \in conns \cup executed : SameTask(c, d) => c = d
      BY DEF DispatchInv, OneNodePerTask
    <3>2. \A c \in conns \cup executed : ~ SameTask(new, c)
      BY <2>4 DEF SameTask
    <3>3. new \notin executed
      BY <2>4 DEF SameTask
    <3>4. conns' \cap executed' = {}
      BY <1>3, <2>1, <3>3
    <3>5. \A c, d \in conns' \cup executed' : SameTask(c, d) => c = d
      BY <2>1, <2>4, <3>1, <3>2
    <3> QED
      BY <3>4, <3>5 DEF OneNodePerTask, SameTask
  <2>6. \A c \in conns' \cup executed' : c.boot <= boots'[c.owner]
    BY <1>4, <2>1, <2>3 DEF DispatchInv
  <2>7. ASSUME NEW c \in conns \cup executed, Current(c)' PROVE Claim(c)'
    <3>1. Claim(c)
      BY <1>2, <2>1, <2>7 DEF Current
    <3>2. Recorded(c)'
      BY <2>1, <3>1 DEF Claim, Recorded
    <3>3. pc'[c.owner] \in Deciding => pc[c.owner] \in Deciding
      BY <1>1, <2>1 DEF Deciding
    <3> QED
      BY <2>1, <3>1, <3>2, <3>3 DEF Claim
  <2>8. Claim(new)'
    <3>1. Recorded(new)'
      BY <2>1, <2>3 DEF Recorded
    <3>2. counter[n] \in Nat
      OBVIOUS
    <3> QED
      BY <2>1, <2>3, <3>1, <3>2 DEF Claim, Deciding
  <2> QED
    BY <2>1, <2>5, <2>6, <2>7, <2>8 DEF DispatchInv
<1>8. CASE Store(n)
  <2>1. PICK e : e = [task_id |-> counter[n], assigned_node |-> best[n]]
    OBVIOUS
  <2>2. /\ pc[n] = "store" /\ pc' = [pc EXCEPT ![n] = LoopTest(n)]
        /\ tasks' = [tasks EXCEPT ![n] = Append(@, e)]
        /\ best' = [best EXCEPT ![n] = n]
        /\ UNCHANGED <<proc, boots, counter, conns, executed>>
    BY <1>8, <2>1 DEF Store, Goto, netVars, serverVars
  <2>3. /\ tasks'[n] = Append(tasks[n], e) /\ tasks[n] \in Seq(Task)
        /\ \A p \in Nodes \ {n} : tasks'[p] = tasks[p] /\ pc'[p] = pc[p] /\ best'[p] = best[p]
    BY <2>2
  <2>4. /\ \A k \in DOMAIN tasks[n] : k \in DOMAIN tasks'[n] /\ tasks'[n][k] = tasks[n][k]
        /\ \E k \in DOMAIN tasks'[n] : tasks'[n][k] = e
    <3>1. PICK t : t = tasks[n]
      OBVIOUS
    <3>2. t \in Seq(Task)
      BY <2>3, <3>1
    <3>3. e \in Task
      BY <2>1 DEF Task
    <3>4. /\ DOMAIN t = 1..Len(t) /\ Len(t) \in Nat
          /\ DOMAIN Append(t, e) = 1..(Len(t) + 1)
          /\ \A k \in 1..Len(t) : Append(t, e)[k] = t[k]
          /\ Append(t, e)[Len(t) + 1] = e
      BY <3>2, <3>3
    <3>5. tasks'[n] = Append(t, e)
      BY <2>3, <3>1
    <3> HIDE DEF TypeInv, TypeOK, NetTypeOK
    <3> QED
      BY <3>1, <3>4, <3>5
  <2>5. pc'[n] \notin Deciding
    BY <2>2 DEF LoopTest, Deciding
  <2>6. ASSUME NEW c \in conns \cup executed, Current(c)' PROVE Claim(c)'
    <3>1. Claim(c)
      BY <1>2, <2>2, <2>6 DEF Current
    <3>2. CASE c.owner = n
      <4>1. \E k \in DOMAIN tasks'[n] :
               tasks'[n][k] = [task_id |-> c.task_id, assigned_node |-> c.at]
        BY <2>1, <2>4, <3>1, <3>2 DEF Claim, Recorded
      <4> QED
        BY <2>2, <2>5, <3>1, <3>2, <4>1 DEF Claim, Recorded
    <3>3. CASE c.owner # n
      <4>1. c.owner \in Nodes \ {n}
        BY <1>1, <3>3
      <4> QED
        BY <2>2, <2>3, <3>1, <4>1 DEF Claim, Recorded
    <3> QED
      BY <3>2, <3>3
  <2> QED
    BY <1>3, <1>4, <2>2, <2>6, NothingSent
<1>9. CASE ExitCommand(n)
  <2>1. /\ pc[n] = "prompt" /\ pc' = [pc EXCEPT ![n] = "ended"]
        /\ UNCHANGED <<boots, counter, best, tasks, conns, executed>>
        /\ \A p \in Nodes : proc'[p] # "down" => proc[p] # "down"
    BY <1>9 DEF ExitCommand, Goto, serverVars
  <2>2. ASSUME NEW c \in conns \cup executed, Current(c)' PROVE Claim(c)'
    <3>1. Claim(c)
      BY <1>1, <1>2, <2>1, <2>2 DEF Current
    <3>2. /\ pc'[c.owner] \in Deciding => pc[c.owner] \in Deciding
          /\ pc[c.owner] = "store" => pc'[c.owner] = "store"
      BY <1>1, <2>1 DEF Deciding
    <3> QED
      BY <2>1, <3>1, <3>2 DEF Claim, Recorded
  <2> QED
    BY <1>3, <1>4, <2>1, <2>2, NothingSent
<1> QED
  BY <1>6, <1>7, <1>8, <1>9 DEF Command

LEMMA NextDispatch == TypeInv /\ DispatchInv /\ [Next]_vars => DispatchInv'
<1> SUFFICES ASSUME TypeInv, DispatchInv, [Next]_vars PROVE DispatchInv'
  OBVIOUS
<1>1. \A c \in conns \cup executed : c.owner \in Nodes /\ c.boot \in Nat
  BY DEF TypeInv, TypeOK, Sent
<1>2. \A c \in conns \cup executed : c.boot <= boots[c.owner] /\ (Current(c) => Claim(c))
  BY DEF DispatchInv
<1>3. conns \cap executed = {}
  BY DEF DispatchInv, OneNodePerTask
<1>4. boots \in [Nodes -> Nat] /\ proc \in [Nodes -> {"down", "up", "quitting", "leaving"}]
  BY DEF TypeInv, TypeOK, NetTypeOK
<1>5. ASSUME NEW n \in Nodes, Protocol(n) PROVE DispatchInv'
  <2>1. UNCHANGED kernelVars
    BY <1>5 DEF Protocol
  <2>2. UNCHANGED <<proc, boots>>
    BY <1>5, NetTypes DEF Protocol, TypeInv, TypeOK
  <2> QED
    BY <2>1, <2>2, CommandsUntouched DEF kernelVars, serverVars
<1>6. ASSUME NEW n \in Nodes, Server(n) PROVE DispatchInv'
  <2>1. PICK c \in conns, whole \in BOOLEAN : Serve(n, c, whole)
    BY <1>6 DEF Server
  <2>2. /\ conns' = conns \ {c}
        /\ executed' = executed \cup {c} \/ executed' = executed
        /\ UNCHANGED <<proc, boots>> /\ UNCHANGED commandVars
    BY <2>1 DEF Serve, netVars
  <2>3. \A d \in conns \cup executed : Current(d)' => Claim(d)'
    BY <1>2, <2>2 DEF Current, Claim, Recorded, commandVars
  <2>4. conns' \cap executed' = {} /\ conns' \cup executed' \subseteq conns \cup executed
    BY <1>3, <2>2
  <2>5. \A p \in Nodes : boots[p] <= boots'[p] /\ boots'[p] \in Nat
    BY <1>4, <2>2
  <2> QED
    BY <2>3, <2>4, <2>5, NothingSent
<1>7. ASSUME NEW n \in Nodes, Main(n) PROVE DispatchInv'
  <2>1. CASE Start(n)
    <3>1. /\ boots' = [boots EXCEPT ![n] = @ + 1] /\ proc' = [proc EXCEPT ![n] = "up"]
          /\ pc' = [pc EXCEPT ![n] = "prompt"]
          /\ UNCHANGED <<counter, best, tasks, conns, executed>>
      BY <2>1 DEF Start, Boot, Goto
    <3>2. ASSUME NEW c \in conns \cup executed, Current(c)' PROVE Claim(c)'
      <4>1. c.owner # n
        BY <1>1, <1>2, <1>4, <3>1, <3>2 DEF Current
      <4>2. Current(c) /\ pc'[c.owner] = pc[c.owner]
        BY <1>1, <1>4, <3>1, <3>2, <4>1 DEF Current, TypeInv, TypeOK
      <4> QED
        BY <1>2, <3>1, <4>2 DEF Claim, Recorded
    <3>3. \A p \in Nodes : boots[p] <= boots'[p] /\ boots'[p] \in Nat
      BY <1>4, <3>1
    <3> QED
      BY <1>3, <3>1, <3>2, <3>3, NothingSent
  <2>2. CASE HandleSignal(n)
    <3>1. /\ UNCHANGED <<boots, kernelVars>>
          /\ \A p \in Nodes : proc'[p] # "down" => proc[p] # "down"
      BY <2>2 DEF HandleSignal
    <3> QED
      BY <3>1, CommandsUntouched DEF kernelVars, serverVars
  <2>3. CASE Shutdown(n)
    <3>1. /\ UNCHANGED <<boots, kernelVars>>
          /\ \A p \in Nodes : proc'[p] # "down" => proc[p] # "down"
      BY <2>3 DEF Shutdown, ShutdownNetworkDiscovery
    <3> QED
      BY <3>1, CommandsUntouched DEF kernelVars, serverVars
  <2>4. CASE Vanish(n) /\ Forget(n)
    <3>1. /\ UNCHANGED <<boots, executed>> /\ proc' = [proc EXCEPT ![n] = "down"]
          /\ conns' \subseteq conns
          /\ \A p \in Nodes \ {n} : /\ pc'[p] = pc[p] /\ counter'[p] = counter[p]
                                    /\ best'[p] = best[p] /\ tasks'[p] = tasks[p]
      BY <2>4 DEF Vanish, Forget, Goto
    <3>2. ASSUME NEW c \in conns \cup executed, Current(c)' PROVE Claim(c)'
      <4>1. c.owner \in Nodes \ {n} /\ Current(c)
        BY <1>1, <1>4, <3>1, <3>2 DEF Current
      <4> QED
        BY <1>2, <3>1, <4>1 DEF Claim, Recorded
    <3>3. \A p \in Nodes : boots[p] <= boots'[p] /\ boots'[p] \in Nat
      BY <1>4, <3>1
    <3>4. conns' \cap executed' = {} /\ conns' \cup executed' \subseteq conns \cup executed
      BY <1>3, <3>1
    <3> QED
      BY <3>2, <3>3, <3>4, NothingSent
  <2> QED
    BY <1>7, <2>1, <2>2, <2>3, <2>4 DEF Main, End, Fail, ShutdownEnd, Crash
<1>8. CASE UNCHANGED vars
  <2>1. UNCHANGED <<proc, boots, conns, executed>> /\ UNCHANGED commandVars
    BY <1>8 DEF vars, netVars, kernelVars, serverVars
  <2> QED
    BY <2>1, CommandsUntouched
<1> QED
  BY <1>5, <1>6, <1>7, <1>8, CommandDispatch DEF Next

(* A task is given to one node at most and received there once at most,       *)
(* whatever crashes, restarts and lost connections come between.              *)
THEOREM OneNodeCorrect == Spec => []OneNodePerTask
<1>1. Init => TypeInv /\ DispatchInv
  BY InitTypeInv, InitDispatch
<1>2. TypeInv /\ DispatchInv /\ [Next]_vars => (TypeInv /\ DispatchInv)'
  BY NextTypeInv, NextDispatch
<1>3. DispatchInv => OneNodePerTask
  BY DEF DispatchInv
<1> QED
  BY <1>1, <1>2, <1>3, PTL DEF Spec

(* As long as the process that sent a task lives, its table says where the    *)
(* task went, or is about to.                                                 *)
THEOREM RecordCorrect == Spec => []RecordedWhereSent
<1>1. Init => TypeInv /\ DispatchInv
  BY InitTypeInv, InitDispatch
<1>2. TypeInv /\ DispatchInv /\ [Next]_vars => (TypeInv /\ DispatchInv)'
  BY NextTypeInv, NextDispatch
<1>3. DispatchInv => RecordedWhereSent
  BY DEF DispatchInv, RecordedWhereSent, Current, Claim
<1> QED
  BY <1>1, <1>2, <1>3, PTL DEF Spec
================================================================================
