------------------------------- MODULE NetKernel -------------------------------
(***************************************************************************)
(* The program of the default build, src/src/main_network.c over           *)
(* network_discovery.c: the command thread of a node gives each new task   *)
(* to the node with the best score and sends it there over TCP, where the  *)
(* data server receives it.  The scheduler's mutex is only ever taken by   *)
(* the command thread, so that it needs no variable.                       *)
(***************************************************************************)
EXTENDS NetDiscovery

CONSTANTS Operated,     \* bound: the machines whose terminal delivers lines
          MaxTasks,     \* capacity of the scheduler's table
          MaxCommands   \* bound: task commands per run of the program

ASSUME TasksAssumption == MaxTasks \in Nat /\ MaxCommands \in Nat

VARIABLES
    pc,         \* command_thread of each node, "ended" when there is none
    counter,    \* task_counter, the id of the last task command
    count,      \* what get_active_nodes returned
    next,       \* the index of the loop over the nodes
    best,       \* best_node, then task->assigned_node
    tasks,      \* scheduler->tasks[0 .. count - 1]
    serving,    \* nodes whose data_server_thread has not ended
    conns,      \* tasks sent and not yet received
    executed    \* tasks a data server has received whole

commandVars == <<pc, counter, count, next, best, tasks>>
serverVars  == <<serving, conns, executed>>
kernelVars  == <<commandVars, serverVars>>
vars        == <<netVars, kernelVars>>

Task == [task_id : Nat, assigned_node : Nodes]
Sent == [owner : Nodes, boot : Nat, task_id : Nat, at : Nodes]

-----------------------------------------------------------------------------

Goto(n, label) == pc' = [pc EXCEPT ![n] = label]

(* Where command_thread is after a command: the loop tests g_kernel->running. *)
LoopTest(n) == IF proc[n] = "up" THEN "prompt" ELSE "ended"

Init ==
    /\ NetInit
    /\ pc = [n \in Nodes |-> "ended"]
    /\ counter = [n \in Nodes |-> 0]
    /\ count = [n \in Nodes |-> 0]
    /\ next = [n \in Nodes |-> 1]
    /\ best = [n \in Nodes |-> n]
    /\ tasks = [n \in Nodes |-> <<>>]
    /\ serving = {}
    /\ conns = {}
    /\ executed = {}

Start(n) ==
    /\ Boot(n)
    /\ Goto(n, "prompt")
    /\ serving' = serving \cup {n}
    /\ UNCHANGED <<counter, count, next, best, tasks, conns, executed>>

(* The tables of a process that ends and the connections to it go with it.   *)
Forget(n) ==
    /\ Goto(n, "ended")
    /\ counter' = [counter EXCEPT ![n] = 0]
    /\ count' = [count EXCEPT ![n] = 0]
    /\ next' = [next EXCEPT ![n] = 1]
    /\ best' = [best EXCEPT ![n] = n]
    /\ tasks' = [tasks EXCEPT ![n] = <<>>]
    /\ serving' = serving \ {n}
    /\ conns' = {c \in conns : c.at # n}
    /\ UNCHANGED executed

-----------------------------------------------------------------------------
(* command_thread.                                                         *)

(* Mutant: count > capacity instead of >=.                                   *)
TaskCommandOffByOne(n) ==
    /\ pc[n] = "prompt" /\ n \in Operated
    /\ counter[n] < MaxCommands
    /\ counter' = [counter EXCEPT ![n] = @ + 1]
    /\ IF Len(tasks[n]) > MaxTasks
       THEN Goto(n, LoopTest(n)) /\ UNCHANGED count
       ELSE /\ count' = [count EXCEPT ![n] = Cardinality(ActiveIds(n))]
            /\ Goto(n, "evaluate")
    /\ UNCHANGED <<netVars, next, best, tasks, serverVars>>

(* Mutant: the node counts itself as active.                                 *)
TaskCommandCountsItself(n) ==
    /\ pc[n] = "prompt" /\ n \in Operated
    /\ counter[n] < MaxCommands
    /\ counter' = [counter EXCEPT ![n] = @ + 1]
    /\ IF Len(tasks[n]) >= MaxTasks
       THEN Goto(n, LoopTest(n)) /\ UNCHANGED count
       ELSE /\ count' = [count EXCEPT ![n] = 1 + Cardinality(ActiveIds(n))]
            /\ Goto(n, "evaluate")
    /\ UNCHANGED <<netVars, next, best, tasks, serverVars>>

(* task <text>, even when the line arrives after a signal.  schedule_task    *)
(* takes the number of active nodes, or gives up when its table is full.     *)
TaskCommand(n) ==
    /\ pc[n] = "prompt" /\ n \in Operated
    /\ counter[n] < MaxCommands
    /\ counter' = [counter EXCEPT ![n] = @ + 1]
    /\ IF Len(tasks[n]) >= MaxTasks
       THEN Goto(n, LoopTest(n)) /\ UNCHANGED count
       ELSE /\ count' = [count EXCEPT ![n] = Cardinality(ActiveIds(n))]
            /\ Goto(n, "evaluate")
    /\ UNCHANGED <<netVars, next, best, tasks, serverVars>>

(* One round of find_best_node_for_task's loop, which reads the table without *)
(* nodes_lock.  Loads decide whether an active node's score is the best yet.  *)
Evaluate(n) ==
    /\ pc[n] = "evaluate"
    /\ next[n] <= count[n]
    /\ LET entry == nodes[n][next[n]]
       IN  \/ best' = best
           \/ entry.active /\ best' = [best EXCEPT ![n] = entry.node_id]
    /\ next' = [next EXCEPT ![n] = @ + 1]
    /\ UNCHANGED <<netVars, pc, counter, count, tasks, serverVars>>

EvaluateDone(n) ==
    /\ pc[n] = "evaluate"
    /\ next[n] > count[n]
    /\ count' = [count EXCEPT ![n] = 0]
    /\ next' = [next EXCEPT ![n] = 1]
    /\ Goto(n, IF best[n] = n THEN "store" ELSE "send")
    /\ UNCHANGED <<netVars, counter, best, tasks, serverVars>>

(* The task stays here: the node is gone, or the connection fails.           *)
RunLocally(n) == best' = [best EXCEPT ![n] = n] /\ Goto(n, "store")

(* send_data_to_node up to the unlock: is the node still active?             *)
FindTarget(n) ==
    /\ pc[n] = "send"
    /\ IF best[n] \in ActiveIds(n) THEN Goto(n, "connect") /\ UNCHANGED best
       ELSE RunLocally(n)
    /\ UNCHANGED <<netVars, counter, count, next, tasks, serverVars>>

ConnectFails(n) ==
    /\ pc[n] = "connect"
    /\ RunLocally(n)
    /\ UNCHANGED <<netVars, counter, count, next, tasks, serverVars>>

(* Mutant: the task is sent again when the peer's answer is missed.          *)
SendTaskAgain(n) ==
    /\ pc[n] = "connect"
    /\ best[n] \in serving
    /\ conns' = conns \cup {[owner |-> n, boot |-> boots[n], task_id |-> counter[n],
                             at |-> best[n]]}
    /\ UNCHANGED <<netVars, commandVars, serving, executed>>

(* Mutant: an error after the data was sent counts as a failure to send.     *)
SendTaskReportsError(n) ==
    /\ pc[n] = "connect"
    /\ best[n] \in serving
    /\ conns' = conns \cup {[owner |-> n, boot |-> boots[n], task_id |-> counter[n],
                             at |-> best[n]]}
    /\ (RunLocally(n) \/ (Goto(n, "store") /\ UNCHANGED best))
    /\ UNCHANGED <<netVars, counter, count, next, tasks, serving, executed>>

(* Header and task are sent; what send returns is not looked at, so that the  *)
(* task may be lost with the peer's process at any time.                      *)
SendTask(n) ==
    /\ pc[n] = "connect"
    /\ best[n] \in serving
    /\ conns' = conns \cup {[owner |-> n, boot |-> boots[n], task_id |-> counter[n],
                             at |-> best[n]]}
    /\ Goto(n, "store")
    /\ UNCHANGED <<netVars, counter, count, next, best, tasks, serving, executed>>

Store(n) ==
    /\ pc[n] = "store"
    /\ tasks' = [tasks EXCEPT ![n] = Append(@, [task_id |-> counter[n],
                                                assigned_node |-> best[n]])]
    /\ best' = [best EXCEPT ![n] = n]
    /\ Goto(n, LoopTest(n))
    /\ UNCHANGED <<netVars, counter, count, next, serverVars>>

(* exit.                                                                     *)
ExitCommand(n) ==
    /\ pc[n] = "prompt" /\ n \in Operated
    /\ Goto(n, "ended")
    /\ proc' = IF proc[n] = "up" THEN [proc EXCEPT ![n] = "quitting"] ELSE proc
    /\ UNCHANGED <<boots, nodes, judged, listening, net, counter, count, next, best, tasks,
                   serverVars>>

(* End of input ends the thread and nothing else: running stays true.        *)
EndOfInput(n) ==
    /\ pc[n] = "prompt" /\ n \in Operated
    /\ Goto(n, "ended")
    /\ UNCHANGED <<netVars, counter, count, next, best, tasks, serverVars>>

-----------------------------------------------------------------------------
(* data_server_thread, signals, main.                                      *)

(* A connection is accepted and its task received, whole or not at all (a     *)
(* short read).  The loop then tests g_kernel->running.                       *)
Serve(n, c, whole) ==
    /\ n \in serving
    /\ c \in conns /\ c.at = n
    /\ conns' = conns \ {c}
    /\ executed' = IF whole THEN executed \cup {c} ELSE executed
    /\ serving' = IF proc[n] = "up" THEN serving ELSE serving \ {n}
    /\ UNCHANGED <<netVars, commandVars>>

HandleSignal(n) ==
    /\ proc[n] = "up"
    /\ proc' = [proc EXCEPT ![n] = "quitting"]
    /\ UNCHANGED <<boots, nodes, judged, listening, net, kernelVars>>

Shutdown(n) ==
    /\ \E reach \in Reachable(n), blocked \in BOOLEAN :
          ShutdownNetworkDiscovery(n, reach, blocked)
    /\ UNCHANGED kernelVars

(* The process ends when the protocol's threads have: the command thread and *)
(* the data server are not waited for.                                       *)
End(n) == ShutdownEnd(n) /\ Forget(n)

Fail(n) == Crash(n) /\ Forget(n)

-----------------------------------------------------------------------------

Protocol(n) == DiscoveryStep(n) /\ UNCHANGED kernelVars

Command(n) == TaskCommand(n) \/ Evaluate(n) \/ EvaluateDone(n) \/ FindTarget(n)
              \/ ConnectFails(n) \/ SendTask(n) \/ Store(n) \/ ExitCommand(n)
              \/ EndOfInput(n)

Server(n) == \E c \in conns, whole \in BOOLEAN : Serve(n, c, whole)

Main(n) == Start(n) \/ HandleSignal(n) \/ Shutdown(n) \/ End(n) \/ Fail(n)

Next == \E n \in Nodes : Protocol(n) \/ Command(n) \/ Server(n) \/ Main(n)

Spec == Init /\ [][Next]_vars

(* What the threads and the network owe: broadcasts repeated every five       *)
(* seconds get through now and then, the socket's queue is read in turn, the  *)
(* clock runs out for a machine that is gone, and main ends what it shuts     *)
(* down.  Operators, signals, crashes and starts owe nothing.                 *)
Broadcasts(n, m) == \E reach \in Reachable(n) : m \in reach /\ SendDiscoveryBroadcast(n, reach)

Receives(n, m) ==
    \E d \in net : /\ d.from = m
                   /\ \E answers \in SUBSET Answers(n, d) :
                         ListenerReceive(n, d, answers)

TimesOut(n, m) ==
    /\ m \notin Started
    /\ {d \in net : d.from = m} = {}
    /\ \E old \in SUBSET ActiveIds(n) : m \in old /\ HeartbeatRead(n, old)

Fairness ==
    \A n \in Nodes :
        /\ \A m \in Nodes : WF_netVars(Receives(n, m) /\ UNCHANGED kernelVars)
        /\ \A m \in Nodes \ {n} : /\ SF_netVars(Broadcasts(n, m) /\ UNCHANGED kernelVars)
                                  /\ SF_netVars(TimesOut(n, m) /\ UNCHANGED kernelVars)
        /\ WF_netVars(HeartbeatScan(n) /\ UNCHANGED kernelVars)
        /\ WF_vars(Shutdown(n) \/ End(n))

FairSpec == Spec /\ Fairness

-----------------------------------------------------------------------------
(* Properties.                                                             *)

(* Every variable stays in its range, and the task table in its array.       *)
TypeOK ==
    /\ NetTypeOK
    /\ pc \in [Nodes -> {"prompt", "evaluate", "send", "connect", "store", "ended"}]
    /\ counter \in [Nodes -> 0..MaxCommands]
    /\ count \in [Nodes -> Nat] /\ next \in [Nodes -> Nat \ {0}]
    /\ best \in [Nodes -> Nodes]
    /\ tasks \in [Nodes -> Seq(Task)]
    /\ \A n \in Nodes : Len(tasks[n]) <= MaxTasks
    /\ serving \subseteq Nodes
    /\ conns \subseteq Sent /\ executed \subseteq Sent

(* The loop of find_best_node_for_task, which reads the table without its     *)
(* mutex and up to a count taken earlier, only meets entries that exist.      *)
IndexInTable ==
    \A n \in Nodes : pc[n] = "evaluate" => count[n] <= Len(nodes[n])

(* A task is given to one node at most, and there once: crashes, restarts     *)
(* and failed connections never have it executed twice.                       *)
SameTask(c, d) == c.owner = d.owner /\ c.boot = d.boot /\ c.task_id = d.task_id
OneNodePerTask ==
    /\ conns \cap executed = {}
    /\ \A c, d \in conns \cup executed : SameTask(c, d) => c = d

(* The owner's table says where the task went: a task that was sent is in it  *)
(* with that node, or is about to be, as long as the owner's process lives.   *)
Recorded(c) ==
    \/ \E k \in DOMAIN tasks[c.owner] :
          tasks[c.owner][k] = [task_id |-> c.task_id, assigned_node |-> c.at]
    \/ pc[c.owner] = "store" /\ counter[c.owner] = c.task_id /\ best[c.owner] = c.at
RecordedWhereSent ==
    \A c \in conns \cup executed :
        proc[c.owner] # "down" /\ boots[c.owner] = c.boot => Recorded(c)

(* "Evaluar cada nodo activo": the loop that a task command starts covers     *)
(* every entry that is active when it starts.                                 *)
EveryActiveNodeEvaluated ==
    [][\A n \in Nodes : pc[n] = "prompt" /\ pc'[n] = "evaluate" =>
          \A k \in DOMAIN nodes[n] : nodes[n][k].active => k <= count'[n]]_vars

(* Two nodes that stay up come to know each other, unless the table is full.  *)
DiscoveryConverges ==
    \A n, m \in Nodes : n # m =>
        (proc[n] = "up" /\ proc[m] = "up") ~>
            (m \in Ids(n) \/ Len(nodes[n]) = MaxNodes \/ proc[n] # "up" \/ proc[m] # "up")

(* A node that is gone for good does not stay active in another's table.      *)
GoneForgotten ==
    \A n, m \in Nodes :
        (m \in ActiveIds(n) /\ proc[m] = "down") ~>
            (m \notin ActiveIds(n) \/ proc[m] # "down")

(* Once shutdown_network_discovery has started, the process ends.             *)
ShutdownEnds == \A n \in Nodes : proc[n] = "leaving" ~> proc[n] = "down"
================================================================================
