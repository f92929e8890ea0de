----------------------------- MODULE AlpineKernel -----------------------------
(***************************************************************************)
(* The program of the Alpine build, src/src/main_alpine.c: the discovery   *)
(* protocol in a copy of its own, whose steps are those of NetDiscovery,   *)
(* with a shutdown that sends no leave message; a command thread that      *)
(* records each task with the node that looks best and sends it nowhere.   *)
(*                                                                         *)
(* A machine that is started without an argument takes a new id from the   *)
(* clock at each start, so that its second life is another element of      *)
(* Nodes and the table entries of the first stay behind.  The scheduler's  *)
(* mutex is only ever taken by the command thread.                         *)
(***************************************************************************)
EXTENDS NetDiscovery

CONSTANTS Named,        \* ids that are given as an argument
          Unnamed,      \* how many machines are started without one
          NoId,         \* 0, the kernel's id without one
          Operated,     \* bound: the machines that get lines of input and signals
          MaxTasks,     \* MAX_TASKS, capacity of the scheduler's table
          MaxCommands   \* bound: task commands per run of the program

ASSUME IdAssumption    == NoId \notin Nodes /\ Unnamed \in Nat
ASSUME TasksAssumption == MaxTasks \in Nat /\ MaxCommands \in Nat

VARIABLES
    pc,       \* command_thread: "none" before main has created it, "prompt",
              \* "choose", "store", "ended"
    task_id,  \* the static counter of task commands
    best,     \* what find_best_node_for_task returned
    tasks     \* scheduler->tasks[0 .. count - 1]

kernelVars == <<pc, task_id, best, tasks>>
vars       == <<netVars, kernelVars>>

Task == [task_id : Nat, assigned_node : Nodes \cup {NoId}]

KernelId(n) == IF n \in Named THEN n ELSE NoId

(* Where the command thread is when its loop has tested running.             *)
LoopTest(n) == IF proc[n] = "up" THEN "prompt" ELSE "ended"

-----------------------------------------------------------------------------

Init ==
    /\ NetInit
    /\ pc = [n \in Nodes |-> "ended"]
    /\ task_id = [n \in Nodes |-> 0]
    /\ best = [n \in Nodes |-> NoId]
    /\ tasks = [n \in Nodes |-> <<>>]

(* main up to its pause of ten seconds, in which only the protocol runs.      *)
Start(n) ==
    /\ Boot(n)
    /\ n \in Named \/ Cardinality(Started \ Named) < Unnamed
    /\ pc' = [pc EXCEPT ![n] = "none"]
    /\ UNCHANGED <<task_id, best, tasks>>

CreateCommandThread(n) ==
    /\ pc[n] = "none"
    /\ pc' = [pc EXCEPT ![n] = LoopTest(n)]
    /\ UNCHANGED <<netVars, task_id, best, tasks>>

(* status, nodes, tasks, help and lines that are no command: under the        *)
(* mutexes they only read.                                                   *)
ReportCommand(n) ==
    /\ pc[n] = "prompt" /\ n \in Operated
    /\ pc' = [pc EXCEPT ![n] = LoopTest(n)]
    /\ UNCHANGED <<netVars, task_id, best, tasks>>

(* Mutant: count > capacity instead of >=.                                   *)
TaskCommandOffByOne(n) ==
    /\ pc[n] = "prompt" /\ n \in Operated
    /\ task_id[n] < MaxCommands
    /\ task_id' = [task_id EXCEPT ![n] = @ + 1]
    /\ pc' = [pc EXCEPT ![n] = IF Len(tasks[n]) > MaxTasks THEN LoopTest(n) ELSE "choose"]
    /\ UNCHANGED <<netVars, best, tasks>>

(* task <text>: schedule_task up to its test of the table.                   *)
TaskCommand(n) ==
    /\ pc[n] = "prompt" /\ n \in Operated
    /\ task_id[n] < MaxCommands
    /\ task_id' = [task_id EXCEPT ![n] = @ + 1]
    /\ pc' = [pc EXCEPT ![n] = IF Len(tasks[n]) >= MaxTasks THEN LoopTest(n) ELSE "choose"]
    /\ UNCHANGED <<netVars, best, tasks>>

(* find_best_node_for_task, under nodes_lock over the whole table: scores are *)
(* loads, and one of 100 or more loses against the node itself.              *)
FindBestNode(n) ==
    /\ pc[n] = "choose"
    /\ \E b \in ActiveIds(n) \cup {KernelId(n)} : best' = [best EXCEPT ![n] = b]
    /\ pc' = [pc EXCEPT ![n] = "store"]
    /\ UNCHANGED <<netVars, task_id, tasks>>

(* The rest of schedule_task, when nodes_lock is free again.                 *)
StoreTask(n) ==
    /\ pc[n] = "store"
    /\ tasks' = [tasks EXCEPT ![n] = Append(@, [task_id |-> task_id[n],
                                                assigned_node |-> best[n]])]
    /\ best' = [best EXCEPT ![n] = NoId]
    /\ pc' = [pc EXCEPT ![n] = LoopTest(n)]
    /\ UNCHANGED <<netVars, task_id>>

ExitCommand(n) ==
    /\ pc[n] = "prompt" /\ n \in Operated
    /\ pc' = [pc EXCEPT ![n] = "ended"]
    /\ proc' = IF proc[n] = "up" THEN [proc EXCEPT ![n] = "quitting"] ELSE proc
    /\ UNCHANGED <<boots, nodes, judged, listening, net, task_id, best, tasks>>

(* End of input ends the thread and nothing else: running stays true.        *)
EndOfInput(n) ==
    /\ pc[n] = "prompt" /\ n \in Operated
    /\ pc' = [pc EXCEPT ![n] = "ended"]
    /\ UNCHANGED <<netVars, task_id, best, tasks>>

HandleSignal(n) ==
    /\ proc[n] = "up" /\ n \in Operated
    /\ proc' = [proc EXCEPT ![n] = "quitting"]
    /\ UNCHANGED <<boots, nodes, judged, listening, net, kernelVars>>

(* Mutant: the command thread is joined as well.                             *)
StopNetworkJoinsCommands(n, blocked) ==
    /\ proc[n] = "quitting" /\ pc[n] = "ended"
    /\ proc' = [proc EXCEPT ![n] = "leaving"]
    /\ listening' = IF blocked THEN listening ELSE listening \ {n}
    /\ UNCHANGED <<boots, nodes, judged, net, kernelVars>>

(* main's loop has seen running = false: the network is told to stop.  The    *)
(* listener is blocked in recvfrom, or between two datagrams and ends.       *)
StopNetwork(n, blocked) ==
    /\ proc[n] = "quitting" /\ pc[n] # "none"
    /\ proc' = [proc EXCEPT ![n] = "leaving"]
    /\ listening' = IF blocked THEN listening ELSE listening \ {n}
    /\ UNCHANGED <<boots, nodes, judged, net, kernelVars>>

Forget(n) ==
    /\ pc' = [pc EXCEPT ![n] = "ended"]
    /\ task_id' = [task_id EXCEPT ![n] = 0]
    /\ best' = [best EXCEPT ![n] = NoId]
    /\ tasks' = [tasks EXCEPT ![n] = <<>>]

(* The three threads are joined; the command thread is not waited for.       *)
End(n) == ShutdownEnd(n) /\ Forget(n)

Fail(n) == Crash(n) /\ Forget(n)

-----------------------------------------------------------------------------

(* The copy of the protocol: broadcasts, the listener and the heartbeat       *)
(* thread have the steps of NetDiscovery.                                    *)
Broadcast(n) == \E reach \in Reachable(n) : SendDiscoveryBroadcast(n, reach)

Receive(n) == \E m \in net : \E answers \in SUBSET Answers(n, m) : ListenerReceive(n, m, answers)

Heartbeat(n) == HeartbeatScan(n) \/ (\E old \in SUBSET ActiveIds(n) : HeartbeatRead(n, old))

Protocol(n) == (Broadcast(n) \/ Receive(n) \/ Heartbeat(n)) /\ UNCHANGED kernelVars

Command(n) == ReportCommand(n) \/ TaskCommand(n) \/ FindBestNode(n) \/ StoreTask(n)
              \/ ExitCommand(n) \/ EndOfInput(n)

Main(n) == Start(n) \/ CreateCommandThread(n) \/ HandleSignal(n)
           \/ (\E blocked \in BOOLEAN : StopNetwork(n, blocked)) \/ End(n) \/ Fail(n)

Next == \E n \in Nodes : Protocol(n) \/ Command(n) \/ Main(n)

Spec == Init /\ [][Next]_vars

(* Broadcasts repeated every five seconds get through now and then, waiting   *)
(* datagrams are read, threads go on.  A signal, a crash, a start or a line   *)
(* of input is owed by nobody.                                               *)
Heard(n) == \E m \in Nodes \ {n}, reach \in SUBSET Nodes :
               n \in reach /\ SendDiscoveryBroadcast(m, reach)

Shuts(n) == (\E blocked \in BOOLEAN : StopNetwork(n, blocked)) \/ End(n)

Fairness ==
    \A n \in Nodes : /\ SF_netVars(Heard(n) /\ UNCHANGED kernelVars)
                     /\ WF_netVars(Receive(n) /\ UNCHANGED kernelVars)
                     /\ WF_netVars(HeartbeatScan(n) /\ UNCHANGED kernelVars)
                     /\ WF_vars(CreateCommandThread(n))
                     /\ WF_vars(Shuts(n))

FairSpec == Spec /\ Fairness

-----------------------------------------------------------------------------
(* Properties.                                                             *)

(* Every variable stays in its range, and the task table in its array.       *)
TypeOK ==
    /\ NetTypeOK
    /\ pc \in [Nodes -> {"none", "prompt", "choose", "store", "ended"}]
    /\ task_id \in [Nodes -> 0..MaxCommands]
    /\ best \in [Nodes -> Nodes \cup {NoId}]
    /\ tasks \in [Nodes -> Seq(Task)]
    /\ \A n \in Nodes : Len(tasks[n]) <= MaxTasks

(* Whatever the protocol does to the table between the choice of a node and   *)
(* the record of the task, and however long after: the node a task is         *)
(* recorded with is the kernel's own or one that the table still knows, so    *)
(* that the "tasks" list never names a node that "status" cannot explain.     *)
AssignedKnown ==
    \A n \in Nodes : \A k \in DOMAIN tasks[n] :
        tasks[n][k].assigned_node \in Ids(n) \cup {KernelId(n)}

(* "exit - Sale del sistema": although the shutdown joins a listener that no  *)
(* message of the node's own wakes, the process ends, unless there comes a    *)
(* moment at which no other machine of the network is up.                    *)
ExitEnds ==
    \A n \in Nodes :
        proc[n] = "quitting" ~> (proc[n] = "down" \/ \A m \in Nodes \ {n} : proc[m] # "up")
================================================================================
