------------------------------ MODULE DecosKernel ------------------------------
(***************************************************************************)
(* The running kernel of src/decentralized_os.c seen from one node: the    *)
(* registry of discovered nodes, the task table of the scheduler, the two  *)
(* mutexes that protect them, and every thread that touches them:          *)
(*                                                                         *)
(*   main         the command loop (command_thread runs on it), cleanup    *)
(*   discovery    discovery_listener_thread                                *)
(*   heartbeat    heartbeat_broadcast_thread                               *)
(*   detector     failure_detector_thread                                  *)
(*   data_server  data_server_thread                                       *)
(*                                                                         *)
(* Taking a mutex is a step of its own and so is each part of a critical   *)
(* section that ends in another lock or unlock.  Scores, reputations and   *)
(* host data only decide WHICH active node is chosen, so select_best_node  *)
(* is a choice among the nodes it considers.                               *)
(***************************************************************************)
EXTENDS Naturals, Sequences, FiniteSets

CONSTANTS Peers,      \* the other nodes of the ad-hoc network
          Local,      \* g_kernel->node_id
          NoThread,   \* the owner of a free mutex
          MaxNodes,   \* MAX_NODES, entries of the registry
          MaxTasks,   \* MAX_TASKS, entries of the task table
          DataSocket  \* whether create_data_server succeeded (data_socket >= 0)

ASSUME PeersAssumption   == Local \notin Peers /\ IsFiniteSet(Peers)
ASSUME BoundsAssumption  == MaxNodes \in Nat /\ MaxTasks \in Nat
ASSUME SocketAssumption  == DataSocket \in BOOLEAN

Threads == {"main", "discovery", "heartbeat", "detector", "data_server"}

ASSUME NoThreadAssumption == NoThread \notin Threads

Nodes == Peers \cup {Local}

VARIABLES
    g_kernel,         \* what the global pointer leads to: a kernel whose running flag
                      \* is set ("running") or not ("stopping"), freed memory
                      \* ("freed": the pointer dangles) or nothing ("null")
    registryLock,     \* owner of registry->lock
    schedulerLock,    \* owner of scheduler->lock
    status,           \* registry->nodes[].status by node id; "absent": no entry
    tasksCredited,    \* registry->nodes[].tasks_completed by node id
    silent,           \* nodes unheard for HEARTBEAT_TIMEOUT at the detector's "now"
    tasks,            \* scheduler->tasks[0 .. task_count - 1]
    nextTaskId,       \* scheduler->next_task_id
    totalAssigned,    \* scheduler->total_assigned
    totalCompleted,   \* scheduler->total_completed
    pc,               \* where each thread is
    command,          \* the command main executes: "none", "task" or "demo"
    creates,          \* create_task calls the command has left
    t1,               \* run_demo's t1, 0 when create_task failed
    target,           \* the node create_task chose / complete_task credits
    sender,           \* node_id of the datagram the listener processes
    failing,          \* the node the detector is failing over
                      \* (these locals are reset to Local once they are dead)
    faults            \* who used *g_kernel after free(g_kernel)

registryVars  == <<status, tasksCredited>>
schedulerVars == <<tasks, nextTaskId, totalAssigned, totalCompleted>>
mainVars      == <<command, creates, t1, target>>
kernelVars    == <<g_kernel, faults>>
vars == <<kernelVars, registryLock, schedulerLock, registryVars, silent,
          schedulerVars, pc, mainVars, sender, failing>>

-----------------------------------------------------------------------------
(* State formulas.                                                         *)

Known     == {n \in Peers : status[n] # "absent"}
Active    == {n \in Peers : status[n] = "ACTIVE"}
TaskStatus == {"ASSIGNED", "COMPLETED"}
Task == [task_id : Nat, assigned_node : Nodes, status : TaskStatus]

Completed(task) == [task_id |-> task.task_id, assigned_node |-> task.assigned_node,
                    status |-> "COMPLETED"]

Open(i) == tasks[i].status = "ASSIGNED"
OpenOn(n) == \E i \in DOMAIN tasks : tasks[i].assigned_node = n /\ Open(i)

Goto(t, label) == pc' = [pc EXCEPT ![t] = label]

(* registry->nodes[] is full: count has reached MAX_NODES. *)
RegistryFull == Cardinality(Known) >= MaxNodes

(* The process is gone once main() has returned. *)
Alive == pc["main"] # "done"

Running == g_kernel = "running"
Live    == g_kernel \in {"running", "stopping"}

(* t reads or writes *g_kernel: a fault when the pointer dangles or is NULL. *)
Deref(t) == faults' = IF Live THEN faults ELSE faults \cup {t}

(* Where main goes when a call of the command returns: run_demo makes three *)
(* create_task calls and one complete_task, a task command one create_task. *)
NextCall(left, cmd) ==
    IF left > 0 THEN "create_lock" ELSE IF cmd = "demo" THEN "complete_lock" ELSE "loop"

-----------------------------------------------------------------------------
(* init_kernel and start_threads.  The data server's thread only exists when *)
(* its socket could be created.                                              *)

FirstLabel(t) ==
    IF t = "main" THEN "count"
    ELSE IF t = "discovery" THEN "listen"
    ELSE IF t = "heartbeat" THEN "beat"
    ELSE IF t = "detector" THEN "watch"
    ELSE IF DataSocket THEN "serve" ELSE "exit"

Init ==
    /\ g_kernel = "running"
    /\ registryLock = NoThread /\ schedulerLock = NoThread
    /\ status = [n \in Peers |-> "absent"]
    /\ tasksCredited = [n \in Peers |-> 0]
    /\ silent = {}
    /\ tasks = <<>> /\ nextTaskId = 0 /\ totalAssigned = 0 /\ totalCompleted = 0
    /\ pc = [t \in Threads |-> FirstLabel(t)]
    /\ command = "none" /\ creates = 0 /\ t1 = 0 /\ target = Local
    /\ sender = Local /\ failing = Local
    /\ faults = {}

-----------------------------------------------------------------------------
(* discovery_listener_thread and process_discovery_message.                *)

ListenStop ==
    /\ pc["discovery"] = "listen"
    /\ ~Running
    /\ Goto("discovery", "exit")
    /\ UNCHANGED <<kernelVars, registryLock, schedulerLock, registryVars, silent,
                   schedulerVars, mainVars, sender, failing>>

(* One turn of the loop that reads a discovery datagram: any peer's, at any    *)
(* time, any number of times, since every node broadcasts on six addresses     *)
(* each three seconds.  A turn that reads nothing (recvfrom does not block),   *)
(* one of the node's own messages or another type of message changes nothing.  *)
Receive(n) ==
    /\ pc["discovery"] = "listen"
    /\ Running
    /\ sender' = n
    /\ Goto("discovery", "register_lock")
    /\ UNCHANGED <<kernelVars, registryLock, schedulerLock, registryVars, silent,
                   schedulerVars, mainVars, failing>>

RegisterLock ==
    /\ pc["discovery"] = "register_lock"
    /\ registryLock = NoThread
    /\ registryLock' = "discovery"
    /\ Goto("discovery", "register")
    /\ UNCHANGED <<kernelVars, schedulerLock, registryVars, silent, schedulerVars,
                   mainVars, sender, failing>>

(* Find the node or append it, unless the array is full; overwrite its entry *)
(* with the payload, whose status is NODE_ACTIVE and whose counters are 0 in  *)
(* every message a node ever sends (local_info is not written after init).    *)
Register ==
    /\ pc["discovery"] = "register"
    /\ IF sender \in Known \/ ~RegistryFull
       THEN /\ status' = [status EXCEPT ![sender] = "ACTIVE"]
            /\ tasksCredited' = [tasksCredited EXCEPT ![sender] = 0]
            /\ silent' = silent \ {sender}
       ELSE UNCHANGED <<status, tasksCredited, silent>>
    /\ registryLock' = NoThread
    /\ sender' = Local
    /\ Goto("discovery", "listen")
    /\ UNCHANGED <<kernelVars, schedulerLock, schedulerVars, mainVars, failing>>

-----------------------------------------------------------------------------
(* heartbeat_broadcast_thread: a turn of its loop takes no lock and reads    *)
(* local_info only, so that just the end of the thread is a step.            *)

BeatStop ==
    /\ pc["heartbeat"] = "beat"
    /\ ~Running
    /\ Goto("heartbeat", "exit")
    /\ UNCHANGED <<kernelVars, registryLock, schedulerLock, registryVars, silent,
                   schedulerVars, mainVars, sender, failing>>

-----------------------------------------------------------------------------
(* failure_detector_thread.                                                *)

(* Mutant: the thread's loop does not test running.                          *)
WatchTestIgnoresStop ==
    /\ pc["detector"] = "watch"
    /\ \E more \in SUBSET Known : silent' = silent \cup more
    /\ Goto("detector", "watch_lock")
    /\ UNCHANGED <<kernelVars, registryLock, schedulerLock, registryVars,
                   schedulerVars, mainVars, sender, failing>>

(* The loop test, and now = time(NULL) BEFORE the registry is locked: the   *)
(* nodes in silent are those whose last_seen is older than the timeout at   *)
(* that instant.  A node stays silent until it is heard of again.           *)
WatchTest ==
    /\ pc["detector"] = "watch"
    /\ IF Running
       THEN /\ \E more \in SUBSET Known : silent' = silent \cup more
            /\ Goto("detector", "watch_lock")
       ELSE /\ Goto("detector", "exit")
            /\ UNCHANGED silent
    /\ UNCHANGED <<kernelVars, registryLock, schedulerLock, registryVars,
                   schedulerVars, mainVars, sender, failing>>

WatchLock ==
    /\ pc["detector"] = "watch_lock"
    /\ registryLock = NoThread
    /\ registryLock' = "detector"
    /\ Goto("detector", "scan")
    /\ UNCHANGED <<kernelVars, schedulerLock, registryVars, silent, schedulerVars,
                   mainVars, sender, failing>>

(* The next silent node of the pass is marked before its tasks are looked   *)
(* at; the scheduler is locked inside the registry's critical section.      *)
MarkFailed(n) ==
    /\ pc["detector"] = "scan"
    /\ n \in Active \cap silent
    /\ status' = [status EXCEPT ![n] = "FAILED"]
    /\ failing' = n
    /\ Goto("detector", "failover_lock")
    /\ UNCHANGED <<kernelVars, registryLock, schedulerLock, tasksCredited, silent,
                   schedulerVars, mainVars, sender>>

(* Mutant: the loop over the nodes ends after the first one.                 *)
ScanDoneEarly ==
    /\ pc["detector"] = "scan"
    /\ registryLock' = NoThread
    /\ Goto("detector", "watch")
    /\ UNCHANGED <<kernelVars, schedulerLock, registryVars, silent, schedulerVars,
                   mainVars, sender, failing>>

ScanDone ==
    /\ pc["detector"] = "scan"
    /\ Active \cap silent = {}
    /\ registryLock' = NoThread
    /\ Goto("detector", "watch")
    /\ UNCHANGED <<kernelVars, schedulerLock, registryVars, silent, schedulerVars,
                   mainVars, sender, failing>>

FailoverLock ==
    /\ pc["detector"] = "failover_lock"
    /\ schedulerLock = NoThread
    /\ schedulerLock' = "detector"
    /\ Goto("detector", "failover")
    /\ UNCHANGED <<kernelVars, registryLock, registryVars, silent, schedulerVars,
                   mainVars, sender, failing>>

(* The task scan.  A task of the node that is still open is to be given to   *)
(* select_best_node's choice, and select_best_node locks the registry, which *)
(* this very thread holds: a default (not recursive) mutex, so the thread    *)
(* stays at "reselect" and no action leaves it.  With no open task the scan  *)
(* ends and the scheduler is unlocked.                                       *)
Failover ==
    /\ pc["detector"] = "failover"
    /\ IF OpenOn(failing)
       THEN /\ Goto("detector", "reselect")
            /\ UNCHANGED <<schedulerLock, failing>>
       ELSE /\ schedulerLock' = NoThread
            /\ failing' = Local
            /\ Goto("detector", "scan")
    /\ UNCHANGED <<kernelVars, registryLock, registryVars, silent, schedulerVars,
                   mainVars, sender>>

-----------------------------------------------------------------------------
(* data_server_thread: accept(), close(), sleep.                           *)

(* What the loop test reads through a dangling pointer may be anything.     *)
ServeTest ==
    /\ pc["data_server"] = "serve"
    /\ \/ g_kernel \in {"running", "freed"} /\ Goto("data_server", "accept")
       \/ ~Running /\ Goto("data_server", "exit")
    /\ faults' = IF g_kernel = "freed" THEN faults \cup {"data_server"} ELSE faults
    /\ UNCHANGED <<g_kernel, registryLock, schedulerLock, registryVars,
                   silent, schedulerVars, mainVars, sender, failing>>

ServeAccept ==
    /\ pc["data_server"] = "accept"
    /\ Goto("data_server", "serve")
    /\ Deref("data_server")
    /\ UNCHANGED <<g_kernel, registryLock, schedulerLock, registryVars,
                   silent, schedulerVars, mainVars, sender, failing>>

-----------------------------------------------------------------------------
(* main: the count of main(), the prompt and the reports of command_thread. *)

(* A report locks, prints and unlocks; nothing else happens in between.      *)
ReadRegistry ==
    /\ pc["main"] \in {"count", "report_registry", "nodes"}
    /\ registryLock = NoThread
    /\ Goto("main", IF pc["main"] = "report_registry" THEN "report_scheduler" ELSE "loop")
    /\ UNCHANGED <<kernelVars, registryLock, schedulerLock, registryVars, silent,
                   schedulerVars, mainVars, sender, failing>>

ReadScheduler ==
    /\ pc["main"] = "report_scheduler"
    /\ schedulerLock = NoThread
    /\ Goto("main", "loop")
    /\ UNCHANGED <<kernelVars, registryLock, schedulerLock, registryVars, silent,
                   schedulerVars, mainVars, sender, failing>>

(* while (g_kernel && g_kernel->running); then cleanup() clears running.     *)
CommandTest ==
    /\ pc["main"] = "loop"
    /\ IF Running THEN Goto("main", "prompt") ELSE Goto("main", "join_discovery")
    /\ UNCHANGED <<kernelVars, registryLock, schedulerLock, registryVars, silent,
                   schedulerVars, mainVars, sender, failing>>

(* One line of input: status, nodes, tasks; task <text>; demo.               *)
Report ==
    /\ pc["main"] = "prompt"
    /\ \E l \in {"report_registry", "nodes", "report_scheduler"} : Goto("main", l)
    /\ UNCHANGED <<kernelVars, registryLock, schedulerLock, registryVars, silent,
                   schedulerVars, mainVars, sender, failing>>

TaskCommand ==
    /\ pc["main"] = "prompt"
    /\ creates' = 1 /\ command' = "task"
    /\ Goto("main", NextCall(1, "task"))
    /\ UNCHANGED <<kernelVars, registryLock, schedulerLock, registryVars, silent,
                   schedulerVars, t1, target, sender, failing>>

RunDemo ==
    /\ pc["main"] = "prompt"
    /\ creates' = 3 /\ command' = "demo"
    /\ Goto("main", NextCall(3, "demo"))
    /\ UNCHANGED <<kernelVars, registryLock, schedulerLock, registryVars, silent,
                   schedulerVars, t1, target, sender, failing>>

(* exit, quit or end of input.                                               *)
Quit ==
    /\ pc["main"] = "prompt"
    /\ g_kernel' = "stopping"
    /\ Goto("main", "join_discovery")
    /\ UNCHANGED <<faults, registryLock, schedulerLock, registryVars, silent,
                   schedulerVars, mainVars, sender, failing>>

-----------------------------------------------------------------------------
(* create_task.                                                            *)

CreateLock ==
    /\ pc["main"] = "create_lock"
    /\ schedulerLock = NoThread
    /\ schedulerLock' = "main"
    /\ Goto("main", "create_slot")
    /\ UNCHANGED <<kernelVars, registryLock, registryVars, silent, schedulerVars,
                   mainVars, sender, failing>>

(* Mutant: the caller does not count its call.                               *)
ReturnIdForgetsCount(id) ==
    /\ Goto("main", NextCall(creates, command))
    /\ UNCHANGED <<creates, t1, command>>

(* The call returns id: run_demo keeps what its first call returned.        *)
ReturnId(id) ==
    /\ creates' = creates - 1
    /\ t1' = IF command = "demo" /\ creates = 3 THEN id ELSE t1
    /\ Goto("main", NextCall(creates - 1, command))
    /\ command' = IF command = "task" THEN "none" ELSE command

(* Mutant: the early return leaves the scheduler locked.                     *)
CreateFullKeepsLock ==
    /\ pc["main"] = "create_slot"
    /\ Len(tasks) >= MaxTasks
    /\ ReturnId(0)
    /\ UNCHANGED <<kernelVars, registryLock, schedulerLock, registryVars, silent,
                   schedulerVars, target, sender, failing>>

(* Mutant: the id is drawn before the table is found full.                   *)
CreateFullBurnsId ==
    /\ pc["main"] = "create_slot"
    /\ Len(tasks) >= MaxTasks
    /\ nextTaskId' = nextTaskId + 1
    /\ schedulerLock' = NoThread
    /\ ReturnId(0)
    /\ UNCHANGED <<kernelVars, registryLock, registryVars, silent, tasks, totalAssigned,
                   totalCompleted, target, sender, failing>>

(* The table is full: create_task returns 0.                                *)
CreateFull ==
    /\ pc["main"] = "create_slot"
    /\ Len(tasks) >= MaxTasks
    /\ schedulerLock' = NoThread
    /\ ReturnId(0)
    /\ UNCHANGED <<kernelVars, registryLock, registryVars, silent, schedulerVars,
                   target, sender, failing>>

(* Mutant: task_count > MAX_TASKS instead of >=.                             *)
CreateSlotOffByOne ==
    /\ pc["main"] = "create_slot"
    /\ Len(tasks) <= MaxTasks
    /\ nextTaskId' = nextTaskId + 1
    /\ Goto("main", "select_lock")
    /\ UNCHANGED <<kernelVars, registryLock, schedulerLock, registryVars, silent,
                   tasks, totalAssigned, totalCompleted, mainVars, sender, failing>>

(* The slot after the last task is prepared; it is not in the table until    *)
(* task_count grows in CreateAssign.                                         *)
CreateSlot ==
    /\ pc["main"] = "create_slot"
    /\ Len(tasks) < MaxTasks
    /\ nextTaskId' = nextTaskId + 1
    /\ Goto("main", "select_lock")
    /\ UNCHANGED <<kernelVars, registryLock, schedulerLock, registryVars, silent,
                   tasks, totalAssigned, totalCompleted, mainVars, sender, failing>>

(* select_best_node, called with the scheduler locked.                      *)
SelectLock ==
    /\ pc["main"] = "select_lock"
    /\ registryLock = NoThread
    /\ registryLock' = "main"
    /\ Goto("main", "select")
    /\ UNCHANGED <<kernelVars, schedulerLock, registryVars, silent, schedulerVars,
                   mainVars, sender, failing>>

(* Mutant: the local node is not considered; best_node may stay 0.           *)
SelectBestNodeSkipsLocal ==
    /\ pc["main"] = "select"
    /\ target' \in IF Active = {} THEN {0} ELSE Active
    /\ registryLock' = NoThread
    /\ Goto("main", "create_assign")
    /\ UNCHANGED <<kernelVars, schedulerLock, registryVars, silent, schedulerVars,
                   command, creates, t1, sender, failing>>

(* Mutant: the status test is missing.                                       *)
SelectBestNodeAnyStatus ==
    /\ pc["main"] = "select"
    /\ target' \in Known \cup {Local}
    /\ registryLock' = NoThread
    /\ Goto("main", "create_assign")
    /\ UNCHANGED <<kernelVars, schedulerLock, registryVars, silent, schedulerVars,
                   command, creates, t1, sender, failing>>

(* The candidates are the ACTIVE entries and the local node, whose status   *)
(* is NODE_ACTIVE for good: there is always one with a score above -1.      *)
SelectBestNode ==
    /\ pc["main"] = "select"
    /\ target' \in Active \cup {Local}
    /\ registryLock' = NoThread
    /\ Goto("main", "create_assign")
    /\ UNCHANGED <<kernelVars, schedulerLock, registryVars, silent, schedulerVars,
                   command, creates, t1, sender, failing>>

(* Mutant: the id is used before it is incremented.                         *)
CreateAssignPostIncrement ==
    /\ pc["main"] = "create_assign"
    /\ tasks' = Append(tasks, [task_id |-> nextTaskId - 1, assigned_node |-> target,
                               status |-> "ASSIGNED"])
    /\ totalAssigned' = totalAssigned + 1
    /\ schedulerLock' = NoThread
    /\ target' = Local
    /\ ReturnId(nextTaskId)
    /\ UNCHANGED <<kernelVars, registryLock, registryVars, silent, nextTaskId,
                   totalCompleted, sender, failing>>

CreateAssign ==
    /\ pc["main"] = "create_assign"
    /\ tasks' = Append(tasks, [task_id |-> nextTaskId, assigned_node |-> target,
                               status |-> "ASSIGNED"])
    /\ totalAssigned' = totalAssigned + 1
    /\ schedulerLock' = NoThread
    /\ target' = Local
    /\ ReturnId(nextTaskId)
    /\ UNCHANGED <<kernelVars, registryLock, registryVars, silent, nextTaskId,
                   totalCompleted, sender, failing>>

-----------------------------------------------------------------------------
(* complete_task(t1, 0, ...), run_demo's only call of it.                  *)

CompleteLock ==
    /\ pc["main"] = "complete_lock"
    /\ schedulerLock = NoThread
    /\ schedulerLock' = "main"
    /\ Goto("main", "complete")
    /\ UNCHANGED <<kernelVars, registryLock, registryVars, silent, schedulerVars,
                   mainVars, sender, failing>>

CompleteTask(i) ==
    /\ pc["main"] = "complete"
    /\ tasks[i].task_id = t1
    /\ tasks' = [tasks EXCEPT ![i] = Completed(tasks[i])]
    /\ totalCompleted' = totalCompleted + 1
    /\ target' = tasks[i].assigned_node
    /\ Goto("main", "credit_lock")
    /\ UNCHANGED <<kernelVars, registryLock, schedulerLock, registryVars, silent,
                   nextTaskId, totalAssigned, command, creates, t1, sender, failing>>

(* No task has the id: create_task had returned 0.                          *)
CompleteNothing ==
    /\ pc["main"] = "complete"
    /\ \A i \in DOMAIN tasks : tasks[i].task_id # t1
    /\ Goto("main", "complete_unlock")
    /\ UNCHANGED <<kernelVars, registryLock, schedulerLock, registryVars, silent,
                   schedulerVars, mainVars, sender, failing>>

(* update_node_reputation, called with the scheduler locked.                *)
CreditLock ==
    /\ pc["main"] = "credit_lock"
    /\ registryLock = NoThread
    /\ registryLock' = "main"
    /\ Goto("main", "credit")
    /\ UNCHANGED <<kernelVars, schedulerLock, registryVars, silent, schedulerVars,
                   mainVars, sender, failing>>

(* Mutant: the entry's id is not compared.                                   *)
CreditEveryNode ==
    /\ pc["main"] = "credit"
    /\ tasksCredited' = [n \in Peers |-> IF n \in Known THEN tasksCredited[n] + 1
                                         ELSE tasksCredited[n]]
    /\ registryLock' = NoThread
    /\ target' = Local
    /\ Goto("main", "complete_unlock")
    /\ UNCHANGED <<kernelVars, schedulerLock, status, silent, schedulerVars,
                   command, creates, t1, sender, failing>>

(* Only entries of the registry are searched: the local node gets no credit. *)
Credit ==
    /\ pc["main"] = "credit"
    /\ tasksCredited' = [n \in Peers |-> IF n = target /\ n \in Known
                                         THEN tasksCredited[n] + 1
                                         ELSE tasksCredited[n]]
    /\ registryLock' = NoThread
    /\ target' = Local
    /\ Goto("main", "complete_unlock")
    /\ UNCHANGED <<kernelVars, schedulerLock, status, silent, schedulerVars,
                   command, creates, t1, sender, failing>>

CompleteUnlock ==
    /\ pc["main"] = "complete_unlock"
    /\ schedulerLock' = NoThread
    /\ command' = "none" /\ t1' = 0
    /\ Goto("main", NextCall(0, "none"))
    /\ UNCHANGED <<kernelVars, registryLock, registryVars, silent, schedulerVars,
                   creates, target, sender, failing>>

-----------------------------------------------------------------------------
(* handle_signal and cleanup.                                              *)

(* SIGINT or SIGTERM, on whichever thread: the handler writes through the   *)
(* pointer unless it is NULL.  main keeps waiting for a line: signal()      *)
(* restarts the interrupted read.                                           *)
HandleSignal ==
    /\ g_kernel # "null"
    /\ g_kernel' = IF Running THEN "stopping" ELSE g_kernel
    /\ Deref("signal")
    /\ UNCHANGED <<registryLock, schedulerLock, registryVars, silent,
                   schedulerVars, pc, mainVars, sender, failing>>

(* pthread_join of the discovery, heartbeat and failure detector threads, in *)
(* this order.  The data server's thread is not among them.                  *)
Join(t, here, next) ==
    /\ pc["main"] = here
    /\ pc[t] = "exit"
    /\ Goto("main", next)
    /\ UNCHANGED <<kernelVars, registryLock, schedulerLock, registryVars, silent,
                   schedulerVars, mainVars, sender, failing>>

JoinThreads ==
    \/ Join("discovery", "join_discovery", "join_heartbeat")
    \/ Join("heartbeat", "join_heartbeat", "join_detector")
    \/ Join("detector", "join_detector", "free")

(* Sockets closed, blocks, mutexes and tables gone, free(g_kernel).          *)
FreeKernel ==
    /\ pc["main"] = "free"
    /\ g_kernel' = "freed"
    /\ Goto("main", "clear")
    /\ UNCHANGED <<faults, registryLock, schedulerLock, registryVars, silent,
                   schedulerVars, mainVars, sender, failing>>

ClearPointer ==
    /\ pc["main"] = "clear"
    /\ g_kernel' = "null"
    /\ Goto("main", "return")
    /\ UNCHANGED <<faults, registryLock, schedulerLock, registryVars, silent,
                   schedulerVars, mainVars, sender, failing>>

(* main() returns: the process and every thread left in it end.              *)
Return ==
    /\ pc["main"] = "return"
    /\ Goto("main", "done")
    /\ UNCHANGED <<kernelVars, registryLock, schedulerLock, registryVars, silent,
                   schedulerVars, mainVars, sender, failing>>

-----------------------------------------------------------------------------

Discovery  == ListenStop \/ (\E n \in Peers : Receive(n)) \/ RegisterLock \/ Register
Heartbeat  == BeatStop
Detector   == WatchTest \/ WatchLock \/ (\E n \in Peers : MarkFailed(n))
              \/ ScanDone \/ FailoverLock \/ Failover
DataServer == ServeTest \/ ServeAccept

Commands   == Report \/ TaskCommand \/ RunDemo \/ Quit
CreateTask == CreateLock \/ CreateFull \/ CreateSlot \/ SelectLock
              \/ SelectBestNode \/ CreateAssign
Complete   == CompleteLock \/ (\E i \in DOMAIN tasks : CompleteTask(i))
              \/ CompleteNothing \/ CreditLock \/ Credit \/ CompleteUnlock
Cleanup    == JoinThreads \/ FreeKernel \/ ClearPointer \/ Return
Main       == ReadRegistry \/ ReadScheduler \/ CommandTest \/ CreateTask
              \/ Complete \/ Cleanup

Next == Alive /\ (Discovery \/ Heartbeat \/ Detector \/ DataServer
                  \/ Commands \/ Main \/ HandleSignal)

Spec == Init /\ [][Next]_vars

(* The scheduling the code relies on.  A thread that can run runs; a mutex    *)
(* that is released again and again is granted to a waiter in the end (its    *)
(* users sleep 10 ms to 5 s between two critical sections).  The operator,    *)
(* the network and signals owe nothing: Commands, Receive and HandleSignal    *)
(* are not fair.                                                              *)
Fairness ==
    /\ WF_vars(Alive /\ Main)
    /\ WF_vars(Alive /\ Detector)
    /\ WF_vars(Alive /\ Heartbeat)
    /\ WF_vars(Alive /\ DataServer)
    /\ WF_vars(Alive /\ (ListenStop \/ Register))
    /\ SF_vars(Alive /\ RegisterLock)
    /\ SF_vars(Alive /\ WatchLock)
    /\ SF_vars(Alive /\ FailoverLock)
    /\ SF_vars(Alive /\ (ReadRegistry \/ ReadScheduler))
    /\ SF_vars(Alive /\ (CreateLock \/ SelectLock))
    /\ SF_vars(Alive /\ (CompleteLock \/ CreditLock))

FairSpec == Spec /\ Fairness

-----------------------------------------------------------------------------
(* Who holds and who waits for what, read off the program counters.        *)

HoldsRegistry(t)  == pc[t] \in {"register", "scan", "failover_lock", "failover",
                                "reselect", "select", "credit"}
HoldsScheduler(t) == pc[t] \in {"failover", "reselect", "create_slot", "select_lock",
                                "select", "create_assign", "complete", "credit_lock",
                                "credit", "complete_unlock"}
WantsRegistry(t)  == pc[t] \in {"register_lock", "watch_lock", "reselect", "count",
                                "report_registry", "nodes", "select_lock", "credit_lock"}
WantsScheduler(t) == pc[t] \in {"failover_lock", "report_scheduler", "create_lock",
                                "complete_lock"}

(* t cannot go on before u does something.                                   *)
WaitsFor(t, u) ==
    \/ WantsRegistry(t) /\ registryLock = u
    \/ WantsScheduler(t) /\ schedulerLock = u
    \/ pc[t] = "join_discovery" /\ u = "discovery" /\ pc[u] # "exit"
    \/ pc[t] = "join_heartbeat" /\ u = "heartbeat" /\ pc[u] # "exit"
    \/ pc[t] = "join_detector"  /\ u = "detector"  /\ pc[u] # "exit"

Waiting == {t \in Threads : \E u \in Threads : WaitsFor(t, u)}

(* A set of threads each of which waits for one of them: none ever moves.    *)
Deadlocked(S) == S # {} /\ \A t \in S : \E u \in S : WaitsFor(t, u)
Hung == \E S \in SUBSET Waiting : Deadlocked(S)

InFailover == pc["detector"] \in {"failover_lock", "failover", "reselect"}

-----------------------------------------------------------------------------
(* Properties.                                                             *)

MainLabels == {"count", "loop", "prompt", "report_registry", "nodes", "report_scheduler",
    "create_lock", "create_slot", "select_lock", "select", "create_assign",
    "complete_lock", "complete", "credit_lock", "credit", "complete_unlock",
    "join_discovery", "join_heartbeat", "join_detector", "free", "clear", "return", "done"}
DiscoveryLabels == {"listen", "register_lock", "register", "exit"}
HeartbeatLabels == {"beat", "exit"}
DetectorLabels  == {"watch", "watch_lock", "scan", "failover_lock", "failover",
                    "reselect", "exit"}
ServerLabels    == {"serve", "accept", "exit"}

Labels == MainLabels \cup DiscoveryLabels \cup HeartbeatLabels \cup DetectorLabels
          \cup ServerLabels

PcType ==
    /\ pc \in [Threads -> Labels]
    /\ pc["main"] \in MainLabels
    /\ pc["discovery"] \in DiscoveryLabels
    /\ pc["heartbeat"] \in HeartbeatLabels
    /\ pc["detector"] \in DetectorLabels
    /\ pc["data_server"] \in ServerLabels

(* Every variable stays in its range.                                        *)
TypeOK ==
    /\ g_kernel \in {"running", "stopping", "freed", "null"}
    /\ registryLock \in Threads \cup {NoThread}
    /\ schedulerLock \in Threads \cup {NoThread}
    /\ status \in [Peers -> {"absent", "ACTIVE", "FAILED"}]
    /\ tasksCredited \in [Peers -> Nat]
    /\ silent \subseteq Peers
    /\ tasks \in Seq(Task)
    /\ nextTaskId \in Nat /\ totalAssigned \in Nat /\ totalCompleted \in Nat
    /\ PcType
    /\ command \in {"none", "task", "demo"} /\ creates \in 0..3 /\ t1 \in Nat
    /\ target \in Nodes /\ sender \in Nodes /\ failing \in Nodes
    /\ faults \subseteq {"data_server", "signal"}

(* A mutex is owned exactly by the thread that is inside one of its critical *)
(* sections: no path of the handlers leaves one locked or unlocks twice.     *)
LockDiscipline ==
    \A t \in Threads : /\ registryLock = t <=> HoldsRegistry(t)
                       /\ schedulerLock = t <=> HoldsScheduler(t)

(* Both tables stay within their arrays, although create_task tests task_count *)
(* three lock operations before it grows.                                     *)
TablesBounded == Cardinality(Known) <= MaxNodes /\ Len(tasks) <= MaxTasks

(* The task table agrees with the scheduler's counters and ids are never     *)
(* reused: outside create_task, task i of the table has id i, every task was *)
(* counted as assigned, and each completed task was counted once.            *)
TaskAccounting ==
    /\ \A i \in DOMAIN tasks : tasks[i].task_id = i
    /\ totalAssigned = Len(tasks)
    /\ nextTaskId = Len(tasks)
         + (IF pc["main"] \in {"select_lock", "select", "create_assign"} THEN 1 ELSE 0)
    /\ totalCompleted = Cardinality({i \in DOMAIN tasks : ~Open(i)})

(* A task is never left open on a node the registry calls FAILED except while *)
(* the detector is still inside the failover of that very node.  It holds     *)
(* although create_task chooses a node and stores it in two steps between     *)
(* which the registry is unlocked and the node may fail: the detector takes   *)
(* the scheduler after marking the node and so sees the late assignment.      *)
NoOrphanTask ==
    \A i \in DOMAIN tasks : LET n == tasks[i].assigned_node IN
        Open(i) /\ n \in Peers /\ status[n] = "FAILED" => InFailover /\ failing = n

(* Threads can only block each other for good once a failover has begun: as   *)
(* long as the detector marks no node, create_task and complete_task (which   *)
(* lock the scheduler, then the registry) always get through.                 *)
HangNeedsFailover == Hung => InFailover

(* The registry credits a peer with no more completions than the scheduler    *)
(* recorded for it, whatever messages reset the count in between.             *)
CreditBounded ==
    \A n \in Peers : tasksCredited[n] <=
        Cardinality({i \in DOMAIN tasks : tasks[i].assigned_node = n /\ ~Open(i)})

(* cleanup frees the kernel only after the three threads it joins have ended. *)
FreedAfterJoin ==
    ~Live =>
        \A t \in {"discovery", "heartbeat", "detector"} : pc[t] = "exit"

(* "Esperar threads" (cleanup's comment): no thread is left to read or write  *)
(* through g_kernel once the kernel is freed.                                 *)
NoThreadUsesFreedKernel == "data_server" \notin faults

(* The kernel with its threads and locks implements the plain ledger of tasks: *)
(* ids in order, each task completed at most once, no completed task changed   *)
(* or dropped by a second complete_task, by the detector or by a new task.     *)
Ledger == INSTANCE TaskLedger WITH ledger <- tasks, done <- totalCompleted
ImplementsLedger == Ledger!Spec

(* A command that is being executed comes back to the prompt's loop unless    *)
(* the kernel hangs.                                                          *)
InCommand == pc["main"] \in {"create_lock", "create_slot", "select_lock", "select",
    "create_assign", "complete_lock", "complete", "credit_lock", "credit", "complete_unlock",
    "nodes", "report_registry", "report_scheduler"}
CommandsReturn == InCommand ~> (pc["main"] = "loop" \/ Hung)

(* cleanup, once entered, ends the process unless the kernel hangs: the       *)
(* joined threads all see running = FALSE.                                    *)
CleanupEnds == pc["main"] = "join_discovery" ~> (pc["main"] = "done" \/ Hung)

(* A silent node does not stay ACTIVE: it is marked, or heard again, unless   *)
(* the kernel stops or hangs.                                                 *)
SilenceDetected ==
    \A n \in Peers : n \in Active \cap silent ~>
        (n \notin Active \cap silent \/ ~Running \/ Hung)

(* "Migracion automatica de tareas habilitada" (run_demo), "Reasignar tareas  *)
(* de este nodo" (the detector): while the kernel runs, an open task of a     *)
(* failed node is moved to another node.                                      *)
FailedNodesTasksMove ==
    \A n \in Peers : (status[n] = "FAILED" /\ OpenOn(n)) ~>
        (~OpenOn(n) \/ status[n] # "FAILED" \/ ~Running)

================================================================================
