----------------------------- MODULE FaultManager -----------------------------
(***************************************************************************)
(* Fault tolerance of the simulation library, src/src/fault_tolerance/     *)
(* fault_manager.c, over its scheduler and its memory manager: a thread    *)
(* marks silent nodes as failed and, still holding ftm->lock, moves their  *)
(* tasks in two critical sections of the scheduler and replicates their    *)
(* memory; meanwhile clients schedule, report, free, recover, simulate     *)
(* failures, and save and restore the state of the nodes.                  *)
(*                                                                         *)
(* The nodes' last_heartbeat and the clock are left out: any node may be   *)
(* found too old by any pass of the monitor.                               *)
(*                                                                         *)
(* The clients' critical sections of ftm->lock are one step each, so that  *)
(* the lock is held between two steps by the monitor only.                 *)
(***************************************************************************)
EXTENDS TaskScheduler, MemoryManager

CONSTANTS Given,           \* statuses the callers give their nodes at the start
          Names,           \* of checkpoints
          MaxCheckpoints,  \* 10, entries of ftm->checkpoints
          MaxAlterations   \* bound: failures simulated and states restored

ASSUME GivenAssumption       == Given \subseteq {"IDLE", "BUSY", "OFFLINE"}
ASSUME CheckpointsAssumption == MaxCheckpoints \in Nat /\ MaxAlterations \in Nat

VARIABLES
    mon,          \* the monitor: "off" (not started or joined), "test", "lock",
                  \* "scan", "requeue", "reschedule" or "replicate"
    suspects,     \* nodes the monitor's pass finds too old and has yet to look at
    failing,      \* the node whose failure it handles, 0 outside handle_node_failure
    running,      \* ftm->running
    failed_nodes, \* the counter
    checkpoints,  \* ftm->checkpoints[0 .. checkpoint_count - 1]
    handled,      \* history: failed nodes whose tasks the monitor has taken away
    alterations   \* how often a failure was simulated or a state restored

faultVars == <<mon, suspects, failing, running, failed_nodes, checkpoints,
               handled, alterations>>
vars      == <<status, schedVars, memVars, faultVars>>

Checkpoint == [name : Names, status : [Nodes -> NodeStatus]]

FtmFree == mon \in {"off", "test", "lock"}

FailedNodes == {n \in Nodes : status[n] = "FAILED"}

-----------------------------------------------------------------------------

(* create_fault_tolerance_manager and the callers' array of nodes.           *)
Init ==
    /\ status \in [Nodes -> Given]
    /\ SchedInit /\ MemInit
    /\ mon = "off" /\ suspects = {} /\ failing = 0
    /\ running = FALSE
    /\ failed_nodes = 0
    /\ checkpoints = <<>>
    /\ handled = {} /\ alterations = 0

(* Not before the join of an earlier monitor.                                *)
StartFaultTolerance ==
    /\ mon = "off" /\ ~running
    /\ running' = TRUE
    /\ mon' = "test"
    /\ UNCHANGED <<status, schedVars, memVars, suspects, failing, failed_nodes,
                   checkpoints, handled, alterations>>

(* stop_fault_tolerance up to its join, which ends when the monitor has.     *)
StopFaultTolerance ==
    /\ running
    /\ running' = FALSE
    /\ UNCHANGED <<status, schedVars, memVars, mon, suspects, failing,
                   failed_nodes, checkpoints, handled, alterations>>

-----------------------------------------------------------------------------
(* heartbeat_monitor_thread.                                               *)

MonitorTest ==
    /\ mon = "test"
    /\ mon' = IF running THEN "lock" ELSE "off"
    /\ UNCHANGED <<status, schedVars, memVars, suspects, failing, running,
                   failed_nodes, checkpoints, handled, alterations>>

(* The pass starts; time decides which nodes it finds too old.               *)
MonitorLock(old) ==
    /\ mon = "lock"
    /\ suspects' = old
    /\ mon' = "scan"
    /\ UNCHANGED <<status, schedVars, memVars, failing, running, failed_nodes,
                   checkpoints, handled, alterations>>

(* Mutant: a node that has failed is found to fail again.                    *)
MarkFailedAgain(n) ==
    /\ mon = "scan"
    /\ n \in suspects /\ \A m \in suspects : n <= m
    /\ suspects' = suspects \ {n}
    /\ IF status[n] # "OFFLINE"
       THEN /\ status' = [status EXCEPT ![n] = "FAILED"]
            /\ failed_nodes' = failed_nodes + 1
            /\ failing' = n
            /\ mon' = "requeue"
       ELSE UNCHANGED <<status, failed_nodes, failing, mon>>
    /\ UNCHANGED <<schedVars, memVars, running, checkpoints, handled, alterations>>

(* The next old node: it fails unless it already has, or is offline.         *)
MarkFailed(n) ==
    /\ mon = "scan"
    /\ n \in suspects /\ \A m \in suspects : n <= m
    /\ suspects' = suspects \ {n}
    /\ IF n \in Eligible(status)
       THEN /\ status' = [status EXCEPT ![n] = "FAILED"]
            /\ failed_nodes' = failed_nodes + 1
            /\ failing' = n
            /\ mon' = "requeue"
       ELSE UNCHANGED <<status, failed_nodes, failing, mon>>
    /\ UNCHANGED <<schedVars, memVars, running, checkpoints, handled, alterations>>

(* Mutant: the tasks' status is not looked at.                               *)
RequeueEveryTask ==
    /\ mon = "requeue" /\ SchedulerFree
    /\ tasks' = [k \in DOMAIN tasks |->
                    IF tasks[k].assigned_node = failing
                    THEN WithStatus(tasks[k], "PENDING") ELSE tasks[k]]
    /\ mon' = "reschedule"
    /\ handled' = handled \cup {failing}
    /\ UNCHANGED <<status, nextId, draft, inside, cursor, best, memVars,
                   suspects, failing, running, failed_nodes, checkpoints, alterations>>

(* handle_node_failure, first critical section of the scheduler: the tasks   *)
(* that run on the node are pending again.                                   *)
Requeue ==
    /\ mon = "requeue" /\ SchedulerFree
    /\ tasks' = [k \in DOMAIN tasks |->
                    IF tasks[k].assigned_node = failing /\ tasks[k].status = "RUNNING"
                    THEN WithStatus(tasks[k], "PENDING") ELSE tasks[k]]
    /\ mon' = "reschedule"
    /\ handled' = handled \cup {failing}
    /\ UNCHANGED <<status, nextId, draft, inside, cursor, best, memVars,
                   suspects, failing, running, failed_nodes, checkpoints, alterations>>

(* Second critical section, after reports of workers may have come between.  *)
Reschedule ==
    /\ mon = "reschedule" /\ SchedulerFree
    /\ \E node \in IF Eligible(status) = {} THEN {0} ELSE Eligible(status) :
          tasks' = Rescheduled(node)
    /\ mon' = "replicate"
    /\ UNCHANGED <<status, nextId, draft, inside, cursor, best, memVars,
                   suspects, failing, running, failed_nodes, checkpoints, handled, alterations>>

(* The blocks the node owns are replicated at the first idle node, under     *)
(* memory_lock and, one after the other, each block's own.                   *)
FirstIdle == {n \in Nodes : /\ status[n] = "IDLE" /\ n # failing
                            /\ \A m \in 1..(n - 1) : status[m] # "IDLE" \/ m = failing}
Replicate ==
    /\ mon = "replicate" /\ MemoryFree
    /\ \/ \E n \in FirstIdle : ReplicateOwned(failing, n)
       \/ FirstIdle = {} /\ UNCHANGED memVars
    /\ mon' = "scan"
    /\ failing' = 0
    /\ UNCHANGED <<status, schedVars, suspects, running, failed_nodes, checkpoints, handled,
                   alterations>>

(* The lock is released, and the thread sleeps before it tests running.      *)
MonitorUnlock ==
    /\ mon = "scan" /\ suspects = {}
    /\ mon' = "test"
    /\ UNCHANGED <<status, schedVars, memVars, suspects, failing, running,
                   failed_nodes, checkpoints, handled, alterations>>

-----------------------------------------------------------------------------
(* Clients: critical sections of ftm->lock.                                *)

(* recover_node: a node that has not failed is left alone.                   *)
RecoverNode(n) ==
    /\ FtmFree
    /\ status[n] = "FAILED"
    /\ status' = [status EXCEPT ![n] = "IDLE"]
    /\ failed_nodes' = failed_nodes - 1
    /\ handled' = handled \ {n}
    /\ UNCHANGED <<schedVars, memVars, mon, suspects, failing, running, checkpoints,
                   alterations>>

(* simulate_node_failure marks a node and does nothing for its tasks; the     *)
(* monitor passes over the node it finds failed.                              *)
SimulateNodeFailure(n) ==
    /\ FtmFree
    /\ status' = [status EXCEPT ![n] = "FAILED"]
    /\ alterations < MaxAlterations
    /\ alterations' = alterations + 1
    /\ UNCHANGED <<schedVars, memVars, mon, suspects, failing, running, failed_nodes,
                   checkpoints, handled>>

(* create_checkpoint; with ten checkpoints nothing changes.                  *)
CreateCheckpoint(name) ==
    /\ FtmFree
    /\ Len(checkpoints) < MaxCheckpoints
    /\ checkpoints' = Append(checkpoints, [name |-> name, status |-> status])
    /\ UNCHANGED <<status, schedVars, memVars, mon, suspects, failing, running,
                   failed_nodes, handled, alterations>>

(* restore_checkpoint: the first of that name, without the counters.         *)
RestoreCheckpoint(k) ==
    /\ FtmFree
    /\ \A j \in 1..(k - 1) : checkpoints[j].name # checkpoints[k].name
    /\ status' = checkpoints[k].status
    /\ handled' = {}
    /\ alterations < MaxAlterations
    /\ alterations' = alterations + 1
    /\ UNCHANGED <<schedVars, memVars, mon, suspects, failing, running, failed_nodes,
                   checkpoints>>

-----------------------------------------------------------------------------

Monitor ==
    \/ MonitorTest
    \/ \E old \in SUBSET Nodes : MonitorLock(old)
    \/ \E n \in Nodes : MarkFailed(n)
    \/ Requeue \/ Reschedule \/ Replicate
    \/ MonitorUnlock

(* A client is in one call at a time.                                        *)
Schedule(c) == (Idle(c) /\ ScheduleLock(c)) \/ ScoreNode(c) \/ ScheduleStore(c)

Memory(c) == c \notin inside /\ MemoryClient(c)

Operator ==
    \/ StartFaultTolerance \/ StopFaultTolerance
    \/ \E n \in Nodes : RecoverNode(n) \/ SimulateNodeFailure(n)
    \/ \E name \in Names : CreateCheckpoint(name)
    \/ \E k \in DOMAIN checkpoints : RestoreCheckpoint(k)

(* Workers report the end of their tasks, right or wrong, at any time.       *)
Report ==
    \E k \in DOMAIN tasks, new \in {"COMPLETED", "FAILED"} :
        UpdateTaskStatus(tasks[k].task_id, new)

Next ==
    \/ Monitor
    \/ Operator
    \/ \E c \in Clients : Schedule(c) /\ UNCHANGED <<memVars, faultVars>>
    \/ Report /\ UNCHANGED <<memVars, faultVars>>
    \/ \E c \in Clients : Memory(c) /\ UNCHANGED <<status, schedVars, faultVars>>
    \/ \E owner \in Nodes : /\ AllocateSharedMemory(owner)
                            /\ UNCHANGED <<status, schedVars, faultVars>>

Spec == Init /\ [][Next]_vars

-----------------------------------------------------------------------------
(* Properties.                                                             *)

(* Every variable stays in its range; tables fit their arrays.               *)
TypeOK ==
    /\ SchedTypeOK /\ MemTypeOK
    /\ mon \in {"off", "test", "lock", "scan", "requeue", "reschedule", "replicate"}
    /\ suspects \subseteq Nodes
    /\ failing \in 0..NodeCount
    /\ running \in BOOLEAN /\ failed_nodes \in Int
    /\ checkpoints \in Seq(Checkpoint) /\ Len(checkpoints) <= MaxCheckpoints
    /\ handled \subseteq Nodes /\ alterations \in 0..MaxAlterations

(* "Reasignar tareas del nodo fallido": once the monitor has handled the      *)
(* failure of a node no task runs there, although schedule_task may have     *)
(* found the node in order before and store its task after.                  *)
RelievedOfTasks ==
    \A k \in DOMAIN tasks : tasks[k].status = "RUNNING" => tasks[k].assigned_node \notin handled

(* As long as no failure is simulated and no state restored, failed_nodes    *)
(* counts the failed nodes, however failures and recoveries alternate.       *)
FailuresCounted == alterations = 0 => failed_nodes = Cardinality(FailedNodes)

(* A task reported as completed is not run again, not even when the report    *)
(* arrives between the two sections that move it: only a later report of its  *)
(* failure can bring it back.                                                 *)
CompletedStaysDone ==
    [][\A k \in DOMAIN tasks :
          tasks[k].status = "COMPLETED" => tasks'[k].status \in {"COMPLETED", "FAILED"}]_vars
===============================================================================
