---------------------------- MODULE TaskScheduler ----------------------------
(***************************************************************************)
(* The scheduler of the simulation library, src/src/scheduler/scheduler.c: *)
(* a table of tasks under scheduler_lock, which its callers fill from any  *)
(* thread.  schedule_task reads the status of the nodes, which another     *)
(* lock protects, one by one while it holds its own.                       *)
(*                                                                         *)
(* A node 0 stands for the code's -1.  Scores are a free choice between    *)
(* the nodes that may be chosen, which all score above the initial -1.     *)
(***************************************************************************)
EXTENDS LibCommon

CONSTANT MaxTasks  \* MAX_TASKS

ASSUME MaxTasksAssumption  == MaxTasks \in Nat

VARIABLES
    status,  \* nodes[1 .. NodeCount].status
    tasks,   \* scheduler->tasks[0 .. task_count - 1]
    nextId,  \* next_task_id
    draft,   \* task_id of the Task each client is about to submit, 0: none given yet
    inside,  \* the clients inside schedule_task's critical section
    cursor,  \* the index of assign_task_to_node's loop there
    best     \* its best_node

schedVars == <<tasks, nextId, draft, inside, cursor, best>>

Task == [task_id : Nat, assigned_node : Nodes, status : TaskStatus]

SchedulerFree == inside = {}

WithStatus(t, new) == [task_id |-> t.task_id, assigned_node |-> t.assigned_node, status |-> new]

(* calculate_node_score gives every other node -1.                           *)
Eligible(s) == {n \in Nodes : s[n] \notin {"FAILED", "OFFLINE"}}

-----------------------------------------------------------------------------

SchedInit ==
    /\ tasks = <<>>
    /\ nextId = 1
    /\ draft = [c \in Clients |-> 0]
    /\ inside = {}
    /\ cursor = 1
    /\ best = 0

(* Mutant: task_count > MAX_TASKS instead of >=.                             *)
ScheduleLockOffByOne(c) ==
    /\ SchedulerFree
    /\ Len(tasks) <= MaxTasks
    /\ inside' = {c}
    /\ IF draft[c] = 0
       THEN draft' = [draft EXCEPT ![c] = nextId] /\ nextId' = nextId + 1
       ELSE UNCHANGED <<draft, nextId>>
    /\ UNCHANGED <<status, tasks, cursor, best>>

(* schedule_task: with a full table it returns at once and nothing changes;  *)
(* a Task without an id gets one.                                            *)
ScheduleLock(c) ==
    /\ SchedulerFree
    /\ Len(tasks) < MaxTasks
    /\ inside' = {c}
    /\ IF draft[c] = 0
       THEN draft' = [draft EXCEPT ![c] = nextId] /\ nextId' = nextId + 1
       ELSE UNCHANGED <<draft, nextId>>
    /\ UNCHANGED <<status, tasks, cursor, best>>

(* Mutant: only nodes that are offline are passed over.                      *)
ScoreNodeFailed(c) ==
    /\ c \in inside
    /\ cursor <= NodeCount
    /\ cursor' = cursor + 1
    /\ \/ status[cursor] # "OFFLINE" /\ best' = cursor
       \/ (best # 0 \/ status[cursor] = "OFFLINE") /\ best' = best
    /\ UNCHANGED <<status, tasks, nextId, draft, inside>>

(* One round of assign_task_to_node's loop: the status is read without the   *)
(* fault manager's lock and may change before the task is stored.            *)
ScoreNode(c) ==
    /\ c \in inside
    /\ cursor <= NodeCount
    /\ cursor' = cursor + 1
    /\ \/ cursor \in Eligible(status) /\ best' = cursor
       \/ (best # 0 \/ cursor \notin Eligible(status)) /\ best' = best
    /\ UNCHANGED <<status, tasks, nextId, draft, inside>>

(* The task is stored and the lock released.  Without a node the caller gets *)
(* -1 and its Task keeps the id for another try.                             *)
ScheduleStore(c) ==
    /\ c \in inside
    /\ cursor > NodeCount
    /\ inside' = {} /\ cursor' = 1 /\ best' = 0
    /\ IF best = 0
       THEN UNCHANGED <<tasks, draft>>
       ELSE /\ tasks' = Append(tasks, [task_id |-> draft[c], assigned_node |-> best,
                                       status |-> "RUNNING"])
            /\ draft' = [draft EXCEPT ![c] = 0]
    /\ UNCHANGED <<status, nextId>>

(* update_task_status with what a worker reports: the first task with the id. *)
UpdateTaskStatus(id, new) ==
    /\ SchedulerFree
    /\ \E k \in DOMAIN tasks :
          /\ tasks[k].task_id = id
          /\ \A j \in 1..(k - 1) : tasks[j].task_id # id
          /\ tasks' = [tasks EXCEPT ![k] = WithStatus(@, new)]
    /\ UNCHANGED <<status, nextId, draft, inside, cursor, best>>

(* reschedule_failed_tasks: every task gets the node with the best score,    *)
(* which is the same for all of them, or stays where it is without one.      *)
Rescheduled(node) ==
    [k \in DOMAIN tasks |->
        IF tasks[k].status \in {"FAILED", "PENDING"} /\ node # 0
        THEN [task_id |-> tasks[k].task_id, assigned_node |-> node, status |-> "RUNNING"]
        ELSE tasks[k]]

-----------------------------------------------------------------------------

SchedTypeOK ==
    /\ status \in [Nodes -> NodeStatus]
    /\ tasks \in Seq(Task) /\ Len(tasks) <= MaxTasks
    /\ nextId \in Nat \ {0}
    /\ draft \in [Clients -> Nat]
    /\ inside \subseteq Clients
    /\ cursor \in 1..(NodeCount + 1)
    /\ best \in 0..NodeCount
=============================================================================
