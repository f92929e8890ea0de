-------------------------- MODULE FaultManagerProofs --------------------------
(***************************************************************************)
(* Proofs about FaultManager for any number of clients and nodes and any   *)
(* table sizes: type correctness, the tasks of failed nodes, the failures   *)
(* that are counted, completed tasks, and the reference counts of blocks.   *)
(***************************************************************************)
EXTENDS FaultManager, FiniteSetTheorems, TLAPS

(* What the steps of the three parts leave alone, as they appear in Next.    *)
SchedStep ==
    /\ \/ \E c \in Clients : Schedule(c)
       \/ Report
    /\ UNCHANGED <<memVars, faultVars>>
MemStep ==
    /\ \/ \E c \in Clients : Memory(c)
       \/ \E owner \in Nodes : AllocateSharedMemory(owner)
    /\ UNCHANGED <<status, schedVars, faultVars>>

LEMMA StepCases ==
    ASSUME [Next]_vars
    PROVE  Monitor \/ Operator \/ SchedStep \/ MemStep \/ UNCHANGED vars
BY DEF Next, SchedStep, MemStep

-----------------------------------------------------------------------------
(* Type correctness.                                                       *)

(* Tables after an entry was added, changed or removed.                      *)
LEMMA TasksAppended ==
    ASSUME SchedTypeOK, NEW t \in Task, Len(tasks) < MaxTasks, tasks' = Append(tasks, t)
    PROVE  tasks' \in Seq(Task) /\ Len(tasks') <= MaxTasks
BY MaxTasksAssumption DEF SchedTypeOK

LEMMA TasksMapped ==
    ASSUME SchedTypeOK, DOMAIN tasks' = DOMAIN tasks,
           tasks' = [k \in DOMAIN tasks |-> tasks'[k]],
           \A k \in DOMAIN tasks : tasks'[k] \in Task
    PROVE  tasks' \in Seq(Task) /\ Len(tasks') <= MaxTasks
<1>1. tasks \in Seq(Task) /\ Len(tasks) <= MaxTasks  BY DEF SchedTypeOK
<1>2. DOMAIN tasks = 1..Len(tasks) /\ Len(tasks) \in Nat  BY <1>1
<1>3. tasks' \in [1..Len(tasks) -> Task]  BY <1>2
<1>4. tasks' \in Seq(Task) /\ Len(tasks') = Len(tasks)  BY <1>2, <1>3
<1> QED  BY <1>1, <1>4

LEMMA WithStatusType ==
    ASSUME NEW t \in Task, NEW s \in TaskStatus
    PROVE  WithStatus(t, s) \in Task
BY DEF WithStatus, Task

(* The lock admits one client, to a table with a free place and with an id.   *)
SchedInv ==
    /\ \A c, d \in inside : c = d
    /\ inside # {} => Len(tasks) < MaxTasks
    /\ \A c \in inside : draft[c] # 0
    /\ inside = {} => best = 0

LEMMA SchedTypeStep == ASSUME SchedTypeOK, SchedInv, SchedStep PROVE SchedTypeOK' /\ SchedInv'
<1> USE NodeCountAssumption, MaxTasksAssumption DEF SchedTypeOK, SchedInv
<1>1. ASSUME NEW c \in Clients, ScheduleLock(c) PROVE SchedTypeOK' /\ SchedInv'
  <2>1. nextId' \in Nat \ {0} /\ draft' \in [Clients -> Nat] /\ draft'[c] # 0
    BY <1>1 DEF ScheduleLock
  <2>2. inside' = {c} /\ tasks' = tasks /\ Len(tasks) < MaxTasks
    BY <1>1 DEF ScheduleLock
  <2> QED  BY <1>1, <2>1, <2>2 DEF ScheduleLock
<1>2. ASSUME NEW c \in Clients, ScoreNode(c) PROVE SchedTypeOK' /\ SchedInv'
  <2>1. cursor \in 1..NodeCount /\ cursor' = cursor + 1  BY <1>2 DEF ScoreNode
  <2>2. best' = cursor \/ best' = best  BY <1>2 DEF ScoreNode
  <2> QED  BY <1>2, <2>1, <2>2 DEF ScoreNode
<1>3. ASSUME NEW c \in Clients, ScheduleStore(c) PROVE SchedTypeOK' /\ SchedInv'
  <2>0. inside' = {} /\ Len(tasks) < MaxTasks  BY <1>3 DEF ScheduleStore
  <2>1. CASE best = 0
    BY <1>3, <2>0, <2>1 DEF ScheduleStore
  <2>2. CASE best # 0
    <3> DEFINE t == [task_id |-> draft[c], assigned_node |-> best, status |-> "RUNNING"]
    <3>1. t \in Task  BY <2>2 DEF Task, Nodes, TaskStatus
    <3>2. tasks' = Append(tasks, t)  BY <1>3, <2>2 DEF ScheduleStore
    <3>3. tasks' \in Seq(Task) /\ Len(tasks') <= MaxTasks
      BY <2>0, <3>1, <3>2, TasksAppended
    <3>4. draft' \in [Clients -> Nat] /\ cursor' = 1 /\ best' = 0
      BY <1>3, <2>2 DEF ScheduleStore
    <3> QED  BY <1>3, <2>0, <3>3, <3>4 DEF ScheduleStore
  <2> QED  BY <2>1, <2>2
<1>4. ASSUME Report PROVE SchedTypeOK' /\ SchedInv'
  <2>1. PICK id \in {tasks[j].task_id : j \in DOMAIN tasks}, new \in {"COMPLETED", "FAILED"} :
          UpdateTaskStatus(id, new)
    BY <1>4 DEF Report
  <2>2. PICK k \in DOMAIN tasks : tasks' = [tasks EXCEPT ![k] = WithStatus(@, new)]
    BY <2>1 DEF UpdateTaskStatus
  <2>3. DOMAIN tasks = 1..Len(tasks)  OBVIOUS
  <2>4. \A j \in DOMAIN tasks : tasks[j] \in Task  BY <2>3
  <2>5. WithStatus(tasks[k], new) \in Task  BY <2>4, WithStatusType DEF TaskStatus
  <2>6. tasks' \in Seq(Task) /\ Len(tasks') = Len(tasks)  BY <2>2, <2>5
  <2> QED  BY <2>1, <2>6 DEF UpdateTaskStatus, SchedulerFree
<1> QED  BY <1>1, <1>2, <1>3, <1>4 DEF SchedStep, Schedule

(* The table without its entry k has the other entries and one place less.    *)
LEMMA WithoutEntry ==
    ASSUME MemTypeOK, NEW k \in DOMAIN blocks
    PROVE  /\ Without(blocks, k) \in Seq(Block)
           /\ Len(Without(blocks, k)) = Len(blocks) - 1
           /\ \A i \in DOMAIN Without(blocks, k) :
                 \E j \in DOMAIN blocks : Without(blocks, k)[i] = blocks[j]
<1>1. /\ DOMAIN blocks = 1..Len(blocks) /\ Len(blocks) \in Nat
      /\ \A j \in DOMAIN blocks : blocks[j] \in Block
  BY DEF MemTypeOK
<1>2. PICK r : r = Without(blocks, k)  OBVIOUS
<1>3. r = [j \in 1..(Len(blocks) - 1) |-> IF j < k THEN blocks[j] ELSE blocks[j + 1]]
  BY <1>2 DEF Without
<1>4. \A j \in 1..(Len(blocks) - 1) : j \in DOMAIN blocks /\ j + 1 \in DOMAIN blocks  BY <1>1
<1>5. Len(blocks) - 1 \in Nat  BY <1>1
<1>6. r \in [1..(Len(blocks) - 1) -> Block]  BY <1>1, <1>3, <1>4
<1>7. r \in Seq(Block) /\ Len(r) = Len(blocks) - 1  BY <1>5, <1>6
<1>8. \A i \in DOMAIN r : \E j \in DOMAIN blocks : r[i] = blocks[j]  BY <1>3, <1>4
<1> QED  BY <1>2, <1>7, <1>8

LEMMA BlockWith ==
    ASSUME NEW b \in Block, NEW count \in Int, NEW S \in SUBSET Nodes
    PROVE  With(b, count, S) \in Block
BY DEF With, Block

LEMMA CopiedType ==
    ASSUME NEW b \in Block, NEW n \in Nodes
    PROVE  Copied(b, n) \in Block
<1>1. b.reference_count + 1 \in Int /\ b.replicas \cup {n} \in SUBSET Nodes  BY DEF Block
<1> QED  BY <1>1, BlockWith DEF Copied

LEMMA OwnedType ==
    ASSUME MemTypeOK, NEW owner \in Nodes, NEW n \in Nodes, ReplicateOwned(owner, n)
    PROVE  MemTypeOK'
<1>1. DOMAIN blocks = 1..Len(blocks) /\ \A k \in DOMAIN blocks : blocks[k] \in Block
  BY DEF MemTypeOK
<1>2. blocks' = [k \in DOMAIN blocks |->
                    IF blocks[k].owner_node = owner THEN Copied(blocks[k], n) ELSE blocks[k]]
  BY DEF ReplicateOwned
<1>3. \A k \in DOMAIN blocks : blocks'[k] \in Block  BY <1>1, <1>2, CopiedType
<1>4. blocks' \in [1..Len(blocks) -> Block]  BY <1>1, <1>2, <1>3
<1>5. blocks' \in Seq(Block) /\ Len(blocks') <= MaxBlocks  BY <1>4 DEF MemTypeOK
<1>6. references' \in [Addresses -> Int]  BY DEF ReplicateOwned, MemTypeOK
<1> QED  BY <1>5, <1>6 DEF ReplicateOwned, MemTypeOK

(* What the parts of the memory manager's state hold.                         *)
LEMMA MemFacts ==
    ASSUME MemTypeOK
    PROVE  /\ DOMAIN blocks = 1..Len(blocks) /\ Len(blocks) \in Nat
           /\ \A k \in DOMAIN blocks :
                 /\ blocks[k] \in Block /\ blocks[k].memory_id \in Nat
                 /\ blocks[k].address \in Addresses /\ blocks[k].reference_count \in Int
                 /\ blocks[k].replicas \in SUBSET Nodes
           /\ \A call \in freeing : call.memory_id \in Nat /\ call.read \in Int
           /\ \A call \in copying : call.address \in Addresses /\ call.read \in Int
           /\ \A a \in Addresses : references[a] \in Int /\ overlaps[a] \in Nat
<1>1. DOMAIN blocks = 1..Len(blocks) /\ Len(blocks) \in Nat
      /\ \A k \in DOMAIN blocks : blocks[k] \in Block
  BY DEF MemTypeOK
<1>2. \A b \in Block : /\ b.memory_id \in Nat /\ b.address \in Addresses
                       /\ b.reference_count \in Int /\ b.replicas \in SUBSET Nodes
  BY DEF Block
<1>3. \A call \in freeing : call.memory_id \in Nat /\ call.read \in Int
  <2>1. \A call \in Freeing : call.memory_id \in Nat /\ call.read \in Int
    BY DEF Freeing
  <2> QED  BY <2>1 DEF MemTypeOK
<1>4. \A call \in copying : call.address \in Addresses /\ call.read \in Int
  BY DEF MemTypeOK, Copying
<1>5. \A a \in Addresses : references[a] \in Int /\ overlaps[a] \in Nat
  BY DEF MemTypeOK
<1> QED  BY <1>1, <1>2, <1>3, <1>4, <1>5

LEMMA MemTypeStep == ASSUME MemTypeOK, MemStep PROVE MemTypeOK'
<1> USE MemoryAssumption DEF MemTypeOK
<1>0. DOMAIN blocks = 1..Len(blocks) /\ \A k \in DOMAIN blocks : blocks[k] \in Block
  BY MemFacts
<1>1. ASSUME NEW owner \in Nodes, AllocateSharedMemory(owner) PROVE MemTypeOK'
  <2>1. PICK a \in Addresses :
          /\ blocks' = Append(blocks, [memory_id |-> nextMemoryId, address |-> a,
                                       owner_node |-> owner, reference_count |-> 1,
                                       replicas |-> {}])
          /\ locked' = locked \ {a}
          /\ references' = [references EXCEPT ![a] = 1]
          /\ overlaps' = [overlaps EXCEPT ![a] = 0]
          /\ reused' = IF Replicating(a) THEN reused \cup {a} ELSE reused
    BY <1>1 DEF AllocateSharedMemory
  <2>2. [memory_id |-> nextMemoryId, address |-> a, owner_node |-> owner,
         reference_count |-> 1, replicas |-> {}] \in Block
    BY DEF Block
  <2>3. Len(blocks) < MaxBlocks /\ nextMemoryId' = nextMemoryId + 1
        /\ UNCHANGED <<freeing, copying>>
    BY <1>1 DEF AllocateSharedMemory
  <2>4. blocks' \in Seq(Block) /\ Len(blocks') <= MaxBlocks  BY <2>1, <2>2, <2>3
  <2>5. locked' \subseteq Addresses /\ reused' \subseteq Addresses  BY <2>1
  <2> QED  BY <2>1, <2>3, <2>4, <2>5
<1>2. ASSUME NEW c \in Clients, NEW k \in DOMAIN blocks, FreeRead(c, k) PROVE MemTypeOK'
  <2>0. /\ blocks[k].address \in Addresses /\ blocks[k].memory_id \in Nat
        /\ blocks[k].reference_count \in Int
    BY MemFacts
  <2>1. overlaps' \in [Addresses -> Nat]  BY <1>2, <2>0 DEF FreeRead
  <2>2. freeing' \subseteq Freeing  BY <1>2, <2>0 DEF FreeRead, Freeing
  <2> QED  BY <1>2, <2>1, <2>2 DEF FreeRead
<1>3. ASSUME NEW c \in Clients, FreeStore(c) PROVE MemTypeOK'
  <2>1. PICK call \in freeing, k \in DOMAIN blocks :
          /\ blocks' = [blocks EXCEPT ![k] = With(@, call.read - 1, @.replicas)]
          /\ freeing' = {[client |-> c, memory_id |-> call.memory_id, read |-> call.read,
                          stored |-> TRUE]}
          /\ references' = [references EXCEPT ![blocks[k].address] = @ - 1]
    BY <1>3 DEF FreeStore
  <2>2. call.read - 1 \in Int /\ blocks[k].replicas \in SUBSET Nodes
    BY MemFacts
  <2>3. With(blocks[k], call.read - 1, blocks[k].replicas) \in Block
    BY <1>0, <2>2, BlockWith
  <2>4. blocks' \in Seq(Block) /\ Len(blocks') = Len(blocks)  BY <2>1, <2>3
  <2>5. freeing' \subseteq Freeing
    <3>1. call.memory_id \in Nat /\ call.read \in Int  BY MemFacts
    <3> QED  BY <2>1, <3>1 DEF Freeing
  <2>6. references' \in [Addresses -> Int]
    <3>1. blocks[k].address \in Addresses /\ references[blocks[k].address] \in Int  BY MemFacts
    <3> QED  BY <2>1, <3>1
  <2> QED  BY <1>3, <2>4, <2>5, <2>6 DEF FreeStore
<1>4. ASSUME NEW c \in Clients, FreeTest(c) PROVE MemTypeOK'
  <2>1. PICK call \in freeing, k \in DOMAIN blocks :
          \/ /\ blocks' = Without(blocks, k)
             /\ references' = [references EXCEPT ![blocks[k].address] = 0]
             /\ overlaps' = [overlaps EXCEPT ![blocks[k].address] = 0]
             /\ reused' = reused \ {blocks[k].address}
          \/ UNCHANGED <<blocks, references, overlaps, reused>>
    BY <1>4 DEF FreeTest, FreeTestAgainst
  <2>2. freeing' = {} /\ UNCHANGED <<nextMemoryId, locked, copying>>
    BY <1>4 DEF FreeTest, FreeTestAgainst
  <2>3. CASE UNCHANGED <<blocks, references, overlaps, reused>>
    BY <2>2, <2>3
  <2>4. CASE /\ blocks' = Without(blocks, k)
             /\ references' = [references EXCEPT ![blocks[k].address] = 0]
             /\ overlaps' = [overlaps EXCEPT ![blocks[k].address] = 0]
             /\ reused' = reused \ {blocks[k].address}
    <3>1. k \in 1..Len(blocks) /\ Len(blocks) \in Nat  BY <1>0
    <3>2. PICK r : r = Without(blocks, k)  OBVIOUS
    <3>3. r \in Seq(Block) /\ Len(r) = Len(blocks) - 1  BY <3>2, WithoutEntry
    <3>4. blocks' = r  BY <2>4, <3>2
    <3>5. blocks' \in Seq(Block) /\ Len(blocks') <= MaxBlocks  BY <3>1, <3>3, <3>4
    <3>6. references' \in [Addresses -> Int] /\ overlaps' \in [Addresses -> Nat]
          /\ reused' \subseteq Addresses
      <4>1. blocks[k].address \in Addresses  BY MemFacts
      <4> QED  BY <2>4, <4>1
    <3> QED  BY <2>2, <3>5, <3>6
  <2> QED  BY <2>1, <2>3, <2>4
<1>5. ASSUME NEW c \in Clients, NEW k \in DOMAIN blocks, NEW n \in Nodes, ReplicateRead(c, k, n)
      PROVE  MemTypeOK'
  <2>1. blocks[k].replicas \cup {n} \in SUBSET Nodes /\ blocks[k].reference_count \in Int
        /\ blocks[k].address \in Addresses
    BY MemFacts
  <2>2. With(blocks[k], blocks[k].reference_count, blocks[k].replicas \cup {n}) \in Block
    BY <1>0, <2>1, BlockWith
  <2>3. blocks' \in Seq(Block) /\ Len(blocks') = Len(blocks)
    BY <1>5, <2>2 DEF ReplicateRead
  <2>4. copying' \subseteq Copying /\ locked' \subseteq Addresses
    BY <1>5, <2>1 DEF ReplicateRead, Copying
  <2>5. overlaps' \in [Addresses -> Nat]  BY <1>5, <2>1 DEF ReplicateRead
  <2> QED  BY <1>5, <2>3, <2>4, <2>5 DEF ReplicateRead
<1>6. ASSUME NEW c \in Clients, ReplicateWrite(c) PROVE MemTypeOK'
  <2>1. PICK call \in copying :
          /\ blocks' = [k \in DOMAIN blocks |->
                           IF blocks[k].address = call.address
                           THEN With(blocks[k], call.read + 1, blocks[k].replicas)
                           ELSE blocks[k]]
          /\ copying' = copying \ {call}
          /\ locked' = locked \ {call.address}
          /\ references' = [references EXCEPT ![call.address] =
                               IF Used(call.address) THEN @ + 1 ELSE @]
          /\ UNCHANGED <<nextMemoryId, freeing, overlaps, reused>>
    BY <1>6 DEF ReplicateWrite
  <2>2. call.read + 1 \in Int /\ call.address \in Addresses  BY MemFacts
  <2>3. \A k \in DOMAIN blocks : With(blocks[k], call.read + 1, blocks[k].replicas) \in Block
    <3> TAKE k \in DOMAIN blocks
    <3>1. blocks[k].replicas \in SUBSET Nodes  BY <1>0 DEF Block
    <3> QED  BY <1>0, <2>2, <3>1, BlockWith
  <2>4. blocks' \in [1..Len(blocks) -> Block]  BY <1>0, <2>1, <2>3
  <2>5. blocks' \in Seq(Block) /\ Len(blocks') = Len(blocks)  BY <2>4
  <2>6. references' \in [Addresses -> Int]  BY <2>1, <2>2
  <2> QED  BY <2>1, <2>5, <2>6
<1> QED  BY <1>1, <1>2, <1>3, <1>4, <1>5, <1>6 DEF MemStep, Memory, MemoryClient

(* While a failure is handled, failing is the failed node.                   *)
Handling == mon \in {"requeue", "reschedule", "replicate"} =>
                failing \in Nodes /\ status[failing] = "FAILED"

TypeInv == TypeOK /\ SchedInv /\ Handling

LEMMA TypeInit == Init => TypeInv
<1> SUFFICES ASSUME Init PROVE TypeInv  OBVIOUS
<1>1. status \in [Nodes -> NodeStatus]  BY GivenAssumption DEF Init, NodeStatus
<1>2. SchedTypeOK /\ SchedInv
  BY <1>1, NodeCountAssumption, MaxTasksAssumption
     DEF Init, SchedInit, SchedTypeOK, SchedInv
<1>3. MemTypeOK  BY MemoryAssumption DEF Init, MemInit, MemTypeOK
<1>5. /\ checkpoints \in Seq(Checkpoint) /\ Len(checkpoints) <= MaxCheckpoints
      /\ failing \in 0..NodeCount /\ alterations \in 0..MaxAlterations
  BY NodeCountAssumption, CheckpointsAssumption DEF Init
<1>6. /\ mon = "off" /\ suspects = {} /\ running = FALSE /\ failed_nodes = 0 /\ handled = {}
  BY DEF Init
<1>8. mon \in {"off", "test", "lock", "scan", "requeue", "reschedule", "replicate"}
      /\ suspects \subseteq Nodes /\ failed_nodes \in Int /\ handled \subseteq Nodes
  <2>1. mon = "off" /\ suspects = {} /\ failed_nodes = 0 /\ handled = {}  BY DEF Init
  <2> QED  BY <2>1
<1>9. running \in BOOLEAN  BY <1>6, Zenon
<1>4. TypeOK  BY <1>2, <1>3, <1>5, <1>8, <1>9 DEF TypeOK
<1>7. Handling  BY <1>6 DEF Handling
<1> QED  BY <1>2, <1>4, <1>7 DEF TypeInv

LEMMA MonitorTypeStep == ASSUME TypeInv, Monitor PROVE TypeInv'
<1>0. TypeOK /\ SchedTypeOK /\ MemTypeOK /\ SchedInv /\ Handling  BY DEF TypeInv, TypeOK
<1>1. CASE MonitorTest \/ MonitorUnlock \/ (\E old \in SUBSET Nodes : MonitorLock(old))
  <2>1. /\ UNCHANGED <<status, schedVars, memVars, failing, running, failed_nodes, checkpoints,
                       handled, alterations>>
        /\ mon' \in {"lock", "off", "scan", "test"} /\ suspects' \subseteq Nodes
    BY <1>0, <1>1 DEF MonitorTest, MonitorUnlock, MonitorLock, TypeOK
  <2> QED
    BY <1>0, <2>1 DEF TypeInv, TypeOK, SchedTypeOK, MemTypeOK, SchedInv, Handling, schedVars,
                      memVars
<1>2. ASSUME NEW n \in Nodes, MarkFailed(n) PROVE TypeInv'
  <2>1. /\ status' \in [Nodes -> NodeStatus] /\ failed_nodes' \in Int
        /\ suspects' \subseteq Nodes
        /\ mon' \in {"scan", "requeue"} /\ failing' \in 0..NodeCount
        /\ mon' = "requeue" => failing' \in Nodes /\ status'[failing'] = "FAILED"
    BY <1>0, <1>2, NodeCountAssumption
       DEF MarkFailed, TypeOK, SchedTypeOK, NodeStatus, Nodes
  <2>2. UNCHANGED <<schedVars, memVars, running, checkpoints, handled, alterations>>
    BY <1>2 DEF MarkFailed
  <2> QED
    BY <1>0, <2>1, <2>2 DEF TypeInv, TypeOK, SchedTypeOK, MemTypeOK, SchedInv, Handling,
                            schedVars, memVars
<1>3. CASE Requeue
  <2>1. DOMAIN tasks = 1..Len(tasks) /\ \A k \in DOMAIN tasks : tasks[k] \in Task
    BY <1>0 DEF SchedTypeOK
  <2>2. tasks' = [k \in DOMAIN tasks |->
                     IF tasks[k].assigned_node = failing /\ tasks[k].status = "RUNNING"
                     THEN WithStatus(tasks[k], "PENDING") ELSE tasks[k]]
    BY <1>3 DEF Requeue
  <2>3. \A k \in DOMAIN tasks : tasks'[k] \in Task
    BY <2>1, <2>2, WithStatusType DEF TaskStatus
  <2>4. tasks' \in Seq(Task) /\ Len(tasks') <= MaxTasks
    BY <1>0, <2>2, <2>3, TasksMapped
  <2>5. /\ inside = {} /\ mon' = "reschedule" /\ handled' = handled \cup {failing}
        /\ failing \in Nodes /\ status[failing] = "FAILED"
        /\ UNCHANGED <<status, nextId, draft, inside, cursor, best, memVars, suspects, failing,
                       running, failed_nodes, checkpoints, alterations>>
    BY <1>0, <1>3 DEF Requeue, SchedulerFree, Handling
  <2> QED
    BY <1>0, <2>4, <2>5 DEF TypeInv, TypeOK, SchedTypeOK, MemTypeOK, SchedInv, Handling, memVars
<1>4. CASE Reschedule
  <2>1. PICK node \in Nodes \cup {0} : tasks' = Rescheduled(node)
    BY <1>4 DEF Reschedule, Eligible
  <2>2. DOMAIN tasks = 1..Len(tasks) /\ \A k \in DOMAIN tasks : tasks[k] \in Task
    BY <1>0 DEF SchedTypeOK
  <2>3. tasks' = [k \in DOMAIN tasks |->
                     IF tasks[k].status \in {"FAILED", "PENDING"} /\ node # 0
                     THEN [task_id |-> tasks[k].task_id, assigned_node |-> node,
                           status |-> "RUNNING"]
                     ELSE tasks[k]]
    BY <2>1 DEF Rescheduled
  <2>4. \A k \in DOMAIN tasks : tasks'[k] \in Task
    BY <2>2, <2>3 DEF TaskStatus, Task
  <2>5. tasks' \in Seq(Task) /\ Len(tasks') <= MaxTasks
    BY <1>0, <2>3, <2>4, TasksMapped
  <2>6. /\ inside = {} /\ mon' = "replicate" /\ mon = "reschedule"
        /\ UNCHANGED <<status, nextId, draft, inside, cursor, best, memVars, suspects, failing,
                       running, failed_nodes, checkpoints, handled, alterations>>
    BY <1>4 DEF Reschedule, SchedulerFree
  <2> QED
    BY <1>0, <2>5, <2>6 DEF TypeInv, TypeOK, SchedTypeOK, MemTypeOK, SchedInv, Handling, memVars
<1>5. CASE Replicate
  <2>1. failing \in Nodes  BY <1>0, <1>5 DEF Replicate, Handling
  <2>2. MemTypeOK'
    <3>1. ASSUME NEW n \in FirstIdle, ReplicateOwned(failing, n) PROVE MemTypeOK'
      BY <1>0, <2>1, <3>1, OwnedType DEF FirstIdle
    <3>2. ASSUME UNCHANGED memVars PROVE MemTypeOK'
      BY <1>0, <3>2 DEF memVars, MemTypeOK
    <3> QED  BY <1>5, <3>1, <3>2 DEF Replicate
  <2>3. /\ mon' = "scan" /\ failing' = 0
        /\ UNCHANGED <<status, schedVars, suspects, running, failed_nodes, checkpoints, handled,
                       alterations>>
    BY <1>5 DEF Replicate
  <2> QED
    BY <1>0, <2>2, <2>3, NodeCountAssumption
       DEF TypeInv, TypeOK, SchedTypeOK, SchedInv, Handling, schedVars
<1> QED  BY <1>1, <1>2, <1>3, <1>4, <1>5 DEF Monitor

LEMMA OperatorTypeStep == ASSUME TypeInv, Operator PROVE TypeInv'
<1>0. TypeOK /\ SchedTypeOK /\ MemTypeOK /\ SchedInv /\ Handling  BY DEF TypeInv, TypeOK
<1>1. CASE StartFaultTolerance \/ StopFaultTolerance
  <2>1. /\ UNCHANGED <<status, schedVars, memVars, suspects, failing, failed_nodes, checkpoints,
                       handled, alterations>>
        /\ running' \in BOOLEAN /\ (mon' = mon \/ mon' = "test")
    BY <1>1 DEF StartFaultTolerance, StopFaultTolerance
  <2> QED
    BY <1>0, <2>1 DEF TypeInv, TypeOK, SchedTypeOK, MemTypeOK, SchedInv, Handling, schedVars,
                      memVars
<1>2. ASSUME NEW n \in Nodes, RecoverNode(n) \/ SimulateNodeFailure(n) PROVE TypeInv'
  <2>1. /\ status' \in [Nodes -> NodeStatus] /\ failed_nodes' \in Int
        /\ handled' \subseteq Nodes /\ alterations' \in 0..MaxAlterations
        /\ mon \notin {"requeue", "reschedule", "replicate"}
    <3>1. CASE RecoverNode(n)
      BY <1>0, <3>1 DEF RecoverNode, FtmFree, TypeOK, SchedTypeOK, NodeStatus
    <3>2. CASE SimulateNodeFailure(n)
      BY <1>0, <3>2, CheckpointsAssumption
         DEF SimulateNodeFailure, FtmFree, TypeOK, SchedTypeOK, NodeStatus
    <3> QED  BY <1>2, <3>1, <3>2
  <2>2. UNCHANGED <<schedVars, memVars, mon, suspects, failing, running, checkpoints>>
    BY <1>2 DEF RecoverNode, SimulateNodeFailure
  <2> QED
    BY <1>0, <2>1, <2>2 DEF TypeInv, TypeOK, SchedTypeOK, MemTypeOK, SchedInv, Handling,
                            schedVars, memVars
<1>3. ASSUME NEW name \in Names, CreateCheckpoint(name) PROVE TypeInv'
  <2> DEFINE cp == [name |-> name, status |-> status]
  <2>1. cp \in Checkpoint  BY <1>0 DEF Checkpoint, SchedTypeOK
  <2>2. checkpoints' = Append(checkpoints, cp) /\ Len(checkpoints) < MaxCheckpoints
    BY <1>3 DEF CreateCheckpoint
  <2>3. checkpoints' \in Seq(Checkpoint) /\ Len(checkpoints') <= MaxCheckpoints
    BY <1>0, <2>1, <2>2, CheckpointsAssumption DEF TypeOK
  <2>4. UNCHANGED <<status, schedVars, memVars, mon, suspects, failing, running, failed_nodes,
                    handled, alterations>>
    BY <1>3 DEF CreateCheckpoint
  <2> QED
    BY <1>0, <2>3, <2>4 DEF TypeInv, TypeOK, SchedTypeOK, MemTypeOK, SchedInv, Handling,
                            schedVars, memVars
<1>4. ASSUME NEW k \in DOMAIN checkpoints, RestoreCheckpoint(k) PROVE TypeInv'
  <2>1. checkpoints[k] \in Checkpoint  BY <1>0 DEF TypeOK
  <2>2. /\ status' \in [Nodes -> NodeStatus] /\ handled' = {}
        /\ alterations' \in 0..MaxAlterations
        /\ mon \notin {"requeue", "reschedule", "replicate"}
    BY <1>0, <1>4, <2>1, CheckpointsAssumption
       DEF RestoreCheckpoint, FtmFree, Checkpoint, TypeOK
  <2>3. UNCHANGED <<schedVars, memVars, mon, suspects, failing, running, failed_nodes,
                    checkpoints>>
    BY <1>4 DEF RestoreCheckpoint
  <2> QED
    BY <1>0, <2>2, <2>3 DEF TypeInv, TypeOK, SchedTypeOK, MemTypeOK, SchedInv, Handling,
                            schedVars, memVars
<1> QED  BY <1>1, <1>2, <1>3, <1>4 DEF Operator

LEMMA SchedLeavesStatus == ASSUME SchedStep PROVE UNCHANGED status
BY DEF SchedStep, Schedule, Report, ScheduleLock, ScoreNode, ScheduleStore, UpdateTaskStatus

LEMMA TypeStep == ASSUME TypeInv, [Next]_vars PROVE TypeInv'
<1>0. SchedTypeOK /\ MemTypeOK /\ SchedInv /\ Handling  BY DEF TypeInv, TypeOK
<1>1. CASE SchedStep
  <2>1. SchedTypeOK' /\ SchedInv'  BY <1>0, <1>1, SchedTypeStep
  <2>2. UNCHANGED <<status, memVars, faultVars>>  BY <1>1, SchedLeavesStatus DEF SchedStep
  <2> QED  BY <1>0, <2>1, <2>2 DEF TypeInv, TypeOK, MemTypeOK, Handling, memVars, faultVars
<1>2. CASE MemStep
  <2>1. MemTypeOK'  BY <1>0, <1>2, MemTypeStep
  <2>2. UNCHANGED <<status, schedVars, faultVars>>  BY <1>2 DEF MemStep
  <2> QED
    BY <1>0, <2>1, <2>2 DEF TypeInv, TypeOK, SchedTypeOK, SchedInv, Handling, schedVars, faultVars
<1>3. CASE UNCHANGED vars
  BY <1>0, <1>3 DEF TypeInv, TypeOK, SchedTypeOK, MemTypeOK, SchedInv, Handling, vars, schedVars,
                    memVars, faultVars
<1> QED  BY <1>1, <1>2, <1>3, MonitorTypeStep, OperatorTypeStep, StepCases

(* The tables of the library fit their arrays and every variable keeps its   *)
(* range, for any number of threads and nodes.                               *)
THEOREM TypeCorrect == Spec => []TypeOK
<1>1. TypeInv => TypeOK  BY DEF TypeInv
<1> QED  BY <1>1, TypeInit, TypeStep, PTL DEF Spec

-----------------------------------------------------------------------------
(* Tasks leave the nodes whose failure was handled.                        *)

(* Nodes whose failure was handled have failed, and schedule_task has none   *)
(* of them in hand: it has read their status before the monitor marked them  *)
(* only if the monitor is still to take the scheduler's lock.                *)
RelievedInv ==
    /\ handled \subseteq FailedNodes
    /\ inside # {} => best \notin handled
    /\ RelievedOfTasks

LEMMA RelievedInit == Init => RelievedInv
BY DEF Init, RelievedInv, RelievedOfTasks, SchedInit

LEMMA RelievedSched == ASSUME TypeInv, RelievedInv, SchedStep PROVE RelievedInv'
<1>0. /\ SchedTypeOK /\ SchedInv /\ handled \subseteq FailedNodes
      /\ handled' = handled /\ FailedNodes' = FailedNodes
  BY SchedLeavesStatus DEF TypeInv, TypeOK, RelievedInv, SchedStep, faultVars, FailedNodes
<1>1. ASSUME NEW c \in Clients, ScheduleLock(c) PROVE RelievedInv'
  <2>1. best' = best /\ tasks' = tasks /\ best = 0
    BY <1>0, <1>1 DEF ScheduleLock, SchedulerFree, SchedInv
  <2>2. 0 \notin handled  BY <1>0 DEF FailedNodes, Nodes
  <2> QED  BY <1>0, <2>1, <2>2 DEF RelievedInv, RelievedOfTasks
<1>2. ASSUME NEW c \in Clients, ScoreNode(c) PROVE RelievedInv'
  <2>1. /\ tasks' = tasks /\ inside' = inside /\ inside # {}
        /\ best' = best \/ (best' = cursor /\ cursor \notin FailedNodes)
    BY <1>2 DEF ScoreNode, Eligible, FailedNodes
  <2> QED  BY <1>0, <2>1 DEF RelievedInv, RelievedOfTasks
<1>3. ASSUME NEW c \in Clients, ScheduleStore(c) PROVE RelievedInv'
  <2>1. inside' = {} /\ best \notin handled  BY <1>3 DEF ScheduleStore, RelievedInv
  <2>2. DOMAIN tasks = 1..Len(tasks) /\ Len(tasks) \in Nat  BY <1>0 DEF SchedTypeOK
  <2>3. \A k \in DOMAIN tasks' :
           tasks'[k].status = "RUNNING" => tasks'[k].assigned_node \notin handled
    <3>1. CASE best = 0
      BY <1>3, <3>1 DEF ScheduleStore, RelievedInv, RelievedOfTasks
    <3>2. CASE best # 0
      <4> DEFINE t == [task_id |-> draft[c], assigned_node |-> best, status |-> "RUNNING"]
      <4>1. tasks' = Append(tasks, t)  BY <1>3, <3>2 DEF ScheduleStore
      <4>2. t.assigned_node = best  OBVIOUS
      <4> HIDE DEF t
      <4>3. DOMAIN tasks' = 1..(Len(tasks) + 1)  BY <1>0, <4>1 DEF SchedTypeOK
      <4>4. \A k \in DOMAIN tasks' : tasks'[k] = IF k = Len(tasks) + 1 THEN t ELSE tasks[k]
        BY <1>0, <4>1, <4>3 DEF SchedTypeOK
      <4>5. \A k \in DOMAIN tasks' : k # Len(tasks) + 1 => k \in DOMAIN tasks
        BY <2>2, <4>3
      <4> QED  BY <2>1, <4>2, <4>4, <4>5 DEF RelievedInv, RelievedOfTasks
    <3> QED  BY <3>1, <3>2
  <2> QED  BY <1>0, <2>1, <2>3 DEF RelievedInv, RelievedOfTasks
<1>4. ASSUME Report PROVE RelievedInv'
  <2>1. PICK id \in {tasks[j].task_id : j \in DOMAIN tasks}, new \in {"COMPLETED", "FAILED"} :
          UpdateTaskStatus(id, new)
    BY <1>4 DEF Report
  <2>2. PICK k \in DOMAIN tasks : tasks' = [tasks EXCEPT ![k] = WithStatus(@, new)]
    BY <2>1 DEF UpdateTaskStatus
  <2>3. inside' = inside /\ best' = best  BY <2>1 DEF UpdateTaskStatus
  <2>4. DOMAIN tasks' = DOMAIN tasks  BY <2>2
  <2>5. \A j \in DOMAIN tasks : tasks'[j] = tasks[j] \/ tasks'[j].status # "RUNNING"
    <3>1. WithStatus(tasks[k], new).status # "RUNNING"  BY DEF WithStatus
    <3> QED  BY <1>0, <2>2, <3>1 DEF SchedTypeOK
  <2> QED  BY <1>0, <2>3, <2>4, <2>5 DEF RelievedInv, RelievedOfTasks
<1> QED  BY <1>1, <1>2, <1>3, <1>4 DEF SchedStep, Schedule

LEMMA RelievedMonitor == ASSUME TypeInv, RelievedInv, Monitor PROVE RelievedInv'
<1>0. /\ SchedTypeOK /\ SchedInv /\ Handling
      /\ handled \subseteq FailedNodes /\ RelievedOfTasks /\ (inside # {} => best \notin handled)
  BY DEF TypeInv, TypeOK, RelievedInv
<1>1. CASE MonitorTest \/ MonitorUnlock \/ Replicate
           \/ (\E old \in SUBSET Nodes : MonitorLock(old))
  <2>1. UNCHANGED <<status, tasks, inside, best, handled>>
    BY <1>1 DEF MonitorTest, MonitorUnlock, MonitorLock, Replicate, schedVars
  <2> QED  BY <1>0, <2>1 DEF RelievedInv, RelievedOfTasks, FailedNodes
<1>2. ASSUME NEW n \in Nodes, MarkFailed(n) PROVE RelievedInv'
  <2>1. /\ UNCHANGED <<tasks, inside, best, handled>>
        /\ status' = status \/ status' = [status EXCEPT ![n] = "FAILED"]
    BY <1>2 DEF MarkFailed, schedVars
  <2>2. FailedNodes \subseteq FailedNodes'  BY <1>0, <2>1 DEF FailedNodes, SchedTypeOK
  <2> QED  BY <1>0, <2>1, <2>2 DEF RelievedInv, RelievedOfTasks
<1>3. CASE Requeue
  <2>1. /\ inside = {} /\ inside' = {} /\ status' = status
        /\ handled' = handled \cup {failing}
        /\ failing \in FailedNodes
    BY <1>0, <1>3 DEF Requeue, SchedulerFree, Handling, FailedNodes
  <2>2. tasks' = [k \in DOMAIN tasks |->
                     IF tasks[k].assigned_node = failing /\ tasks[k].status = "RUNNING"
                     THEN WithStatus(tasks[k], "PENDING") ELSE tasks[k]]
    BY <1>3 DEF Requeue
  <2>3. \A k \in DOMAIN tasks : WithStatus(tasks[k], "PENDING").status = "PENDING"
    BY DEF WithStatus
  <2>4. \A k \in DOMAIN tasks :
           tasks'[k].status = "RUNNING" =>
              tasks'[k] = tasks[k] /\ tasks[k].assigned_node # failing
    BY <2>2, <2>3
  <2> QED  BY <1>0, <2>1, <2>2, <2>4 DEF RelievedInv, RelievedOfTasks, FailedNodes
<1>4. CASE Reschedule
  <2>1. UNCHANGED <<status, inside, best, handled>>  BY <1>4 DEF Reschedule
  <2>2. PICK node \in Nodes \cup {0} : /\ tasks' = Rescheduled(node)
                                       /\ node = 0 \/ node \in Eligible(status)
    BY <1>4 DEF Reschedule, Eligible
  <2>3. node \notin handled  BY <1>0, <2>2 DEF Eligible, FailedNodes, Nodes
  <2>4. \A k \in DOMAIN tasks : tasks'[k] = tasks[k] \/ tasks'[k].assigned_node = node
    BY <2>2 DEF Rescheduled
  <2>5. DOMAIN tasks' = DOMAIN tasks  BY <2>2 DEF Rescheduled
  <2> QED  BY <1>0, <2>1, <2>3, <2>4, <2>5 DEF RelievedInv, RelievedOfTasks, FailedNodes
<1> QED  BY <1>1, <1>2, <1>3, <1>4 DEF Monitor

LEMMA RelievedStep == ASSUME TypeInv, RelievedInv, [Next]_vars PROVE RelievedInv'
<1>1. CASE Operator
  <2>0. SchedTypeOK  BY DEF TypeInv, TypeOK
  <2>1. UNCHANGED <<tasks, inside, best>>
    BY <1>1 DEF Operator, StartFaultTolerance, StopFaultTolerance, RecoverNode,
                SimulateNodeFailure, CreateCheckpoint, RestoreCheckpoint, schedVars
  <2>2. handled' \subseteq handled /\ handled' \subseteq FailedNodes'
    <3>1. CASE StartFaultTolerance \/ StopFaultTolerance
               \/ (\E name \in Names : CreateCheckpoint(name))
      BY <3>1 DEF StartFaultTolerance, StopFaultTolerance, CreateCheckpoint, RelievedInv,
                  FailedNodes
    <3>2. ASSUME NEW n \in Nodes, RecoverNode(n) \/ SimulateNodeFailure(n)
          PROVE  handled' \subseteq handled /\ handled' \subseteq FailedNodes'
      BY <2>0, <3>2 DEF RecoverNode, SimulateNodeFailure, RelievedInv, FailedNodes, SchedTypeOK
    <3>3. ASSUME NEW k \in DOMAIN checkpoints, RestoreCheckpoint(k)
          PROVE  handled' \subseteq handled /\ handled' \subseteq FailedNodes'
      BY <3>3 DEF RestoreCheckpoint
    <3> QED  BY <1>1, <3>1, <3>2, <3>3 DEF Operator
  <2> QED  BY <2>1, <2>2 DEF RelievedInv, RelievedOfTasks
<1>2. CASE MemStep \/ UNCHANGED vars
  <2>1. UNCHANGED <<status, tasks, inside, best, handled>>
    BY <1>2 DEF MemStep, vars, schedVars, faultVars
  <2> QED  BY <2>1 DEF RelievedInv, RelievedOfTasks, FailedNodes
<1> QED  BY <1>1, <1>2, RelievedSched, RelievedMonitor, StepCases

(* No task runs on a node whose failure the monitor has handled, whatever     *)
(* calls of schedule_task the handling came between.                         *)
THEOREM RelievedCorrect == Spec => []RelievedOfTasks
<1>1. Init => TypeInv /\ RelievedInv  BY TypeInit, RelievedInit
<1>2. TypeInv /\ RelievedInv /\ [Next]_vars => TypeInv' /\ RelievedInv'
  BY TypeStep, RelievedStep
<1>3. RelievedInv => RelievedOfTasks  BY DEF RelievedInv
<1> QED  BY <1>1, <1>2, <1>3, PTL DEF Spec

-----------------------------------------------------------------------------
(* The failures counted.                                                   *)

LEMMA FiniteFailed == IsFiniteSet(FailedNodes) /\ Cardinality(FailedNodes) \in Nat
<1>1. IsFiniteSet(Nodes) /\ FailedNodes \subseteq Nodes
  BY FS_Interval, NodeCountAssumption DEF Nodes, FailedNodes
<1> QED  BY <1>1, FS_Subset, FS_CardinalityType

LEMMA FailuresInit == Init => FailuresCounted
<1> SUFFICES ASSUME Init PROVE FailuresCounted  OBVIOUS
<1>1. FailedNodes = {}  BY GivenAssumption DEF Init, FailedNodes
<1> QED  BY <1>1, FS_EmptySet DEF Init, FailuresCounted

LEMMA FailuresStep == ASSUME TypeInv, FailuresCounted, [Next]_vars PROVE FailuresCounted'
<1>0. /\ status \in [Nodes -> NodeStatus] /\ failed_nodes \in Int
      /\ alterations \in 0..MaxAlterations /\ MaxAlterations \in Nat
  BY CheckpointsAssumption DEF TypeInv, TypeOK, SchedTypeOK
<1>1. CASE UNCHANGED <<status, failed_nodes, alterations>>
  BY <1>1 DEF FailuresCounted, FailedNodes
<1>2. CASE alterations' = alterations + 1
  BY <1>0, <1>2 DEF FailuresCounted
<1>3. ASSUME NEW n \in Nodes, MarkFailed(n) PROVE FailuresCounted'
  <2>1. CASE n \in Eligible(status)
    <3>1. /\ status' = [status EXCEPT ![n] = "FAILED"] /\ failed_nodes' = failed_nodes + 1
          /\ alterations' = alterations
      BY <1>3, <2>1 DEF MarkFailed
    <3>2. FailedNodes' = FailedNodes \cup {n} /\ n \notin FailedNodes
      BY <1>0, <2>1, <3>1 DEF FailedNodes, Eligible
    <3>3. Cardinality(FailedNodes') = Cardinality(FailedNodes) + 1
      BY <3>2, FiniteFailed, FS_AddElement
    <3> QED  BY <3>1, <3>3 DEF FailuresCounted
  <2>2. CASE n \notin Eligible(status)
    BY <1>1, <1>3, <2>2 DEF MarkFailed
  <2> QED  BY <2>1, <2>2
<1>4. ASSUME NEW n \in Nodes, RecoverNode(n) PROVE FailuresCounted'
  <2>1. /\ status' = [status EXCEPT ![n] = "IDLE"] /\ failed_nodes' = failed_nodes - 1
        /\ alterations' = alterations /\ status[n] = "FAILED"
    BY <1>4 DEF RecoverNode
  <2>2. FailedNodes' = FailedNodes \ {n} /\ n \in FailedNodes
    BY <1>0, <2>1 DEF FailedNodes
  <2>3. Cardinality(FailedNodes') = Cardinality(FailedNodes) - 1
    BY <2>2, FiniteFailed, FS_RemoveElement
  <2> QED  BY <2>1, <2>3 DEF FailuresCounted
<1>5. CASE Monitor
  <2>1. CASE MonitorTest \/ MonitorUnlock \/ (\E old \in SUBSET Nodes : MonitorLock(old))
    BY <1>1, <2>1 DEF MonitorTest, MonitorUnlock, MonitorLock
  <2>2. CASE Requeue \/ Reschedule \/ Replicate
    BY <1>1, <2>2 DEF Requeue, Reschedule, Replicate
  <2> QED  BY <1>3, <1>5, <2>1, <2>2 DEF Monitor
<1>6. CASE Operator
  <2>1. CASE \/ StartFaultTolerance \/ StopFaultTolerance
             \/ \E name \in Names : CreateCheckpoint(name)
    BY <1>1, <2>1 DEF StartFaultTolerance, StopFaultTolerance, CreateCheckpoint
  <2>2. CASE \/ \E n \in Nodes : SimulateNodeFailure(n)
             \/ \E k \in DOMAIN checkpoints : RestoreCheckpoint(k)
    BY <1>2, <2>2 DEF SimulateNodeFailure, RestoreCheckpoint
  <2> QED  BY <1>4, <1>6, <2>1, <2>2 DEF Operator
<1>7. CASE SchedStep \/ MemStep \/ UNCHANGED vars
  BY <1>1, <1>7, SchedLeavesStatus DEF SchedStep, MemStep, faultVars, vars
<1> QED  BY <1>5, <1>6, <1>7, StepCases

(* failed_nodes is the number of failed nodes for any number of nodes and any *)
(* order of failures and recoveries, until a failure is simulated or a state  *)
(* restored.                                                                 *)
THEOREM FailuresCorrect == Spec => []FailuresCounted
<1>1. TypeInv /\ FailuresCounted /\ [Next]_vars => FailuresCounted'  BY FailuresStep
<1> QED  BY <1>1, TypeInit, TypeStep, FailuresInit, PTL DEF Spec

-----------------------------------------------------------------------------
(* Completed tasks: only a report changes one, and only to FAILED.          *)

LEMMA CompletedStep ==
    ASSUME TypeInv, [Next]_vars, NEW k \in DOMAIN tasks, tasks[k].status = "COMPLETED"
    PROVE  tasks'[k].status \in {"COMPLETED", "FAILED"}
<1>0. tasks \in Seq(Task) /\ DOMAIN tasks = 1..Len(tasks)
  BY DEF TypeInv, TypeOK, SchedTypeOK
<1>1. CASE UNCHANGED tasks
  BY <1>1
<1>2. CASE Requeue
  BY <1>2 DEF Requeue
<1>3. CASE Reschedule
  <2>1. PICK node : tasks' = Rescheduled(node)  BY <1>3 DEF Reschedule
  <2> QED  BY <2>1 DEF Rescheduled
<1>4. ASSUME NEW c \in Clients, ScheduleStore(c)
      PROVE  tasks'[k].status \in {"COMPLETED", "FAILED"}
  <2>1. CASE best = 0
    BY <1>4, <2>1 DEF ScheduleStore
  <2>2. CASE best # 0
    <3> DEFINE t == [task_id |-> draft[c], assigned_node |-> best, status |-> "RUNNING"]
    <3>1. tasks' = Append(tasks, t)  BY <1>4, <2>2 DEF ScheduleStore
    <3> HIDE DEF t
    <3>2. tasks'[k] = tasks[k]  BY <1>0, <3>1
    <3> QED  BY <3>2
  <2> QED  BY <2>1, <2>2
<1>5. CASE Report
  <2>1. PICK id \in {tasks[j].task_id : j \in DOMAIN tasks}, new \in {"COMPLETED", "FAILED"} :
          UpdateTaskStatus(id, new)
    BY <1>5 DEF Report
  <2>2. PICK j \in DOMAIN tasks : tasks' = [tasks EXCEPT ![j] = WithStatus(@, new)]
    BY <2>1 DEF UpdateTaskStatus
  <2>3. WithStatus(tasks[j], new).status = new  BY DEF WithStatus
  <2> QED  BY <2>2, <2>3
<1>6. CASE Monitor
  <2>1. CASE MonitorTest \/ MonitorUnlock \/ (\E old \in SUBSET Nodes : MonitorLock(old))
    BY <1>1, <2>1 DEF MonitorTest, MonitorUnlock, MonitorLock, schedVars
  <2>2. CASE Replicate \/ \E n \in Nodes : MarkFailed(n)
    BY <1>1, <2>2 DEF Replicate, MarkFailed, schedVars
  <2> QED  BY <1>2, <1>3, <1>6, <2>1, <2>2 DEF Monitor
<1>7. CASE Operator
  BY <1>1, <1>7 DEF Operator, StartFaultTolerance, StopFaultTolerance, RecoverNode,
                    SimulateNodeFailure, CreateCheckpoint, RestoreCheckpoint, schedVars
<1>8. CASE SchedStep
  <2>1. ASSUME NEW c \in Clients, ScheduleLock(c) \/ ScoreNode(c) PROVE UNCHANGED tasks
    BY <2>1 DEF ScheduleLock, ScoreNode
  <2> QED  BY <1>1, <1>4, <1>5, <1>8, <2>1 DEF SchedStep, Schedule
<1>9. CASE MemStep \/ UNCHANGED vars
  BY <1>1, <1>9 DEF MemStep, vars, schedVars
<1> QED  BY <1>6, <1>7, <1>8, <1>9, StepCases

(* No step runs a completed task again; a report of failure has to come first. *)
THEOREM CompletedCorrect == Spec => CompletedStaysDone
<1>1. TypeInv /\ [Next]_vars =>
         [\A k \in DOMAIN tasks :
             tasks[k].status = "COMPLETED" => tasks'[k].status \in {"COMPLETED", "FAILED"}]_vars
  BY CompletedStep
<1> QED  BY <1>1, TypeInit, TypeStep, PTL DEF Spec, CompletedStaysDone

-----------------------------------------------------------------------------
(* The references of a block.                                              *)

(* One call frees at a time, and as long as a late writer has not got into    *)
(* the memory of another block one call at a time copies a block.            *)
MutexInv ==
    /\ \A call, other \in freeing : call = other
    /\ \A call \in copying :
          Used(call.address) /\ call.address \notin reused =>
             /\ call.address \in locked
             /\ \A other \in copying : other.address = call.address => other = call

(* No two blocks have an id or an address in common.                         *)
IdsInv ==
    /\ \A j, k \in DOMAIN blocks :
          \/ j = k
          \/ /\ blocks[j].memory_id # blocks[k].memory_id
             /\ blocks[j].address # blocks[k].address
    /\ \A k \in DOMAIN blocks : blocks[k].memory_id < nextMemoryId

(* A count is within the overlaps of the references there are, and so is the   *)
(* one a call has read; a call that overlaps with another's update to come    *)
(* has an overlap to spare.                                                   *)
Within(count, a, spare) ==
    /\ count - references[a] + spare <= overlaps[a]
    /\ references[a] - count + spare <= overlaps[a]

Held(call) == IF call.stored THEN call.read - 1 ELSE call.read
Storing(b) == \E call \in freeing : call.memory_id = b.memory_id /\ ~call.stored

Counted(b) == b.address \notin reused =>
    /\ Within(b.reference_count, b.address, 0)
    /\ \A call \in freeing : call.memory_id = b.memory_id =>
          /\ Within(Held(call), b.address, 0)
          /\ Replicating(b.address) => Within(Held(call), b.address, 1)
    /\ \A call \in copying : call.address = b.address =>
          /\ Within(call.read, b.address, 0)
          /\ Storing(b) => Within(call.read, b.address, 1)

MemInv == MutexInv /\ IdsInv /\ \A b \in Table : Counted(b)

LEMMA MemInvInit == Init => MemInv
BY DEF Init, MemInit, MemInv, MutexInv, IdsInv, Table

(* A block stays counted when no step or call touches it.                    *)
LEMMA Untouched ==
    ASSUME NEW b, Counted(b),
           references'[b.address] = references[b.address],
           overlaps'[b.address] = overlaps[b.address],
           b.address \in reused => b.address \in reused',
           \A call \in freeing' : call.memory_id = b.memory_id => call \in freeing,
           \A call \in copying' : call.address = b.address => call \in copying
    PROVE  Counted(b)'
<1>1. \A x, d : Within(x, b.address, d) => Within(x, b.address, d)'
  BY DEF Within
<1>2. Replicating(b.address)' => Replicating(b.address)
  BY DEF Replicating
<1>3. Storing(b)' => Storing(b)
  BY DEF Storing
<1> QED  BY <1>1, <1>2, <1>3 DEF Counted

(* A step that leaves the blocks in their places leaves them apart.           *)
LEMMA InPlace ==
    ASSUME IdsInv, DOMAIN blocks' = DOMAIN blocks, nextMemoryId' = nextMemoryId,
           \A k \in DOMAIN blocks : /\ blocks'[k].memory_id = blocks[k].memory_id
                                    /\ blocks'[k].address = blocks[k].address
    PROVE  IdsInv' /\ \A a : Used(a)' <=> Used(a)
BY DEF IdsInv, Used

LEMMA WithFields ==
    ASSUME NEW b, NEW n, NEW S
    PROVE  /\ With(b, n, S).memory_id = b.memory_id /\ With(b, n, S).address = b.address
           /\ With(b, n, S).owner_node = b.owner_node
           /\ With(b, n, S).reference_count = n /\ With(b, n, S).replicas = S
BY DEF With

LEMMA AllocateCounts ==
    ASSUME MemTypeOK, MemInv, NEW owner \in Nodes, AllocateSharedMemory(owner)
    PROVE  MemInv'
<1>0. freeing = {} /\ nextMemoryId \in Nat
  BY DEF AllocateSharedMemory, MemoryFree, MemTypeOK
<1>1. PICK a \in Addresses :
        /\ ~Used(a)
        /\ blocks' = Append(blocks, [memory_id |-> nextMemoryId, address |-> a,
                                     owner_node |-> owner, reference_count |-> 1,
                                     replicas |-> {}])
        /\ locked' = locked \ {a}
        /\ references' = [references EXCEPT ![a] = 1]
        /\ overlaps' = [overlaps EXCEPT ![a] = 0]
        /\ reused' = IF Replicating(a) THEN reused \cup {a} ELSE reused
  BY DEF AllocateSharedMemory
<1>2. nextMemoryId' = nextMemoryId + 1 /\ UNCHANGED <<freeing, copying>>
  BY DEF AllocateSharedMemory
<1>3. PICK new : new = [memory_id |-> nextMemoryId, address |-> a, owner_node |-> owner,
                        reference_count |-> 1, replicas |-> {}]
  OBVIOUS
<1>4. new.memory_id = nextMemoryId /\ new.address = a /\ new.reference_count = 1
  BY <1>3
<1>5. /\ DOMAIN blocks' = 1..(Len(blocks) + 1)
      /\ \A k \in DOMAIN blocks' : \/ k = Len(blocks) + 1 /\ blocks'[k] = new
                                   \/ k \in DOMAIN blocks /\ blocks'[k] = blocks[k]
  BY <1>1, <1>3 DEF MemTypeOK
<1>6. \A k \in DOMAIN blocks : /\ blocks[k].memory_id \in Nat
                               /\ blocks[k].memory_id < nextMemoryId /\ blocks[k].address # a
  BY <1>1, MemFacts DEF MemInv, IdsInv, Used
<1>7. IdsInv'
  <2>1. \A k \in DOMAIN blocks' : blocks'[k].memory_id < nextMemoryId'
    BY <1>0, <1>2, <1>4, <1>5, <1>6
  <2>2. \A j, k \in DOMAIN blocks' :
           \/ j = k
           \/ /\ blocks'[j].memory_id # blocks'[k].memory_id
              /\ blocks'[j].address # blocks'[k].address
    BY <1>0, <1>4, <1>5, <1>6 DEF MemInv, IdsInv
  <2> QED  BY <2>1, <2>2 DEF IdsInv
<1>8. MutexInv'
  <2>1. \A call \in copying : Used(call.address)' => Used(call.address) \/ call.address = a
    BY <1>4, <1>5 DEF Used
  <2>2. \A call \in copying : call.address = a => a \in reused'
    BY <1>1 DEF Replicating
  <2> QED  BY <1>1, <1>2, <2>1, <2>2 DEF MemInv, MutexInv
<1>9. ASSUME NEW b \in Table' PROVE Counted(b)'
  <2>1. PICK k \in DOMAIN blocks' : b = blocks'[k]
    BY DEF Table
  <2>2. CASE b = new
    <3>1. references'[a] = 1 /\ overlaps'[a] = 0
      BY <1>1 DEF MemTypeOK
    <3>2. Within(1, a, 0)'
      BY <3>1 DEF Within
    <3>3. (\E call \in copying : call.address = a) => a \in reused'
      BY <1>1 DEF Replicating
    <3> QED  BY <1>0, <1>2, <1>4, <2>2, <3>2, <3>3 DEF Counted
  <2>3. CASE b # new
    <3>1. k \in DOMAIN blocks /\ b = blocks[k]
      BY <1>5, <2>1, <2>3
    <3>2. b.address # a /\ b \in Table
      BY <1>6, <3>1 DEF Table
    <3>3. references'[b.address] = references[b.address] /\ overlaps'[b.address] = overlaps[b.address]
      BY <1>1, <3>2 DEF MemTypeOK
    <3> QED  BY <1>1, <1>2, <3>2, <3>3, Untouched DEF MemInv
  <2> QED  BY <2>2, <2>3
<1> QED  BY <1>7, <1>8, <1>9 DEF MemInv

LEMMA FreeReadCounts ==
    ASSUME MemTypeOK, MemInv, NEW c \in Clients, NEW k \in DOMAIN blocks, FreeRead(c, k)
    PROVE  MemInv'
<1>0. freeing = {} /\ UNCHANGED <<blocks, nextMemoryId, locked, copying, references, reused>>
  BY DEF FreeRead, MemoryFree
<1>1. PICK call : call = [client |-> c, memory_id |-> blocks[k].memory_id,
                          read |-> blocks[k].reference_count, stored |-> FALSE]
  OBVIOUS
<1>2. freeing' = {call}  BY <1>1 DEF FreeRead
<1>3. /\ call.memory_id = blocks[k].memory_id /\ call.stored = FALSE
      /\ call.read = blocks[k].reference_count /\ Held(call) = call.read
  BY <1>1 DEF Held
<1>4. PICK a \in Addresses : a = blocks[k].address  BY MemFacts
<1>5. overlaps' = [overlaps EXCEPT ![a] = IF Replicating(a) THEN @ + 1 ELSE @]
  BY <1>4 DEF FreeRead
<1>6. IdsInv' /\ MutexInv' /\ Table' = Table
  BY <1>0, <1>2 DEF MemInv, IdsInv, MutexInv, Used, Table
<1>7. ASSUME NEW b \in Table PROVE Counted(b)'
  <2>1. PICK j \in DOMAIN blocks : b = blocks[j]  BY DEF Table
  <2>2. CASE j # k
    <3>1. b.memory_id # blocks[k].memory_id /\ b.address # a
      BY <1>4, <2>1, <2>2 DEF MemInv, IdsInv
    <3>2. overlaps'[b.address] = overlaps[b.address]
      BY <1>5, <3>1 DEF MemTypeOK
    <3> QED  BY <1>0, <1>2, <1>3, <3>1, <3>2, Untouched DEF MemInv
  <2>3. CASE j = k
    <3> SUFFICES ASSUME a \notin reused PROVE Counted(b)'
      BY <1>0, <1>4, <2>1, <2>3 DEF Counted
    <3>1. PICK r, o, p : r = references[a] /\ o = overlaps[a] /\ p = overlaps'[a]
      OBVIOUS
    <3>2. /\ r \in Int /\ o \in Nat /\ b.reference_count \in Int
          /\ references'[a] = r
          /\ p = IF Replicating(a) THEN o + 1 ELSE o
      BY <1>0, <1>5, <2>1, <3>1, MemFacts DEF MemTypeOK
    <3>3. Within(b.reference_count, a, 0) /\ b.address = a
      BY <1>4, <2>1, <2>3 DEF MemInv, Counted
    <3>4. /\ Within(b.reference_count, a, 0)'
          /\ Replicating(a) => Within(b.reference_count, a, 1)'
      BY <3>1, <3>2, <3>3 DEF Within
    <3>5. ASSUME NEW other \in copying, other.address = a
          PROVE  Within(other.read, a, 0)' /\ Within(other.read, a, 1)'
      <4>1. Within(other.read, a, 0) /\ other.read \in Int
        BY <3>3, <3>5, MemFacts DEF MemInv, Counted
      <4>2. Replicating(a)  BY <3>5 DEF Replicating
      <4> QED  BY <3>1, <3>2, <4>1, <4>2 DEF Within
    <3>6. Replicating(a)' <=> Replicating(a)  BY <1>0 DEF Replicating
    <3> QED  BY <1>0, <1>2, <1>3, <2>1, <2>3, <3>3, <3>4, <3>5, <3>6 DEF Counted
  <2> QED  BY <2>2, <2>3
<1> QED  BY <1>6, <1>7 DEF MemInv

LEMMA FreeStoreCounts ==
    ASSUME MemTypeOK, MemInv, NEW c \in Clients, FreeStore(c)
    PROVE  MemInv'
<1>0. UNCHANGED <<nextMemoryId, locked, copying, overlaps, reused>>
  BY DEF FreeStore
<1>1. PICK call \in freeing, k \in DOMAIN blocks :
        /\ ~call.stored /\ blocks[k].memory_id = call.memory_id
        /\ blocks' = [blocks EXCEPT ![k] = With(@, call.read - 1, @.replicas)]
        /\ freeing' = {[client |-> c, memory_id |-> call.memory_id, read |-> call.read,
                        stored |-> TRUE]}
        /\ references' = [references EXCEPT ![blocks[k].address] = @ - 1]
  BY DEF FreeStore
<1>2. PICK later : later = [client |-> c, memory_id |-> call.memory_id, read |-> call.read,
                            stored |-> TRUE]
  OBVIOUS
<1>3. freeing' = {later}  BY <1>1, <1>2
<1>4. /\ later.memory_id = call.memory_id /\ later.stored = TRUE
      /\ Held(later) = call.read - 1 /\ Held(call) = call.read
  BY <1>1, <1>2 DEF Held
<1>5. PICK new : new = With(blocks[k], call.read - 1, blocks[k].replicas)  OBVIOUS
<1>6. /\ new.memory_id = blocks[k].memory_id /\ new.address = blocks[k].address
      /\ new.reference_count = call.read - 1
  BY <1>5, WithFields
<1>7. /\ DOMAIN blocks' = DOMAIN blocks
      /\ \A j \in DOMAIN blocks : blocks'[j] = IF j = k THEN new ELSE blocks[j]
  BY <1>1, <1>5, MemFacts
<1>8. IdsInv' /\ \A a : Used(a)' <=> Used(a)
  BY <1>0, <1>6, <1>7, InPlace DEF MemInv
<1>9. MutexInv'
  BY <1>0, <1>3, <1>8 DEF MemInv, MutexInv
<1>10. ASSUME NEW b \in Table' PROVE Counted(b)'
  <2>1. PICK j \in DOMAIN blocks : b = blocks'[j]  BY <1>7 DEF Table
  <2>2. CASE j # k
    <3>1. /\ b.memory_id # blocks[k].memory_id /\ b.address # blocks[k].address /\ b \in Table
      BY <1>7, <2>1, <2>2 DEF MemInv, IdsInv, Table
    <3>2. references'[b.address] = references[b.address]
      BY <1>1, <3>1 DEF MemTypeOK
    <3> QED  BY <1>0, <1>1, <1>3, <1>4, <3>1, <3>2, Untouched DEF MemInv
  <2>3. CASE j = k
    <3> SUFFICES ASSUME blocks[k].address \notin reused PROVE Counted(b)'
      BY <1>0, <1>6, <1>7, <2>1, <2>3 DEF Counted
    <3>0. PICK a \in Addresses : a = blocks[k].address  BY MemFacts
    <3>1. b = new /\ b.address = a /\ blocks[k] \in Table
      BY <1>6, <1>7, <2>1, <2>3, <3>0 DEF Table
    <3>2. PICK r, o, q : r = references[a] /\ o = overlaps[a] /\ q = references'[a]
      OBVIOUS
    <3>3. r \in Int /\ o \in Nat /\ call.read \in Int /\ q = r - 1 /\ overlaps'[a] = o
      BY <1>0, <1>1, <3>0, <3>2, MemFacts DEF MemTypeOK
    <3>4. /\ Within(call.read, a, 0)
          /\ Replicating(a) => Within(call.read, a, 1)
      BY <1>1, <1>4, <3>0, <3>1 DEF MemInv, Counted
    <3>5. /\ Within(call.read - 1, a, 0)'
          /\ Replicating(a) => Within(call.read - 1, a, 1)'
      BY <3>2, <3>3, <3>4 DEF Within
    <3>6. ASSUME NEW other \in copying, other.address = a
          PROVE  Within(other.read, a, 0)'
      <4>1. Storing(blocks[k])  BY <1>1 DEF Storing
      <4>2. Within(other.read, a, 1) /\ other.read \in Int
        BY <3>0, <3>1, <3>6, <4>1, MemFacts DEF MemInv, Counted
      <4> QED  BY <3>2, <3>3, <4>2 DEF Within
    <3>7. Replicating(a)' <=> Replicating(a)  BY <1>0 DEF Replicating
    <3>8. ~Storing(b)'  BY <1>3, <1>4 DEF Storing
    <3> QED  BY <1>0, <1>3, <1>4, <1>6, <3>1, <3>5, <3>6, <3>7, <3>8 DEF Counted
  <2> QED  BY <2>2, <2>3
<1> QED  BY <1>8, <1>9, <1>10 DEF MemInv

(* What a step that frees a block leaves of the table.                       *)
LEMMA WithoutTable ==
    ASSUME MemTypeOK, MemInv, NEW k \in DOMAIN blocks, blocks' = Without(blocks, k)
    PROVE  /\ \A i \in DOMAIN blocks' : \E j \in DOMAIN blocks : j # k /\ blocks'[i] = blocks[j]
           /\ \A j \in DOMAIN blocks : j # k => \E i \in DOMAIN blocks' : blocks'[i] = blocks[j]
           /\ nextMemoryId' = nextMemoryId => IdsInv'
<1>1. DOMAIN blocks = 1..Len(blocks) /\ Len(blocks) \in Nat
  BY MemFacts
<1>2. blocks' = [j \in 1..(Len(blocks) - 1) |-> IF j < k THEN blocks[j] ELSE blocks[j + 1]]
  BY DEF Without
<1>3. \A i \in DOMAIN blocks' : \E j \in DOMAIN blocks : j # k /\ blocks'[i] = blocks[j]
  BY <1>1, <1>2
<1>4. ASSUME NEW j \in DOMAIN blocks, j # k
      PROVE  \E i \in DOMAIN blocks' : blocks'[i] = blocks[j]
  <2>1. CASE j < k
    BY <1>1, <1>2, <2>1
  <2>2. CASE j > k
    <3>1. j - 1 \in DOMAIN blocks' /\ blocks'[j - 1] = blocks[j]  BY <1>1, <1>2, <2>2
    <3> QED  BY <3>1
  <2> QED  BY <1>1, <1>4, <2>1, <2>2
<1>5. ASSUME nextMemoryId' = nextMemoryId PROVE IdsInv'
  <2>1. \A i, j \in DOMAIN blocks' :
           \/ i = j
           \/ /\ blocks'[i].memory_id # blocks'[j].memory_id
              /\ blocks'[i].address # blocks'[j].address
    <3> TAKE i, j \in DOMAIN blocks'
    <3>1. PICK x, y \in DOMAIN blocks :
             blocks'[i] = blocks[x] /\ blocks'[j] = blocks[y] /\ (x = y => i = j)
      BY <1>1, <1>2
    <3> QED  BY <3>1 DEF MemInv, IdsInv
  <2>2. \A i \in DOMAIN blocks' : blocks'[i].memory_id < nextMemoryId'
    BY <1>3, <1>5 DEF MemInv, IdsInv
  <2> QED  BY <2>1, <2>2 DEF IdsInv
<1> QED  BY <1>3, <1>4, <1>5

LEMMA FreeTestCounts ==
    ASSUME MemTypeOK, MemInv, NEW c \in Clients, FreeTest(c)
    PROVE  MemInv'
<1>0. freeing' = {} /\ UNCHANGED <<nextMemoryId, locked, copying>>
  BY DEF FreeTest, FreeTestAgainst
<1>1. PICK k \in DOMAIN blocks :
        \/ /\ blocks' = Without(blocks, k)
           /\ references' = [references EXCEPT ![blocks[k].address] = 0]
           /\ overlaps' = [overlaps EXCEPT ![blocks[k].address] = 0]
           /\ reused' = reused \ {blocks[k].address}
        \/ UNCHANGED <<blocks, references, overlaps, reused>>
  BY DEF FreeTest, FreeTestAgainst
<1>2. CASE UNCHANGED <<blocks, references, overlaps, reused>>
  <2>1. IdsInv' /\ MutexInv' /\ Table' = Table
    BY <1>0, <1>2 DEF MemInv, IdsInv, MutexInv, Used, Table
  <2>2. \A b \in Table : Counted(b)'
    BY <1>0, <1>2, Untouched DEF MemInv
  <2> QED  BY <2>1, <2>2 DEF MemInv
<1>3. CASE /\ blocks' = Without(blocks, k)
           /\ references' = [references EXCEPT ![blocks[k].address] = 0]
           /\ overlaps' = [overlaps EXCEPT ![blocks[k].address] = 0]
           /\ reused' = reused \ {blocks[k].address}
  <2>1. IdsInv'
    BY <1>0, <1>3, WithoutTable
  <2>2. \A b \in Table' : b \in Table /\ b.address # blocks[k].address
    BY <1>3, WithoutTable DEF Table, MemInv, IdsInv
  <2>3. \A a : Used(a)' => Used(a) /\ a # blocks[k].address
    BY <2>2 DEF Used, Table
  <2>4. MutexInv'
    BY <1>0, <1>3, <2>3 DEF MemInv, MutexInv
  <2>5. ASSUME NEW b \in Table' PROVE Counted(b)'
    <3>1. b \in Table /\ b.address # blocks[k].address
      BY <2>2
    <3>2. references'[b.address] = references[b.address]
          /\ overlaps'[b.address] = overlaps[b.address]
      BY <1>3, <3>1 DEF MemTypeOK
    <3> QED  BY <1>0, <1>3, <3>1, <3>2, Untouched DEF MemInv
  <2> QED  BY <2>1, <2>4, <2>5 DEF MemInv
<1> QED  BY <1>1, <1>2, <1>3

LEMMA ReplicateReadCounts ==
    ASSUME MemTypeOK, MemInv, NEW c \in Clients, NEW k \in DOMAIN blocks, NEW n \in Nodes,
           ReplicateRead(c, k, n)
    PROVE  MemInv'
<1>0. UNCHANGED <<nextMemoryId, freeing, references, reused>>
  BY DEF ReplicateRead
<1>1. PICK a \in Addresses : a = blocks[k].address  BY MemFacts
<1>2. PICK call : call = [client |-> c, address |-> a, read |-> blocks[k].reference_count]
  OBVIOUS
<1>3. call.address = a /\ call.read = blocks[k].reference_count  BY <1>2
<1>4. PICK new : new = With(blocks[k], blocks[k].reference_count, blocks[k].replicas \cup {n})
  OBVIOUS
<1>5. /\ new.memory_id = blocks[k].memory_id /\ new.address = a
      /\ new.reference_count = blocks[k].reference_count
  BY <1>1, <1>4, WithFields
<1>6. /\ a \notin locked /\ locked' = locked \cup {a} /\ copying' = copying \cup {call}
      /\ blocks' = [blocks EXCEPT ![k] = new]
      /\ overlaps' = [overlaps EXCEPT ![a] = IF Releasing(blocks[k]) THEN @ + 1 ELSE @]
  BY <1>1, <1>2, <1>4 DEF ReplicateRead
<1>7. /\ DOMAIN blocks' = DOMAIN blocks
      /\ \A j \in DOMAIN blocks : blocks'[j] = IF j = k THEN new ELSE blocks[j]
  BY <1>6, MemFacts
<1>8. IdsInv' /\ \A x : Used(x)' <=> Used(x)
  BY <1>0, <1>1, <1>5, <1>7, InPlace DEF MemInv
<1>9. a \notin reused => \A other \in copying : other.address # a
  <2>1. Used(a)  BY <1>1 DEF Used
  <2> QED  BY <1>6, <2>1 DEF MemInv, MutexInv
<1>10. MutexInv'
  <2>1. ASSUME NEW one \in copying', Used(one.address)', one.address \notin reused'
        PROVE  /\ one.address \in locked'
               /\ \A other \in copying' : other.address = one.address => other = one
    <3>1. Used(one.address) /\ one.address \notin reused  BY <1>0, <1>8, <2>1
    <3>2. CASE one = call
      BY <1>3, <1>6, <1>9, <3>1, <3>2
    <3>3. CASE one \in copying
      BY <1>3, <1>6, <1>9, <3>1, <3>3 DEF MemInv, MutexInv
    <3> QED  BY <1>6, <3>2, <3>3
  <2> QED  BY <1>0, <2>1 DEF MemInv, MutexInv
<1>11. ASSUME NEW b \in Table' PROVE Counted(b)'
  <2>1. PICK j \in DOMAIN blocks : b = blocks'[j]  BY <1>7 DEF Table
  <2>2. CASE j # k
    <3>1. /\ b.memory_id # blocks[k].memory_id /\ b.address # a /\ b \in Table
      BY <1>1, <1>7, <2>1, <2>2 DEF MemInv, IdsInv, Table
    <3>2. overlaps'[b.address] = overlaps[b.address]
      BY <1>6, <3>1 DEF MemTypeOK
    <3> QED  BY <1>0, <1>3, <1>6, <3>1, <3>2, Untouched DEF MemInv
  <2>3. CASE j = k
    <3> SUFFICES ASSUME a \notin reused PROVE Counted(b)'
      BY <1>0, <1>5, <1>7, <2>1, <2>3 DEF Counted
    <3>1. b = new /\ blocks[k] \in Table
      BY <1>7, <2>1, <2>3 DEF Table
    <3>2. PICK r, o, p : r = references[a] /\ o = overlaps[a] /\ p = overlaps'[a]
      OBVIOUS
    <3>3. /\ r \in Int /\ o \in Nat /\ blocks[k].reference_count \in Int
          /\ references'[a] = r
          /\ p = IF Releasing(blocks[k]) THEN o + 1 ELSE o
      BY <1>0, <1>6, <3>2, MemFacts DEF MemTypeOK
    <3>4. Within(blocks[k].reference_count, a, 0)
      BY <1>1, <3>1 DEF MemInv, Counted
    <3>5. /\ Within(call.read, a, 0)'
          /\ Releasing(blocks[k]) => Within(call.read, a, 1)'
      BY <1>3, <3>2, <3>3, <3>4 DEF Within
    <3>6. ASSUME NEW other \in freeing, other.memory_id = blocks[k].memory_id
          PROVE  Within(Held(other), a, 0)' /\ Within(Held(other), a, 1)'
      <4>1. Within(Held(other), a, 0)
        BY <1>1, <3>1, <3>6 DEF MemInv, Counted
      <4>2. Held(other) \in Int
        BY MemFacts DEF Held
      <4>3. Releasing(blocks[k])
        BY <3>6 DEF Releasing
      <4>4. PICK h : h = Held(other)  OBVIOUS
      <4>5. Within(h, a, 0)' /\ Within(h, a, 1)'
        BY <3>2, <3>3, <4>1, <4>2, <4>3, <4>4 DEF Within
      <4> QED  BY <4>4, <4>5
    <3>7. Storing(b)' => Releasing(blocks[k])
      BY <1>0, <1>5, <3>1 DEF Storing, Releasing
    <3>8. \A other \in copying' : other.address = a => other = call
      BY <1>6, <1>9
    <3> QED  BY <1>0, <1>3, <1>5, <3>1, <3>5, <3>6, <3>7, <3>8 DEF Counted
  <2> QED  BY <2>2, <2>3
<1> QED  BY <1>8, <1>10, <1>11 DEF MemInv

LEMMA ReplicateWriteCounts ==
    ASSUME MemTypeOK, MemInv, NEW c \in Clients, ReplicateWrite(c)
    PROVE  MemInv'
<1>1. PICK call \in copying :
        /\ blocks' = [k \in DOMAIN blocks |->
                         IF blocks[k].address = call.address
                         THEN With(blocks[k], call.read + 1, blocks[k].replicas)
                         ELSE blocks[k]]
        /\ locked' = locked \ {call.address}
        /\ copying' = copying \ {call}
        /\ references' = [references EXCEPT ![call.address] =
                             IF Used(call.address) THEN @ + 1 ELSE @]
        /\ UNCHANGED <<nextMemoryId, freeing, overlaps, reused>>
  BY DEF ReplicateWrite
<1>2. PICK a \in Addresses : a = call.address  BY MemFacts
<1>3. \A k \in DOMAIN blocks : /\ blocks'[k].memory_id = blocks[k].memory_id
                               /\ blocks'[k].address = blocks[k].address
  BY <1>1, WithFields
<1>4. DOMAIN blocks' = DOMAIN blocks  BY <1>1
<1>5. IdsInv' /\ \A x : Used(x)' <=> Used(x)
  BY <1>1, <1>3, <1>4, InPlace DEF MemInv
<1>6. Used(a) /\ a \notin reused => \A other \in copying : other.address = a => other = call
  BY <1>2 DEF MemInv, MutexInv
<1>7. MutexInv'
  BY <1>1, <1>2, <1>5, <1>6 DEF MemInv, MutexInv
<1>8. ASSUME NEW b \in Table' PROVE Counted(b)'
  <2>1. PICK k \in DOMAIN blocks : b = blocks'[k]  BY <1>4 DEF Table
  <2>2. CASE blocks[k].address # a
    <3>1. b = blocks[k] /\ b.address # a /\ b \in Table
      BY <1>1, <1>2, <2>1, <2>2 DEF Table
    <3>2. references'[b.address] = references[b.address]
      BY <1>1, <1>2, <3>1 DEF MemTypeOK
    <3> QED  BY <1>1, <3>1, <3>2, Untouched DEF MemInv
  <2>3. CASE blocks[k].address = a
    <3>0. b.address = a /\ b.memory_id = blocks[k].memory_id  BY <1>3, <2>1, <2>3
    <3> SUFFICES ASSUME a \notin reused PROVE Counted(b)'
      BY <1>1, <3>0 DEF Counted
    <3>1. Used(a) /\ blocks[k] \in Table  BY <2>3 DEF Used, Table
    <3>2. PICK r, o, q : r = references[a] /\ o = overlaps[a] /\ q = references'[a]
      OBVIOUS
    <3>3. r \in Int /\ o \in Nat /\ call.read \in Int /\ q = r + 1 /\ overlaps'[a] = o
      BY <1>1, <1>2, <3>1, <3>2, MemFacts DEF MemTypeOK
    <3>4. b.reference_count = call.read + 1
      BY <1>1, <1>2, <2>1, <2>3, WithFields
    <3>5. Within(call.read, a, 0)
      BY <1>2, <2>3, <3>1 DEF MemInv, Counted
    <3>6. Within(call.read + 1, a, 0)'
      BY <3>2, <3>3, <3>5 DEF Within
    <3>7. ASSUME NEW other \in freeing, other.memory_id = b.memory_id
          PROVE  Within(Held(other), a, 0)'
      <4>1. Replicating(a)  BY <1>2 DEF Replicating
      <4>2. PICK h : h = Held(other)  OBVIOUS
      <4>3. Within(h, a, 1)
        BY <2>3, <3>0, <3>1, <3>7, <4>1, <4>2 DEF MemInv, Counted
      <4>4. h \in Int  BY <4>2, MemFacts DEF Held
      <4>5. Within(h, a, 0)'  BY <3>2, <3>3, <4>3, <4>4 DEF Within
      <4> QED  BY <4>2, <4>5
    <3>8. \A other \in copying' : other.address # a
      BY <1>1, <1>6, <3>1
    <3>9. ~Replicating(a)'  BY <3>8 DEF Replicating
    <3> QED  BY <1>1, <3>0, <3>4, <3>6, <3>7, <3>8, <3>9 DEF Counted
  <2> QED  BY <2>2, <2>3
<1> QED  BY <1>5, <1>7, <1>8 DEF MemInv

LEMMA OwnedCounts ==
    ASSUME MemTypeOK, MemInv, freeing = {}, NEW owner \in Nodes, NEW n \in Nodes,
           ReplicateOwned(owner, n)
    PROVE  MemInv'
<1>1. /\ \A k \in DOMAIN blocks :
            blocks[k].owner_node = owner => blocks[k].address \notin locked
      /\ blocks' = [k \in DOMAIN blocks |->
                       IF blocks[k].owner_node = owner THEN Copied(blocks[k], n) ELSE blocks[k]]
      /\ references' = [a \in Addresses |->
             IF \E k \in DOMAIN blocks : /\ blocks[k].address = a /\ blocks[k].owner_node = owner
                                         /\ Room(blocks[k], n)
             THEN references[a] + 1 ELSE references[a]]
      /\ UNCHANGED <<nextMemoryId, locked, freeing, copying, overlaps, reused>>
  BY DEF ReplicateOwned
<1>2. \A k \in DOMAIN blocks : /\ blocks'[k].memory_id = blocks[k].memory_id
                               /\ blocks'[k].address = blocks[k].address
  BY <1>1, WithFields DEF Copied
<1>3. DOMAIN blocks' = DOMAIN blocks  BY <1>1
<1>4. IdsInv' /\ \A x : Used(x)' <=> Used(x)
  BY <1>1, <1>2, <1>3, InPlace DEF MemInv
<1>5. MutexInv'
  BY <1>1, <1>4 DEF MemInv, MutexInv
<1>6. ASSUME NEW b \in Table' PROVE Counted(b)'
  <2>1. PICK k \in DOMAIN blocks : b = blocks'[k]  BY <1>3 DEF Table
  <2>2. PICK a \in Addresses : a = blocks[k].address  BY MemFacts
  <2>3. b.address = a /\ blocks[k] \in Table  BY <1>2, <2>1, <2>2 DEF Table
  <2>4. \A j \in DOMAIN blocks : blocks[j].address = a => j = k
    BY <2>2 DEF MemInv, IdsInv
  <2>5. CASE ~(blocks[k].owner_node = owner /\ Room(blocks[k], n))
    <3>1. b = blocks[k]  BY <1>1, <2>1, <2>5 DEF Copied
    <3>2. references'[a] = references[a]  BY <1>1, <2>4, <2>5
    <3> QED  BY <1>1, <2>3, <3>1, <3>2, Untouched DEF MemInv
  <2>6. CASE blocks[k].owner_node = owner /\ Room(blocks[k], n)
    <3> SUFFICES ASSUME a \notin reused PROVE Counted(b)'
      BY <1>1, <2>3 DEF Counted
    <3>1. PICK r, o : r = references[a] /\ o = overlaps[a]  OBVIOUS
    <3>2. /\ r \in Int /\ o \in Nat /\ blocks[k].reference_count \in Int
          /\ references'[a] = r + 1 /\ overlaps'[a] = o
      BY <1>1, <2>2, <2>6, <3>1, MemFacts
    <3>3. b.reference_count = blocks[k].reference_count + 1
      BY <1>1, <2>1, <2>6, WithFields DEF Copied
    <3>4. Within(blocks[k].reference_count, a, 0)
      BY <2>2, <2>3 DEF MemInv, Counted
    <3>5. Within(b.reference_count, a, 0)'
      <4>1. PICK x : x = b.reference_count  OBVIOUS
      <4>2. Within(x, a, 0)'  BY <3>1, <3>2, <3>3, <3>4, <4>1 DEF Within
      <4> QED  BY <4>1, <4>2
    <3>6. a \notin locked /\ Used(a)  BY <1>1, <2>2, <2>6 DEF Used
    <3>7. \A call \in copying : call.address # a  BY <3>6 DEF MemInv, MutexInv
    <3> QED  BY <1>1, <2>3, <3>5, <3>7 DEF Counted
  <2> QED  BY <2>5, <2>6
<1> QED  BY <1>4, <1>5, <1>6 DEF MemInv

(* Every step on the memory manager, or on something else.                   *)
LEMMA MemoryCases ==
    ASSUME TypeInv, [Next]_vars
    PROVE  \/ UNCHANGED memVars
           \/ \E owner \in Nodes : AllocateSharedMemory(owner)
           \/ \E c \in Clients : \/ FreeStore(c) \/ FreeTest(c) \/ ReplicateWrite(c)
                                 \/ \E k \in DOMAIN blocks :
                                       \/ FreeRead(c, k)
                                       \/ \E n \in Nodes : ReplicateRead(c, k, n)
           \/ freeing = {} /\ \E owner, n \in Nodes : ReplicateOwned(owner, n)
<1>1. CASE Replicate
  <2>1. freeing = {} /\ failing \in Nodes
    BY <1>1 DEF TypeInv, Handling, Replicate, MemoryFree
  <2>2. UNCHANGED memVars \/ \E n \in FirstIdle : ReplicateOwned(failing, n)
    BY <1>1 DEF Replicate
  <2>3. FirstIdle \subseteq Nodes  BY DEF FirstIdle
  <2> QED  BY <2>1, <2>2, <2>3
<1>2. CASE Monitor /\ ~Replicate
  BY <1>2 DEF Monitor, MonitorTest, MonitorLock, MarkFailed, Requeue, Reschedule, MonitorUnlock
<1>3. CASE Operator
  BY <1>3 DEF Operator, StartFaultTolerance, StopFaultTolerance, RecoverNode,
              SimulateNodeFailure, CreateCheckpoint, RestoreCheckpoint
<1>4. CASE SchedStep \/ UNCHANGED vars
  BY <1>4 DEF SchedStep, vars
<1>5. CASE MemStep
  BY <1>5 DEF MemStep, Memory, MemoryClient
<1> QED  BY <1>1, <1>2, <1>3, <1>4, <1>5, StepCases

LEMMA MemInvStep == ASSUME TypeInv, MemInv, [Next]_vars PROVE MemInv'
<1>1. MemTypeOK  BY DEF TypeInv, TypeOK
<1>2. CASE UNCHANGED memVars
  <2>1. UNCHANGED <<blocks, nextMemoryId, locked, freeing, copying, references, overlaps, reused>>
    BY <1>2 DEF memVars
  <2>2. IdsInv' /\ MutexInv' /\ Table' = Table
    BY <2>1 DEF MemInv, IdsInv, MutexInv, Used, Table
  <2>3. \A b \in Table : Counted(b)'
    BY <2>1, Untouched DEF MemInv
  <2> QED  BY <2>2, <2>3 DEF MemInv
<1> QED  BY <1>1, <1>2, MemoryCases, AllocateCounts, FreeReadCounts, FreeStoreCounts,
            FreeTestCounts, ReplicateReadCounts, ReplicateWriteCounts, OwnedCounts

(* Only the test of free_shared_memory frees a block or ends a call that has   *)
(* stored a count.                                                           *)
LEMMA FreedStep ==
    ASSUME TypeInv, MemInv, [Next]_vars, NEW b \in Table, b.address \notin reused
    PROVE  /\ ~Kept(b.memory_id)' => references[b.address] <= overlaps[b.address]
           /\ Releasing(b) /\ freeing' = {} /\ Kept(b.memory_id)' =>
                 references[b.address] + overlaps[b.address] > 0
<1>0. MemTypeOK  BY DEF TypeInv, TypeOK
<1>1. PICK i \in DOMAIN blocks : b = blocks[i]  BY DEF Table
<1>2. CASE \E c \in Clients : FreeTest(c)
  <2>1. PICK c \in Clients : FreeTest(c)  BY <1>2
  <2>2. PICK call \in freeing, k \in DOMAIN blocks, tested \in Int :
          /\ blocks[k].memory_id = call.memory_id /\ call.stored
          /\ tested = call.read - 1 \/ tested = blocks[k].reference_count
          /\ IF tested <= 0 THEN blocks' = Without(blocks, k) ELSE blocks' = blocks
    BY <1>0, <2>1, MemFacts DEF FreeTest, FreeTestAgainst
  <2>3. CASE i = k
    <3>1. PICK a \in Addresses : a = b.address  BY <1>0, <1>1, MemFacts
    <3>2. PICK r, o : r = references[a] /\ o = overlaps[a]  OBVIOUS
    <3>3. r \in Int /\ o \in Nat /\ tested \in Int
      BY <1>0, <2>2, <3>2, MemFacts
    <3>4. Within(tested, a, 0)
      <4>1. Held(call) = call.read - 1  BY <2>2 DEF Held
      <4> QED  BY <1>1, <2>2, <2>3, <3>1, <4>1 DEF MemInv, Counted
    <3>5. CASE tested <= 0
      <4>1. r <= o  BY <3>2, <3>3, <3>4, <3>5 DEF Within
      <4>2. \A j \in DOMAIN blocks' : blocks'[j].memory_id # b.memory_id
        BY <1>0, <1>1, <2>2, <2>3, <3>5, WithoutTable DEF MemInv, IdsInv
      <4> QED  BY <3>1, <3>2, <4>1, <4>2 DEF Kept
    <3>6. CASE ~(tested <= 0)
      <4>1. r + o > 0  BY <3>2, <3>3, <3>4, <3>6 DEF Within
      <4>2. blocks' = blocks  BY <2>2, <3>6
      <4> QED  BY <1>1, <3>1, <3>2, <4>1, <4>2 DEF Kept
    <3> QED  BY <3>5, <3>6
  <2>4. CASE i # k
    <3>1. Kept(b.memory_id)'
      BY <1>0, <1>1, <2>2, <2>4, WithoutTable DEF Kept
    <3>2. ~Releasing(b)
      BY <1>1, <2>2, <2>4 DEF Releasing, MemInv, MutexInv, IdsInv
    <3> QED  BY <3>1, <3>2
  <2> QED  BY <2>3, <2>4
<1>3. CASE ~\E c \in Clients : FreeTest(c)
  <2>1. freeing' = freeing \/ freeing' # {}
    BY <1>3, MemoryCases
       DEF memVars, AllocateSharedMemory, FreeRead, FreeStore, ReplicateRead, ReplicateWrite,
           ReplicateOwned
  <2>2. \E j \in DOMAIN blocks' : blocks'[j].memory_id = blocks[i].memory_id
    <3>1. CASE UNCHANGED blocks
      BY <3>1
    <3>2. ASSUME NEW owner \in Nodes, AllocateSharedMemory(owner)
          PROVE  \E j \in DOMAIN blocks' : blocks'[j].memory_id = blocks[i].memory_id
      <4>1. PICK new : blocks' = Append(blocks, new)  BY <3>2 DEF AllocateSharedMemory
      <4>2. i \in DOMAIN blocks' /\ blocks'[i] = blocks[i]
        BY <1>0, <4>1 DEF MemTypeOK
      <4> QED  BY <4>2
    <3>3. ASSUME NEW c \in Clients,
                 FreeStore(c) \/ \E k \in DOMAIN blocks, n \in Nodes : ReplicateRead(c, k, n)
          PROVE  \E j \in DOMAIN blocks' : blocks'[j].memory_id = blocks[i].memory_id
      <4>1. PICK k \in DOMAIN blocks : \E x, S : blocks' = [blocks EXCEPT ![k] = With(@, x, S)]
        BY <3>3 DEF FreeStore, ReplicateRead
      <4>2. i \in DOMAIN blocks' /\ blocks'[i].memory_id = blocks[i].memory_id
        BY <1>0, <4>1, MemFacts, WithFields
      <4> QED  BY <4>2
    <3>4. ASSUME NEW c \in Clients, ReplicateWrite(c)
          PROVE  \E j \in DOMAIN blocks' : blocks'[j].memory_id = blocks[i].memory_id
      BY <3>4, WithFields DEF ReplicateWrite
    <3>5. ASSUME NEW owner \in Nodes, NEW n \in Nodes, ReplicateOwned(owner, n)
          PROVE  \E j \in DOMAIN blocks' : blocks'[j].memory_id = blocks[i].memory_id
      BY <3>5, WithFields DEF ReplicateOwned, Copied
    <3> QED  BY <1>3, <3>1, <3>2, <3>3, <3>4, <3>5, MemoryCases DEF memVars, FreeRead
  <2> QED  BY <1>1, <2>1, <2>2 DEF Kept, Releasing
<1> QED  BY <1>2, <1>3

(* A block is freed by the call that gives up its last reference: later or      *)
(* sooner only by as many references as calls under the two mutexes have       *)
(* overlapped on it, for any number of clients, nodes, blocks and addresses.   *)
THEOREM FreedCorrect == Spec => FreedAtLastReference
<1>1. TypeInv /\ MemInv /\ [Next]_vars =>
         [\A b \in Table :
             b.address \notin reused =>
               /\ ~Kept(b.memory_id)' => references[b.address] <= overlaps[b.address]
               /\ Releasing(b) /\ freeing' = {} /\ Kept(b.memory_id)' =>
                     references[b.address] + overlaps[b.address] > 0]_memVars
  BY FreedStep
<1>2. TypeInv /\ MemInv /\ [Next]_vars => TypeInv' /\ MemInv'  BY TypeStep, MemInvStep
<1> QED  BY <1>1, <1>2, TypeInit, MemInvInit, PTL DEF Spec, FreedAtLastReference
================================================================================
