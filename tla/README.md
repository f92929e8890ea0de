# AdHocOS in TLA+

AdHocOS ("DecOS") is a collection of C programs that build an ad-hoc,
decentralised computer out of a few machines on one local network: nodes find
each other by UDP broadcast, watch each other through heartbeats, hand tasks to
the node that looks best, share named memory blocks and locks, and survive the
failure of peers.  There is no single program: `src/decentralized_os.c` is the
current, self-contained kernel ("v2.0"), `src/src/` holds a library with several
programs over it, and a few more sources at the top are alternative or unfinished
variants.

This directory models those programs in TLA+, checks the models with TLC and
proves their main invariants with TLAPS.  `PROJECT.json` lists the components,
the runs, the mutants that show that each property can fail, the source lines
each definition stands for, the hazards and the theorems.

All paths below are relative to the repository (`src/`).

## Contents

| module | what it is |
|---|---|
| `TaskLedger` | abstract: what the scheduler of the v2.0 kernel promises about tasks |
| `DecosKernel` | the v2.0 kernel on one node: five threads, two mutexes, registry, task table, cleanup |
| `DecosKernelProofs` | TLAPS proofs about `DecosKernel`, among them that it implements `TaskLedger` |
| `NetDiscovery` | the discovery protocol of the default build, between several nodes |
| `NetKernel` | the program of the default build over `NetDiscovery`: placement and hand-over of tasks |
| `NetDiscoveryProofs` | lemmas about the protocol's steps, used by the proofs about both programs over it |
| `NetKernelProofs` | TLAPS proofs about `NetKernel` |
| `AlpineKernel` | the program of the Alpine build over `NetDiscovery` |
| `AlpineKernelProofs` | TLAPS proofs about `AlpineKernel` |
| `LibCommon`, `TaskScheduler`, `MemoryManager`, `FaultManager` | the simulation library: what its parts share, its scheduler, its memory manager, and the fault manager that composes both |
| `FaultManagerProofs` | TLAPS proofs about `FaultManager` |
| `LibSync`, `LibSyncProofs` | the simulation library's barrier and Lamport mutex, and proofs |
| `ReadersWriters` | abstract: what a readers/writers lock promises |
| `RwLock64`, `RwLock64Proofs` | the lock of `kernel_64bit.c`, and proofs, among them that it implements `ReadersWriters` |
| `Dfs`, `DfsProofs` | the distributed file system's files, block table and cache, and proofs |
| `MC...` | instances for TLC: constants that a .cfg cannot write, and symmetry |

    tlc -config MCDecosKernel.cfg MCDecosKernel         # about 611 000 distinct states, half a minute
    tlc -config MCDecosKernelLive.cfg MCDecosKernel
    tlc -config MCDecosKernelFree.cfg MCDecosKernel     # a counterexample is expected
    tlc -config MCDecosKernelFailover.cfg MCDecosKernel # a counterexample is expected
    tlc -config MCNetKernel.cfg MCNetKernel             # about 2.2 million distinct states, two minutes
    tlc -config MCNetKernelLive.cfg MCNetKernel
    tlc -config MCNetKernelPrefix.cfg MCNetKernel       # a counterexample is expected
    tlc -config MCAlpineKernel.cfg MCAlpineKernel       # about 59 000 distinct states, with liveness a minute
    tlc -config MCFaultManager.cfg MCFaultManager       # about 2.4 million distinct states, two minutes
    tlc -config MCRwLock64.cfg MCRwLock64               # about 18 000 distinct states
    tlc -config MCLibSync.cfg MCLibSync                 # about 61 000 distinct states
    tlc -config MCDfs.cfg MCDfs                         # about 1.8 million distinct states, a minute
    tlapm DecosKernelProofs.tla                         # and the other seven ...Proofs modules

Definitions called `...OffByOne`, `...Early`, `...Again` and the like, marked
"Mutant" in a comment, are not part of a specification.  Each is the mutated
form of the definition that follows it, named in `PROJECT.json`: with it in the
place of the original, TLC finds the property of that entry violated.

## Inventory

### 1. The v2.0 kernel, `decentralized_os.c`

*State.*  One global `g_kernel` with: the **registry** of nodes (`nodes[MAX_NODES]`
with status, reputation, load, `last_seen`, `tasks_completed`; own mutex); the
**scheduler** (`tasks[MAX_TASKS]`, `next_task_id`, `total_assigned`,
`total_completed`; own mutex); the **memory manager** (named blocks, own mutex);
the **lock manager** (named locks with owner, own mutex); sockets; `running`.

*Threads.*  `main` (command loop: `status`, `nodes`, `tasks`, `memory`, `task`,
`alloc`, `demo`, `help`, `exit`, then `cleanup`), `discovery_listener_thread`,
`heartbeat_broadcast_thread`, `failure_detector_thread`, `data_server_thread`,
and a signal handler.

*Interactions.*  Listener and detector write the registry, the detector and the
command loop write the task table; `create_task` and `complete_task` take the
scheduler's mutex and then the registry's, the detector the registry's and then
the scheduler's.  `cleanup` clears `running`, joins three threads and frees all.

*Hard.*  Lock order and re-locking; a node chosen under one mutex and used after
it was released; an instant (`now`) read before a mutex is waited for; early
returns at a full table; heartbeats that overwrite an entry between the steps of
a completion; the freed global.

*Correct when.*  Tables fit, counters agree with tables, a completed task stays
completed, no open task stays on a failed node, threads do not block each other
for good, cleanup ends and nothing uses the kernel afterwards.

### 2. Memory and lock tables of the v2.0 kernel

`create_shared_memory`, `write_shared_memory`, `read_shared_memory`,
`acquire_distributed_lock` (polls every 10 ms up to a timeout),
`release_distributed_lock`.  Only the command loop reaches them, so their
hazards are those of one thread: full tables, results that `run_demo` does not
look at, the sentence "Lectura verificada" it prints anyway.

### 3. The default network build, `src/network_discovery.c` and `src/main_network.c`

*State.*  Per machine: the node table (`nodes[MAX_NODES]`, `node_count`,
`active`, `last_seen`) under `nodes_lock`; the scheduler's task table; two
`running` flags (kernel, network manager).

*Operations.*  Request broadcast every five seconds; listener: update or append
the sender's entry, answer requests; heartbeat thread: deactivate nodes not
heard for `NODE_TIMEOUT`; `schedule_task`: look over the nodes, send the task
over TCP or keep it; data server: receive tasks; signals; a shutdown that
broadcasts a leave message and joins the protocol's threads.

*Hard.*  Datagrams lost, reordered and late; crash and restart; a table read
without its mutex up to a count taken earlier, where the count is that of the
active entries; hand-over failing at four points; a listener blocked in `recvfrom`
during shutdown.

*Correct when.*  A table never has two entries for an id nor one for its own
node, nodes that stay up find each other, a node that is gone is deactivated, a
task goes to one node once and is recorded where it went, the loop without the
mutex stays within the table, shutdown ends.

### 4. The Alpine build, `src/main_alpine.c`

The same protocol in one file, with differences: a task is only recorded with the
best node and not sent to it; the best node is sought under `nodes_lock` over the
whole table; no data server and no leave message; without an argument the
kernel's own id is 0 while the network manager generates another; a shutdown that
joins its threads while the listener may be blocked in `recvfrom`.

### 5. The simulation library

`src/scheduler/scheduler.c` (table of tasks, `scheduler_lock`),
`src/memory/memory_manager.c` (table of blocks, `memory_lock`, and a mutex in each
block), `src/fault_tolerance/fault_manager.c` (monitor thread, failure and recovery
of simulated nodes, checkpoints of their states, `ftm->lock`).  The monitor calls
the other two with its lock held.  `src/common.h` has the types.  It is a
library: no program of the repository calls it, so that its callers, as many
threads as they like since every structure has its lock, are the environment.

*Hard.*  Node states read under one lock and written under another; a failure
handled in two critical sections of the scheduler, with reports between them; a
submission that fails after taking its id; reference counts changed under
two different mutexes, in a block that may be freed meanwhile and its memory given
out again; counters that go up in one function and down in another.

*Correct when.*  A node whose failure was handled runs nothing, a completed task is
not run again, `failed_nodes` counts, and a block is freed with its last
reference, neither under a holder nor never.

### 6. `src/sync/sync.c`

Lamport's mutual exclusion over messages with a two-second limit after which the
mutex is taken for granted; a generation-counted barrier; a logical clock.
*Correct when* nobody leaves a round of the barrier before all have come, all
leave then, and the granting rule orders those that ask.

### 7. `src/network/network.c`, `src/network/discovery.c`

A TCP listener and a discovery with two threads, each with a table of nodes: an
early form of part 3, called by nothing.

### 8. `kernel_64bit.c`

A program of one thread: it creates tasks, assigns them by scores of nodes and
shares memory blocks, each with a readers/writers lock made of separate atomic
operations and a futex (lines 444-487), the part that is meant for several threads.
*Correct when* the lock excludes, wakes whom it put to sleep, and writers get in.

### 9. `dfs.h`

A file system in blocks: per-file readers/writers locks, one table of all blocks
without a lock, a cache of blocks with a mutex.
*Hard.*  Ranges that start and end inside blocks, files that grow, blocks without
a place in the table, blocks never written, unprotected appends to the table, and
a cache lookup that releases its mutex inside its loop and again behind it.
*Correct when* no two files share a block, what is read without the cache is what
was written, and copies and entries stay within their buffers and arrays.  The last
the code does not achieve, not even for one caller; what the models say is what it
takes to get there.

### 10. `distributed_syscalls.h`

Asynchronous calls with completion records, and batches.  A continuation of a file
that the repository does not have.

### 11. The rest

`src/kernel/kernel.c` and `src/main.c` (early prototypes), `src/ml/ml_lib.c`
(floating-point numerics on one thread, outside what TLC evaluates),
`main_complete.c` (calls what no file declares; `logs.txt` records that it does not
compile), build and ISO scripts (shell; `create_iso.sh` embeds a shortened copy of
`decentralized_os.c`).

## The v2.0 kernel: `DecosKernel`

### Correspondence

One node is modelled with all its threads; the other nodes are the environment
that sends it discovery messages.  `pc[t]` is where thread `t` is.  Taking a mutex
is a step, guarded by the mutex being free, and each part of a critical section up
to the next lock or unlock is a step.

| code | model |
|---|---|
| `g_kernel`, `g_kernel->running`, `free(g_kernel)` | `g_kernel` in running / stopping / freed / null |
| `registry->lock`, `scheduler->lock` | `registryLock`, `schedulerLock` (owner, or `NoThread`) |
| `registry->nodes[].status`, `.tasks_completed`, presence | `status`, `tasksCredited` (by id; "absent") |
| `now - last_seen > HEARTBEAT_TIMEOUT` | `silent`: the nodes for which it holds at the detector's `now` |
| `scheduler->tasks[]`, counters | `tasks`, `nextTaskId`, `totalAssigned`, `totalCompleted` |
| `discovery_listener_thread`, `process_discovery_message` | `Receive`, `RegisterLock`, `Register`, `ListenStop` |
| `failure_detector_thread` | `WatchTest` (loop test and `now`), `WatchLock`, `MarkFailed`, `FailoverLock`, `Failover`, `ScanDone` |
| `data_server_thread` | `ServeTest`, `ServeAccept` |
| `create_task` with `select_best_node` | `CreateLock`, `CreateFull`, `CreateSlot`, `SelectLock`, `SelectBestNode`, `CreateAssign` |
| `complete_task` | `CompleteLock`, `CompleteTask`, `CompleteNothing`, `CreditLock`, `Credit`, `CompleteUnlock` |
| `command_thread`, `run_demo` | `CommandTest`, `Report`, `TaskCommand`, `RunDemo`, `Quit`; `NextCall` sequences the demo's three creations and one completion |
| the signal handler | `HandleSignal` |
| `cleanup`, the end of `main` | `JoinThreads`, `FreeKernel`, `ClearPointer`, `Return` |
| `init_kernel`, `start_threads` | `Init`, `FirstLabel` |

*What is abstracted.*  Scores, loads and reputations decide only which of the
active nodes is best, so `SelectBestNode` chooses any node that
`select_best_node` considers.  Message types that change nothing, and turns
that read no datagram, are no steps.  A heartbeat's payload always says `NODE_ACTIVE` with zero
counters, since no code writes `local_info` after it is set up; `Register`
writes those values.  The detector at `reselect` waits for a mutex that it
holds itself: the mutex is created with default attributes, so that no action
leaves that label.  What a thread reads through the dangling pointer may be
anything: `ServeTest` goes either way.

### The abstract specification

`TaskLedger` has no threads, locks or nodes that fail: tasks get consecutive ids, are
completed at most once, and stay.  `ImplementsLedger` maps its `ledger` to `tasks`
and `done` to `totalCompleted`.  The statement is not idle: `complete_task` does
not look at the status of the task (`decentralized_os.c:731`), so that what
keeps a task from being completed and counted twice is the sequence of calls
that `run_demo` makes and the fact that ids are not reused.

### Runs

| run | instance | shows |
|---|---|---|
| `kernel` | 2 peers, `MaxNodes` 2, `MaxTasks` 2, data socket | every interleaving of the threads, signals and cleanup keeps `TypeOK`, `LockDiscipline`, `TaskAccounting`, `NoOrphanTask`, `HangNeedsFailover`, `CreditBounded` and `ImplementsLedger` |
| `live` | 2 peers, `MaxNodes` 1, `MaxTasks` 1, no data socket, `FairSpec` | more peers than the registry holds: `TablesBounded`, and commands return, cleanup ends, silent nodes are marked, each unless the kernel is stopped or has hung |
| `free` | 1 peer | **violated**, see below |
| `failover` | 1 peer, `FairSpec` | **violated**, see below |

*Bounds.*  The tables' sizes are the only bounds: state is finite because tasks
are never removed and the task table is full in the end.  Two tasks let the demo
meet a full table between two of its own calls, two peers let one fail while
the other is chosen, and one registry entry for two peers exercises the dropped
one.  `TypeOK`, the counters, the bounds, the lock discipline, orphan and hang
properties and the refinement are proved for all sizes, so that these runs are
the check of the statements and not the argument for them.  Peers are symmetric:
no definition tells one from another; the runs with liveness use no symmetry.
`CHECK_DEADLOCK FALSE`: the system stops when `main` has returned, and it may
hang, which `HangNeedsFailover` describes exactly.

*Fairness.*  Weak for each thread's own steps: the operating system runs a
thread that can run.  Strong for taking a mutex: others take and release it again
and again, each sleeping 10 ms to 5 s between two critical sections, so a waiter
gets it in the end.  None for operator input (`Commands`), datagrams (`Receive`)
and signals.

### What the code does otherwise than it says

* `failover`: `failure_detector_thread` holds the registry's mutex when it calls
  `select_best_node` (`decentralized_os.c:1090`), which locks it again (line
  613).  The thread blocks itself with both mutexes held, so that the open task
  of a failed node is never moved, although the demo says "Migración automática
  de tareas habilitada" (line 1456).  `HangNeedsFailover` says that this is
  the only way into a hang: the opposite lock orders of lines 1069-1081 and
  672/747 meet in the same situation only.
* `free`: `cleanup` ("Esperar threads", line 1629) joins three of the four threads
  and frees the kernel; the data server goes on reading it until `main` returns.

### Proofs, `DecosKernelProofs`

From the module's assumptions (`Local` is no peer, finitely many peers, table
sizes in `Nat`, a Boolean socket, `NoThread` is no thread), for every value of the
constants:

| theorem | statement | by |
|---|---|---|
| `TypeCorrect` | `Spec => []TypeOK` | `TypeInv`: `TypeOK` and how many calls a command has left at each label |
| `LocksCorrect` | `Spec => []LockDiscipline` | inductive with `TypeInv`; everything below stands on it |
| `FreedCorrect` | `Spec => []FreedAfterJoin` | `CleanupStages`: what each stage of cleanup implies about the joined threads and the pointer |
| `OrphanCorrect` | `Spec => []NoOrphanTask` | `OrphanInv`: with `LateAssignment`, which says that a node chosen by `create_task` and failed before the task is stored has its detector still waiting for the scheduler |
| `HangCorrect` | `Spec => []HangNeedsFailover` | from the lock discipline: outside a failover the wait-for relation has no cycle |
| `AccountingCorrect` | `Spec => []TaskAccounting` | `LedgerInv` (ids, counters, the demo's `t1`) and `CountInv` (the cardinality of the completed tasks) |
| `CreditCorrect` | `Spec => []CreditBounded` | `CreditInv`: what a peer is credited with, and the completion `complete_task` has counted and not yet credited, are together no more than the closed tasks of that peer |
| `BoundsCorrect` | `Spec => []TablesBounded` | `KnownFits`, and `RoomInv`: between `create_task`'s test and its append nobody else uses the slot |
| `LedgerImplemented` | `Spec => ImplementsLedger` | initial states map to initial states; each step to a `TaskLedger` step or a stutter, with `DemoInv`: the task `run_demo` completes is open |

`CreditInv` is inductive only with the pending credit counted in: between the two
steps of a completion the table has the task closed and the registry does not know.
Every step but three leaves the closed tasks of a peer and its credit alone
(lemma `CreditStep`); a heartbeat or a registration only takes credit away.

The liveness properties are model-checked only, because
the prover handles neither fairness nor `ENABLED`.

## The default build: `NetDiscovery` and `NetKernel`

### Correspondence

Several machines with crashes and restarts.  `NetDiscovery` has the protocol's
variables and actions and leaves the rest of the program to the module over it;
`NetKernel` adds the command thread, the data server and `main`.

| code | model |
|---|---|
| the process, `g_kernel->running`, `g_network->running` | `proc[n]`: down / up / quitting / leaving; `boots[n]` counts the starts |
| `g_network->nodes[0 .. node_count-1]` | `nodes[n]`, a sequence of `[node_id, active]` |
| `now - last_seen > NODE_TIMEOUT` at the heartbeat thread's instant | `judged[n]` |
| datagrams on the wire | `net` (a set: lost and reordered at will) |
| `send_discovery_broadcast` | `SendDiscoveryBroadcast(n, reach)` |
| `discovery_listener_thread` | `ListenerReceive(n, m, answers)` with `Upsert`, `Answers` |
| `heartbeat_thread` | `HeartbeatRead` (the clock, before the mutex), `HeartbeatScan` |
| `shutdown_network_discovery` | `ShutdownNetworkDiscovery`, `ShutdownEnd` |
| `schedule_task` | `TaskCommand`, `Evaluate`, `EvaluateDone`, `FindTarget`, `ConnectFails`, `SendTask`, `Store` |
| `get_active_nodes` | the `count` that `TaskCommand` takes |
| `find_best_node_for_task` | `Evaluate`, one round of the loop, without the mutex |
| `send_data_to_node` | `FindTarget`, `ConnectFails`, `SendTask` |
| `data_server_thread` | `Serve(n, c, whole)`, short reads included |
| `command_thread`'s `exit` and end of input | `ExitCommand`, `EndOfInput` |
| signals, `main` | `HandleSignal`, `Start`, `Shutdown`, `End`; `Fail` is a crash |

*What is abstracted.*  Loads decide only which active node has the best score:
`Evaluate` takes any active entry or keeps the previous one.  Addresses are taken
to be right; what `network_discovery.c:139` and `:290` do with a node whose
own address is unknown is outside the model.  A machine's node id is the machine.
`nodes_lock` protects sections without another lock or I/O whose result
matters, so each is one step; the one reader that does not use it is step by
step.  Freeing and returning from `main` are one step.

### Runs

| run | instance | shows |
|---|---|---|
| `net` | 2 machines, one operator, 2 boots, 2 commands, 1 task, 1 datagram, loopback | `TypeOK`, `IndexInTable`, `OneNodePerTask`, `RecordedWhereSent` through crashes, restarts, failed connections, lost tasks, a full task table |
| `netlive` | 2 machines, 2 boots, loopback, `FairSpec` | `DiscoveryConverges`, `GoneForgotten`, `ShutdownEnds` |
| `netprefix` | 3 machines, one operator | **violated**, see below |

*Bounds.*  `MaxInFlight` bounds datagrams on the wire.  A datagram that is not read
yet can be overtaken, lost or read after its sender is gone with one in flight
already, since the sender goes on meanwhile; loss keeps a full wire from
blocking a sender.  `MaxBoots` 2 gives each machine a restart, with its id and task numbers
starting over; `MaxCommands` exceeds `MaxTasks`, so that a command meets the
full table.  The safety properties are proved for all values of these bounds.
`Operated` names the machines whose terminal delivers lines; it keeps the second
machine's command thread, which is the same, from squaring the states.
`TableSound` is proved here and checked by run `alpine`, below, where a table is really full.
`CHECK_DEADLOCK FALSE`: with all boots used up and all machines down nothing happens.

*Fairness.*  For each ordered pair of nodes, broadcasts from one reach the other
again and again if they are sent again and again (strong: one every five seconds,
and the network does not lose everything); a listener reads what waits in its
socket from each sender in turn (weak); the timeout of a machine that is gone and
has no datagram left on the wire runs out (strong, since the heartbeat thread's
instant recurs); the heartbeat thread uses the instant it read, and `main`
finishes the shutdown (weak).  Operators, signals, crashes and starts owe nothing.
`ShutdownEnds` rests on `Loopback`: the listener blocks in `recvfrom` without a
timeout, and what wakes it for sure is the node's own leave message, which Linux
delivers back to the sender's broadcast socket.

### What the code does otherwise than it says

`netprefix`: `get_active_nodes` returns the number of active nodes and copies the
whole array, inactive entries included; the loop in `find_best_node_for_task`
("Evaluar cada nodo activo", `src/main_network.c:72`) uses that number as
the bound of its index.  With an inactive entry before an active one the active one
is never evaluated.  The same fact has a good side, `IndexInTable`: the loop reads
the table after its mutex was released and never leaves it, because the
number of active entries is at most the length and entries are never removed.

### Proofs, `NetKernelProofs`

For any set of machines and any values of the bounds, from the named assumptions
(`MaxNodes`, `MaxTasks`, the bounds in `Nat`, `Loopback` Boolean):

| theorem | statement | by |
|---|---|---|
| `TypeCorrect` | `Spec => []TypeOK` | `TypeInv`: types, `count` at most the table's length, room in the task table while a command is at work, threads only on machines that run |
| `IndexCorrect` | `Spec => []IndexInTable` | the conjunct of `TypeInv`; lemma `ActiveCount` bounds the active entries by the length, `UpsertTable` and `DeactivatedTable` show that tables never shrink |
| `TablesCorrect` | `Spec => []TableSound` | `SoundTable` in `NetDiscoveryProofs`: positions are injective in the ids and no id is the machine's own; the cardinality form follows |
| `OneNodeCorrect` | `Spec => []OneNodePerTask` | `DispatchInv`: nothing sent carries a boot or task number that is still to come (`Claim`, `Current`), and a task that is being decided has not been sent |
| `RecordCorrect` | `Spec => []RecordedWhereSent` | the same invariant |

The three liveness properties stay with TLC.

## The Alpine build: `AlpineKernel`

### Correspondence

The file has its own copy of the discovery protocol; line by line its listener,
broadcast and heartbeat threads have the steps of `NetDiscovery`, which the module
extends.  What is different is the program around it.

| code | model |
|---|---|
| `g_kernel->running`, `g_kernel->network->running` | `proc[n]`, as in `NetDiscovery` |
| `generate_node_id` in `init_network` (lines 608-640) | an unnamed machine's next life is another element of `Nodes`; `Unnamed` of them run at a time |
| the kernel's own id, `atoi(argv[1])` or 0 | `KernelId(n)` |
| `discovery_thread`, `listener_thread`, `heartbeat_thread` | `Broadcast`, `Receive`, `Heartbeat` |
| `command_thread` | `ReportCommand`, `TaskCommand`, `ExitCommand`, `EndOfInput` |
| `schedule_task`, `find_best_node_for_task` | `TaskCommand` (the test of the table), `FindBestNode`, `StoreTask` |
| `main`, the signal handler | `Start`, `CreateCommandThread`, `HandleSignal`, `StopNetwork`, `End`; `Fail` is a crash |

*What is abstracted.*  Loads: any active node, or the kernel's own id, may score
best.  The scheduler's mutex has one user.  The joins, frees and the return of `main`
are one step: the command thread, which is not joined, may still read what is freed
(lines 705-713), the hazard that `DecosKernel` takes apart for its data server.

### Run `alpine`

Three ids, none of them given as an argument, two machines at a time, node tables with
room for **one** entry, `FairSpec`: two lives of one machine and one of another, so
that a table is full of an entry of an earlier life when the next one is heard.  One
task fits, two commands come, one datagram is on the wire, and no loopback, the
unfavourable case for the shutdown.  One machine has an operator.
`TableSound` is the statement of `NetDiscovery`, `AssignedKnown` that of the task list
against the node list, and `ExitEnds` answers the help text "exit - Sale del sistema"
(line 571): the join of a listener blocked in `recvfrom` returns if another machine goes
on broadcasting.  On a network without one it does not, which is why the
statement has its second alternative; run `netlive` shows the leave message of the
default build doing without it.  `CHECK_DEADLOCK FALSE` as for `net`.

*Fairness.*  As for `NetKernel`: broadcasts of others get through now and then
(strong), waiting datagrams are read, the heartbeat thread and `main` go on (weak).

### Proofs, `AlpineKernelProofs`

| theorem | statement | by |
|---|---|---|
| `TypeCorrect` | `Spec => []TypeOK` | `TypeInv`: `TypeOK`, and room in the task table between its test and the append |
| `TablesCorrect` | `Spec => []TableSound` | the lemmas of `NetDiscoveryProofs` |
| `AssignedCorrect` | `Spec => []AssignedKnown` | `KnownInv`: a node that was chosen is known until its task is stored, because no step removes an id from a table of a running program (`IdsKept`) |

## The simulation library: `FaultManager` over `TaskScheduler` and `MemoryManager`

### Correspondence

| code | model |
|---|---|
| `nodes[].status` | `status` |
| `scheduler->tasks[]`, `next_task_id`, a caller's `Task.task_id` | `tasks`, `nextId`, `draft` |
| `schedule_task` with `assign_task_to_node` | `ScheduleLock`, `ScoreNode` (one node per step: another lock protects what it reads), `ScheduleStore` |
| `update_task_status`, `reschedule_failed_tasks` | `UpdateTaskStatus`, `Rescheduled` |
| `memory_blocks[]`, and where `malloc` put each of them | `blocks`, with `address` |
| `memory_lock`, `mem->lock` | `freeing` is not empty, `locked` |
| `allocate_shared_memory` | `AllocateSharedMemory`, at any address that no block of the table has |
| `free_shared_memory` | `FreeRead`, `FreeStore`, `FreeTest`: line 56 loads the count and stores it less one, line 58 tests what was stored or loads it again (the compiler may do either, and the test of both is in the model) |
| `replicate_memory` | `ReplicateRead`, `ReplicateWrite`: load and store of line 136 under the block's mutex only, on the memory that the caller's pointer points to |
| `replicate_memory`, called by the fault manager | `ReplicateOwned`: under `memory_lock` and the block's mutex, one step |
| `heartbeat_monitor_thread` | `MonitorTest`, `MonitorLock`, `MarkFailed`, `MonitorUnlock` |
| `handle_node_failure` | `Requeue`, `Reschedule`, `Replicate` |
| `recover_node`, `simulate_node_failure` | `RecoverNode`, `SimulateNodeFailure` |
| `create_checkpoint`, `restore_checkpoint` | `CreateCheckpoint`, `RestoreCheckpoint` |
| `start_fault_tolerance`, `stop_fault_tolerance` | `StartFaultTolerance`, `StopFaultTolerance` |

*What is abstracted.*  Time: any node may be found too old by any pass.  Scores: any
eligible node may win, all of them above the initial -1.  Contents of blocks,
reputations, and counters that are only printed are left out.
`handled` is a history variable.  So are `references` (what the count of a block would
be had no update been lost), `overlaps` (pairs of a free and a replication whose updates
of the count overlap) and `reused` (addresses that `malloc` gave out again while a
replication that began on the block before was still to write).  Such a late write
changes the count of the new block and releases its mutex; on memory that
nobody was given again it changes nothing that is read.  A caller replicates a block that
is in the table when the call begins.

### Run `fault`

Two client threads, two nodes, one task, a table of two blocks allocated at two
addresses, each with room for two replicas, one checkpoint, and one simulated failure or
restore; clients and addresses are symmetric.  One task is
enough for statements about a task, two clients for one that submits, or
frees, while another reports or replicates; two nodes are the failed one and the one the
task moves to.  Two allocations let memory be given out again under a late writer, two
replicas let a block lose an update in either direction and be freed once
more after it.  One alteration makes every state of the array reachable at
the wrong moment, and behaviours without any are those `FailuresCounted` speaks of.

`OneSide` constrains the search: a behaviour either never allocates a block, or never
submits a task, saves or alters a state, stops the monitor or has both nodes fail.  The
scheduler and the memory manager share no variable and no lock; the one action that
changes both is `Replicate`, which reads `status` and picks a node that is no
failed one, and one failed node of two is all that leaves it a choice.  The other side
can delay it, and nothing else, which no safety property sees.  The theorems below do not
depend on the constraint.
Deadlock is checked: the monitor can always be started, sleep or test.

`RelievedOfTasks` is the promise of the comment "Reasignar tareas del nodo fallido"
(`fault_manager.c:47`).  It is not obvious: `schedule_task` may find a node in order
and store its task when the node has failed, and what saves it is that the monitor
marks the node before it waits for `scheduler_lock`.  A simulated failure does not
pass through the monitor, so that its tasks stay; `handled` holds the others.
`FreedAtLastReference` is what a caller expects of reference counts, with the exact
price of the two mutexes: a block that is freed has no more references left than pairs of
calls have overlapped on it, and a call that leaves the block where it is leaves it with
a reference or with such a pair.  Without a pair a block goes with its last
reference.  With one, TLC shows both outcomes: the decrement is lost and the block stays
for good, or the increment is lost and the block is freed under the node that holds it.
The property says nothing of a block in memory given out again under a late writer,
whose count then is whatever that writer read long ago.

### Proofs, `FaultManagerProofs`

| theorem | statement | by |
|---|---|---|
| `TypeCorrect` | `Spec => []TypeOK` | `TypeInv`: `TypeOK`, `SchedInv` (room in the table inside the critical section, at most one client there) and `Handling` (the node under treatment has failed) |
| `RelievedCorrect` | `Spec => []RelievedOfTasks` | `RelievedInv`: nodes that were handled have failed, and the best node of a client inside `schedule_task` is none of them |
| `FailuresCorrect` | `Spec => []FailuresCounted` | inductive with `TypeInv`: `MarkFailed` adds one node to the failed ones, `RecoverNode` removes one, and nothing else changes a status without counting as an alteration |
| `CompletedCorrect` | `Spec => CompletedStaysDone` | an action property: each step is one that leaves the task's status, stores another task, or reports |
| `FreedCorrect` | `Spec => FreedAtLastReference` | `MemInv`: one call frees at a time and, in memory that was not given out again, one copies a block at a time (`MutexInv`); ids and addresses are unique (`IdsInv`); and `Counted` |

`FreedAtLastReference` alone cannot be carried from step to step: a call writes back, or
tests, a count it read under one mutex while another call, under the other, changes it.
`Counted` bounds the distance to the true number of references of three values at
once, the count in the block, the one a free holds and the one a replication holds, by
`overlaps`; a call whose update is yet to meet another's has one overlap to spare, which
is the one that the meeting costs (`Within`).

## The readers/writers lock of `kernel_64bit.c`: `RwLock64`

### Correspondence

| code | model |
|---|---|
| `mem->readers`, `mem->writers`, `mem->lock` | `readers`, `writers`, `lock` |
| `acquire_read_lock_64` | `AcquireRead`, `CheckWriters`, `AnnounceReader`, `RecheckWriters`, `RetractReader` |
| `release_read_lock_64` | `ReleaseRead` |
| `acquire_write_lock_64` | `AcquireWrite`, `DrainReaders`, `ExchangeLock`, `FutexWait`, `Interrupted` |
| `release_write_lock_64` | `ReleaseWrite`, `FutexWake`, `WithdrawWriter` |

Each atomic operation and each call of futex is a step; the operations are sequentially
consistent, the default of `atomic_load` and its like.  Spinning and sleeping change
nothing and are left out as steps.  A thread takes the lock once and releases it as
it took it.  `kernel_64bit.c` itself uses the lock from its only thread; the
threads are any number of future users.

### The abstract specification and run `rwlock`

`ReadersWriters` has two sets, of those that read and those that write.
`ImplementsReadersWriters` maps them to the threads at the labels `reading` and
`writing`.  The run has four threads: two writers, one of them asleep when a reader
backs off and a third writer arrives.  `FairSpec` is weak fairness for the steps
inside the lock's functions and the release (each is a thread that can run, or that
sleeps 1 microsecond), none for asking for the lock nor for signals.
`WritersProgress` is progress of *some* waiting writer; a single one may be
overtaken for ever, and readers have no such promise, since two writers that alternate
keep them out.  Deadlock is checked.

### Proofs, `RwLock64Proofs`

| theorem | statement | by |
|---|---|---|
| `TypeCorrect` | `Spec => []TypeOK` | `Count`: each counter is the cardinality of the threads at certain labels, hence never below zero |
| `ExclusionCorrect` | `Spec => []Exclusion` | `LockInv`: a writer that found no reader counted keeps all out, being counted itself, and the word is 1 exactly while one writes |
| `WakeupCorrect` | `Spec => []NoLostWakeup` | inductive with `LockInv` |
| `LockImplements` | `Spec => ImplementsReadersWriters` | each step is a step of `ReadersWriters` or leaves both sets alone |

## Barrier and Lamport mutex: `LibSync`

### Correspondence

| code | model |
|---|---|
| `barrier->arrived_count`, `barrier->generation`, the local `my_generation` | variables of these names |
| a node's `LamportMutex` | `mutex[n]` |
| `wait_at_barrier` | `WaitAtBarrier` (with `Arrive` and `Sleep` or `Open`), `Spurious`, `Retest` |
| `acquire_distributed_lock` | `Acquire`, `Granted`, `TimeOut` |
| `release_distributed_lock`, `handle_lock_reply` | `Release`, `HandleLockReply` |
| `handle_lock_request` | `ShouldGrant`, which decides and changes nothing |

`arrived` and `left` are history variables.  Replies are sent by no code ("En
implementación real", line 32) and so may come at any time, late ones included, up to
`MaxReplies`.  The `if` of line 98 compares a variable with itself: the signal is
always sent, and the loop tests the count anyway.

### Run `sync`

Three nodes, two rounds of the barrier, each node asks twice and counts at most two
replies.  Three nodes are needed for one that still wakes up from a round while
another has come to the next and the third is between them; two rounds for the
barrier's reuse.  Fairness is weak: a thread that was woken runs.  A round is left
by all whatever happens to their mutexes.  Deadlock is not checked: nodes that have used up their rounds and
requests stop.  `OneIsFirst` says that the granting rule is a strict order in which
simultaneous requests have one first; that only the first holds the mutex is
**not** promised, because of the timeout ("asumiendo granted", line 44).

### Proofs, `LibSyncProofs`

| theorem | statement | by |
|---|---|---|
| `RoundsCorrect` | `Spec => []RoundsTogether` | `RoundInv`: how far each node has come from its label and its generation; `CountInv`: `arrived_count` is the number of nodes counted in the present round |
| `TypeCorrect` | `Spec => []TypeOK` | the same invariant |
| `OrderCorrect` | `Spec => []OneIsFirst` | types, and the least pair of timestamp and id (lemma `Least`) |

## The distributed file system: `Dfs`

### Correspondence

| code | model |
|---|---|
| `file->size`, `file->block_list`, `file->lock` | `size`, `list`, `writer` and `readers` |
| the blocks that were allocated, `next_block_id` | `blocks`, by id |
| `g_dfs->block_table`, `block_count` | `table`, `count` |
| `g_dfs->cache` | `entries`, `cached`, `cache_lock` |
| `dfs_create_file` | `CreateFile` |
| `dfs_write` | `StartWrite`, `Extend`, `LoadCount`, `StoreSlot`, `StoreCount`, `StoreBlock`, `EndWrite` |
| `dfs_read`, search of the cache (454-478) | `StartRead`, `Lookup`, `Scan` (one entry per step; a hit copies the block), `Unlock` (474 after a hit, with which the search goes on; 478 at its end) |
| `dfs_read`, the block's table (480-510) | `Fetch`, after a hit as after a miss |
| `dfs_read`, insertion (513-523) | `InsertLock`, `TestRoom`, `TakeEntry` and `Grow` (the load and the store of `count++`), `Name`, `Fill`, `Unlock` |
| `block_offset`, `block_size` of lines 402-407 | `BlockOffset`, `PieceSize` |

A byte is the value its write was given with its place in that write's buffer, so that
a byte in the wrong place is told from the right one.  `content` holds what the
file should contain.  The accesses of `block_table[block_count++]` are steps of their
own, and so are those of the cache, which has a mutex but loses it: `continue` at line
475 goes on with the loop over the *cache*, so that a reader that was served searches on
without the mutex, releases it again at 478 and, if another has taken it meanwhile, takes it
from under that one.  A mutex that is not held can be released (the default kind
of the C library lets it pass); `stray` remembers that a thread has done so.
A search of the block table is one step, and so are the data of a new entry.

What the code has no right to do ends the run with `fault`, of its kind:

| `fault` | what happens |
|---|---|
| `length` | `block_size` is negative, and wraps in a `size_t` (404, 465, 504) |
| `buffer` | a copy passes the end of the caller's buffer (410, 469, 509) |
| `null` | a search meets a slot of the block table that is `NULL` (392, 484) |
| `table` | a block is stored behind the table (377) |
| `data` | a hit copies from an entry without data (469) |
| `entries` | an entry behind the array is read or written (456, 516) |

### Run `dfs`

Two clients, two files, blocks of two bytes, a table for two blocks, a cache for two,
and three calls over the ranges (0,4), (0,2), (1,2), (2,2): two blocks, one block, a range
that crosses blocks, and one that leaves a hole.  Three calls are a writer of two blocks
and two readers, whose second reads block one from the cache while the first inserts
block two: with a cache of two entries that is what it takes for two insertions to
pass the test at 514 and overflow it, and the run reaches that, as it does every kind of
`fault`.  Clients are symmetric, and so are the two values.
`CHECK_DEADLOCK FALSE`: a run ends with its calls or with a fault.

`TypeOK` has the bounds of both tables.  That of the cache holds until `stray`, and
not longer: then `cached` can be three.

`ColdReadsTrue` speaks of reads that met no cache entry, of files no write on which
came back short: the cache is not told of writes, a hit copies its block and then the
table's copy again, and a block that found no room in the table is skipped.  For
what is left the statement is that of any file system.

`FaultsNeedCause` gives for each kind of fault what must have happened, as narrowly as the
code allows.  Of the six, one client alone can meet two: `length`, with a range that
begins inside a block and ends exactly with it (line 404 takes the remainder of the end,
which is zero there), and `buffer`, with nearly any hit, since the block is copied twice; it also releases a mutex that nobody holds.
`null` needs a client between the two stores of an append, `table` a test that
another's append has overtaken, `data` a client that is just filling the entry in,
together with a reader that has lost the mutex, and `entries` a mutex that was released by a
thread that did not hold it.  That in turn needs a hit, ever: a program whose reads are
never served by the cache keeps the mutex, the bound of the cache and its callers'
buffers.

### Proofs, `DfsProofs`

| theorem | statement | by |
|---|---|---|
| `TypeCorrect` | `Spec => []TypeOK` | `IInv`: types, `Client` (where each client is in its call: its block lies in the list, its slot in the table) and `BlocksOwned`; and `CacheInv` for the bound of the cache |
| `OwnedCorrect` | `Spec => []BlocksOwned` | `IInv`; ids are unique because `next_block_id` is taken atomically, and lemmas about division relate positions to blocks |
| `FaultsCorrect` | `Spec => []FaultsNeedCause` | `CacheInv`, `PendingInv` and, for the buffers, `BytesInv` |
| `ColdReadsCorrect` | `Spec => []ColdReadsTrue` | `ColdInv`: `LockInv` (a file's lock is held by exactly the clients at work on it), `HistoryInv` (what was written has the size of the file) and `BytesInv` |

`CacheInv` says what the mutex is worth.  Until `stray` the client inside an insertion
holds it (`Holds`), so that the count it tested is the one it loads and the slot it took
is the only one not yet filled in; a client that searches holds it or has had a hit
(`Searches`), and that is what a stray release comes from.

`PendingInv` accounts for the empty slots: every slot within `block_count` is
stored or belongs to a client that is about to store it, also when appends race for one
slot and one count overtakes another (`Filled`, `Counts`), and every entry that has
an id has data or a client that is filling it in (`Whole`).

`BytesInv` is the heart of the last one, and bounds what a call has copied.  A file nobody writes has in its blocks what
was written, and zeros behind its end, at every place (`Kept`).  While a writer is at
work the blocks hold that content with the first bytes of its buffer laid over it, as
many as the blocks it has passed can take (`Writing`, `Laid`, `Reach`).  A reader has
collected the content up to its own reach (`Reading`).  Statements about other clients need the
lock: a step of a writer disturbs no reader of the same file because there is none, and no
other file because of `BlocksOwned`.  A call that loses a piece to a full table or an
empty slot never catches up with its reach, which is how a short call is told from a whole
one (lemma `ReachGrows`).  The lemmas about division (`Quotient`, `PieceReach`, `PlaceOf`,
`PieceInFile`) relate the lengths of lines 402-407 to places in the file; the arithmetic
is for any block size.

## What only TLC checks, and what no run checks

* Liveness under fairness and `ENABLED` are beyond the prover: `CommandsReturn`,
  `CleanupEnds`, `SilenceDetected`, `DiscoveryConverges`, `GoneForgotten`,
  `ShutdownEnds`, `ExitEnds`, `WritersProgress`, `AllLeave` and the
  refuted properties are model-checked.
* No safety property is model-checked only: each invariant, action property and
  refinement that a passing run checks is also the statement of a theorem.
* The prover cannot use induction over data or `RECURSIVE` operators; no module needs
  either.
* Halves of hazards that no run covers: that a node heard while the failure detector or
  the periodic check waits for the lock stays active, that a full node table goes on
  refreshing the nodes it has, that a node whose failure was simulated is handled when it
  really fails (it is not: the monitor passes over it), and what follows when several
  nodes take the Lamport mutex for granted after their two seconds.
* What a read returns that the cache has served; see run `dfs`.
* Nothing checks delivery of a task after it was sent: the code does not look
  at what `send` returns and promises nothing.
* The handler of a signal that arrives during `free` is in the model
  (`faults` holds "signal") without a property: the repository says nothing of it.

## Not modelled

* **Memory and lock tables of `decentralized_os.c`** (inventory 2).  The command loop is
  their only caller; no thread meets another there and nothing fails but a full
  table.  `migrate_task` of the same file has no caller.
* **`src/network/network.c`, `src/network/discovery.c`.**  Nothing calls them and they
  refer to nothing else: each has a listener thread that fills a table of nodes, and no
  code reads either table.  The protocol they became is modelled (`NetDiscovery`).
* **`distributed_syscalls.h`.**  The first part of the file is missing: `syscall_context_t`
  and `syscall_table`, on which every function acts, are defined nowhere.
* **`kernel_64bit.c` apart from its lock.**  One thread creates tasks and picks nodes by
  floating-point scores; migration copies a structure and sends it nowhere.
* **`dfs.h` apart from files, blocks and cache.**  Directories, replication, stripes and
  statistics fill arrays under one lock; calls of size zero are left out.
* **Contents of blocks, logical clock, clean-up functions of the simulation library.**
  Copies under one mutex, updates of one line, and frees that run when all is over.
* **`src/kernel/kernel.c`, `src/main.c`.**  Prototypes of one thread and a monitor over
  simulated nodes; no build rule compiles them.
* **`src/ml/ml_lib.c`**: floating-point numerics.  **`main_complete.c`**: does not
  compile.  **Scripts**: shell.

## Possible extensions

* The block and lock tables of `decentralized_os.c` with `run_demo` repeated until the
  table is full: "Escritura/Lectura verificada" (line 1433) does not look at what the
  calls returned.
* An abstract file for `Dfs`, with writes and cold reads as single steps: `ColdInv` has
  what its refinement mapping needs, but for the fault, after which the code's
  behaviour is undefined.
* An abstract barrier for `LibSync`, of which `RoundsTogether` and `AllLeave` are the
  safety and the liveness half.
