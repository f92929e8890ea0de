--------------------------- MODULE DecosKernelProofs ---------------------------
(***************************************************************************)
(* What DecosKernel guarantees for every set of peers and every table size. *)
(***************************************************************************)
EXTENDS DecosKernel, SequenceTheorems, FiniteSetTheorems, TLAPS

(* create_task is only ever entered with a call left to make.                *)
CreateLabels == {"create_lock", "create_slot", "select_lock", "select", "create_assign"}
CallsLeft == pc["main"] \in CreateLabels => creates \in 1..3

TypeInv == TypeOK /\ CallsLeft

USE PeersAssumption, BoundsAssumption, SocketAssumption, NoThreadAssumption

LEMMA InitTypeInv == Init => TypeInv
  BY EmptySeq DEF Init, FirstLabel, TypeInv, TypeOK, CallsLeft, CreateLabels, PcType,
     Threads, Nodes, Labels, MainLabels, DiscoveryLabels, HeartbeatLabels,
     DetectorLabels, ServerLabels

LEMMA NextTypeInv == TypeInv /\ [Next]_vars => TypeInv'
<1> SUFFICES ASSUME TypeInv, [Next]_vars PROVE TypeInv'
  OBVIOUS
<1> USE DEF TypeInv, TypeOK, CallsLeft, CreateLabels, PcType, Threads, Nodes, Labels,
            MainLabels, DiscoveryLabels, HeartbeatLabels, DetectorLabels, ServerLabels,
            Running, Live, Goto, kernelVars, registryVars, schedulerVars, mainVars
<1>1. CASE Discovery
  <2>1. CASE ListenStop
    BY <2>1 DEF ListenStop
  <2>2. ASSUME NEW n \in Peers, Receive(n) PROVE TypeInv'
    BY <2>2 DEF Receive
  <2>3. CASE RegisterLock
    BY <2>3 DEF RegisterLock
  <2>4. CASE Register
    <3>1. /\ status' \in [Peers -> {"absent", "ACTIVE", "FAILED"}]
          /\ tasksCredited' \in [Peers -> Nat]
          /\ silent' \subseteq Peers
      <4>1. status' \in [Peers -> {"absent", "ACTIVE", "FAILED"}]
        BY <2>4, SMTT(30) DEF Register
      <4>2. tasksCredited' \in [Peers -> Nat]
        BY <2>4, SMTT(30) DEF Register
      <4>3. silent' \subseteq Peers
        BY <2>4, SMTT(30) DEF Register
      <4> QED
        BY <4>1, <4>2, <4>3
    <3>2. PcType' /\ CallsLeft'
      BY <2>4 DEF Register
    <3>3. registryLock' \in Threads \cup {NoThread} /\ sender' \in Nodes
      BY <2>4 DEF Register
    <3> QED
      BY <2>4, <3>1, <3>2, <3>3 DEF Register
  <2> QED
    BY <1>1, <2>1, <2>2, <2>3, <2>4 DEF Discovery
<1>2. CASE Heartbeat
  BY <1>2 DEF Heartbeat, BeatStop
<1>3. CASE Detector
  <2>1. CASE WatchTest
    BY <2>1 DEF WatchTest, Known
  <2>2. CASE WatchLock
    BY <2>2 DEF WatchLock
  <2>3. ASSUME NEW n \in Peers, MarkFailed(n) PROVE TypeInv'
    BY <2>3 DEF MarkFailed, Active
  <2>4. CASE ScanDone
    BY <2>4 DEF ScanDone, Active
  <2>5. CASE FailoverLock
    BY <2>5 DEF FailoverLock
  <2>6. CASE Failover
    BY <2>6 DEF Failover
  <2> QED
    BY <1>3, <2>1, <2>2, <2>3, <2>4, <2>5, <2>6 DEF Detector
<1>4. CASE DataServer
  <2>1. CASE ServeTest
    BY <2>1 DEF ServeTest
  <2>2. CASE ServeAccept
    BY <2>2 DEF ServeAccept, Deref
  <2> QED
    BY <1>4, <2>1, <2>2 DEF DataServer
<1>5. CASE Commands
  <2>1. CASE Report
    BY <2>1 DEF Report
  <2>2. CASE TaskCommand
    BY <2>2 DEF TaskCommand, NextCall
  <2>3. CASE RunDemo
    BY <2>3 DEF RunDemo, NextCall
  <2>4. CASE Quit
    BY <2>4 DEF Quit
  <2> QED
    BY <1>5, <2>1, <2>2, <2>3, <2>4 DEF Commands
<1>6. CASE ReadRegistry \/ ReadScheduler \/ CommandTest
  <2>1. CASE ReadRegistry
    BY <2>1 DEF ReadRegistry
  <2>2. CASE ReadScheduler
    BY <2>2 DEF ReadScheduler
  <2>3. CASE CommandTest
    BY <2>3 DEF CommandTest
  <2> QED
    BY <1>6, <2>1, <2>2, <2>3
<1>7. CASE CreateTask
  <2>1. CASE CreateLock
    BY <2>1 DEF CreateLock
  <2>2. CASE CreateFull
    BY <2>2 DEF CreateFull, ReturnId, NextCall
  <2>3. CASE CreateSlot
    BY <2>3 DEF CreateSlot
  <2>4. CASE SelectLock
    BY <2>4 DEF SelectLock
  <2>5. CASE SelectBestNode
    BY <2>5 DEF SelectBestNode, Active
  <2>6. CASE CreateAssign
    BY <2>6 DEF CreateAssign, ReturnId, NextCall, Task, TaskStatus
  <2> QED
    BY <1>7, <2>1, <2>2, <2>3, <2>4, <2>5, <2>6 DEF CreateTask
<1>8. CASE Complete
  <2>1. CASE CompleteLock
    BY <2>1 DEF CompleteLock
  <2>2. ASSUME NEW i \in DOMAIN tasks, CompleteTask(i) PROVE TypeInv'
    <3>1. tasks[i] \in Task
      BY <2>2
    <3>2. Completed(tasks[i]) \in Task
      BY <3>1 DEF Completed, Task, TaskStatus
    <3>3. tasks' \in Seq(Task)
      BY <2>2, <3>2 DEF CompleteTask
    <3>4. target' \in Nodes
      BY <2>2, <3>1 DEF CompleteTask, Task
    <3> QED
      BY <2>2, <3>3, <3>4 DEF CompleteTask
  <2>3. CASE CompleteNothing
    BY <2>3 DEF CompleteNothing
  <2>4. CASE CreditLock
    BY <2>4 DEF CreditLock
  <2>5. CASE Credit
    BY <2>5 DEF Credit
  <2>6. CASE CompleteUnlock
    BY <2>6 DEF CompleteUnlock, NextCall
  <2> QED
    BY <1>8, <2>1, <2>2, <2>3, <2>4, <2>5, <2>6 DEF Complete
<1>9. CASE Cleanup
  <2>1. CASE JoinThreads
    <3>1. ASSUME NEW t \in Threads, NEW here \in MainLabels, NEW next \in MainLabels,
                 next \notin CreateLabels, Join(t, here, next)
          PROVE TypeInv'
      BY <3>1 DEF Join
    <3> QED
      BY <2>1, <3>1 DEF JoinThreads
  <2>2. CASE FreeKernel
    BY <2>2 DEF FreeKernel
  <2>3. CASE ClearPointer
    BY <2>3 DEF ClearPointer
  <2>4. CASE Return
    BY <2>4 DEF Return
  <2> QED
    BY <1>9, <2>1, <2>2, <2>3, <2>4 DEF Cleanup
<1>10. CASE HandleSignal
  BY <1>10 DEF HandleSignal, Deref
<1>11. CASE UNCHANGED vars
  BY <1>11 DEF vars
<1> QED
  BY <1>1, <1>2, <1>3, <1>4, <1>5, <1>6, <1>7, <1>8, <1>9, <1>10, <1>11 DEF Next, Main

(* Every variable of the kernel stays in its range.                          *)
THEOREM TypeCorrect == Spec => []TypeOK
<1>1. Spec => []TypeInv
  BY InitTypeInv, NextTypeInv, PTL DEF Spec
<1> QED
  BY <1>1, PTL DEF TypeInv

-----------------------------------------------------------------------------
(* The mutexes.                                                            *)

LEMMA InitLocks == Init => LockDiscipline
  BY DEF Init, FirstLabel, LockDiscipline, HoldsRegistry, HoldsScheduler, Threads

LEMMA NextLocks == TypeInv /\ LockDiscipline /\ [Next]_vars => LockDiscipline'
<1> SUFFICES ASSUME TypeInv, LockDiscipline, [Next]_vars PROVE LockDiscipline'
  OBVIOUS
<1> USE DEF TypeInv, TypeOK, PcType, Threads, LockDiscipline, HoldsRegistry,
            HoldsScheduler, MainLabels, DiscoveryLabels, HeartbeatLabels,
            DetectorLabels, ServerLabels, Goto
<1>1. CASE Discovery
  <2>1. CASE ListenStop
    BY <2>1 DEF ListenStop
  <2>2. ASSUME NEW n \in Peers, Receive(n) PROVE LockDiscipline'
    BY <2>2 DEF Receive
  <2>3. CASE RegisterLock
    BY <2>3 DEF RegisterLock
  <2>4. CASE Register
    BY <2>4 DEF Register
  <2> QED
    BY <1>1, <2>1, <2>2, <2>3, <2>4 DEF Discovery
<1>2. CASE Heartbeat
  BY <1>2 DEF Heartbeat, BeatStop
<1>3. CASE Detector
  <2>1. CASE WatchTest
    BY <2>1 DEF WatchTest
  <2>2. CASE WatchLock
    BY <2>2 DEF WatchLock
  <2>3. ASSUME NEW n \in Peers, MarkFailed(n) PROVE LockDiscipline'
    BY <2>3 DEF MarkFailed
  <2>4. CASE ScanDone
    BY <2>4 DEF ScanDone
  <2>5. CASE FailoverLock
    BY <2>5 DEF FailoverLock
  <2>6. CASE Failover
    BY <2>6 DEF Failover
  <2> QED
    BY <1>3, <2>1, <2>2, <2>3, <2>4, <2>5, <2>6 DEF Detector
<1>4. CASE DataServer
  <2>1. CASE ServeTest
    BY <2>1 DEF ServeTest
  <2>2. CASE ServeAccept
    BY <2>2 DEF ServeAccept
  <2> QED
    BY <1>4, <2>1, <2>2 DEF DataServer
<1>5. CASE Commands
  <2>1. CASE Report
    BY <2>1 DEF Report
  <2>2. CASE TaskCommand
    BY <2>2 DEF TaskCommand, NextCall
  <2>3. CASE RunDemo
    BY <2>3 DEF RunDemo, NextCall
  <2>4. CASE Quit
    BY <2>4 DEF Quit
  <2> QED
    BY <1>5, <2>1, <2>2, <2>3, <2>4 DEF Commands
<1>6. CASE ReadRegistry \/ ReadScheduler \/ CommandTest
  <2>1. CASE ReadRegistry
    BY <2>1 DEF ReadRegistry
  <2>2. CASE ReadScheduler
    BY <2>2 DEF ReadScheduler
  <2>3. CASE CommandTest
    BY <2>3 DEF CommandTest
  <2> QED
    BY <1>6, <2>1, <2>2, <2>3
<1>7. CASE CreateTask
  <2>1. CASE CreateLock
    BY <2>1 DEF CreateLock
  <2>2. CASE CreateFull
    BY <2>2 DEF CreateFull, ReturnId, NextCall
  <2>3. CASE CreateSlot
    BY <2>3 DEF CreateSlot
  <2>4. CASE SelectLock
    BY <2>4 DEF SelectLock
  <2>5. CASE SelectBestNode
    BY <2>5 DEF SelectBestNode
  <2>6. CASE CreateAssign
    BY <2>6 DEF CreateAssign, ReturnId, NextCall
  <2> QED
    BY <1>7, <2>1, <2>2, <2>3, <2>4, <2>5, <2>6 DEF CreateTask
<1>8. CASE Complete
  <2>1. CASE CompleteLock
    BY <2>1 DEF CompleteLock
  <2>2. ASSUME NEW i \in DOMAIN tasks, CompleteTask(i) PROVE LockDiscipline'
    BY <2>2 DEF CompleteTask
  <2>3. CASE CompleteNothing
    BY <2>3 DEF CompleteNothing
  <2>4. CASE CreditLock
    BY <2>4 DEF CreditLock
  <2>5. CASE Credit
    BY <2>5 DEF Credit
  <2>6. CASE CompleteUnlock
    BY <2>6 DEF CompleteUnlock, NextCall
  <2> QED
    BY <1>8, <2>1, <2>2, <2>3, <2>4, <2>5, <2>6 DEF Complete
<1>9. CASE Cleanup
  <2>1. CASE JoinThreads
    BY <2>1 DEF JoinThreads, Join
  <2>2. CASE FreeKernel
    BY <2>2 DEF FreeKernel
  <2>3. CASE ClearPointer
    BY <2>3 DEF ClearPointer
  <2>4. CASE Return
    BY <2>4 DEF Return
  <2> QED
    BY <1>9, <2>1, <2>2, <2>3, <2>4 DEF Cleanup
<1>10. CASE HandleSignal
  BY <1>10 DEF HandleSignal
<1>11. CASE UNCHANGED vars
  BY <1>11 DEF vars
<1> QED
  BY <1>1, <1>2, <1>3, <1>4, <1>5, <1>6, <1>7, <1>8, <1>9, <1>10, <1>11 DEF Next, Main

(* Each mutex is owned exactly by the thread inside one of its critical      *)
(* sections.                                                                 *)
THEOREM LocksCorrect == Spec => []LockDiscipline
<1>1. Spec => [](TypeInv /\ LockDiscipline)
  BY InitTypeInv, NextTypeInv, InitLocks, NextLocks, PTL DEF Spec
<1> QED
  BY <1>1, PTL

-----------------------------------------------------------------------------
(* cleanup.                                                                *)

(* What each stage of cleanup knows: the threads joined so far have ended,   *)
(* none of them starts again once the kernel is stopping, and the memory is  *)
(* released after the last join only.                                        *)
Ended(t) == pc[t] = "exit"
CleanupStages ==
    /\ pc["main"] \in {"join_heartbeat", "join_detector", "free", "clear", "return", "done"}
         => Ended("discovery")
    /\ pc["main"] \in {"join_detector", "free", "clear", "return", "done"}
         => Ended("heartbeat")
    /\ pc["main"] \in {"free", "clear", "return", "done"} => Ended("detector")
    /\ ~Live => pc["main"] \in {"clear", "return", "done"}

LEMMA InitCleanup == Init => CleanupStages
  BY DEF Init, FirstLabel, CleanupStages, Ended, Live, Threads

LEMMA NextCleanup == TypeInv /\ CleanupStages /\ [Next]_vars => CleanupStages'
<1> SUFFICES ASSUME TypeInv, CleanupStages, [Next]_vars PROVE CleanupStages'
  OBVIOUS
<1> USE DEF TypeInv, TypeOK, PcType, Threads, CleanupStages, Ended, Live, Running,
            MainLabels, DiscoveryLabels, HeartbeatLabels, DetectorLabels, ServerLabels,
            Goto, kernelVars
<1>1. CASE Discovery
  <2>1. CASE ListenStop
    BY <2>1 DEF ListenStop
  <2>2. ASSUME NEW n \in Peers, Receive(n) PROVE CleanupStages'
    BY <2>2 DEF Receive
  <2>3. CASE RegisterLock
    BY <2>3 DEF RegisterLock
  <2>4. CASE Register
    BY <2>4 DEF Register
  <2> QED
    BY <1>1, <2>1, <2>2, <2>3, <2>4 DEF Discovery
<1>2. CASE Heartbeat
  BY <1>2 DEF Heartbeat, BeatStop
<1>3. CASE Detector
  <2>1. CASE WatchTest
    BY <2>1 DEF WatchTest
  <2>2. CASE WatchLock
    BY <2>2 DEF WatchLock
  <2>3. ASSUME NEW n \in Peers, MarkFailed(n) PROVE CleanupStages'
    BY <2>3 DEF MarkFailed
  <2>4. CASE ScanDone
    BY <2>4 DEF ScanDone
  <2>5. CASE FailoverLock
    BY <2>5 DEF FailoverLock
  <2>6. CASE Failover
    BY <2>6 DEF Failover
  <2> QED
    BY <1>3, <2>1, <2>2, <2>3, <2>4, <2>5, <2>6 DEF Detector
<1>4. CASE DataServer
  <2>1. CASE ServeTest
    BY <2>1 DEF ServeTest
  <2>2. CASE ServeAccept
    BY <2>2 DEF ServeAccept
  <2> QED
    BY <1>4, <2>1, <2>2 DEF DataServer
<1>5. CASE Commands
  <2>1. CASE Report
    BY <2>1 DEF Report
  <2>2. CASE TaskCommand
    BY <2>2 DEF TaskCommand, NextCall
  <2>3. CASE RunDemo
    BY <2>3 DEF RunDemo, NextCall
  <2>4. CASE Quit
    BY <2>4 DEF Quit
  <2> QED
    BY <1>5, <2>1, <2>2, <2>3, <2>4 DEF Commands
<1>6. CASE ReadRegistry \/ ReadScheduler \/ CommandTest
  <2>1. CASE ReadRegistry
    BY <2>1 DEF ReadRegistry
  <2>2. CASE ReadScheduler
    BY <2>2 DEF ReadScheduler
  <2>3. CASE CommandTest
    BY <2>3 DEF CommandTest
  <2> QED
    BY <1>6, <2>1, <2>2, <2>3
<1>7. CASE CreateTask
  <2>1. CASE CreateLock
    BY <2>1 DEF CreateLock
  <2>2. CASE CreateFull
    BY <2>2 DEF CreateFull, ReturnId, NextCall
  <2>3. CASE CreateSlot
    BY <2>3 DEF CreateSlot
  <2>4. CASE SelectLock
    BY <2>4 DEF SelectLock
  <2>5. CASE SelectBestNode
    BY <2>5 DEF SelectBestNode
  <2>6. CASE CreateAssign
    BY <2>6 DEF CreateAssign, ReturnId, NextCall
  <2> QED
    BY <1>7, <2>1, <2>2, <2>3, <2>4, <2>5, <2>6 DEF CreateTask
<1>8. CASE Complete
  <2>1. CASE CompleteLock
    BY <2>1 DEF CompleteLock
  <2>2. ASSUME NEW i \in DOMAIN tasks, CompleteTask(i) PROVE CleanupStages'
    BY <2>2 DEF CompleteTask
  <2>3. CASE CompleteNothing
    BY <2>3 DEF CompleteNothing
  <2>4. CASE CreditLock
    BY <2>4 DEF CreditLock
  <2>5. CASE Credit
    BY <2>5 DEF Credit
  <2>6. CASE CompleteUnlock
    BY <2>6 DEF CompleteUnlock, NextCall
  <2> QED
    BY <1>8, <2>1, <2>2, <2>3, <2>4, <2>5, <2>6 DEF Complete
<1>9. CASE Cleanup
  <2>1. CASE JoinThreads
    BY <2>1 DEF JoinThreads, Join
  <2>2. CASE FreeKernel
    BY <2>2 DEF FreeKernel
  <2>3. CASE ClearPointer
    BY <2>3 DEF ClearPointer
  <2>4. CASE Return
    BY <2>4 DEF Return
  <2> QED
    BY <1>9, <2>1, <2>2, <2>3, <2>4 DEF Cleanup
<1>10. CASE HandleSignal
  BY <1>10 DEF HandleSignal
<1>11. CASE UNCHANGED vars
  BY <1>11 DEF vars
<1> QED
  BY <1>1, <1>2, <1>3, <1>4, <1>5, <1>6, <1>7, <1>8, <1>9, <1>10, <1>11 DEF Next, Main

(* cleanup frees the kernel only after the three threads it joins have ended. *)
THEOREM FreedCorrect == Spec => []FreedAfterJoin
<1>1. TypeInv /\ CleanupStages => FreedAfterJoin
  BY DEF CleanupStages, FreedAfterJoin, Ended
<1>2. Spec => [](TypeInv /\ CleanupStages)
  BY InitTypeInv, NextTypeInv, InitCleanup, NextCleanup, PTL DEF Spec
<1> QED
  BY <1>1, <1>2, PTL

-----------------------------------------------------------------------------
(* Open tasks and failed nodes.                                            *)

(* The detector remembers the node it fails over; a task main is about to    *)
(* store on a node that failed since it was chosen will still be seen by the *)
(* scan of that node, which cannot run while main holds the scheduler.       *)
LateAssignment ==
    pc["main"] = "create_assign" /\ target \in Peers /\ status[target] = "FAILED"
        => pc["detector"] = "failover_lock" /\ failing = target

OrphanInv == NoOrphanTask /\ LateAssignment

LEMMA InitOrphan == Init => OrphanInv
  BY DEF Init, FirstLabel, OrphanInv, NoOrphanTask, LateAssignment, Threads

LEMMA NextOrphan ==
    TypeInv /\ LockDiscipline /\ OrphanInv /\ [Next]_vars => OrphanInv'
<1> SUFFICES ASSUME TypeInv, LockDiscipline, OrphanInv, [Next]_vars PROVE OrphanInv'
  OBVIOUS
<1> USE DEF TypeInv, TypeOK, PcType, Threads, Nodes, OrphanInv, NoOrphanTask, LateAssignment,
            InFailover, LockDiscipline, HoldsRegistry, HoldsScheduler, Open, Goto,
            MainLabels, DiscoveryLabels, HeartbeatLabels, DetectorLabels, ServerLabels,
            registryVars, schedulerVars, mainVars
<1>1. CASE Discovery
  <2>1. CASE ListenStop
    BY <2>1 DEF ListenStop
  <2>2. ASSUME NEW n \in Peers, Receive(n) PROVE OrphanInv'
    BY <2>2 DEF Receive
  <2>3. CASE RegisterLock
    BY <2>3 DEF RegisterLock
  <2>4. CASE Register
    BY <2>4 DEF Register
  <2> QED
    BY <1>1, <2>1, <2>2, <2>3, <2>4 DEF Discovery
<1>2. CASE Heartbeat
  BY <1>2 DEF Heartbeat, BeatStop
<1>3. CASE Detector
  <2>1. CASE WatchTest
    BY <2>1 DEF WatchTest
  <2>2. CASE WatchLock
    BY <2>2 DEF WatchLock
  <2>3. ASSUME NEW n \in Peers, MarkFailed(n) PROVE OrphanInv'
    BY <2>3 DEF MarkFailed, Active
  <2>4. CASE ScanDone
    BY <2>4 DEF ScanDone
  <2>5. CASE FailoverLock
    BY <2>5 DEF FailoverLock
  <2>6. CASE Failover
    BY <2>6 DEF Failover, OpenOn
  <2> QED
    BY <1>3, <2>1, <2>2, <2>3, <2>4, <2>5, <2>6 DEF Detector
<1>4. CASE DataServer
  <2>1. CASE ServeTest
    BY <2>1 DEF ServeTest
  <2>2. CASE ServeAccept
    BY <2>2 DEF ServeAccept
  <2> QED
    BY <1>4, <2>1, <2>2 DEF DataServer
<1>5. CASE Commands
  <2>1. CASE Report
    BY <2>1 DEF Report
  <2>2. CASE TaskCommand
    BY <2>2 DEF TaskCommand, NextCall
  <2>3. CASE RunDemo
    BY <2>3 DEF RunDemo, NextCall
  <2>4. CASE Quit
    BY <2>4 DEF Quit
  <2> QED
    BY <1>5, <2>1, <2>2, <2>3, <2>4 DEF Commands
<1>6. CASE ReadRegistry \/ ReadScheduler \/ CommandTest
  <2>1. CASE ReadRegistry
    BY <2>1 DEF ReadRegistry
  <2>2. CASE ReadScheduler
    BY <2>2 DEF ReadScheduler
  <2>3. CASE CommandTest
    BY <2>3 DEF CommandTest
  <2> QED
    BY <1>6, <2>1, <2>2, <2>3
<1>7. CASE CreateTask
  <2>1. CASE CreateLock
    BY <2>1 DEF CreateLock
  <2>2. CASE CreateFull
    BY <2>2 DEF CreateFull, ReturnId, NextCall
  <2>3. CASE CreateSlot
    BY <2>3 DEF CreateSlot
  <2>4. CASE SelectLock
    BY <2>4 DEF SelectLock
  <2>5. CASE SelectBestNode
    BY <2>5 DEF SelectBestNode, Active
  <2>6. CASE CreateAssign
    BY <2>6 DEF CreateAssign, ReturnId, NextCall
  <2> QED
    BY <1>7, <2>1, <2>2, <2>3, <2>4, <2>5, <2>6 DEF CreateTask
<1>8. CASE Complete
  <2>1. CASE CompleteLock
    BY <2>1 DEF CompleteLock
  <2>2. ASSUME NEW i \in DOMAIN tasks, CompleteTask(i) PROVE OrphanInv'
    <3>1. \A j \in DOMAIN tasks' : Open(j)' => tasks'[j] = tasks[j] /\ Open(j)
      BY <2>2 DEF CompleteTask, Completed
    <3>2. UNCHANGED <<status, failing>> /\ pc'["detector"] = pc["detector"]
          /\ DOMAIN tasks' = DOMAIN tasks
      BY <2>2 DEF CompleteTask
    <3>3. pc'["main"] = "credit_lock"
      BY <2>2 DEF CompleteTask
    <3> QED
      BY <3>1, <3>2, <3>3
  <2>3. CASE CompleteNothing
    BY <2>3 DEF CompleteNothing
  <2>4. CASE CreditLock
    BY <2>4 DEF CreditLock
  <2>5. CASE Credit
    BY <2>5 DEF Credit
  <2>6. CASE CompleteUnlock
    BY <2>6 DEF CompleteUnlock, NextCall
  <2> QED
    BY <1>8, <2>1, <2>2, <2>3, <2>4, <2>5, <2>6 DEF Complete
<1>9. CASE Cleanup
  <2>1. CASE JoinThreads
    BY <2>1 DEF JoinThreads, Join
  <2>2. CASE FreeKernel
    BY <2>2 DEF FreeKernel
  <2>3. CASE ClearPointer
    BY <2>3 DEF ClearPointer
  <2>4. CASE Return
    BY <2>4 DEF Return
  <2> QED
    BY <1>9, <2>1, <2>2, <2>3, <2>4 DEF Cleanup
<1>10. CASE HandleSignal
  BY <1>10 DEF HandleSignal
<1>11. CASE UNCHANGED vars
  BY <1>11 DEF vars
<1> QED
  BY <1>1, <1>2, <1>3, <1>4, <1>5, <1>6, <1>7, <1>8, <1>9, <1>10, <1>11 DEF Next, Main

(* A task is left open on a failed node only while the detector is inside    *)
(* the failover of that node.                                                *)
THEOREM OrphanCorrect == Spec => []NoOrphanTask
<1>1. Spec => [](TypeInv /\ LockDiscipline /\ OrphanInv)
  BY InitTypeInv, NextTypeInv, InitLocks, NextLocks, InitOrphan, NextOrphan, PTL DEF Spec
<1> QED
  BY <1>1, PTL DEF OrphanInv

-----------------------------------------------------------------------------
(* Deadlock.                                                               *)

LEMMA NoHangOutsideFailover == TypeInv /\ LockDiscipline => HangNeedsFailover
<1> SUFFICES ASSUME TypeInv, LockDiscipline, ~InFailover,
                    NEW S \in SUBSET Threads, Deadlocked(S)
             PROVE  FALSE
  BY DEF HangNeedsFailover, Hung, Waiting
<1> USE DEF TypeInv, TypeOK, PcType, Threads, InFailover,
            MainLabels, DiscoveryLabels, HeartbeatLabels, DetectorLabels, ServerLabels
(* Whoever holds the registry outside a failover runs on.                    *)
<1>1. \A u \in S : ~HoldsRegistry(u)
  <2> SUFFICES ASSUME NEW u \in S, HoldsRegistry(u) PROVE FALSE
    OBVIOUS
  <2>1. ~WantsRegistry(u) /\ ~WantsScheduler(u)
        /\ pc[u] \notin {"join_discovery", "join_heartbeat", "join_detector"}
    BY DEF HoldsRegistry, WantsRegistry, WantsScheduler
  <2> QED
    BY <2>1 DEF Deadlocked, WaitsFor
<1>2. \A t, u \in S : ~(WantsRegistry(t) /\ registryLock = u)
  BY <1>1 DEF LockDiscipline
(* Outside a failover only main holds the scheduler, and then it waits for   *)
(* nothing but the registry.                                                 *)
<1>3. \A u \in S : ~HoldsScheduler(u)
  <2> SUFFICES ASSUME NEW u \in S, HoldsScheduler(u) PROVE FALSE
    OBVIOUS
  <2>1. ~WantsScheduler(u)
        /\ pc[u] \notin {"join_discovery", "join_heartbeat", "join_detector"}
    BY DEF HoldsScheduler, WantsScheduler
  <2> QED
    BY <1>2, <2>1 DEF Deadlocked, WaitsFor
<1>4. \A t, u \in S : ~(WantsScheduler(t) /\ schedulerLock = u)
  BY <1>3 DEF LockDiscipline
(* What is left is main joining a thread, which waits for no one.            *)
<1>5. \A t \in S : pc[t] \in {"join_discovery", "join_heartbeat", "join_detector"}
  BY <1>2, <1>4 DEF Deadlocked, WaitsFor
<1>6. PICK t \in S, u \in S : WaitsFor(t, u)
  BY DEF Deadlocked
<1>7. u \in {"discovery", "heartbeat", "detector"}
  BY <1>2, <1>4, <1>6 DEF WaitsFor
<1> QED
  BY <1>5, <1>7

(* Threads block each other for good only once a failover has begun.         *)
THEOREM HangCorrect == Spec => []HangNeedsFailover
<1>1. Spec => [](TypeInv /\ LockDiscipline)
  BY InitTypeInv, NextTypeInv, InitLocks, NextLocks, PTL DEF Spec
<1> QED
  BY <1>1, NoHangOutsideFailover, PTL

-----------------------------------------------------------------------------
(* The task table.                                                         *)

CompleteLabels == {"complete_lock", "complete", "credit_lock", "credit", "complete_unlock"}

(* Ids are the positions in the table and the counters follow it.            *)
TableInv ==
    /\ \A i \in DOMAIN tasks : tasks[i].task_id = i
    /\ totalAssigned = Len(tasks)
    /\ nextTaskId = Len(tasks)
         + (IF pc["main"] \in {"select_lock", "select", "create_assign"} THEN 1 ELSE 0)

(* run_demo completes the task its first create_task call returned, which is *)
(* still open then: no one else completes tasks.                             *)
DemoInv ==
    /\ pc["main"] \in CompleteLabels => command = "demo"
    /\ command = "demo" /\ t1 # 0
       /\ (\/ pc["main"] \in CreateLabels /\ creates < 3
           \/ pc["main"] \in {"complete_lock", "complete"})
         => t1 \in DOMAIN tasks /\ Open(t1)

LedgerInv == TableInv /\ DemoInv

LEMMA InitLedger == Init => LedgerInv
  BY DEF Init, FirstLabel, LedgerInv, TableInv, DemoInv, CompleteLabels, CreateLabels, Threads

LEMMA NextLedger == TypeInv /\ LedgerInv /\ [Next]_vars => LedgerInv'
<1> SUFFICES ASSUME TypeInv, LedgerInv, [Next]_vars PROVE LedgerInv'
  OBVIOUS
<1> USE DEF TypeInv, TypeOK, CallsLeft, PcType, Threads, LedgerInv, TableInv, DemoInv,
            CompleteLabels, CreateLabels, Open, Goto, schedulerVars, mainVars,
            MainLabels, DiscoveryLabels, HeartbeatLabels, DetectorLabels, ServerLabels
<1>1. CASE Discovery
  <2>1. CASE ListenStop
    BY <2>1 DEF ListenStop
  <2>2. ASSUME NEW n \in Peers, Receive(n) PROVE LedgerInv'
    BY <2>2 DEF Receive
  <2>3. CASE RegisterLock
    BY <2>3 DEF RegisterLock
  <2>4. CASE Register
    BY <2>4 DEF Register
  <2> QED
    BY <1>1, <2>1, <2>2, <2>3, <2>4 DEF Discovery
<1>2. CASE Heartbeat
  BY <1>2 DEF Heartbeat, BeatStop
<1>3. CASE Detector
  <2>1. CASE WatchTest
    BY <2>1 DEF WatchTest
  <2>2. CASE WatchLock
    BY <2>2 DEF WatchLock
  <2>3. ASSUME NEW n \in Peers, MarkFailed(n) PROVE LedgerInv'
    BY <2>3 DEF MarkFailed
  <2>4. CASE ScanDone
    BY <2>4 DEF ScanDone
  <2>5. CASE FailoverLock
    BY <2>5 DEF FailoverLock
  <2>6. CASE Failover
    BY <2>6 DEF Failover
  <2> QED
    BY <1>3, <2>1, <2>2, <2>3, <2>4, <2>5, <2>6 DEF Detector
<1>4. CASE DataServer
  <2>1. CASE ServeTest
    BY <2>1 DEF ServeTest
  <2>2. CASE ServeAccept
    BY <2>2 DEF ServeAccept
  <2> QED
    BY <1>4, <2>1, <2>2 DEF DataServer
<1>5. CASE Commands
  <2>1. CASE Report
    BY <2>1 DEF Report
  <2>2. CASE TaskCommand
    BY <2>2 DEF TaskCommand, NextCall
  <2>3. CASE RunDemo
    BY <2>3 DEF RunDemo, NextCall
  <2>4. CASE Quit
    BY <2>4 DEF Quit
  <2> QED
    BY <1>5, <2>1, <2>2, <2>3, <2>4 DEF Commands
<1>6. CASE ReadRegistry \/ ReadScheduler \/ CommandTest
  <2>1. CASE ReadRegistry
    BY <2>1 DEF ReadRegistry
  <2>2. CASE ReadScheduler
    BY <2>2 DEF ReadScheduler
  <2>3. CASE CommandTest
    BY <2>3 DEF CommandTest
  <2> QED
    BY <1>6, <2>1, <2>2, <2>3
<1>7. CASE CreateTask
  <2>1. CASE CreateLock
    BY <2>1 DEF CreateLock
  <2>2. CASE CreateFull
    BY <2>2 DEF CreateFull, ReturnId, NextCall
  <2>3. CASE CreateSlot
    BY <2>3 DEF CreateSlot
  <2>4. CASE SelectLock
    BY <2>4 DEF SelectLock
  <2>5. CASE SelectBestNode
    BY <2>5 DEF SelectBestNode
  <2>6. CASE CreateAssign
    BY <2>6 DEF CreateAssign, ReturnId, NextCall
  <2> QED
    BY <1>7, <2>1, <2>2, <2>3, <2>4, <2>5, <2>6 DEF CreateTask
<1>8. CASE Complete
  <2>1. CASE CompleteLock
    BY <2>1 DEF CompleteLock
  <2>2. ASSUME NEW i \in DOMAIN tasks, CompleteTask(i) PROVE LedgerInv'
    <3>1. DOMAIN tasks' = DOMAIN tasks /\ Len(tasks') = Len(tasks)
      BY <2>2 DEF CompleteTask
    <3>2. \A j \in DOMAIN tasks' : tasks'[j].task_id = tasks[j].task_id
      BY <2>2 DEF CompleteTask, Completed
    <3>3. UNCHANGED <<totalAssigned, nextTaskId, command>> /\ pc'["main"] = "credit_lock"
      BY <2>2 DEF CompleteTask
    <3>4. pc["main"] = "complete"
      BY <2>2 DEF CompleteTask
    <3> QED
      BY <3>1, <3>2, <3>3, <3>4
  <2>3. CASE CompleteNothing
    BY <2>3 DEF CompleteNothing
  <2>4. CASE CreditLock
    BY <2>4 DEF CreditLock
  <2>5. CASE Credit
    BY <2>5 DEF Credit
  <2>6. CASE CompleteUnlock
    BY <2>6 DEF CompleteUnlock, NextCall
  <2> QED
    BY <1>8, <2>1, <2>2, <2>3, <2>4, <2>5, <2>6 DEF Complete
<1>9. CASE Cleanup
  <2>1. CASE JoinThreads
    BY <2>1 DEF JoinThreads, Join
  <2>2. CASE FreeKernel
    BY <2>2 DEF FreeKernel
  <2>3. CASE ClearPointer
    BY <2>3 DEF ClearPointer
  <2>4. CASE Return
    BY <2>4 DEF Return
  <2> QED
    BY <1>9, <2>1, <2>2, <2>3, <2>4 DEF Cleanup
<1>10. CASE HandleSignal
  BY <1>10 DEF HandleSignal
<1>11. CASE UNCHANGED vars
  BY <1>11 DEF vars
<1> QED
  BY <1>1, <1>2, <1>3, <1>4, <1>5, <1>6, <1>7, <1>8, <1>9, <1>10, <1>11 DEF Next, Main

(* Only two steps of the kernel change the table: main stores the task it    *)
(* prepared, or completes one that is open.                                  *)
LEMMA LedgerStep ==
    ASSUME TypeInv, LedgerInv, [Next]_vars
    PROVE  \/ UNCHANGED <<tasks, totalCompleted>>
           \/ \E n \in Nodes : Ledger!Assign(n)
           \/ \E i \in DOMAIN tasks : Ledger!Complete(i)
<1> USE DEF schedulerVars
<1>1. CASE CreateAssign
  <2>1. nextTaskId = Len(tasks) + 1 /\ UNCHANGED totalCompleted
    BY <1>1 DEF CreateAssign, LedgerInv, TableInv
  <2>2. target \in Nodes
    BY DEF TypeInv, TypeOK
  <2> QED
    BY <1>1, <2>1, <2>2 DEF CreateAssign, Ledger!Assign
<1>2. ASSUME NEW i \in DOMAIN tasks, CompleteTask(i)
      PROVE  Ledger!Complete(i)
  <2>1. tasks[i].task_id = i /\ t1 = i /\ t1 # 0
    BY <1>2 DEF CompleteTask, LedgerInv, TableInv, TypeInv, TypeOK
  <2>2. Open(i)
    BY <1>2, <2>1 DEF CompleteTask, LedgerInv, DemoInv, CompleteLabels
  <2> QED
    BY <1>2, <2>1, <2>2 DEF CompleteTask, Completed, Open, Ledger!Complete
<1>3. CASE Discovery \/ Heartbeat \/ Detector \/ DataServer
  BY <1>3 DEF Discovery, ListenStop, Receive, RegisterLock, Register, Heartbeat, BeatStop,
     Detector, WatchTest, WatchLock, MarkFailed, ScanDone, FailoverLock, Failover,
     DataServer, ServeTest, ServeAccept
<1>4. CASE Commands \/ ReadRegistry \/ ReadScheduler \/ CommandTest
  BY <1>4 DEF Commands, Report, TaskCommand, RunDemo, Quit, ReadRegistry, ReadScheduler,
     CommandTest
<1>5. CASE CreateLock \/ CreateFull \/ CreateSlot \/ SelectLock \/ SelectBestNode
  BY <1>5 DEF CreateLock, CreateFull, CreateSlot, SelectLock, SelectBestNode
<1>6. CASE CompleteLock \/ CompleteNothing \/ CreditLock \/ Credit \/ CompleteUnlock
  BY <1>6 DEF CompleteLock, CompleteNothing, CreditLock, Credit, CompleteUnlock
<1>7. CASE Cleanup \/ HandleSignal
  BY <1>7 DEF Cleanup, JoinThreads, Join, FreeKernel, ClearPointer, Return, HandleSignal
<1>8. CASE UNCHANGED vars
  BY <1>8 DEF vars
<1> QED
  BY <1>1, <1>2, <1>3, <1>4, <1>5, <1>6, <1>7, <1>8 DEF Next, Main, CreateTask, Complete

(* The kernel implements the plain ledger of tasks.                          *)
THEOREM LedgerImplemented == Spec => ImplementsLedger
<1>1. Init => Ledger!Init
  BY DEF Init, Ledger!Init
<1>2. TypeInv /\ LedgerInv /\ [Next]_vars => [Ledger!Next]_<<tasks, totalCompleted>>
  BY LedgerStep DEF Ledger!Next
<1>3. Spec => [](TypeInv /\ LedgerInv)
  BY InitTypeInv, NextTypeInv, InitLedger, NextLedger, PTL DEF Spec
<1> QED
  BY <1>1, <1>2, <1>3, PTL DEF Spec, ImplementsLedger, Ledger!Spec

-----------------------------------------------------------------------------
(* The counters.                                                           *)

Closed == {i \in DOMAIN tasks : ~Open(i)}
CountInv == totalCompleted = Cardinality(Closed)

LEMMA InitCount == Init => CountInv
<1> SUFFICES ASSUME Init PROVE CountInv
  OBVIOUS
<1>1. Closed = {}
  BY DEF Init, Closed
<1> QED
  BY <1>1, FS_EmptySet DEF Init, CountInv

LEMMA NextCount ==
    ASSUME TypeInv, LedgerInv, CountInv, [Next]_vars
    PROVE  CountInv'
<1> USE DEF TypeInv, TypeOK, Closed, Open, CountInv
<1>1. CASE UNCHANGED <<tasks, totalCompleted>>
  BY <1>1
<1>2. ASSUME NEW n \in Nodes, Ledger!Assign(n) PROVE CountInv'
  <2>1. Closed' = Closed
    BY <1>2 DEF Ledger!Assign
  <2> QED
    BY <1>2, <2>1 DEF Ledger!Assign
<1>3. ASSUME NEW i \in DOMAIN tasks, Ledger!Complete(i) PROVE CountInv'
  <2>1. Closed' = Closed \cup {i} /\ i \notin Closed
    BY <1>3 DEF Ledger!Complete
  <2>2. IsFiniteSet(Closed)
    <3>1. Closed \subseteq 1..Len(tasks) /\ Len(tasks) \in Nat
      OBVIOUS
    <3>2. IsFiniteSet(1..Len(tasks))
      BY <3>1, FS_Interval
    <3> HIDE DEF Closed
    <3> QED
      BY <3>1, <3>2, FS_Subset
  <2>3. Cardinality(Closed \cup {i}) = Cardinality(Closed) + 1
    BY <2>1, <2>2, FS_AddElement
  <2> QED
    BY <1>3, <2>1, <2>3 DEF Ledger!Complete
<1> QED
  BY <1>1, <1>2, <1>3, LedgerStep

(* The counters of the scheduler agree with its table and ids are never      *)
(* reused.                                                                   *)
THEOREM AccountingCorrect == Spec => []TaskAccounting
<1>1. Spec => [](TypeInv /\ LedgerInv /\ CountInv)
  <2>1. TypeInv /\ LedgerInv /\ CountInv /\ [Next]_vars => CountInv'
    BY NextCount
  <2> QED
    BY <2>1, InitTypeInv, NextTypeInv, InitLedger, NextLedger, InitCount, PTL DEF Spec
<1>2. LedgerInv /\ CountInv => TaskAccounting
  BY DEF LedgerInv, TableInv, CountInv, Closed, TaskAccounting
<1> QED
  BY <1>1, <1>2, PTL

-----------------------------------------------------------------------------
(* The completions credited to the peers.                                  *)

ClosedOn(n) == {i \in DOMAIN tasks : tasks[i].assigned_node = n /\ ~Open(i)}

(* complete_task has completed a task of n and has yet to credit it.         *)
CreditDue(n) == pc["main"] \in {"credit_lock", "credit"} /\ target = n

CreditInv ==
    \A n \in Peers :
        tasksCredited[n] + (IF CreditDue(n) THEN 1 ELSE 0) <= Cardinality(ClosedOn(n))

LEMMA FiniteClosedOn ==
    ASSUME TypeInv, NEW n
    PROVE  IsFiniteSet(ClosedOn(n)) /\ Cardinality(ClosedOn(n)) \in Nat
<1>1. ClosedOn(n) \subseteq 1..Len(tasks) /\ Len(tasks) \in Nat
  BY DEF TypeInv, TypeOK, ClosedOn
<1>2. IsFiniteSet(1..Len(tasks))
  BY <1>1, FS_Interval
<1> QED
  BY <1>1, <1>2, FS_Subset, FS_CardinalityType

LEMMA InitCredit == Init => CreditInv
<1> SUFFICES ASSUME Init, NEW n \in Peers PROVE Cardinality(ClosedOn(n)) = 0
  BY DEF Init, CreditInv, CreditDue, FirstLabel, Threads
<1>1. ClosedOn(n) = {}
  BY DEF Init, ClosedOn
<1> QED
  BY <1>1, FS_EmptySet

(* Three steps count or credit a completion; no other makes a credit due.    *)
CreditQuiet ==
    /\ UNCHANGED tasksCredited
    /\ UNCHANGED tasks \/ \E n \in Nodes : Ledger!Assign(n)
    /\ pc'["main"] \in {"credit_lock", "credit"} =>
          pc["main"] \in {"credit_lock", "credit"} /\ target' = target

LEMMA CreditStep ==
    ASSUME TypeInv, LedgerInv, [Next]_vars
    PROVE  \/ CreditQuiet
           \/ Register \/ Credit \/ \E i \in DOMAIN tasks : CompleteTask(i)
<1> USE DEF TypeInv, TypeOK, PcType, Threads, Goto, CreditQuiet, schedulerVars, mainVars,
            registryVars, kernelVars
<1>1. CASE Discovery /\ ~Register
  BY <1>1 DEF Discovery, ListenStop, Receive, RegisterLock
<1>2. CASE Heartbeat \/ DataServer
  BY <1>2 DEF Heartbeat, BeatStop, DataServer, ServeTest, ServeAccept
<1>3. CASE Detector
  BY <1>3 DEF Detector, WatchTest, WatchLock, MarkFailed, ScanDone, FailoverLock, Failover
<1>4. CASE Commands
  BY <1>4 DEF Commands, Report, TaskCommand, RunDemo, Quit, NextCall
<1>5. CASE ReadRegistry \/ ReadScheduler \/ CommandTest
  BY <1>5 DEF ReadRegistry, ReadScheduler, CommandTest
<1>6. CASE CreateLock \/ CreateFull \/ CreateSlot \/ SelectLock \/ SelectBestNode
  BY <1>6 DEF CreateLock, CreateFull, CreateSlot, SelectLock, SelectBestNode, ReturnId, NextCall
<1>7. CASE CreateAssign
  <2>1. \E n \in Nodes : Ledger!Assign(n)
    <3>1. nextTaskId = Len(tasks) + 1 /\ UNCHANGED totalCompleted /\ target \in Nodes
      BY <1>7 DEF CreateAssign, LedgerInv, TableInv
    <3> QED
      BY <1>7, <3>1 DEF CreateAssign, Ledger!Assign
  <2>2. UNCHANGED tasksCredited /\ pc'["main"] \notin {"credit_lock", "credit"}
    BY <1>7 DEF CreateAssign, ReturnId, NextCall
  <2> QED
    BY <2>1, <2>2
<1>8. CASE CompleteLock \/ CompleteNothing \/ CreditLock \/ CompleteUnlock
  BY <1>8 DEF CompleteLock, CompleteNothing, CreditLock, CompleteUnlock, NextCall
<1>9. CASE Cleanup \/ HandleSignal
  BY <1>9 DEF Cleanup, JoinThreads, Join, FreeKernel, ClearPointer, Return, HandleSignal
<1>10. CASE UNCHANGED vars
  BY <1>10 DEF vars
<1> QED
  BY <1>1, <1>2, <1>3, <1>4, <1>5, <1>6, <1>7, <1>8, <1>9, <1>10
     DEF Next, Main, CreateTask, Complete

LEMMA NextCredit ==
    ASSUME TypeInv, LedgerInv, CreditInv, [Next]_vars
    PROVE  CreditInv'
<1>0. \A n \in Peers : tasksCredited[n] \in Nat /\ Cardinality(ClosedOn(n)) \in Nat
  BY FiniteClosedOn DEF TypeInv, TypeOK
<1>1. CASE CreditQuiet
  <2> SUFFICES ASSUME NEW n \in Peers
               PROVE  ClosedOn(n)' = ClosedOn(n) /\ (CreditDue(n)' => CreditDue(n))
    BY <1>0, <1>1 DEF CreditQuiet, CreditInv
  <2>1. ClosedOn(n)' = ClosedOn(n)
    <3>1. CASE UNCHANGED tasks
      BY <3>1 DEF ClosedOn, Open
    <3>2. ASSUME NEW m \in Nodes, Ledger!Assign(m) PROVE ClosedOn(n)' = ClosedOn(n)
      BY <3>2 DEF ClosedOn, Open, Ledger!Assign, TypeInv, TypeOK
    <3> QED
      BY <1>1, <3>1, <3>2 DEF CreditQuiet
  <2> QED
    BY <1>1, <2>1 DEF CreditQuiet, CreditDue
<1>2. CASE Register
  <2>1. UNCHANGED <<tasks, target>> /\ pc'["main"] = pc["main"]
    BY <1>2 DEF Register, Goto, schedulerVars, mainVars, TypeInv, TypeOK, PcType, Threads
  <2>2. \A n \in Peers : /\ tasksCredited'[n] \in {0, tasksCredited[n]}
                         /\ CreditDue(n)' = CreditDue(n) /\ ClosedOn(n)' = ClosedOn(n)
    BY <1>2, <2>1 DEF Register, TypeInv, TypeOK, CreditDue, ClosedOn, Open
  <2> QED
    BY <1>0, <2>2 DEF CreditInv
<1>3. CASE Credit
  <2>1. UNCHANGED tasks /\ pc["main"] = "credit" /\ pc'["main"] = "complete_unlock"
    BY <1>3 DEF Credit, Goto, schedulerVars, TypeInv, TypeOK, PcType, Threads
  <2>2. \A n \in Peers : /\ ClosedOn(n)' = ClosedOn(n) /\ ~CreditDue(n)'
                         /\ tasksCredited'[n] = tasksCredited[n]
                            \/ (CreditDue(n) /\ tasksCredited'[n] = tasksCredited[n] + 1)
    BY <1>3, <2>1 DEF Credit, CreditDue, ClosedOn, Open
  <2> QED
    BY <1>0, <2>2 DEF CreditInv
<1>4. ASSUME NEW i \in DOMAIN tasks, CompleteTask(i)
      PROVE  CreditInv'
  <2>1. tasks[i].task_id = i /\ t1 = i /\ t1 # 0 /\ Open(i)
    BY <1>4 DEF CompleteTask, LedgerInv, TableInv, DemoInv, CompleteLabels, TypeInv, TypeOK
  <2>2. /\ UNCHANGED tasksCredited /\ target' = tasks[i].assigned_node
        /\ pc["main"] = "complete" /\ tasks' = [tasks EXCEPT ![i] = Completed(tasks[i])]
    BY <1>4 DEF CompleteTask, registryVars
  <2>3. ASSUME NEW n \in Peers
        PROVE  ClosedOn(n)' = IF tasks[i].assigned_node = n THEN ClosedOn(n) \cup {i}
                              ELSE ClosedOn(n)
    BY <2>2 DEF ClosedOn, Open, Completed, TypeInv, TypeOK
  <2>4. ASSUME NEW n \in Peers
        PROVE  Cardinality(ClosedOn(n) \cup {i}) = Cardinality(ClosedOn(n)) + 1
    <3>1. i \notin ClosedOn(n)
      BY <2>1 DEF ClosedOn
    <3>2. IsFiniteSet(ClosedOn(n))
      BY FiniteClosedOn
    <3> QED
      BY <3>1, <3>2, FS_AddElement
  <2>5. \A n \in Peers : CreditDue(n)' => tasks[i].assigned_node = n
    BY <2>2 DEF CreditDue
  <2> QED
    BY <1>0, <2>2, <2>3, <2>4, <2>5 DEF CreditInv, CreditDue
<1> QED
  BY <1>1, <1>2, <1>3, <1>4, CreditStep

(* A peer is never credited with a completion that the scheduler did not      *)
(* record for it, whenever its messages reset the count.                     *)
THEOREM CreditCorrect == Spec => []CreditBounded
<1>1. TypeInv /\ LedgerInv /\ CreditInv /\ [Next]_vars => CreditInv'
  BY NextCredit
<1>2. Spec => [](TypeInv /\ CreditInv)
  BY <1>1, InitTypeInv, NextTypeInv, InitLedger, NextLedger, InitCredit, PTL DEF Spec
<1>3. TypeInv /\ CreditInv => CreditBounded
  <2> SUFFICES ASSUME TypeInv, CreditInv, NEW n \in Peers
               PROVE  tasksCredited[n] <= Cardinality(ClosedOn(n))
    BY DEF CreditBounded, ClosedOn
  <2> QED
    BY FiniteClosedOn DEF CreditInv, TypeInv, TypeOK
<1> QED
  BY <1>2, <1>3, PTL

-----------------------------------------------------------------------------
(* The bounds of the arrays.                                               *)

(* The registry only changes when the listener registers a node or the       *)
(* detector marks one.                                                       *)
LEMMA RegistryStep ==
    ASSUME [Next]_vars
    PROVE  UNCHANGED status \/ Register \/ \E n \in Peers : MarkFailed(n)
<1> USE DEF registryVars
<1>1. CASE Discovery \/ Heartbeat
  BY <1>1 DEF Discovery, ListenStop, Receive, RegisterLock, Heartbeat, BeatStop
<1>2. CASE Detector \/ DataServer
  BY <1>2 DEF Detector, WatchTest, WatchLock, ScanDone, FailoverLock, Failover, DataServer,
              ServeTest, ServeAccept
<1>3. CASE Commands \/ ReadRegistry \/ ReadScheduler \/ CommandTest
  BY <1>3 DEF Commands, Report, TaskCommand, RunDemo, Quit, ReadRegistry, ReadScheduler,
              CommandTest
<1>4. CASE CreateTask
  BY <1>4 DEF CreateTask, CreateLock, CreateFull, CreateSlot, SelectLock, SelectBestNode,
              CreateAssign
<1>5. CASE Complete
  BY <1>5 DEF Complete, CompleteLock, CompleteTask, CompleteNothing, CreditLock, Credit,
              CompleteUnlock
<1>6. CASE Cleanup \/ HandleSignal
  BY <1>6 DEF Cleanup, JoinThreads, Join, FreeKernel, ClearPointer, Return, HandleSignal
<1>7. CASE UNCHANGED vars
  BY <1>7 DEF vars
<1> QED
  BY <1>1, <1>2, <1>3, <1>4, <1>5, <1>6, <1>7 DEF Next, Main

LEMMA FiniteKnown == IsFiniteSet(Known)
  BY FS_Subset DEF Known

KnownFits == Cardinality(Known) <= MaxNodes

LEMMA InitKnown == Init => KnownFits
<1> SUFFICES ASSUME Init PROVE KnownFits
  OBVIOUS
<1>1. Known = {}
  BY DEF Init, Known
<1> QED
  BY <1>1, FS_EmptySet DEF KnownFits

LEMMA NextKnown ==
    ASSUME TypeInv, KnownFits, [Next]_vars
    PROVE  KnownFits'
<1>1. CASE UNCHANGED status
  <2>1. Known' = Known
    BY <1>1 DEF Known
  <2> QED
    BY <2>1 DEF KnownFits
<1>2. CASE Register /\ sender \notin Known /\ ~RegistryFull /\ sender \in Peers
  <2>1. Known' = Known \cup {sender}
    BY <1>2 DEF Register, Known, TypeInv, TypeOK
  <2>2. Cardinality(Known \cup {sender}) = Cardinality(Known) + 1
    BY <1>2, FiniteKnown, FS_AddElement
  <2>3. Cardinality(Known) \in Nat /\ Cardinality(Known) < MaxNodes
    BY <1>2, FiniteKnown, FS_CardinalityType DEF RegistryFull
  <2> QED
    BY <2>1, <2>2, <2>3 DEF KnownFits
<1>3. CASE Register /\ ~(sender \notin Known /\ ~RegistryFull /\ sender \in Peers)
  <2>1. Known' = Known
    BY <1>3 DEF Register, Known, TypeInv, TypeOK
  <2> QED
    BY <2>1 DEF KnownFits
<1>4. ASSUME NEW n \in Peers, MarkFailed(n) PROVE KnownFits'
  <2>1. Known' = Known
    BY <1>4 DEF MarkFailed, Known, Active, TypeInv, TypeOK
  <2> QED
    BY <2>1 DEF KnownFits
<1> QED
  BY <1>1, <1>2, <1>3, <1>4, RegistryStep

(* The room create_task found in the table is still there when it stores the *)
(* task: it has not let go of the scheduler.                                 *)
RoomInv ==
    /\ Len(tasks) <= MaxTasks
    /\ pc["main"] \in {"select_lock", "select", "create_assign"} => Len(tasks) < MaxTasks

LEMMA InitRoom == Init => RoomInv
  BY DEF Init, FirstLabel, RoomInv, Threads

LEMMA NextRoom == TypeInv /\ RoomInv /\ [Next]_vars => RoomInv'
<1> SUFFICES ASSUME TypeInv, RoomInv, [Next]_vars PROVE RoomInv'
  OBVIOUS
<1> USE DEF TypeInv, TypeOK, PcType, Threads, RoomInv, Goto, schedulerVars, MainLabels,
            DiscoveryLabels, HeartbeatLabels, DetectorLabels, ServerLabels
<1>1. CASE Discovery
  <2>1. CASE ListenStop
    BY <2>1 DEF ListenStop
  <2>2. ASSUME NEW n \in Peers, Receive(n) PROVE RoomInv'
    BY <2>2 DEF Receive
  <2>3. CASE RegisterLock
    BY <2>3 DEF RegisterLock
  <2>4. CASE Register
    BY <2>4 DEF Register
  <2> QED
    BY <1>1, <2>1, <2>2, <2>3, <2>4 DEF Discovery
<1>2. CASE Heartbeat
  BY <1>2 DEF Heartbeat, BeatStop
<1>3. CASE Detector
  <2>1. CASE WatchTest
    BY <2>1 DEF WatchTest
  <2>2. CASE WatchLock
    BY <2>2 DEF WatchLock
  <2>3. ASSUME NEW n \in Peers, MarkFailed(n) PROVE RoomInv'
    BY <2>3 DEF MarkFailed
  <2>4. CASE ScanDone
    BY <2>4 DEF ScanDone
  <2>5. CASE FailoverLock
    BY <2>5 DEF FailoverLock
  <2>6. CASE Failover
    BY <2>6 DEF Failover
  <2> QED
    BY <1>3, <2>1, <2>2, <2>3, <2>4, <2>5, <2>6 DEF Detector
<1>4. CASE DataServer
  <2>1. CASE ServeTest
    BY <2>1 DEF ServeTest
  <2>2. CASE ServeAccept
    BY <2>2 DEF ServeAccept
  <2> QED
    BY <1>4, <2>1, <2>2 DEF DataServer
<1>5. CASE Commands
  <2>1. CASE Report
    BY <2>1 DEF Report
  <2>2. CASE TaskCommand
    BY <2>2 DEF TaskCommand, NextCall
  <2>3. CASE RunDemo
    BY <2>3 DEF RunDemo, NextCall
  <2>4. CASE Quit
    BY <2>4 DEF Quit
  <2> QED
    BY <1>5, <2>1, <2>2, <2>3, <2>4 DEF Commands
<1>6. CASE ReadRegistry \/ ReadScheduler \/ CommandTest
  <2>1. CASE ReadRegistry
    BY <2>1 DEF ReadRegistry
  <2>2. CASE ReadScheduler
    BY <2>2 DEF ReadScheduler
  <2>3. CASE CommandTest
    BY <2>3 DEF CommandTest
  <2> QED
    BY <1>6, <2>1, <2>2, <2>3
<1>7. CASE CreateTask
  <2>1. CASE CreateLock
    BY <2>1 DEF CreateLock
  <2>2. CASE CreateFull
    BY <2>2 DEF CreateFull, ReturnId, NextCall
  <2>3. CASE CreateSlot
    BY <2>3 DEF CreateSlot
  <2>4. CASE SelectLock
    BY <2>4 DEF SelectLock
  <2>5. CASE SelectBestNode
    BY <2>5 DEF SelectBestNode
  <2>6. CASE CreateAssign
    BY <2>6 DEF CreateAssign, ReturnId, NextCall
  <2> QED
    BY <1>7, <2>1, <2>2, <2>3, <2>4, <2>5, <2>6 DEF CreateTask
<1>8. CASE Complete
  <2>1. CASE CompleteLock
    BY <2>1 DEF CompleteLock
  <2>2. ASSUME NEW i \in DOMAIN tasks, CompleteTask(i) PROVE RoomInv'
    BY <2>2 DEF CompleteTask
  <2>3. CASE CompleteNothing
    BY <2>3 DEF CompleteNothing
  <2>4. CASE CreditLock
    BY <2>4 DEF CreditLock
  <2>5. CASE Credit
    BY <2>5 DEF Credit
  <2>6. CASE CompleteUnlock
    BY <2>6 DEF CompleteUnlock, NextCall
  <2> QED
    BY <1>8, <2>1, <2>2, <2>3, <2>4, <2>5, <2>6 DEF Complete
<1>9. CASE Cleanup
  <2>1. CASE JoinThreads
    BY <2>1 DEF JoinThreads, Join
  <2>2. CASE FreeKernel
    BY <2>2 DEF FreeKernel
  <2>3. CASE ClearPointer
    BY <2>3 DEF ClearPointer
  <2>4. CASE Return
    BY <2>4 DEF Return
  <2> QED
    BY <1>9, <2>1, <2>2, <2>3, <2>4 DEF Cleanup
<1>10. CASE HandleSignal
  BY <1>10 DEF HandleSignal
<1>11. CASE UNCHANGED vars
  BY <1>11 DEF vars
<1> QED
  BY <1>1, <1>2, <1>3, <1>4, <1>5, <1>6, <1>7, <1>8, <1>9, <1>10, <1>11 DEF Next, Main

(* Neither array overflows.                                                  *)
THEOREM BoundsCorrect == Spec => []TablesBounded
<1>1. Spec => [](TypeInv /\ KnownFits /\ RoomInv)
  <2>1. TypeInv /\ KnownFits /\ [Next]_vars => KnownFits'
    BY NextKnown
  <2> QED
    BY <2>1, InitTypeInv, NextTypeInv, InitKnown, InitRoom, NextRoom, PTL DEF Spec
<1>2. KnownFits /\ RoomInv => TablesBounded
  BY DEF KnownFits, RoomInv, TablesBounded
<1> QED
  BY <1>1, <1>2, PTL
================================================================================
