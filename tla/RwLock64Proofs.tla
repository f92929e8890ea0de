----------------------------- MODULE RwLock64Proofs -----------------------------
(***************************************************************************)
(* The lock of kernel_64bit.c excludes for any finite set of threads, and  *)
(* implements ReadersWriters.                                              *)
(***************************************************************************)
EXTENDS RwLock64, FiniteSetTheorems, TLAPS

USE ThreadsAssumption

Labels == {"idle", "check", "announce", "recheck", "retract", "reading", "drain", "exchange",
           "futex", "asleep", "writing", "wake", "withdraw"}

(* The threads that the counters stand for.                                  *)
Announced == {t \in Threads : pc[t] \in {"recheck", "retract", "reading"}}
Counted   == {t \in Threads : pc[t] \in {"drain", "exchange", "futex", "asleep", "writing",
                                         "wake", "withdraw"}}

PcOK  == pc \in [Threads -> Labels]
Count == readers = Cardinality(Announced) /\ writers = Cardinality(Counted)

-----------------------------------------------------------------------------
(* The counters.                                                           *)

LEMMA FiniteParts ==
  /\ IsFiniteSet(Announced) /\ IsFiniteSet(Counted)
  /\ Cardinality(Announced) \in 0..Cardinality(Threads)
  /\ Cardinality(Counted) \in 0..Cardinality(Threads)
<1>1. Announced \subseteq Threads /\ Counted \subseteq Threads
  BY DEF Announced, Counted
<1>2. Cardinality(Threads) \in Nat
  BY FS_CardinalityType
<1> QED
  BY <1>1, <1>2, FS_Subset, FS_CardinalityType

LEMMA Joins ==
  ASSUME NEW S, IsFiniteSet(S), NEW t, t \notin S
  PROVE  Cardinality(S \cup {t}) = Cardinality(S) + 1
BY FS_AddElement

LEMMA Leaves ==
  ASSUME NEW S, IsFiniteSet(S), NEW t, t \in S
  PROVE  Cardinality(S \ {t}) = Cardinality(S) - 1
BY FS_RemoveElement

(* A step of one thread moves it alone, but for the one that it wakes up.     *)
LEMMA CountStep ==
  ASSUME PcOK, Count, NEW t \in Threads,
         AcquireRead(t) \/ Reader(t) \/ AcquireWrite(t) \/ Writer(t) \/ Interrupted(t)
  PROVE  Count'
<1> USE DEF PcOK, Labels, Goto
<1>1. IsFiniteSet(Announced) /\ IsFiniteSet(Counted)
  BY FiniteParts
<1>2. ASSUME UNCHANGED <<readers, writers>>, Announced' = Announced, Counted' = Counted
      PROVE  Count'
  BY <1>2 DEF Count
<1>3. CASE AcquireRead(t) \/ CheckWriters(t) \/ RecheckWriters(t) \/ DrainReaders(t)
           \/ ExchangeLock(t) \/ FutexWait(t) \/ ReleaseWrite(t) \/ Interrupted(t)
  <2>1. PICK l \in Labels : pc' = [pc EXCEPT ![t] = l] /\ UNCHANGED <<readers, writers>>
    BY <1>3 DEF AcquireRead, CheckWriters, RecheckWriters, DrainReaders, ExchangeLock, FutexWait,
                ReleaseWrite, Interrupted
  <2>2. (t \in Announced)' <=> t \in Announced
    BY <1>3 DEF Announced, AcquireRead, CheckWriters, RecheckWriters, DrainReaders, ExchangeLock,
                FutexWait, ReleaseWrite, Interrupted
  <2>3. (t \in Counted)' <=> t \in Counted
    BY <1>3 DEF Counted, AcquireRead, CheckWriters, RecheckWriters, DrainReaders, ExchangeLock,
                FutexWait, ReleaseWrite, Interrupted
  <2>4. Announced' = Announced
    BY <2>1, <2>2 DEF Announced
  <2>5. Counted' = Counted
    BY <2>1, <2>3 DEF Counted
  <2> QED
    BY <1>2, <2>1, <2>4, <2>5
<1>4. CASE AnnounceReader(t)
  <2>1. t \notin Announced /\ Announced' = Announced \cup {t}
    BY <1>4 DEF AnnounceReader, Announced
  <2>2. Counted' = Counted /\ readers' = readers + 1 /\ writers' = writers
    BY <1>4 DEF AnnounceReader, Counted
  <2> QED
    BY <1>1, <2>1, <2>2, Joins DEF Count
<1>5. CASE RetractReader(t) \/ ReleaseRead(t)
  <2>1. t \in Announced /\ Announced' = Announced \ {t}
    BY <1>5 DEF RetractReader, ReleaseRead, Announced
  <2>2. Counted' = Counted /\ readers' = readers - 1 /\ writers' = writers
    BY <1>5 DEF RetractReader, ReleaseRead, Counted
  <2> QED
    BY <1>1, <2>1, <2>2, Leaves DEF Count
<1>6. CASE AcquireWrite(t)
  <2>1. t \notin Counted /\ Counted' = Counted \cup {t}
    BY <1>6 DEF AcquireWrite, Counted
  <2>2. Announced' = Announced /\ writers' = writers + 1 /\ readers' = readers
    BY <1>6 DEF AcquireWrite, Announced
  <2> QED
    BY <1>1, <2>1, <2>2, Joins DEF Count
<1>7. CASE WithdrawWriter(t)
  <2>1. t \in Counted /\ Counted' = Counted \ {t}
    BY <1>7 DEF WithdrawWriter, Counted
  <2>2. Announced' = Announced /\ writers' = writers - 1 /\ readers' = readers
    BY <1>7 DEF WithdrawWriter, Announced
  <2> QED
    BY <1>1, <2>1, <2>2, Leaves DEF Count
<1>8. CASE FutexWake(t)
  <2>1. Announced' = Announced
    BY <1>8 DEF FutexWake, Asleep, Announced
  <2>2. Counted' = Counted
    BY <1>8 DEF FutexWake, Asleep, Counted
  <2> QED
    BY <1>2, <1>8, <2>1, <2>2 DEF FutexWake
<1> QED
  BY <1>3, <1>4, <1>5, <1>6, <1>7, <1>8 DEF Reader, Writer

-----------------------------------------------------------------------------
(* Exclusion.  A writer that has found no reader counted keeps all readers    *)
(* out, since it is counted itself and they look again; the lock word is set  *)
(* as long as one of these writers writes.                                   *)

Drained == {"exchange", "futex", "asleep", "writing"}

LockInv ==
    /\ lock \in {0, 1}
    /\ lock = 1 => \E t \in Threads : pc[t] = "writing"
    /\ \A t \in Threads : pc[t] = "writing" => lock = 1
    /\ \A t, u \in Threads : pc[t] = "writing" /\ pc[u] = "writing" => t = u
    /\ \A t, u \in Threads : pc[t] \in Drained => pc[u] # "reading"

IInv == PcOK /\ Count /\ LockInv

LEMMA InitInv == Init => IInv
<1> SUFFICES ASSUME Init PROVE IInv
  OBVIOUS
<1>1. Announced = {} /\ Counted = {}
  BY DEF Init, Announced, Counted
<1> QED
  BY <1>1, FS_EmptySet DEF Init, IInv, PcOK, Labels, Count, LockInv, Drained

(* A counter is zero when nobody stands behind it.                           *)
LEMMA Zero ==
  ASSUME Count
  PROVE  (readers = 0 => Announced = {}) /\ (writers = 0 => Counted = {})
<1>1. IsFiniteSet(Announced) /\ IsFiniteSet(Counted)
  BY FiniteParts
<1> QED
  BY <1>1, FS_EmptySet DEF Count

(* The labels after a step, and that only the stepping thread, or one that    *)
(* was asleep, has another one.                                              *)
LEMMA PcStep ==
  ASSUME PcOK, NEW t \in Threads,
         AcquireRead(t) \/ Reader(t) \/ AcquireWrite(t) \/ Writer(t) \/ Interrupted(t)
  PROVE  /\ PcOK'
         /\ \A u \in Threads : pc'[u] = pc[u] \/ u = t \/ (pc[u] = "asleep" /\ pc'[u] = "exchange")
<1> USE DEF PcOK, Labels, Goto
<1>1. CASE FutexWake(t)
  BY <1>1 DEF FutexWake, Asleep
<1>2. CASE ~FutexWake(t)
  <2>1. PICK l \in Labels : pc' = [pc EXCEPT ![t] = l]
    BY <1>2 DEF AcquireRead, Reader, CheckWriters, AnnounceReader, RecheckWriters, RetractReader,
               ReleaseRead, AcquireWrite, Writer, DrainReaders, ExchangeLock, FutexWait,
               ReleaseWrite, WithdrawWriter, Interrupted
  <2> QED
    BY <2>1
<1> QED
  BY <1>1, <1>2

LEMMA LockStep ==
  ASSUME IInv, NEW t \in Threads,
         AcquireRead(t) \/ Reader(t) \/ AcquireWrite(t) \/ Writer(t) \/ Interrupted(t)
  PROVE  LockInv'
<1> USE DEF Goto, Drained
<1>0. PcOK /\ LockInv /\ PcOK'
      /\ \A u \in Threads : pc'[u] = pc[u] \/ u = t \/ (pc[u] = "asleep" /\ pc'[u] = "exchange")
  BY PcStep DEF IInv
<1>1. CASE AcquireRead(t) \/ CheckWriters(t) \/ AnnounceReader(t) \/ RetractReader(t)
           \/ ReleaseRead(t) \/ AcquireWrite(t) \/ WithdrawWriter(t)
  <2>1. /\ lock' = lock /\ pc[t] \notin Drained
        /\ pc'[t] \notin Drained \cup {"reading"}
    BY <1>0, <1>1 DEF PcOK, AcquireRead, CheckWriters, AnnounceReader, RetractReader, ReleaseRead,
                     AcquireWrite, WithdrawWriter
  <2> QED
    BY <1>0, <2>1 DEF LockInv
<1>2. CASE RecheckWriters(t)
  (* With no writer counted there is none that is drained.                   *)
  <2>1. CASE writers = 0
    <3>1. Counted = {}
      BY <2>1, Zero DEF IInv
    <3>2. \A u \in Threads : pc[u] \notin Drained
      BY <3>1 DEF Counted
    <3> QED
      BY <1>0, <1>2, <2>1, <3>2 DEF RecheckWriters, PcOK, LockInv
  <2>2. CASE writers # 0
    BY <1>0, <1>2, <2>2 DEF RecheckWriters, PcOK, LockInv
  <2> QED
    BY <2>1, <2>2
<1>3. CASE DrainReaders(t)
  <2>1. Announced = {}
    BY <1>3, Zero DEF DrainReaders, IInv
  <2>2. \A u \in Threads : pc[u] # "reading"
    BY <2>1 DEF Announced
  <2> QED
    BY <1>0, <1>3, <2>2 DEF DrainReaders, PcOK, LockInv
<1>4. CASE ExchangeLock(t)
  <2>1. CASE lock = 0
    BY <1>0, <1>4, <2>1 DEF ExchangeLock, PcOK, LockInv
  <2>2. CASE lock = 1
    BY <1>0, <1>4, <2>2 DEF ExchangeLock, PcOK, LockInv
  <2> QED
    BY <1>0, <2>1, <2>2 DEF LockInv
<1>5. CASE FutexWait(t) \/ Interrupted(t) \/ FutexWake(t)
  <2>1. /\ lock' = lock
        /\ pc[t] \in Drained \cup {"wake"} /\ pc[t] # "writing"
        /\ pc'[t] \in Drained \cup {"withdraw"} /\ pc'[t] # "writing"
        /\ pc[t] \in Drained <=> pc'[t] \in Drained
    BY <1>0, <1>5 DEF FutexWait, Interrupted, FutexWake, Asleep, PcOK
  <2> QED
    BY <1>0, <2>1 DEF LockInv
<1>6. CASE ReleaseWrite(t)
  BY <1>0, <1>6 DEF ReleaseWrite, PcOK, LockInv
<1> QED
  BY <1>1, <1>2, <1>3, <1>4, <1>5, <1>6 DEF Reader, Writer

LEMMA NextInv == IInv /\ [Next]_vars => IInv'
<1> SUFFICES ASSUME IInv, [Next]_vars PROVE IInv'
  OBVIOUS
<1>1. CASE Next
  BY <1>1, CountStep, PcStep, LockStep DEF Next, IInv
<1>2. CASE UNCHANGED vars
  <2>1. Announced' = Announced /\ Counted' = Counted
    BY <1>2 DEF vars, Announced, Counted
  <2> QED
    BY <1>2, <2>1 DEF vars, IInv, PcOK, Count, LockInv
<1> QED
  BY <1>1, <1>2

(* The counters stay between zero and the number of threads.                 *)
THEOREM TypeCorrect == Spec => []TypeOK
<1>1. IInv => TypeOK
  BY FiniteParts DEF IInv, PcOK, Labels, Count, LockInv, TypeOK
<1> QED
  BY <1>1, InitInv, NextInv, PTL DEF Spec

(* Whoever writes is alone, for any number of threads and any interleaving    *)
(* of the separate atomic operations.                                        *)
THEOREM ExclusionCorrect == Spec => []Exclusion
<1>1. IInv => Exclusion
  BY DEF IInv, LockInv, Drained, Exclusion
<1> QED
  BY <1>1, InitInv, NextInv, PTL DEF Spec

-----------------------------------------------------------------------------
(* The futex.  While the word is set its owner is still to release it and to  *)
(* wake; the word that is clear has been seen, or will be, by a thread that   *)
(* is about to exchange it.                                                  *)

LEMMA WakeStep ==
  ASSUME IInv, IInv', NoLostWakeup, NEW t \in Threads,
         AcquireRead(t) \/ Reader(t) \/ AcquireWrite(t) \/ Writer(t) \/ Interrupted(t)
  PROVE  NoLostWakeup'
<1> USE DEF Goto
<1>0. /\ PcOK /\ LockInv /\ LockInv'
      /\ \A u \in Threads : pc'[u] = pc[u] \/ u = t \/ (pc[u] = "asleep" /\ pc'[u] = "exchange")
  BY PcStep DEF IInv
<1>1. CASE lock' = 1
  BY <1>0, <1>1 DEF LockInv, NoLostWakeup
<1>2. CASE lock' = 0
  <2>1. CASE FutexWake(t)
    <3>1. CASE Asleep = {}
      BY <1>0, <2>1, <3>1 DEF FutexWake, Asleep, NoLostWakeup, PcOK
    <3>2. CASE Asleep # {}
      BY <1>0, <1>2, <2>1, <3>2 DEF FutexWake, Asleep, NoLostWakeup, PcOK
    <3> QED
      BY <3>1, <3>2
  <2>2. CASE ReleaseWrite(t)
    BY <1>0, <2>2 DEF ReleaseWrite, NoLostWakeup, PcOK
  <2>3. CASE ExchangeLock(t)
    BY <1>2, <2>3 DEF ExchangeLock
  <2>4. CASE ~FutexWake(t) /\ ~ReleaseWrite(t) /\ ~ExchangeLock(t)
    <3>1. lock' = lock /\ pc[t] \notin {"writing", "wake", "exchange"} /\ pc'[t] # "asleep"
      BY <1>0, <1>2, <2>4
         DEF PcOK, AcquireRead, Reader, CheckWriters, AnnounceReader, RecheckWriters, RetractReader,
             ReleaseRead, AcquireWrite, Writer, DrainReaders, FutexWait, WithdrawWriter, Interrupted
    <3>2. Asleep' # {} => Asleep # {}
      BY <1>0, <3>1 DEF Asleep
    <3> QED
      BY <1>0, <3>1, <3>2 DEF NoLostWakeup
  <2> QED
    BY <2>1, <2>2, <2>3, <2>4
<1> QED
  BY <1>0, <1>1, <1>2 DEF LockInv

(* No sleeping writer is left without somebody who will wake it.             *)
THEOREM WakeupCorrect == Spec => []NoLostWakeup
<1>1. Init => NoLostWakeup
  BY DEF Init, NoLostWakeup, Asleep
<1>2. IInv /\ NoLostWakeup /\ [Next]_vars => NoLostWakeup'
  <2> SUFFICES ASSUME IInv, NoLostWakeup, [Next]_vars PROVE NoLostWakeup'
    OBVIOUS
  <2>1. IInv'
    BY NextInv
  <2>2. CASE Next
    BY <2>1, <2>2, WakeStep DEF Next
  <2>3. CASE UNCHANGED vars
    BY <2>3 DEF vars, NoLostWakeup, Asleep
  <2> QED
    BY <2>2, <2>3
<1> QED
  BY <1>1, <1>2, InitInv, NextInv, PTL DEF Spec

-----------------------------------------------------------------------------
(* Refinement.                                                             *)

Reading == {t \in Threads : pc[t] = "reading"}
Writing == {t \in Threads : pc[t] = "writing"}

LEMMA StepRefines ==
  ASSUME IInv, IInv', NEW t \in Threads,
         AcquireRead(t) \/ Reader(t) \/ AcquireWrite(t) \/ Writer(t) \/ Interrupted(t)
  PROVE  \/ UNCHANGED <<Reading, Writing>>
         \/ Writing = {} /\ t \notin Reading /\ Reading' = Reading \cup {t} /\ Writing' = Writing
         \/ t \in Reading /\ Reading' = Reading \ {t} /\ Writing' = Writing
         \/ Reading = {} /\ Writing = {} /\ Writing' = {t} /\ Reading' = Reading
         \/ Writing = {t} /\ Writing' = {} /\ Reading' = Reading
<1> USE DEF Goto, Reading, Writing
<1>0. /\ PcOK /\ LockInv /\ LockInv'
      /\ \A u \in Threads : pc'[u] = pc[u] \/ u = t \/ (pc[u] = "asleep" /\ pc'[u] = "exchange")
  BY PcStep DEF IInv
<1>1. CASE pc[t] \notin {"reading", "writing"} /\ pc'[t] \notin {"reading", "writing"}
  BY <1>0, <1>1
<1>2. CASE pc'[t] = "reading"
  <2>1. RecheckWriters(t)
    BY <1>0, <1>2 DEF PcOK, AcquireRead, Reader, CheckWriters, AnnounceReader, RecheckWriters,
             RetractReader, ReleaseRead, AcquireWrite, Writer, DrainReaders, ExchangeLock,
             FutexWait, ReleaseWrite, FutexWake, Asleep, WithdrawWriter, Interrupted
  <2>2. Writing = {}
    <3>1. \A u \in Threads : pc'[u] \notin Drained
      BY <1>0, <1>2 DEF LockInv
    <3> QED
      BY <1>0, <2>1, <3>1 DEF RecheckWriters, Drained
  <2> QED
    BY <1>0, <1>2, <2>1, <2>2 DEF RecheckWriters, PcOK
<1>3. CASE pc[t] = "reading"
  <2>1. ReleaseRead(t)
    BY <1>0, <1>3 DEF PcOK, AcquireRead, Reader, CheckWriters, AnnounceReader, RecheckWriters,
             RetractReader, ReleaseRead, AcquireWrite, Writer, DrainReaders, ExchangeLock,
             FutexWait, ReleaseWrite, FutexWake, Asleep, WithdrawWriter, Interrupted
  <2> QED
    BY <1>0, <2>1 DEF ReleaseRead, PcOK
<1>4. CASE pc'[t] = "writing"
  <2>1. ExchangeLock(t) /\ lock = 0
    BY <1>0, <1>4 DEF PcOK, AcquireRead, Reader, CheckWriters, AnnounceReader, RecheckWriters,
             RetractReader, ReleaseRead, AcquireWrite, Writer, DrainReaders, ExchangeLock,
             FutexWait, ReleaseWrite, FutexWake, Asleep, WithdrawWriter, Interrupted
  <2>2. Reading = {} /\ Writing = {}
    <3>1. pc[t] \in Drained
      BY <2>1 DEF ExchangeLock, Drained
    <3> QED
      BY <1>0, <2>1, <3>1 DEF LockInv
  <2> QED
    BY <1>0, <2>1, <2>2 DEF ExchangeLock, PcOK
<1>5. CASE pc[t] = "writing"
  <2>1. ReleaseWrite(t)
    BY <1>0, <1>5 DEF PcOK, AcquireRead, Reader, CheckWriters, AnnounceReader, RecheckWriters,
             RetractReader, ReleaseRead, AcquireWrite, Writer, DrainReaders, ExchangeLock,
             FutexWait, ReleaseWrite, FutexWake, Asleep, WithdrawWriter, Interrupted
  <2> QED
    BY <1>0, <1>5, <2>1 DEF ReleaseWrite, PcOK, LockInv
<1> QED
  BY <1>1, <1>2, <1>3, <1>4, <1>5

(* The lock of kernel_64bit.c is a readers/writers lock.                      *)
THEOREM LockImplements == Spec => ImplementsReadersWriters
<1>1. Init => RW!Init
  BY DEF Init, RW!Init
<1>2. IInv /\ IInv' /\ [Next]_vars => [RW!Next]_<<Reading, Writing>>
  <2> SUFFICES ASSUME IInv, IInv', [Next]_vars PROVE [RW!Next]_<<Reading, Writing>>
    OBVIOUS
  <2>1. ASSUME NEW t \in Threads,
               AcquireRead(t) \/ Reader(t) \/ AcquireWrite(t) \/ Writer(t) \/ Interrupted(t)
        PROVE  [RW!Next]_<<Reading, Writing>>
    BY <2>1, StepRefines
       DEF RW!Next, RW!StartRead, RW!EndRead, RW!StartWrite, RW!EndWrite, Reading, Writing
  <2>2. CASE UNCHANGED vars
    BY <2>2 DEF vars, Reading, Writing
  <2> QED
    BY <2>1, <2>2 DEF Next
<1>3. IInv /\ [Next]_vars => IInv'
  BY NextInv
<1> QED
  BY <1>1, <1>2, <1>3, InitInv, PTL DEF Spec, ImplementsReadersWriters, RW!Spec, Reading, Writing
================================================================================
