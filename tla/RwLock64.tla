------------------------------- MODULE RwLock64 -------------------------------
(***************************************************************************)
(* The readers/writers lock of a block of shared memory in kernel_64bit.c: *)
(* two counters and a lock word, read and written by separate atomic       *)
(* operations.  A reader announces itself, looks again and backs off; a    *)
(* writer announces itself, waits until no reader is counted and takes the *)
(* lock word, sleeping on it in a futex.  Each atomic operation and each   *)
(* call of futex is one step.                                              *)
(*                                                                         *)
(* A thread that holds the lock releases it as it took it and takes no     *)
(* other.  The counters have 32 bits and count threads: they do not wrap.  *)
(***************************************************************************)
EXTENDS Naturals, FiniteSets

CONSTANT Threads

ASSUME ThreadsAssumption == IsFiniteSet(Threads)

VARIABLES
    readers,  \* mem->readers
    writers,  \* mem->writers
    lock,     \* mem->lock
    pc        \* what each thread does next, or has: "reading", "writing"

vars == <<readers, writers, lock, pc>>

Goto(t, label) == pc' = [pc EXCEPT ![t] = label]

(* create_shared_memory_mmap.                                                *)
Init ==
    /\ readers = 0 /\ writers = 0 /\ lock = 0
    /\ pc = [t \in Threads |-> "idle"]

-----------------------------------------------------------------------------
(* acquire_read_lock_64, release_read_lock_64.                             *)

AcquireRead(t) ==
    /\ pc[t] = "idle"
    /\ Goto(t, "check")
    /\ UNCHANGED <<readers, writers, lock>>

(* Mutant: readers do not wait for a writer that waits.                      *)
CheckNothing(t) ==
    /\ pc[t] = "check"
    /\ Goto(t, "announce")
    /\ UNCHANGED <<readers, writers, lock>>

(* Mutant: the subtraction stands outside the test that its addition is in.  *)
CheckSubtracts(t) ==
    /\ pc[t] = "check"
    /\ IF writers = 0 THEN Goto(t, "announce") /\ UNCHANGED readers
       ELSE readers' = readers - 1 /\ UNCHANGED pc
    /\ UNCHANGED <<writers, lock>>

(* The load of writers; with a writer there the thread sleeps and looks again. *)
CheckWriters(t) ==
    /\ pc[t] = "check" /\ writers = 0
    /\ Goto(t, "announce")
    /\ UNCHANGED <<readers, writers, lock>>

AnnounceReader(t) ==
    /\ pc[t] = "announce"
    /\ readers' = readers + 1
    /\ Goto(t, "recheck")
    /\ UNCHANGED <<writers, lock>>

(* Mutant: the second look at the writers is left out.                       *)
RecheckNothing(t) ==
    /\ pc[t] = "recheck"
    /\ Goto(t, "reading")
    /\ UNCHANGED <<readers, writers, lock>>

RecheckWriters(t) ==
    /\ pc[t] = "recheck"
    /\ Goto(t, IF writers = 0 THEN "reading" ELSE "retract")
    /\ UNCHANGED <<readers, writers, lock>>

RetractReader(t) ==
    /\ pc[t] = "retract"
    /\ readers' = readers - 1
    /\ Goto(t, "check")
    /\ UNCHANGED <<writers, lock>>

ReleaseRead(t) ==
    /\ pc[t] = "reading"
    /\ readers' = readers - 1
    /\ Goto(t, "idle")
    /\ UNCHANGED <<writers, lock>>

-----------------------------------------------------------------------------
(* acquire_write_lock_64, release_write_lock_64.                           *)

AcquireWrite(t) ==
    /\ pc[t] = "idle"
    /\ writers' = writers + 1
    /\ Goto(t, "drain")
    /\ UNCHANGED <<readers, lock>>

(* The load of readers; with a reader there the thread sleeps and looks again. *)
DrainReaders(t) ==
    /\ pc[t] = "drain" /\ readers = 0
    /\ Goto(t, "exchange")
    /\ UNCHANGED <<readers, writers, lock>>

(* Mutant: what the exchange returned is not looked at.                      *)
ExchangeBlindly(t) ==
    /\ pc[t] = "exchange"
    /\ lock' = 1
    /\ Goto(t, "writing")
    /\ UNCHANGED <<readers, writers>>

ExchangeLock(t) ==
    /\ pc[t] = "exchange"
    /\ lock' = 1
    /\ Goto(t, IF lock = 0 THEN "writing" ELSE "futex")
    /\ UNCHANGED <<readers, writers>>

(* FUTEX_WAIT compares the word and sleeps in one step.                      *)
FutexWait(t) ==
    /\ pc[t] = "futex"
    /\ Goto(t, IF lock = 1 THEN "asleep" ELSE "exchange")
    /\ UNCHANGED <<readers, writers, lock>>

(* A signal ends the wait as well.                                           *)
Interrupted(t) ==
    /\ pc[t] = "asleep"
    /\ Goto(t, "exchange")
    /\ UNCHANGED <<readers, writers, lock>>

ReleaseWrite(t) ==
    /\ pc[t] = "writing"
    /\ lock' = 0
    /\ Goto(t, "wake")
    /\ UNCHANGED <<readers, writers>>

Asleep == {t \in Threads : pc[t] = "asleep"}

(* Mutant: FUTEX_WAKE of none.                                               *)
FutexWakeNone(t) ==
    /\ pc[t] = "wake"
    /\ Goto(t, "withdraw")
    /\ UNCHANGED <<readers, writers, lock>>

(* FUTEX_WAKE of one.                                                        *)
FutexWake(t) ==
    /\ pc[t] = "wake"
    /\ \/ \E u \in Asleep : pc' = [pc EXCEPT ![t] = "withdraw", ![u] = "exchange"]
       \/ Asleep = {} /\ Goto(t, "withdraw")
    /\ UNCHANGED <<readers, writers, lock>>

WithdrawWriter(t) ==
    /\ pc[t] = "withdraw"
    /\ writers' = writers - 1
    /\ Goto(t, "idle")
    /\ UNCHANGED <<readers, lock>>

-----------------------------------------------------------------------------

Reader(t) == CheckWriters(t) \/ AnnounceReader(t) \/ RecheckWriters(t) \/ RetractReader(t)
             \/ ReleaseRead(t)

Writer(t) == DrainReaders(t) \/ ExchangeLock(t) \/ FutexWait(t) \/ ReleaseWrite(t)
             \/ FutexWake(t) \/ WithdrawWriter(t)

Next == \E t \in Threads : AcquireRead(t) \/ Reader(t) \/ AcquireWrite(t) \/ Writer(t)
                           \/ Interrupted(t)

Spec == Init /\ [][Next]_vars

(* A thread that can go on does, inside the lock too; none has to ask for it, *)
(* and no signal has to come.                                                *)
Fairness == \A t \in Threads : WF_vars(Reader(t)) /\ WF_vars(Writer(t))

FairSpec == Spec /\ Fairness

-----------------------------------------------------------------------------
(* Properties.                                                             *)

(* The counters never pass the number of threads nor wrap below zero.        *)
TypeOK ==
    /\ readers \in 0..Cardinality(Threads)
    /\ writers \in 0..Cardinality(Threads)
    /\ lock \in {0, 1}
    /\ pc \in [Threads -> {"idle", "check", "announce", "recheck", "retract", "reading",
                           "drain", "exchange", "futex", "asleep", "writing", "wake",
                           "withdraw"}]

(* In whatever order the separate operations of readers and writers come, a   *)
(* thread that writes is alone.                                              *)
Exclusion ==
    \A t, u \in Threads :
        pc[t] = "writing" /\ t # u => pc[u] \notin {"reading", "writing"}

(* A writer that sleeps in the futex has somebody who will wake it, or take   *)
(* the free lock and wake it later: no release goes unnoticed.               *)
NoLostWakeup ==
    Asleep # {} =>
        \/ \E t \in Threads : pc[t] \in {"writing", "wake"}
        \/ lock = 0 /\ \E t \in Threads : pc[t] = "exchange"

(* When writers wait, one of them gets to write, however many readers come    *)
(* and go: a reader that has backed off stays out while a writer is counted.  *)
Waiting == {t \in Threads : pc[t] \in {"drain", "exchange", "futex", "asleep"}}

WritersProgress == (Waiting # {}) ~> (\E t \in Threads : pc[t] = "writing")

(* The two counters and the lock word implement a readers/writers lock.       *)
RW == INSTANCE ReadersWriters WITH reading <- {t \in Threads : pc[t] = "reading"},
                                   writing <- {t \in Threads : pc[t] = "writing"}

ImplementsReadersWriters == RW!Spec
================================================================================
