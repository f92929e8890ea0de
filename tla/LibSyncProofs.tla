----------------------------- MODULE LibSyncProofs -----------------------------
(***************************************************************************)
(* The barrier of sync.c keeps its rounds apart, for any number of nodes    *)
(* and rounds; and the decision of handle_lock_request orders the nodes.    *)
(***************************************************************************)
EXTENDS LibSync, WellFoundedInduction, FiniteSetTheorems, TLAPS

USE NodeCountAssumption, BoundsAssumption

(* Those that the present round has counted.                                 *)
Here == {n \in Nodes : pc[n] \in {"asleep", "woken"} /\ my_generation[n] = generation}

Types ==
    /\ arrived_count \in Nat /\ generation \in Nat
    /\ my_generation \in [Nodes -> Nat]
    /\ mutex \in [Nodes -> [timestamp : 0..MaxTime, requesting : BOOLEAN, granted : BOOLEAN,
                            replies_received : Nat]]
    /\ pc \in [Nodes -> {"out", "asleep", "woken", "waiting"}]
    /\ arrived \in [Nodes -> 0..MaxRounds] /\ left \in [Nodes -> Nat]

CountInv == arrived_count = Cardinality(Here) /\ arrived_count < NodeCount

(* A node has come to the rounds that are over, and to the present one if it  *)
(* is counted there; it has left all of them but the one that it is in.       *)
RoundInv ==
    \A n \in Nodes :
        /\ my_generation[n] <= generation
        /\ pc[n] \in {"asleep", "woken"} =>
              my_generation[n] = generation \/ my_generation[n] + 1 = generation
        /\ arrived[n] = IF n \in Here THEN generation + 1 ELSE generation
        /\ left[n] = IF pc[n] \in {"asleep", "woken"} THEN arrived[n] - 1 ELSE arrived[n]

IInv == Types /\ CountInv /\ RoundInv

-----------------------------------------------------------------------------

LEMMA FiniteHere ==
  /\ IsFiniteSet(Nodes) /\ Cardinality(Nodes) = NodeCount
  /\ IsFiniteSet(Here) /\ Cardinality(Here) \in Nat
<1>1. IsFiniteSet(Nodes) /\ Cardinality(Nodes) = NodeCount
  BY FS_Interval DEF Nodes
<1>2. Here \subseteq Nodes
  BY DEF Here
<1> QED
  BY <1>1, <1>2, FS_Subset, FS_CardinalityType

LEMMA InitInv == Init => IInv
<1> SUFFICES ASSUME Init PROVE IInv
  OBVIOUS
<1>1. Here = {} /\ NodeCount > 0
  BY DEF Init, Here
<1>2. Types
  BY DEF Init, Types
<1>3. CountInv
  BY <1>1, FS_EmptySet DEF Init, CountInv
<1>4. RoundInv
  BY <1>1 DEF Init, RoundInv
<1> QED
  BY <1>2, <1>3, <1>4 DEF IInv

LEMMA TypesStep ==
  ASSUME Types, Next
  PROVE  Types'
<1> PICK n \in Nodes : \/ WaitAtBarrier(n) \/ Spurious(n) \/ Retest(n)
                       \/ Acquire(n) \/ Granted(n) \/ TimeOut(n) \/ HandleLockReply(n)
                       \/ Release(n)
  BY DEF Next
<1> USE DEF Types, barrierVars
<1>1. CASE WaitAtBarrier(n)
  <2>1. arrived' \in [Nodes -> 0..MaxRounds] /\ my_generation' \in [Nodes -> Nat] /\ mutex' = mutex
    BY <1>1 DEF WaitAtBarrier, Arrive
  <2>2. CASE Sleep(n)
    BY <2>1, <2>2 DEF Sleep
  <2>3. CASE Open(n)
    BY <2>1, <2>3 DEF Open, Woken
  <2> QED
    BY <1>1, <2>2, <2>3 DEF WaitAtBarrier
<1>2. CASE Spurious(n)
  BY <1>2 DEF Spurious
<1>3. CASE Retest(n)
  <2>1. pc' = [pc EXCEPT ![n] = "asleep"] \/ pc' = [pc EXCEPT ![n] = "out"]
    BY <1>3 DEF Retest
  <2>2. left' = left \/ left' = [left EXCEPT ![n] = left[n] + 1]
    BY <1>3 DEF Retest
  <2>3. UNCHANGED <<arrived_count, generation, my_generation, arrived, mutex>>
    BY <1>3 DEF Retest
  <2>4. left' \in [Nodes -> Nat]
    BY <2>2
  <2> QED
    BY <2>1, <2>3, <2>4
<1>4. CASE Acquire(n)
  <2>1. Request(n) \in [timestamp : 0..MaxTime, requesting : BOOLEAN, granted : BOOLEAN,
                        replies_received : Nat]
    BY <1>4 DEF Acquire, Request
  <2>2. pc' = pc \/ pc' = [pc EXCEPT ![n] = "waiting"]
    BY <1>4 DEF Acquire
  <2>3. mutex' \in [Nodes -> [timestamp : 0..MaxTime, requesting : BOOLEAN, granted : BOOLEAN,
                              replies_received : Nat]]
    BY <1>4, <2>1, SMTT(30) DEF Acquire
  <2> QED
    BY <1>4, <2>2, <2>3 DEF Acquire
<1>5. CASE Granted(n) \/ TimeOut(n)
  <2>1. PICK replies \in Nat : Grant(n, replies)
    BY <1>5 DEF Granted, TimeOut
  <2> QED
    BY <2>1, ZenonT(30) DEF Grant
<1>6. CASE HandleLockReply(n)
  BY <1>6, SMTT(30) DEF HandleLockReply
<1>7. CASE Release(n)
  BY <1>7, ZenonT(30) DEF Release
<1> QED
  BY <1>1, <1>2, <1>3, <1>4, <1>5, <1>6, <1>7

(* The last one to come finds all others there.                              *)
LEMMA AllHere ==
  ASSUME IInv, NEW n \in Nodes, pc[n] = "out", arrived_count + 1 = NodeCount
  PROVE  Here = Nodes \ {n}
<1>1. n \notin Here /\ Here \subseteq Nodes
  BY DEF Here
<1>2. Cardinality(Here \cup {n}) = Cardinality(Nodes)
  BY <1>1, FiniteHere, FS_AddElement DEF IInv, CountInv
<1>3. Here \cup {n} = Nodes
  BY <1>1, <1>2, FiniteHere, FS_Subset
<1> QED
  BY <1>1, <1>3

LEMMA RoundStep ==
  ASSUME IInv, Types', Next
  PROVE  CountInv' /\ RoundInv'
<1> PICK n \in Nodes : \/ WaitAtBarrier(n) \/ Spurious(n) \/ Retest(n)
                       \/ Acquire(n) \/ Granted(n) \/ TimeOut(n) \/ HandleLockReply(n)
                       \/ Release(n)
  BY DEF Next
<1> USE DEF IInv, Types, barrierVars
<1>1. CASE WaitAtBarrier(n) /\ Sleep(n)
  <2>1. n \notin Here /\ Here' = Here \cup {n}
    BY <1>1 DEF WaitAtBarrier, Arrive, Sleep, Here
  <2>2. Cardinality(Here') = Cardinality(Here) + 1
    BY <2>1, FiniteHere, FS_AddElement
  <2>3. CountInv'
    BY <1>1, <2>2 DEF Sleep, CountInv
  <2>4. RoundInv'
    BY <1>1, <2>1 DEF WaitAtBarrier, Arrive, Sleep, RoundInv
  <2> QED
    BY <2>3, <2>4
<1>2. CASE WaitAtBarrier(n) /\ Open(n)
  <2>1. pc[n] = "out" /\ Here = Nodes \ {n}
    BY <1>2, AllHere DEF WaitAtBarrier, Arrive, Open
  <2>2. \A o \in Nodes : my_generation'[o] # generation' \/ pc'[o] \notin {"asleep", "woken"}
    BY <1>2, <2>1 DEF WaitAtBarrier, Arrive, Open, Woken, RoundInv
  <2>3. Here' = {}
    BY <2>2 DEF Here
  <2>4. CountInv'
    BY <1>2, <2>3, FS_EmptySet DEF Open, CountInv
  <2>5. ASSUME NEW o \in Nodes
        PROVE  /\ my_generation'[o] <= generation'
               /\ pc'[o] \in {"asleep", "woken"} =>
                     my_generation'[o] = generation' \/ my_generation'[o] + 1 = generation'
               /\ arrived'[o] = generation'
               /\ left'[o] = IF pc'[o] \in {"asleep", "woken"} THEN arrived'[o] - 1
                             ELSE arrived'[o]
    <3>1. CASE o = n
      BY <1>2, <2>1, <3>1 DEF WaitAtBarrier, Arrive, Open, Woken, RoundInv
    <3>2. CASE o # n
      <4>1. o \in Here /\ pc[o] \in {"asleep", "woken"} /\ my_generation[o] = generation
        BY <2>1, <3>2 DEF Here
      <4> QED
        BY <1>2, <2>1, <3>2, <4>1 DEF WaitAtBarrier, Arrive, Open, Woken, RoundInv
    <3> QED
      BY <3>1, <3>2
  <2>6. RoundInv'
    BY <2>3, <2>5 DEF RoundInv
  <2> QED
    BY <2>4, <2>6
<1>3. ASSUME UNCHANGED <<arrived_count, generation, my_generation, arrived, left>>,
             \A o \in Nodes : pc'[o] \in {"asleep", "woken"} <=> pc[o] \in {"asleep", "woken"}
      PROVE  CountInv' /\ RoundInv'
  <2>1. Here' = Here
    BY <1>3 DEF Here
  <2> QED
    BY <1>3, <2>1 DEF CountInv, RoundInv
<1>4. CASE Spurious(n)
  BY <1>3, <1>4 DEF Spurious
<1>5. CASE Retest(n)
  <2>1. CASE generation = my_generation[n]
    BY <1>3, <1>5, <2>1 DEF Retest
  <2>2. CASE generation # my_generation[n]
    <3>1. Here' = Here
      BY <1>5, <2>2 DEF Retest, Here
    <3> QED
      BY <1>5, <2>2, <3>1 DEF Retest, CountInv, RoundInv
  <2> QED
    BY <2>1, <2>2
<1>6. CASE Acquire(n) \/ Granted(n) \/ TimeOut(n) \/ HandleLockReply(n) \/ Release(n)
  <2>1. CASE Acquire(n)
    BY <1>3, <2>1 DEF Acquire
  <2>2. CASE Granted(n) \/ TimeOut(n)
    BY <1>3, <2>2 DEF Granted, TimeOut, Grant
  <2>3. CASE HandleLockReply(n) \/ Release(n)
    BY <1>3, <2>3 DEF HandleLockReply, Release
  <2> QED
    BY <1>6, <2>1, <2>2, <2>3
<1> QED
  BY <1>1, <1>2, <1>4, <1>5, <1>6 DEF WaitAtBarrier

LEMMA NextInv == IInv /\ [Next]_vars => IInv'
<1> SUFFICES ASSUME IInv, [Next]_vars PROVE IInv'
  OBVIOUS
<1>1. CASE Next
  <2>1. Types'
    BY <1>1, TypesStep DEF IInv
  <2> QED
    BY <1>1, <2>1, RoundStep DEF IInv
<1>2. CASE UNCHANGED vars
  <2>1. Here' = Here
    BY <1>2 DEF vars, barrierVars, Here
  <2> QED
    BY <1>2, <2>1 DEF vars, barrierVars, IInv, Types, CountInv, RoundInv
<1> QED
  BY <1>1, <1>2

(* Nobody leaves a round early, for any number of nodes, however often the    *)
(* barrier is used and however the waits end.                                *)
THEOREM RoundsCorrect == Spec => []RoundsTogether
<1>1. IInv => RoundsTogether
  <2> SUFFICES ASSUME IInv, NEW n \in Nodes, NEW o \in Nodes PROVE left[n] <= arrived[o]
    BY DEF RoundsTogether
  <2>1. left[n] <= generation
    BY DEF IInv, Types, RoundInv, Here
  <2>2. generation <= arrived[o]
    BY DEF IInv, Types, RoundInv
  <2> QED
    BY <2>1, <2>2 DEF IInv, Types
<1> QED
  BY <1>1, InitInv, NextInv, PTL DEF Spec

(* The variables have their types, and the counters their bounds.            *)
THEOREM TypeCorrect == Spec => []TypeOK
<1>1. IInv => TypeOK
  <2> SUFFICES ASSUME IInv PROVE TypeOK
    OBVIOUS
  <2>1. \A n \in Nodes : generation <= arrived[n] /\ left[n] <= arrived[n]
    BY DEF IInv, Types, RoundInv
  <2>2. generation \in 0..MaxRounds
    <3>1. 1 \in Nodes
      BY DEF Nodes
    <3> QED
      BY <2>1, <3>1 DEF IInv, Types
  <2>3. my_generation \in [Nodes -> 0..MaxRounds]
    BY <2>2 DEF IInv, Types, RoundInv
  <2> QED
    BY <2>1, <2>2, <2>3 DEF IInv, Types, CountInv, TypeOK
<1> QED
  BY <1>1, InitInv, NextInv, PTL DEF Spec

-----------------------------------------------------------------------------
(* The order of the requests.                                              *)

LEMMA Least ==
  ASSUME NEW T, T \subseteq Nat, T # {}
  PROVE  \E x \in T : \A y \in T : x <= y
<1>1. PICK x \in T : \A y \in T : ~ (<<y, x>> \in OpToRel(<, Nat))
  BY NatLessThanWellFounded, WFMin
<1>2. ASSUME NEW y \in T PROVE x <= y
  <2>1. <<y, x>> \notin OpToRel(<, Nat) /\ x \in Nat /\ y \in Nat
    BY <1>1
  <2> QED
    BY <2>1 DEF OpToRel
<1> QED
  BY <1>2

(* Whatever nodes ask for the mutex, one of them comes first.                *)
THEOREM OrderCorrect == Spec => []OneIsFirst
<1>1. IInv => OneIsFirst
  <2> SUFFICES ASSUME IInv, Asking # {}
               PROVE  \E n \in Asking : \A o \in Asking \ {n} :
                        /\ ShouldGrant(mutex[o], o, n, mutex[n].timestamp)
                        /\ ~ShouldGrant(mutex[n], n, o, mutex[o].timestamp)
    BY DEF OneIsFirst
  <2>1. /\ Asking \subseteq Nodes /\ Nodes \subseteq Nat
        /\ \A n \in Asking : mutex[n].timestamp \in Nat /\ mutex[n].requesting
    <3>1. Asking \subseteq Nodes /\ \A n \in Asking : mutex[n].requesting
      BY DEF Asking
    <3>2. \A n \in Nodes : mutex[n].timestamp \in Nat
      BY DEF IInv, Types
    <3>3. Nodes \subseteq Nat
      BY DEF Nodes
    <3> QED
      BY <3>1, <3>2, <3>3
  <2>2. PICK x \in {mutex[n].timestamp : n \in Asking} :
             \A y \in {mutex[n].timestamp : n \in Asking} : x <= y
    <3>1. {mutex[n].timestamp : n \in Asking} # {} /\ {mutex[n].timestamp : n \in Asking} \subseteq Nat
      BY <2>1
    <3> QED
      BY <3>1, Least
  <2>3. PICK n \in {m \in Asking : mutex[m].timestamp = x} :
             \A o \in {m \in Asking : mutex[m].timestamp = x} : n <= o
    <3>1. {m \in Asking : mutex[m].timestamp = x} # {}
          /\ {m \in Asking : mutex[m].timestamp = x} \subseteq Nat
      BY <2>1, <2>2
    <3> QED
      BY <3>1, Least
  <2>4. ASSUME NEW o \in Asking \ {n}
        PROVE  /\ ShouldGrant(mutex[o], o, n, mutex[n].timestamp)
               /\ ~ShouldGrant(mutex[n], n, o, mutex[o].timestamp)
    <3>1. /\ o \in Nat /\ n \in Nat /\ o # n /\ mutex[n].timestamp = x
          /\ mutex[o].timestamp \in Nat /\ x \in Nat /\ x <= mutex[o].timestamp
      BY <2>1, <2>2, <2>3
    <3>2. mutex[o].timestamp = x => n < o
      BY <2>3, <3>1
    <3> QED
      BY <2>1, <3>1, <3>2 DEF ShouldGrant
  <2> QED
    BY <2>4
<1> QED
  BY <1>1, InitInv, NextInv, PTL DEF Spec
================================================================================
