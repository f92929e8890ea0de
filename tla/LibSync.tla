-------------------------------- MODULE LibSync --------------------------------
(***************************************************************************)
(* The barrier and the Lamport mutex of src/src/sync/sync.c.  The nodes are *)
(* threads that share one barrier; each has a mutex of its own, to which    *)
(* replies of the others may come at any time, or never.  A critical        *)
(* section under a structure's pthread mutex is one step; waiting on a       *)
(* condition variable gives that mutex up and ends by a signal, by a         *)
(* timeout, or for no reason.                                              *)
(*                                                                         *)
(* A node releases its mutex only when it has it and does not take it        *)
(* twice.  arrived_nodes, which nothing reads, is left out.                 *)
(***************************************************************************)
EXTENDS Integers, FiniteSets

CONSTANTS
    NodeCount,   \* total_nodes
    MaxRounds,   \* times that a node comes to the barrier
    MaxTime,     \* times that a node asks for its mutex
    MaxReplies   \* replies that are counted at a time

ASSUME NodeCountAssumption == NodeCount \in Nat \ {0}
ASSUME BoundsAssumption == MaxRounds \in Nat /\ MaxTime \in Nat /\ MaxReplies \in Nat

Nodes == 1..NodeCount

VARIABLES
    arrived_count, generation,  \* barrier
    my_generation,              \* of wait_at_barrier
    mutex,                      \* each node's LamportMutex
    pc,                         \* "out", "asleep", "woken" (barrier), "waiting" (mutex)
    arrived, left               \* history: the rounds that a node has begun and ended

barrierVars == <<arrived_count, generation, my_generation, arrived, left>>
vars == <<barrierVars, mutex, pc>>

Init ==
    /\ arrived_count = 0 /\ generation = 0
    /\ my_generation = [n \in Nodes |-> 0]
    /\ mutex = [n \in Nodes |-> [timestamp |-> 0, requesting |-> FALSE, granted |-> FALSE,
                                 replies_received |-> 0]]
    /\ pc = [n \in Nodes |-> "out"]
    /\ arrived = [n \in Nodes |-> 0] /\ left = [n \in Nodes |-> 0]

-----------------------------------------------------------------------------
(* wait_at_barrier                                                         *)

Woken == [n \in Nodes |-> IF pc[n] = "asleep" THEN "woken" ELSE pc[n]]

(* Mutant: the count goes on in the next round.                              *)
OpenKeepsCount(n) ==
    /\ arrived_count + 1 = NodeCount
    /\ generation' = generation + 1
    /\ arrived_count' = arrived_count + 1
    /\ left' = [left EXCEPT ![n] = @ + 1]
    /\ pc' = Woken

(* The last one begins the next round and wakes the others.                   *)
Open(n) ==
    /\ arrived_count + 1 = NodeCount
    /\ generation' = generation + 1
    /\ arrived_count' = 0
    /\ left' = [left EXCEPT ![n] = @ + 1]
    /\ pc' = Woken

Arrive(n) ==
    /\ pc[n] = "out" /\ arrived[n] < MaxRounds
    /\ my_generation' = [my_generation EXCEPT ![n] = generation]
    /\ arrived' = [arrived EXCEPT ![n] = @ + 1]
    /\ UNCHANGED mutex

Sleep(n) ==
    /\ arrived_count + 1 # NodeCount
    /\ arrived_count' = arrived_count + 1
    /\ pc' = [pc EXCEPT ![n] = "asleep"]
    /\ UNCHANGED <<generation, left>>

WaitAtBarrier(n) == Arrive(n) /\ (Sleep(n) \/ Open(n))

Spurious(n) ==
    /\ pc[n] = "asleep"
    /\ pc' = [pc EXCEPT ![n] = "woken"]
    /\ UNCHANGED <<barrierVars, mutex>>

(* Mutant: the loop tests whether a round is under way, not which.            *)
RetestCount(n) ==
    /\ pc[n] = "woken"
    /\ IF arrived_count # 0
       THEN pc' = [pc EXCEPT ![n] = "asleep"] /\ UNCHANGED left
       ELSE pc' = [pc EXCEPT ![n] = "out"] /\ left' = [left EXCEPT ![n] = @ + 1]
    /\ UNCHANGED <<arrived_count, generation, my_generation, arrived, mutex>>

(* Mutant: a wait that ends is taken for the end of the round.               *)
RetestNothing(n) ==
    /\ pc[n] = "woken"
    /\ pc' = [pc EXCEPT ![n] = "out"]
    /\ left' = [left EXCEPT ![n] = @ + 1]
    /\ UNCHANGED <<arrived_count, generation, my_generation, arrived, mutex>>

Retest(n) ==
    /\ pc[n] = "woken"
    /\ IF generation = my_generation[n]
       THEN pc' = [pc EXCEPT ![n] = "asleep"] /\ UNCHANGED left
       ELSE pc' = [pc EXCEPT ![n] = "out"] /\ left' = [left EXCEPT ![n] = @ + 1]
    /\ UNCHANGED <<arrived_count, generation, my_generation, arrived, mutex>>

-----------------------------------------------------------------------------
(* acquire_distributed_lock, release_distributed_lock and the handlers.     *)

Request(n) == [timestamp |-> mutex[n].timestamp + 1, requesting |-> TRUE,
               granted |-> NodeCount = 1, replies_received |-> 0]

(* Asks; alone, a node has the mutex at once.                                *)
Acquire(n) ==
    /\ pc[n] = "out" /\ ~mutex[n].granted /\ mutex[n].timestamp < MaxTime
    /\ mutex' = [mutex EXCEPT ![n] = Request(n)]
    /\ pc' = IF NodeCount = 1 THEN pc ELSE [pc EXCEPT ![n] = "waiting"]
    /\ UNCHANGED barrierVars

Grant(n, replies) ==
    /\ mutex' = [mutex EXCEPT ![n] = [@ EXCEPT !.granted = TRUE, !.replies_received = replies]]
    /\ pc' = [pc EXCEPT ![n] = "out"]
    /\ UNCHANGED barrierVars

Granted(n) ==
    /\ pc[n] = "waiting" /\ mutex[n].replies_received >= NodeCount - 1
    /\ Grant(n, mutex[n].replies_received)

(* After two seconds the mutex is assumed to be granted.                     *)
TimeOut(n) == pc[n] = "waiting" /\ Grant(n, NodeCount - 1)

HandleLockReply(n) ==
    /\ mutex[n].replies_received < MaxReplies
    /\ mutex' = [mutex EXCEPT ![n] = [@ EXCEPT !.replies_received =
                                               mutex[n].replies_received + 1]]
    /\ UNCHANGED <<barrierVars, pc>>

Release(n) ==
    /\ pc[n] = "out" /\ mutex[n].granted
    /\ mutex' = [mutex EXCEPT ![n] = [@ EXCEPT !.requesting = FALSE, !.granted = FALSE]]
    /\ UNCHANGED <<barrierVars, pc>>

(* Mutant: with equal timestamps every node grants.                          *)
ShouldGrantTies(m, n, requesting_node, request_timestamp) ==
    ~m.requesting \/ request_timestamp <= m.timestamp

(* What handle_lock_request decides at node n.                               *)
ShouldGrant(m, n, requesting_node, request_timestamp) ==
    \/ ~m.requesting
    \/ request_timestamp < m.timestamp
    \/ request_timestamp = m.timestamp /\ requesting_node < n

-----------------------------------------------------------------------------

Next == \E n \in Nodes :
    \/ WaitAtBarrier(n) \/ Spurious(n) \/ Retest(n)
    \/ Acquire(n) \/ Granted(n) \/ TimeOut(n) \/ HandleLockReply(n) \/ Release(n)

Spec == Init /\ [][Next]_vars

(* A thread that was woken runs; no mutex has to be asked for or granted.     *)
Fairness == \A n \in Nodes : WF_vars(Retest(n))

FairSpec == Spec /\ Fairness

-----------------------------------------------------------------------------
(* Properties.                                                             *)

TypeOK ==
    /\ arrived_count \in 0..(NodeCount - 1) /\ generation \in 0..MaxRounds
    /\ my_generation \in [Nodes -> 0..MaxRounds]
    /\ mutex \in [Nodes -> [timestamp : 0..MaxTime, requesting : BOOLEAN, granted : BOOLEAN,
                            replies_received : Nat]]
    /\ pc \in [Nodes -> {"out", "asleep", "woken", "waiting"}]
    /\ arrived \in [Nodes -> 0..MaxRounds] /\ left \in [Nodes -> 0..MaxRounds]

(* Nobody leaves a round of the barrier that not everybody has come to,       *)
(* though the barrier is used again while some still wake up from the last    *)
(* round, and waits end for no reason.                                       *)
RoundsTogether == \A n, o \in Nodes : left[n] <= arrived[o]

(* A round to which all have come is left by all, whatever they do with their *)
(* mutexes meanwhile.                                                        *)
AllLeave ==
    \A r \in 0..(MaxRounds - 1) :
        (\A n \in Nodes : arrived[n] > r) ~> (\A n \in Nodes : left[n] > r)

(* Of any nodes that ask at the same time, there is one to which all others   *)
(* grant, and which grants to none of them.                                  *)
Asking == {n \in Nodes : mutex[n].requesting}

OneIsFirst ==
    Asking # {} =>
        \E n \in Asking : \A o \in Asking \ {n} :
            /\ ShouldGrant(mutex[o], o, n, mutex[n].timestamp)
            /\ ~ShouldGrant(mutex[n], n, o, mutex[o].timestamp)
================================================================================
