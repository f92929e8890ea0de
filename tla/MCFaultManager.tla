--------------------------- MODULE MCFaultManager ---------------------------
(* FaultManager with two clients; clients, and addresses, are interchangeable. *)
EXTENDS FaultManager, TLC

Symmetry == Permutations(Clients) \cup Permutations(Addresses)

(* The memory manager is worked in behaviours where nobody schedules, saves or  *)
(* restores, and the rest without a block: the two meet in Replicate alone,    *)
(* where neither touches the other's variables.                               *)
OneSide ==
    \/ /\ nextId = 1 /\ checkpoints = <<>> /\ alterations = 0
       /\ running /\ Cardinality(FailedNodes) <= 1
    \/ nextMemoryId = 1
=============================================================================
