------------------------------ MODULE LibCommon ------------------------------
(***************************************************************************)
(* What the parts of the simulation library share, src/src/common.h: the   *)
(* threads that call it and the nodes, numbered by their place in the      *)
(* array its callers pass around.                                          *)
(***************************************************************************)
EXTENDS Integers, Sequences, FiniteSets

CONSTANTS Clients,   \* the threads that call the library
          NodeCount  \* entries of the callers' node array

ASSUME NodeCountAssumption == NodeCount \in Nat

Nodes      == 1..NodeCount
NodeStatus == {"IDLE", "BUSY", "OFFLINE", "FAILED"}
TaskStatus == {"PENDING", "RUNNING", "COMPLETED", "FAILED"}
=============================================================================
