------------------------------- MODULE TaskLedger -------------------------------
(***************************************************************************)
(* What the scheduler of src/decentralized_os.c promises about tasks, with  *)
(* no threads, locks or registry: a task gets the next id and a node when   *)
(* it is created, is completed at most once, and stays in the table with    *)
(* its result; the count of completions is exact.                           *)
(***************************************************************************)
EXTENDS Naturals, Sequences

CONSTANT Nodes

VARIABLES ledger,   \* the tasks, in the order of their ids
          done      \* how many were completed

Init == ledger = <<>> /\ done = 0

Assign(n) ==
    /\ ledger' = Append(ledger, [task_id |-> Len(ledger) + 1, assigned_node |-> n,
                                 status |-> "ASSIGNED"])
    /\ UNCHANGED done

Complete(i) ==
    /\ ledger[i].status = "ASSIGNED"
    /\ ledger' = [ledger EXCEPT ![i] = [task_id |-> i,
                                        assigned_node |-> ledger[i].assigned_node,
                                        status |-> "COMPLETED"]]
    /\ done' = done + 1

Next == (\E n \in Nodes : Assign(n)) \/ (\E i \in DOMAIN ledger : Complete(i))

Spec == Init /\ [][Next]_<<ledger, done>>
================================================================================
