---------------------------- MODULE MCDecosKernel ----------------------------
(* DecosKernel on small instances.  Peers are interchangeable: no action and *)
(* no property tells one from another.                                       *)
EXTENDS DecosKernel, TLC

Symmetry == Permutations(Peers)
================================================================================
