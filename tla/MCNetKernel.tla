------------------------------ MODULE MCNetKernel ------------------------------
(* NetKernel on small networks.  The machines without an operator are        *)
(* interchangeable: no action and no property tells one from another.        *)
EXTENDS NetKernel, TLC

Symmetry == Permutations(Nodes \ Operated)
================================================================================
