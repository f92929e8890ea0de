---------------------------- MODULE MCAlpineKernel ----------------------------
(* AlpineKernel on a small network.                                          *)
EXTENDS AlpineKernel
================================================================================
