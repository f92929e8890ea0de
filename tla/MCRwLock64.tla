------------------------------ MODULE MCRwLock64 ------------------------------
(* RwLock64 with a few threads.                                              *)
EXTENDS RwLock64
================================================================================
