---------------------------- MODULE ReadersWriters ----------------------------
(***************************************************************************)
(* What a readers/writers lock promises: at a time any number of threads   *)
(* read, or one thread writes.                                             *)
(***************************************************************************)
CONSTANT Threads

VARIABLES reading, writing

Init == reading = {} /\ writing = {}

StartRead(t) ==
    /\ writing = {} /\ t \notin reading
    /\ reading' = reading \cup {t}
    /\ UNCHANGED writing

EndRead(t) ==
    /\ t \in reading
    /\ reading' = reading \ {t}
    /\ UNCHANGED writing

StartWrite(t) ==
    /\ reading = {} /\ writing = {}
    /\ writing' = {t}
    /\ UNCHANGED reading

EndWrite(t) ==
    /\ writing = {t}
    /\ writing' = {}
    /\ UNCHANGED reading

Next == \E t \in Threads : StartRead(t) \/ EndRead(t) \/ StartWrite(t) \/ EndWrite(t)

Spec == Init /\ [][Next]_<<reading, writing>>
================================================================================
