---------------------------- MODULE StateOwnership ----------------------------
(***************************************************************************)
(* What a process lock promises to the program that takes it: one file,    *)
(* published once and never replaced, at most one holder at a time, taken  *)
(* by nobody while there is a holder, and diagnostics that only a holder   *)
(* writes.  A holder may go at any moment.  ProcessLock implements this by *)
(* single file system calls.                                               *)
(***************************************************************************)
CONSTANTS Procs, None

VARIABLES file,     \* who published the lock file, None before
          holders,  \* the processes that hold the lock
          name      \* whom the diagnostics name

vars == <<file, holders, name>>

Init == file = None /\ holders = {} /\ name = None

Publish(p) == file = None /\ file' = p /\ UNCHANGED <<holders, name>>

Take(p) == /\ file # None /\ holders = {}
           /\ holders' = {p}
           /\ UNCHANGED <<file, name>>

Sign(p) == p \in holders /\ name' = p /\ UNCHANGED <<file, holders>>

Drop(p) == p \in holders /\ holders' = holders \ {p} /\ UNCHANGED <<file, name>>

Next == \E p \in Procs : Publish(p) \/ Take(p) \/ Sign(p) \/ Drop(p)

Spec == Init /\ [][Next]_vars
===============================================================================
