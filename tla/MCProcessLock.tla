---------------------------- MODULE MCProcessLock ----------------------------
(* ProcessLock on the instance of Lock.cfg.                                   *)
EXTENDS ProcessLock
==============================================================================
