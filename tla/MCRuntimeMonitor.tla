------------------------- MODULE MCRuntimeMonitor -------------------------
(* RuntimeMonitor on a small instance.                                     *)
EXTENDS RuntimeMonitor
=============================================================================
