---------------------------- MODULE MCCodexCapsule ----------------------------
(* CodexCapsule on a small instance.                                           *)
EXTENDS CodexCapsule
===============================================================================
