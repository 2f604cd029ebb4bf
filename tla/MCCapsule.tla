------------------------------ MODULE MCCapsule ------------------------------
(* TLC instance of Capsule.                                                *)
EXTENDS Capsule
=============================================================================
