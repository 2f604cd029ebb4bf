---------------------------- MODULE MCLiveBridge ----------------------------
(* Instances of LiveBridge for TLC. *)
EXTENDS LiveBridge
=============================================================================
