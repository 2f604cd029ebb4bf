------------------------- MODULE MCProviderTeardown -------------------------
(* ProviderTeardown on a small instance.                                     *)
EXTENDS ProviderTeardown
=============================================================================
