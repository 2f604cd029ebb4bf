--------------------------- MODULE MCNodeProcessor ---------------------------
(* TLC instance of NodeProcessor.                                          *)
EXTENDS NodeProcessor
=============================================================================
