--------------------------- MODULE MCMailboxWatch ---------------------------
(* MailboxWatch on the instance of Watch.cfg.                                *)
EXTENDS MailboxWatch
=============================================================================
