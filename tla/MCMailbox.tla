------------------------------- MODULE MCMailbox -------------------------------
(* TLC instance of Mailbox.                                                *)
EXTENDS Mailbox, TLC

CONSTANTS a, b, th1, th2

\* Two threads between the same agents, one in each direction.
SenderValue == (th1 :> a) @@ (th2 :> b)
RecipientValue == (th1 :> b) @@ (th2 :> a)

\* The sessions are interchangeable.
SlotSymmetry == Permutations(Slots)
=============================================================================
