-------------------------- MODULE MCHostEventStream --------------------------
(* HostEventStream on a small instance: one artifact of two bytes, one of a   *)
(* type the grant forbids, and limits that some histories exceed.             *)
EXTENDS HostEventStream
MCSize == [a |-> 2, b |-> 1]
P(kind, text, arts) == [kind |-> kind, text |-> text, arts |-> arts, usage |-> NoUsage]
U(h, i, o) == [kind |-> "usage", text |-> 0, arts |-> {}, usage |-> [has |-> h, in |-> i, out |-> o]]
MCPayloads == {P("accepted", 0, {}), P("output", 1, {}), U("available", 1, 1),
               P("artifact", 0, {"b"}), P("completed", 1, {"a"})}
MCDefault == [events |-> 5, output |-> 3, artifacts |-> 2, artifactBytes |-> 3, tokens |-> 9,
              reports |-> TRUE]
MCNode == [MCDefault EXCEPT !.tokens = 2]
MCLimits == [output |-> 2, artifacts |-> 1, artifactBytes |-> 2, tokens |-> 2]
=============================================================================
