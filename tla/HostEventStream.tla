--------------------------- MODULE HostEventStream ---------------------------
(***************************************************************************)
(* The events of one host turn, from the runtime's durable log through the *)
(* Mission Capsule and its socket into the Node's journal.  Both ends run  *)
(* the same reducer (acceptHostEvent, protocol/adapter.ts): the Capsule    *)
(* from the first event of every connection, under the default policy and  *)
(* the limits of the grant, the Node from its journal, under the policy of *)
(* its profile.  Connections break, either process may die, and a runtime  *)
(* may come back with a history that is not the one it has shown before.   *)
(*                                                                         *)
(* An event is [seq, kind, turn, text, arts, usage]: text is its number of *)
(* text bytes, arts the artifacts it names.  A turn is [id, scope], scope  *)
(* standing for the session, Mission, delivery, attempt and contract.      *)
(* Tool and permission activity is one kind, "activity".                   *)
(***************************************************************************)
EXTENDS Integers, Sequences, FiniteSets, SequencesExt, Functions

CONSTANTS Artifacts,      \* artifact references
          Size,           \* the bytes of each of them
          Forbidden,      \* artifacts of a type the grant does not allow
          Payloads,       \* [kind, text, arts, usage]: what a runtime may emit
          DefaultPolicy,  \* DEFAULT_HOST_EVENT_STREAM_POLICY
          NodePolicy,     \* the Node's, for this profile and this adapter
          Limits,         \* effective_limits of the grant
          MaxLog,         \* events of a runtime history
          MaxWire,        \* frames in the socket
          MaxBreaks       \* broken connections and deaths

Kinds == {"accepted", "output", "activity", "artifact", "usage", "completed", "failed", "cancelled"}
Usages == [has : {"null", "unavailable", "available"}, in : Nat, out : Nat]

ASSUME StreamAssumption ==
    /\ IsFiniteSet(Artifacts) /\ Size \in [Artifacts -> Nat] /\ Forbidden \subseteq Artifacts
    /\ Payloads \subseteq [kind : Kinds, text : Nat, arts : SUBSET Artifacts, usage : Usages]
    /\ Limits \in [output : Nat, artifacts : Nat, artifactBytes : Nat, tokens : Nat]
    /\ MaxLog \in Nat /\ MaxWire \in Nat \ {0} /\ MaxBreaks \in Nat

VARIABLES log,      \* the runtime's durable events
          before,   \* history: its log before it was lost
          cap,      \* the Capsule's stream
          wire,     \* frames in the socket
          journal,  \* host_events of the Node's journal
          node,     \* the Node's consumer
          revoked,  \* the grant is revoked
          breaks

streamVars == <<log, before, cap, wire, journal, node, revoked, breaks>>

Ours == [id |-> 1, scope |-> "ours"]
AnyOurs == [id |-> 0, scope |-> "ours"]    \* a correlation without turnId
NoUsage == [has |-> "null", in |-> 0, out |-> 0]

Ends(e) == e.kind \in {"completed", "failed", "cancelled"}
Bytes(A) == SumFunctionOnSet(Size, A)

-----------------------------------------------------------------------------
(* acceptHostEvent *)

NewStream(expected) == [phase |-> "awaiting", last |-> 0, out |-> 0, arts |-> {},
                        usage |-> NoUsage, turn |-> expected]

\* matchesExpectedHostTurn until the turn is accepted, sameHostTurnRef after.
SameTurn(st, e) ==
    /\ e.turn.scope = st.turn.scope
    /\ st.turn.id \in {0, e.turn.id}

UsageRefused(st, u, pol) ==
    \/ u.has = "available" /\ (~pol.reports \/ u.in + u.out > pol.tokens)
    \/ st.usage.has = "available"
       /\ (u.has # "available" \/ u.in < st.usage.in \/ u.out < st.usage.out)

Rejects(st, e, pol) ==
    \/ e.seq # st.last + 1
    \/ (st.phase = "awaiting") # (e.kind = "accepted")
    \/ st.phase = "terminal"
    \/ ~SameTurn(st, e)
    \/ e.seq > pol.events
    \/ st.out + e.text > pol.output
    \/ Cardinality(st.arts \cup e.arts) > pol.artifacts
    \/ Bytes(st.arts \cup e.arts) > pol.artifactBytes
    \/ e.kind = "usage" /\ UsageRefused(st, e.usage, pol)
    \/ Ends(e) /\ st.usage.has = "null"

Applied(st, e) ==
    [phase |-> IF Ends(e) THEN "terminal" ELSE "active",
     last  |-> e.seq,
     out   |-> st.out + e.text,
     arts  |-> st.arts \cup e.arts,
     usage |-> IF e.kind = "usage" THEN e.usage ELSE st.usage,
     turn  |-> IF st.phase = "awaiting" THEN e.turn ELSE st.turn]

\* The state after a sequence of events, and whether each of them is accepted.
Replay(expected, events) == FoldLeft(Applied, NewStream(expected), events)
Valid(expected, events, pol) ==
    \A i \in DOMAIN events :
        ~Rejects(Replay(expected, SubSeq(events, 1, i - 1)), events[i], pol)

-----------------------------------------------------------------------------
Idle == [on |-> FALSE, st |-> NewStream(AnyOurs), pos |-> 0]
NotReading == [pc |-> "off", st |-> NewStream(AnyOurs)]

StreamInit == /\ log = <<>> /\ before = <<>>
        /\ cap = Idle
        /\ wire = <<>> /\ journal = <<>>
        /\ node = NotReading
        /\ revoked = FALSE /\ breaks = 0

Event(n, turn, p) == [seq |-> n, turn |-> turn, kind |-> p.kind, text |-> p.text,
                      arts |-> p.arts, usage |-> p.usage]

\* A runtime in order emits `accepted' first and once and ends with a result;
\* one that is not skips a number, goes on after its result, accepts another
\* delivery or ends another turn.
Proper(n) == {Event(n, Ours, p) : p \in {q \in Payloads : (n = 1) <=> (q.kind = "accepted")}}
Odd(n) == {Event(m, Ours, p) : m \in {n, n + 1}, p \in {q \in Payloads : q.kind = "activity"}}
          \cup {Event(n, [Ours EXCEPT !.id = 2], p) : p \in {q \in Payloads : q.kind = "completed"}}
          \cup {Event(n, [Ours EXCEPT !.scope = "other"], p) : p \in {q \in Payloads : q.kind = "accepted"}}

RuntimeEmits ==
    /\ Len(log) < MaxLog
    /\ \A i \in DOMAIN log : log[i] \in Proper(i)
    /\ LET n == Len(log) + 1 IN
       \E e \in Odd(n) \cup (IF log # <<>> /\ Ends(Last(log)) THEN {} ELSE Proper(n)) :
          log' = Append(log, e)
    /\ UNCHANGED <<before, cap, wire, journal, node, revoked, breaks>>

\* lookupTurn, then startTurn or recoverTurn; the Node's consumer replays its
\* journal before it reads.
Expected == IF journal = <<>> THEN AnyOurs ELSE journal[1].turn

Connect ==
    /\ node.pc = "off" /\ ~revoked
    /\ cap' = [on |-> TRUE, pos |-> 0,
               st |-> NewStream(IF log = <<>> THEN AnyOurs ELSE log[1].turn)]
    /\ wire' = <<>>
    /\ node' = [pc |-> "reading", st |-> Replay(Expected, journal)]
    /\ UNCHANGED <<log, before, journal, revoked, breaks>>

-----------------------------------------------------------------------------
(* The Capsule *)

End == [kind |-> "end"]
Error == [kind |-> "error"]

\* gateEvent: an event is measured by what its stream has published with it.
Denied(st, e) ==
    \/ e.text > 0 /\ st.out > Limits.output
    \/ e.kind = "usage" /\ e.usage.has = "available" /\ e.usage.in + e.usage.out > Limits.tokens
    \/ e.arts # {} /\ \/ Cardinality(st.arts) > Limits.artifacts
                      \/ Bytes(st.arts) > Limits.artifactBytes
                      \/ e.arts \cap Forbidden # {}

\* streamEvents: a refused event ends the stream with an error, a denied one
\* revokes the grant as well.
Forward ==
    /\ cap.on /\ ~revoked /\ cap.pos < Len(log) /\ Len(wire) < MaxWire
    /\ LET e == log[cap.pos + 1]
           st == Applied(cap.st, e) IN
       \/ /\ Rejects(cap.st, e, DefaultPolicy)
          /\ cap' = Idle /\ wire' = Append(wire, Error) /\ UNCHANGED revoked
       \/ /\ ~Rejects(cap.st, e, DefaultPolicy) /\ Denied(st, e)
          /\ cap' = Idle /\ wire' = Append(wire, Error) /\ revoked' = TRUE
       \/ /\ ~Rejects(cap.st, e, DefaultPolicy) /\ ~Denied(st, e)
          /\ cap' = [cap EXCEPT !.st = st, !.pos = @ + 1]
          /\ wire' = Append(wire, e) /\ UNCHANGED revoked
    /\ UNCHANGED <<log, before, journal, node, breaks>>

\* The runtime's stream ends with a terminal event that is its last.
EndStream ==
    /\ cap.on /\ cap.pos = Len(log) /\ cap.st.phase = "terminal" /\ Len(wire) < MaxWire
    /\ cap' = Idle /\ wire' = Append(wire, End)
    /\ UNCHANGED <<log, before, journal, node, revoked, breaks>>

\* The turn ends between the runtime's read of its events and its question
\* whether the turn has ended: the stream is over before its result, which
\* the Capsule reports as an error.
EndsEarly ==
    /\ cap.on /\ cap.pos < Len(log) /\ Ends(Last(log)) /\ breaks < MaxBreaks
    /\ breaks' = breaks + 1
    /\ cap' = Idle /\ wire' = Append(wire, Error)
    /\ UNCHANGED <<log, before, journal, node, revoked>>

-----------------------------------------------------------------------------
(* The Node: consumeHostEvents *)

Fails == node' = NotReading /\ wire' = <<>> /\ cap' = Idle /\ UNCHANGED journal

\* Mutants: a replayed event is not compared; it is refused.
ReplayedUnseen(e) ==
    /\ e.seq <= Len(journal)
    /\ wire' = Tail(wire) /\ UNCHANGED <<journal, node, cap>>
ReplayedRefused(e) == e.seq <= Len(journal) /\ Fails

\* An event at a journaled number must be the journaled event.
Replayed(e) ==
    /\ e.seq <= Len(journal)
    /\ IF journal[e.seq] = e
       THEN wire' = Tail(wire) /\ UNCHANGED <<journal, node, cap>>
       ELSE Fails

Journals(e) ==
    /\ e.seq > Len(journal)
    /\ IF Rejects(node.st, e, NodePolicy) THEN Fails
       ELSE /\ journal' = Append(journal, e)
            /\ node' = [node EXCEPT !.st = Applied(@, e)]
            /\ wire' = Tail(wire) /\ UNCHANGED cap

Receive ==
    /\ node.pc = "reading" /\ wire # <<>>
    /\ LET f == Head(wire) IN
       \/ f.kind \notin {"end", "error"} /\ (Replayed(f) \/ Journals(f))
       \/ f.kind = "error" /\ Fails
       \/ /\ f.kind = "end"
          /\ IF node.st.phase = "terminal"
             THEN node' = [node EXCEPT !.pc = "done"] /\ wire' = <<>> /\ UNCHANGED <<journal, cap>>
             ELSE Fails
    /\ UNCHANGED <<log, before, revoked, breaks>>

-----------------------------------------------------------------------------
(* Faults *)

\* The connection breaks, with any of the frames that were on the way.
Break ==
    /\ cap.on /\ breaks < MaxBreaks
    /\ breaks' = breaks + 1
    /\ cap' = Idle
    /\ \E n \in 0 .. Len(wire) : wire' = Append(SubSeq(wire, 1, n), Error)
    /\ UNCHANGED <<log, before, journal, node, revoked>>

\* The Node dies, or cannot write its journal.
NodeDies ==
    /\ node.pc = "reading" /\ breaks < MaxBreaks
    /\ breaks' = breaks + 1
    /\ Fails
    /\ UNCHANGED <<log, before, revoked>>

\* The Capsule dies and its runtime comes back without its latest events.
RuntimeLoses ==
    /\ before = <<>> /\ log # <<>> /\ breaks < MaxBreaks
    /\ breaks' = breaks + 1
    /\ before' = log
    /\ \E n \in 1 .. Len(log) - 1 : log' = SubSeq(log, 1, n)
    /\ cap' = Idle
    /\ \E n \in 0 .. Len(wire) :
          wire' = IF cap.on THEN Append(SubSeq(wire, 1, n), Error) ELSE wire
    /\ UNCHANGED <<journal, node, revoked>>

StreamNext == \/ RuntimeEmits \/ Connect \/ Forward \/ EndStream \/ Receive
        \/ EndsEarly \/ Break \/ NodeDies \/ RuntimeLoses

StreamSpec == StreamInit /\ [][StreamNext]_streamVars

\* The Node reconnects, the Capsule streams what it has and the Node reads.
FairStream == /\ StreamSpec
            /\ WF_streamVars(Connect) /\ WF_streamVars(Forward) /\ WF_streamVars(EndStream) /\ WF_streamVars(Receive)

-----------------------------------------------------------------------------
\* The types of the variables.
StreamTypeOK ==
    /\ Len(log) <= MaxLog /\ Len(before) <= MaxLog
    /\ cap.on \in BOOLEAN /\ cap.pos \in 0 .. MaxLog
    /\ cap.st.phase \in {"awaiting", "active", "terminal"}
    /\ node.pc \in {"off", "reading", "done"}
    /\ revoked \in BOOLEAN /\ breaks \in 0 .. MaxBreaks

\* The journal can always be replayed, and a replay gives the state the Node
\* had when it wrote the last event: a restart loses and repeats no
\* accounting (delivery-processor.ts:1068).
JournalReplays ==
    /\ Valid(Expected, journal, NodePolicy)
    /\ node.pc # "off" => node.st = Replay(Expected, journal)

\* What the Node has journaled is one history of the runtime, never the start
\* of one and the rest of another (delivery-processor.ts:1085).
OneHistory == IsPrefix(journal, log) \/ IsPrefix(journal, before)

TextOf(events) == FoldLeft(LAMBDA n, e : n + e.text, 0, events)
ArtifactsOf(events) == UNION {events[i].arts : i \in DOMAIN events}

\* Over all connections of a turn, what the Node journals stays within the grant:
\* text, distinct artifacts, their bytes and types, and tokens.  The Capsule lets
\* nothing else out (capsule-authority.ts:138).
WithinGrant ==
    /\ TextOf(journal) <= Limits.output
    /\ Cardinality(ArtifactsOf(journal)) <= Limits.artifacts
    /\ Bytes(ArtifactsOf(journal)) <= Limits.artifactBytes
    /\ ArtifactsOf(journal) \cap Forbidden = {}
    /\ \A i \in DOMAIN journal : journal[i].kind = "usage" /\ journal[i].usage.has = "available" =>
          journal[i].usage.in + journal[i].usage.out <= Limits.tokens

\* A finished turn is accepted once, first; has one result, last, after its
\* usage; its reported usage never falls; and all of it is about the turn that
\* was accepted (adapter.ts:468).
WellFormed ==
    \A i \in DOMAIN journal :
        /\ (i = 1) <=> (journal[i].kind = "accepted")
        /\ journal[i].turn = journal[1].turn /\ journal[i].turn.scope = "ours"
        /\ Ends(journal[i]) => /\ i = Len(journal)
                               /\ \E j \in 1 .. i : journal[j].kind = "usage"
        /\ \A j \in 1 .. i - 1 :
              journal[i].kind = "usage" /\ journal[j].kind = "usage"
              /\ journal[j].usage.has = "available" =>
                  /\ journal[i].usage.in >= journal[j].usage.in
                  /\ journal[i].usage.out >= journal[j].usage.out

\* The journal is a faithful copy of one well-formed history within the grant,
\* and enough to restore the Node's accounting (delivery-processor.ts:1068).
JournalFaithful == JournalReplays /\ OneHistory /\ WithinGrant /\ WellFormed

\* The runtime's log is finished and every policy admits it.
Complete ==
    /\ log # <<>> /\ Ends(Last(log))
    /\ Valid(AnyOurs, log, DefaultPolicy) /\ Valid(AnyOurs, log, NodePolicy)
    /\ \A i \in DOMAIN log : ~Denied(Replay(AnyOurs, SubSeq(log, 1, i)), log[i])

\* A finished turn whose events every policy admits reaches the Node in the
\* end, however often its stream was cut, unless its history is lost
\* (delivery-processor.ts:1083).
Delivered == Complete ~> (node.pc = "done" \/ before # <<>> \/ ~Complete)

=============================================================================
