----------------------------- MODULE MissionLedger -----------------------------
(***************************************************************************)
(* The Relay's Mission ledger: the delivery ledger composed with the       *)
(* Mission coordinator.  A completion appends its events to the Mission's  *)
(* log, runs the reducer over them, settles the deliveries they answer and *)
(* creates the deliveries that the new coordinator state calls for, all in *)
(* one transaction.                                                        *)
(*                                                                         *)
(* Each participant is routed to one Node of its own, so the model names   *)
(* both by the participant.                                                *)
(***************************************************************************)
EXTENDS Integers, Sequences, FiniteSets, SequencesExt

CONSTANTS
    First, Second, Commands, MaxTurns, BaseVersion,     \* see MissionCoordinator
    MaxAttempts, LeaseDuration, BaseBackoff, MaxBackoff, MissionExpiry,
    MaxClock, MaxRenewals, MaxDeliveries, MaxCreated    \* see DeliveryLedger

VARIABLES
    clock, mission, rows, receipts, ledger, binding, blocked,   \* see DeliveryLedger
    coord,      \* missions.state, the reducer's projection of the event log
    accepted    \* the mission_participants whose status is accepted

Coordinator == INSTANCE MissionCoordinator WITH state <- coord

Participants == {First, Second}

\* What a delivery asks of its participant; round is 0 except in verification.
MissionWork == [kind : {"turn", "contract_acknowledgement", "verification"},
                version : Nat, round : Nat]

Ledger == INSTANCE DeliveryLedger WITH Nodes <- Participants, Work <- MissionWork

vars == <<clock, mission, rows, receipts, ledger, binding, blocked, coord, accepted>>

TypeOK ==
    /\ Ledger!TypeOK
    /\ Coordinator!TypeOK
    /\ accepted \subseteq Participants

-----------------------------------------------------------------------------
(* Completion *)

\* buildCompletionEvents: the events of a result for row d.  A turn and an
\* acknowledgement are one event each; evidence is one event per required
\* command, in the order of the Mission's configuration.
CompletionEvents(d, result) ==
    LET p == rows[d].node
        w == rows[d].work IN
    CASE w.kind = "turn" ->
            <<[type |-> "turn_completed", by |-> p, delivery |-> d,
               version |-> w.version, kind |-> result]>>
      [] w.kind = "contract_acknowledgement" ->
            <<[type |-> "contract_acknowledged", by |-> p, delivery |-> d,
               version |-> w.version]>>
      [] w.kind = "verification" ->
            LET order == SetToSeq(Commands[p]) IN
            [i \in DOMAIN order |->
                [type |-> "verification_recorded", by |-> p, delivery |-> d,
                 version |-> w.version, round |-> w.round, command |-> order[i],
                 outcome |-> result[order[i]]]]

\* The results a Node may submit for row d.
Results(d) ==
    CASE rows[d].work.kind = "turn" -> {"reply", "propose_contract", "ready"}
      [] rows[d].work.kind = "contract_acknowledgement" -> {"acknowledged"}
      [] rows[d].work.kind = "verification" ->
            [Commands[rows[d].node] -> {"passed", "failed"}]

\* shouldSettleSourceDelivery: whether the event that led to next settles the
\* delivery it came from.
SettlesSource(next, e) ==
    CASE e.type # "verification_recorded" -> TRUE
      [] e.type = "verification_recorded" /\ next.status # "verifying" -> TRUE
      [] OTHER -> /\ e.outcome = "passed"
                  /\ \A c \in Commands[e.by] : \E r \in next.records :
                        r.by = e.by /\ r.command = c /\ r.outcome = "passed"

\* Mutant: a failed verification settles its own delivery only.
SettledSourceOnly(next, e) == {e.delivery}

\* The unsettled deliveries the event settles: a failed verification also ends
\* the other participant's verification of that round.
SettledBy(next, e) ==
    IF e.type = "verification_recorded" /\ next.status \in {"active", "failed"}
    THEN {d \in DOMAIN rows :
            /\ rows[d].settled = 0
            /\ rows[d].work = [kind |-> "verification", version |-> e.version,
                               round |-> e.round]}
    ELSE {e.delivery}

\* deriveDeliveryTargets: the work that follows from an event.
DeliveryTargets(previous, next, e) ==
    LET all(kind, version, round) ==
          <<[node |-> First, work |-> [kind |-> kind, version |-> version, round |-> round]],
            [node |-> Second, work |-> [kind |-> kind, version |-> version, round |-> round]]>>
    IN
    IF e.type = "turn_completed" /\ e.kind = "propose_contract"
    THEN IF next.pending = 0 THEN <<>>
         ELSE all("contract_acknowledgement", next.pending, 0)
    ELSE IF previous.status # "verifying" /\ next.status = "verifying"
    THEN all("verification", next.version, next.round)
    ELSE IF next.status = "active" /\ next.current # "none"
    THEN <<[node |-> next.current,
            work |-> [kind |-> "turn", version |-> next.version, round |-> 0]]>>
    ELSE <<>>

\* appendMissionEventInTransaction, once per event: the coordinator states a
\* completion goes through, coord first.
ReducedStates(events) ==
    LET after[i \in 0..Len(events)] ==
          IF i = 0 THEN coord ELSE Coordinator!Reduce(after[i - 1], events[i])
    IN after

\* The reducer takes every event, and the last one, only, settles the source;
\* otherwise the transaction is rolled back.
Publishable(events) ==
    LET after == ReducedStates(events) IN
    \A i \in DOMAIN events :
        /\ Coordinator!Accepts(after[i - 1], events[i])
        /\ SettlesSource(after[i], events[i]) = (i = Len(events))
        /\ i = Len(events) => events[i].delivery \in SettledBy(after[i], events[i])

CompleteDelivery(d, t, result) ==
    LET events == CompletionEvents(d, result)
        after == ReducedStates(events)
        last == Len(events)
        targets == [i \in DOMAIN events |->
                      DeliveryTargets(after[i - 1], after[i], events[i])]
    IN
    /\ Publishable(events)
    /\ Ledger!CompleteDelivery(d, t,
          [settles |-> SettledBy(after[last], events[last]),
           creates |-> FlattenSeq(targets),
           status |-> after[last].status])
    /\ coord' = after[last]
    /\ UNCHANGED accepted

-----------------------------------------------------------------------------
(* The other operations *)

\* acceptMissionParticipant: the second acceptance activates the Mission.
AcceptMissionParticipant(p) ==
    /\ p \notin accepted
    /\ binding[p] = "active"
    /\ ~blocked
    /\ clock < MissionExpiry
    /\ accepted' = accepted \cup {p}
    /\ IF accepted' # Participants
       THEN UNCHANGED <<clock, mission, rows, receipts, ledger, binding, blocked, coord>>
       ELSE LET e == [type |-> "participants_accepted"]
                next == Coordinator!Reduce(coord, e)
            IN /\ Coordinator!Accepts(coord, e)
               /\ Ledger!Activate(DeliveryTargets(coord, next, e))
               /\ coord' = next

\* reconcileMissionInTransaction appends the terminal event when the ledger
\* finds a terminal cause.
Reconciled ==
    IF mission' = mission THEN UNCHANGED coord
    ELSE LET e == [type |-> "mission_terminal", status |-> mission'] IN
         Coordinator!Accepts(coord, e) /\ coord' = Coordinator!Reduce(coord, e)

ReconcileMission == Ledger!ReconcileMission /\ Reconciled /\ UNCHANGED accepted

ClaimDelivery(d, k) == Ledger!ClaimDelivery(d, <<k, 0>>) /\ Reconciled /\ UNCHANGED accepted
StartDelivery(d, t) == Ledger!StartDelivery(d, t) /\ UNCHANGED <<coord, accepted>>
RenewDelivery(d, t) ==
    /\ \E count \in 1..MaxRenewals : Ledger!RenewDelivery(d, t, count)
    /\ UNCHANGED <<coord, accepted>>
ReleaseDelivery(d, t, class) ==
    Ledger!ReleaseDelivery(d, t, class) /\ Reconciled /\ UNCHANGED accepted

RevokeNode(p) == Ledger!RevokeNode(p) /\ UNCHANGED <<coord, accepted>>
RevokeWorkspace(p) == Ledger!RevokeWorkspace(p) /\ UNCHANGED <<coord, accepted>>
SetBlock == Ledger!SetBlock /\ UNCHANGED <<coord, accepted>>
Tick == Ledger!Tick /\ UNCHANGED <<coord, accepted>>

Init ==
    /\ Ledger!Init
    /\ Coordinator!Init
    /\ accepted = {}

NodeRequest(d) ==
    \/ \E k \in 1..(rows[d].attempt + 1) : ClaimDelivery(d, k)
    \/ \E t \in 1..rows[d].attempt :
        \/ StartDelivery(d, t)
        \/ RenewDelivery(d, t)
        \/ \E class \in {"transient", "permanent", "policy_denied"} :
              ReleaseDelivery(d, t, class)
        \/ \E result \in Results(d) : CompleteDelivery(d, t, result)

Next ==
    \/ \E p \in Participants : AcceptMissionParticipant(p)
    \/ ReconcileMission
    \/ \E d \in DOMAIN rows : NodeRequest(d)
    \/ \E p \in Participants : RevokeNode(p) \/ RevokeWorkspace(p)
    \/ SetBlock
    \/ Tick

Spec == Init /\ [][Next]_vars

\* Time passes, and a Node that can authenticate lists its deliveries again and
\* again; nothing else is promised.
FairSpec == Spec /\ WF_vars(Tick) /\ WF_vars(ReconcileMission)

-----------------------------------------------------------------------------
(* Properties *)

\* The work the coordinator is waiting for.
ExpectedWork ==
    LET item(p, kind, version, round) ==
          [node |-> p, work |-> [kind |-> kind, version |-> version, round |-> round]] IN
    CASE coord.status = "active" /\ coord.pending = 0 ->
            {item(coord.current, "turn", coord.version, 0)}
      [] coord.status = "active" /\ coord.pending # 0 ->
            {item(p, "contract_acknowledgement", coord.pending, 0) :
                p \in Participants \ coord.acks}
      [] coord.status = "verifying" ->
            {item(p, "verification", coord.version, coord.round) :
                p \in {q \in Participants :
                         ~Coordinator!AllParticipantCommandsRecorded(coord.records, q)}}
      [] OTHER -> {}

OpenDeliveries == {d \in DOMAIN rows : rows[d].status \in Ledger!Live /\ rows[d].settled = 0}

\* While no route is revoked, the open deliveries are exactly the work the
\* coordinator is waiting for, each once: none is lost, so the Mission cannot
\* stall, and none is stale or doubled, so no participant is asked for work
\* the reducer would refuse.
OutstandingWork ==
    Ledger!RoutingAuthority =>
        /\ {[node |-> rows[d].node, work |-> rows[d].work] : d \in OpenDeliveries}
              = ExpectedWork
        /\ Cardinality(OpenDeliveries) = Cardinality(ExpectedWork)

\* A finished Mission leaves no live delivery behind.
TerminalQuiescence ==
    mission \in Ledger!Terminal => \A d \in DOMAIN rows : rows[d].status \notin Ledger!Live

\* The status column, the projection and the event log agree: the projection
\* check that guards every append ("Stored Mission projection does not match
\* its event ledger") can never fail.
Projection ==
    /\ mission = coord.status
    /\ LET after[i \in 0..Len(coord.applied)] ==
             IF i = 0 THEN Coordinator!CreateMissionCoordinatorState
             ELSE Coordinator!Reduce(after[i - 1], coord.applied[i])
       IN after[Len(coord.applied)] = coord

\* Held work can be published: whatever result its Node submits while the
\* lease lasts, the coordinator accepts it and settles the delivery.  No work is done in vain because
\* the other participant's step overtook it.
HeldWorkPublishable ==
    \A d \in DOMAIN rows :
        /\ rows[d].status = "executing" /\ rows[d].expires > clock
        /\ Ledger!Authorized /\ Ledger!Runnable
        => \A result \in Results(d) : Publishable(CompletionEvents(d, result))

\* Ledger and coordinator agree on what is to be done and on what has been
\* (mission-ledger.ts:594, :644, :999).
WorkMatches == OutstandingWork /\ HeldWorkPublishable /\ TerminalQuiescence /\ Projection

\* An accepted Mission ends, with a result or by its deadline, whatever its
\* Nodes do, as long as one of them can still ask for its deliveries.
MissionEnds ==
    mission \in Ledger!Running ~>
        \/ mission \in Ledger!Terminal
        \/ \A p \in Participants : binding[p] = "node_revoked"
=============================================================================
