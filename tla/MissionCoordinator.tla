-------------------------- MODULE MissionCoordinator --------------------------
(***************************************************************************)
(* The Mission coordinator: the pure reducer that decides, from the events *)
(* of a Mission, whose turn it is, which contract is in force, when the    *)
(* two participants verify and when the Mission ends.                      *)
(*                                                                         *)
(* The reducer is an operator on a state record, as it is a function in    *)
(* the code, because the Relay applies several events in one transaction.  *)
(* Each event carries its identity and sequence_no: a replayed event       *)
(* leaves the state unchanged and one out of sequence is refused, so both  *)
(* are stuttering here and an event's sequence_no is its place in applied. *)
(* Messages, artifacts and evidence bodies are left out: the reducer only  *)
(* refuses the malformed ones.                                             *)
(***************************************************************************)
EXTENDS Integers, Sequences, FiniteSets

CONSTANTS
    First,        \* manifest.participants[0]
    Second,       \* manifest.participants[1]
    Commands,     \* required_verification_commands of each participant
    MaxTurns,     \* manifest.max_turns
    BaseVersion   \* manifest.shared_contract.version

VARIABLE state

None == "none"
Participants == {First, Second}

Running == {"active", "verifying"}
Terminal == {"completed", "failed", "expired"}
MissionStatus == Running \cup Terminal \cup {"awaiting_acceptance"}
Disposition == {"reply", "propose_contract", "ready"}
AllCommands == UNION {Commands[p] : p \in Participants}

Event ==
    [type : {"participants_accepted"}]
    \cup [type : {"turn_completed"}, by : Participants, delivery : Nat,
          version : Nat, kind : Disposition]
    \cup [type : {"contract_acknowledged"}, by : Participants, delivery : Nat,
          version : Nat]
    \cup [type : {"verification_recorded"}, by : Participants, delivery : Nat,
          version : Nat, round : Nat, command : AllCommands,
          outcome : {"passed", "failed"}]
    \cup [type : {"mission_terminal"}, status : {"failed", "expired"}]

VerificationRecord ==
    [by : Participants, version : Nat, round : Nat, command : AllCommands,
     outcome : {"passed", "failed"}]

\* What the manifest's schema asks of a Mission.
Configured ==
    /\ First # Second /\ None \notin Participants
    /\ \A p \in Participants : IsFiniteSet(Commands[p]) /\ Commands[p] # {}
    /\ MaxTurns \in Nat \ {0} /\ BaseVersion \in Nat \ {0}

\* MissionCoordinatorState.  pending is the version of pending_revision, 0 when
\* it is null; proposer and acks belong to it.
State ==
    [status : MissionStatus, turns : 0..MaxTurns, version : Nat, round : Nat,
     pending : Nat, proposer : Participants, acks : SUBSET Participants,
     current : Participants \cup {None}, ready : Seq(Participants),
     records : SUBSET VerificationRecord, applied : Seq(Event)]

TypeOK == state \in State

-----------------------------------------------------------------------------
(* The reducer *)

CreateMissionCoordinatorState ==
    [status |-> "awaiting_acceptance", turns |-> 0, version |-> BaseVersion,
     round |-> 0, pending |-> 0, proposer |-> First, acks |-> {},
     current |-> None, ready |-> <<>>, records |-> {}, applied |-> <<>>]

OtherParticipant(p) == IF p = First THEN Second ELSE First

\* sameStringSet(list, participantIds)
AllParticipants(list) == Len(list) = 2 /\ {list[i] : i \in DOMAIN list} = Participants

\* What leaving a phase resets.
Unscheduled(s) ==
    [s EXCEPT !.pending = 0, !.acks = {}, !.current = None, !.ready = <<>>, !.records = {}]

ApplyParticipantsAccepted(s) == [s EXCEPT !.status = "active", !.current = First]

\* Mutant: a reply keeps the other's readiness.
ReplyKeepsReady(s, e) == [s EXCEPT !.current = OtherParticipant(e.by), !.records = {}]

ApplyReply(s, e) ==
    [s EXCEPT !.current = OtherParticipant(e.by), !.ready = <<>>, !.records = {}]

ApplyContractProposal(s, e) ==
    [s EXCEPT !.pending = s.version + 1, !.proposer = e.by, !.acks = {},
              !.current = None, !.ready = <<>>, !.records = {}]

ApplyReady(s, e) ==
    LET ready == Append(s.ready, e.by) IN
    IF AllParticipants(ready)
    THEN [s EXCEPT !.status = "verifying", !.round = @ + 1, !.current = None,
                   !.ready = ready, !.records = {}]
    ELSE [s EXCEPT !.current = OtherParticipant(e.by), !.ready = ready]

\* The last turn of the budget fails the Mission unless it started verification.
LimitTurns(s) ==
    IF s.status = "active" /\ s.turns >= MaxTurns
    THEN [Unscheduled(s) EXCEPT !.status = "failed"]
    ELSE s

ApplyTurnCompleted(s, e) ==
    LET counted == [s EXCEPT !.turns = @ + 1] IN
    LimitTurns(CASE e.kind = "reply" -> ApplyReply(counted, e)
                 [] e.kind = "propose_contract" -> ApplyContractProposal(counted, e)
                 [] e.kind = "ready" -> ApplyReady(counted, e))

ApplyContractAcknowledged(s, e) ==
    LET acks == s.acks \cup {e.by} IN
    IF acks # Participants
    THEN [s EXCEPT !.acks = acks]
    ELSE [Unscheduled(s) EXCEPT !.version = s.pending,
                                !.current = OtherParticipant(s.proposer)]

RecordsOf(records, p) == {r \in records : r.by = p}

AllParticipantCommandsRecorded(records, p) ==
    {r.command : r \in RecordsOf(records, p)} = Commands[p]

AllRequiredCommandsPassed(s, records) ==
    \A p \in Participants : \A c \in Commands[p] :
        [by |-> p, version |-> s.version, round |-> s.round, command |-> c,
         outcome |-> "passed"] \in records

\* A failed verification goes back to its participant while both can still
\* take a turn, and fails the Mission otherwise.
VerificationFailed(s, p) ==
    IF MaxTurns - s.turns >= Cardinality(Participants)
    THEN [Unscheduled(s) EXCEPT !.status = "active", !.current = p]
    ELSE [Unscheduled(s) EXCEPT !.status = "failed"]

ApplyVerificationRecorded(s, e) ==
    LET records == s.records \cup
          {[by |-> e.by, version |-> e.version, round |-> e.round,
            command |-> e.command, outcome |-> e.outcome]} IN
    IF /\ AllParticipantCommandsRecorded(records, e.by)
       /\ \E r \in RecordsOf(records, e.by) : r.outcome = "failed"
    THEN VerificationFailed(s, e.by)
    ELSE [s EXCEPT !.records = records,
                   !.status = IF AllRequiredCommandsPassed(s, records)
                              THEN "completed" ELSE @]

ApplyMissionTerminal(s, e) == [Unscheduled(s) EXCEPT !.status = e.status]

\* The conditions under which the reducer takes an event and does not throw.
TurnScheduled(s, e) ==
    /\ s.status = "active"
    /\ s.pending = 0
    /\ s.current # None
    /\ e.by = s.current
    /\ e.version = s.version
    /\ s.turns < MaxTurns
    /\ \A i \in DOMAIN s.applied :
         s.applied[i].type = "turn_completed" => s.applied[i].delivery # e.delivery

AcknowledgementDue(s, e) ==
    /\ s.status = "active"
    /\ s.pending # 0
    /\ s.current = None
    /\ e.version = s.pending
    /\ e.by \notin s.acks

VerificationDue(s, e) ==
    /\ s.status = "verifying"
    /\ s.pending = 0
    /\ s.current = None
    /\ e.version = s.version
    /\ e.round = s.round
    /\ e.command \in Commands[e.by]
    /\ \A r \in RecordsOf(s.records, e.by) : r.command # e.command

Accepts(s, e) ==
    CASE e.type = "participants_accepted" ->
            s.status = "awaiting_acceptance" /\ s.applied = <<>>
      [] e.type = "turn_completed" -> TurnScheduled(s, e)
      [] e.type = "contract_acknowledged" -> AcknowledgementDue(s, e)
      [] e.type = "verification_recorded" -> VerificationDue(s, e)
      [] e.type = "mission_terminal" -> s.status \in Running

Apply(s, e) ==
    CASE e.type = "participants_accepted" -> ApplyParticipantsAccepted(s)
      [] e.type = "turn_completed" -> ApplyTurnCompleted(s, e)
      [] e.type = "contract_acknowledged" -> ApplyContractAcknowledged(s, e)
      [] e.type = "verification_recorded" -> ApplyVerificationRecorded(s, e)
      [] e.type = "mission_terminal" -> ApplyMissionTerminal(s, e)

Reduce(s, e) == [Apply(s, e) EXCEPT !.applied = Append(s.applied, e)]

Init == state = CreateMissionCoordinatorState

-----------------------------------------------------------------------------
(* Properties *)

\* The coordinator always waits for exactly one thing: an active Mission for
\* one participant's turn, which the budget still allows, or for missing
\* acknowledgements; a verifying one for missing evidence; any other for
\* nothing.  A Mission that broke this would stand still until it expired.
Schedule ==
    /\ state.status = "active" =>
         /\ (state.current # None) = (state.pending = 0)
         /\ state.turns < MaxTurns
         /\ Len(state.ready) <= 1
         /\ \A i \in DOMAIN state.ready : state.current = OtherParticipant(state.ready[i])
         /\ state.pending # 0 => state.acks # Participants
         /\ state.records = {}
    /\ state.status = "verifying" =>
         /\ state.current = None /\ state.pending = 0
         /\ AllParticipants(state.ready)
         /\ \E p \in Participants : ~AllParticipantCommandsRecorded(state.records, p)
         /\ \A r \in state.records : r.version = state.version /\ r.round = state.round
    /\ state.status \notin Running => state.current = None /\ state.pending = 0

Is(i, type) == state.applied[i].type = type
IsTurn(i, kind) == Is(i, "turn_completed") /\ state.applied[i].kind = kind
IsFailure(i) == Is(i, "verification_recorded") /\ state.applied[i].outcome = "failed"

\* A Mission completes only on unanimous evidence: every required command of
\* both participants passed in the final round on the final contract and none
\* failed there, and both participants declared themselves ready after the
\* last reply, proposal, acknowledgement or failed verification.
UnanimousCompletion ==
    state.status = "completed" =>
        /\ \A p \in Participants : \A c \in Commands[p] : \E i \in DOMAIN state.applied :
              /\ Is(i, "verification_recorded")
              /\ state.applied[i].by = p /\ state.applied[i].command = c
              /\ state.applied[i].version = state.version
              /\ state.applied[i].round = state.round
              /\ state.applied[i].outcome = "passed"
        /\ \A p \in Participants : \E i \in DOMAIN state.applied :
              /\ IsTurn(i, "ready") /\ state.applied[i].by = p
              /\ \A j \in (i + 1)..Len(state.applied) :
                    ~(\/ IsTurn(j, "reply") \/ IsTurn(j, "propose_contract")
                      \/ Is(j, "contract_acknowledged") \/ IsFailure(j))

\* Nobody works on a contract that both participants have not acknowledged:
\* every turn and every piece of evidence on a revised version comes after
\* both acknowledgements of it.
AgreedContract ==
    \A i \in DOMAIN state.applied :
        /\ Is(i, "turn_completed") \/ Is(i, "verification_recorded")
        /\ state.applied[i].version # BaseVersion
        => \A p \in Participants : \E j \in 1..(i - 1) :
              /\ Is(j, "contract_acknowledged")
              /\ state.applied[j].by = p
              /\ state.applied[j].version = state.applied[i].version

\* The participants take turns: the same one speaks twice in a row only when
\* its own verification failed in between.
TurnsAlternate ==
    \A i, j \in DOMAIN state.applied :
        /\ i < j /\ Is(i, "turn_completed") /\ Is(j, "turn_completed")
        /\ \A k \in (i + 1)..(j - 1) : ~Is(k, "turn_completed")
        /\ state.applied[i].by = state.applied[j].by
        => \E k \in (i + 1)..(j - 1) :
              IsFailure(k) /\ state.applied[k].by = state.applied[j].by

\* The turn budget bounds the event log, whatever the participants do.  A turn
\* costs at most itself and two acknowledgements, a round at least two turns
\* and every command once.  With the schema's limits (200 turns, 16 commands
\* each) that is 3402 events: applied_events.max(4096) is never reached, so a
\* stored Mission can always be loaded again.
EventBudget ==
    LET commands == Cardinality(Commands[First]) + Cardinality(Commands[Second])
        perTurn == IF commands <= 4 THEN 6 ELSE 2 + commands
    IN 2 * Len(state.applied) <= 4 + MaxTurns * perTurn

\* What the coordinator promises its participants (mission-coordinator.ts:1019,
\* :1121, :1152 and :247).
Agreement ==
    Schedule /\ UnanimousCompletion /\ AgreedContract /\ TurnsAlternate /\ EventBudget
=============================================================================
