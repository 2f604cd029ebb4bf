----------------------------- MODULE NodeProcessor -----------------------------
(***************************************************************************)
(* The Node's delivery processor for one delivery: the journal entry it    *)
(* saves before and after every Relay request, the lease keeper that       *)
(* renews concurrently, the runtime authority it installs in the Capsule   *)
(* and the host turn it starts or recovers.  The process may die between   *)
(* any two steps; a request may commit at the Relay and its answer be      *)
(* lost.  The Relay's row and its receipts are kept as far as the Node can *)
(* observe them; leases lapse at any time instead of by a clock.           *)
(*                                                                         *)
(* The host and its Capsule outlive the Node process.                      *)
(***************************************************************************)
EXTENDS Integers, FiniteSets

CONSTANTS
    MaxAttempts,  \* maxAttempts of the row: leases it may grant
    Port,         \* whether a runtime authority port is configured
    Rounds,       \* rounds of prepareExecutableLease
    MaxRenewals,  \* bound: the lease keeper's renewals
    MaxFaults,    \* bound: crashes, lost answers, failed host or port calls
    MaxInputs     \* bound: versions of the Mission's messages

ASSUME ProcessorAssumption ==
    /\ MaxAttempts \in Nat \ {0}
    /\ Port \in BOOLEAN
    /\ {Rounds, MaxRenewals, MaxFaults} \subseteq Nat
    /\ MaxInputs \in Nat \ {0}

VARIABLES
    relay,      \* the row of the delivery at the Relay
    receipts,   \* the Relay's operation receipts
    mission,    \* whether the Mission is active
    version,    \* how often the Mission's messages have changed
    entry,      \* the journaled delivery
    main,       \* the step of process() and its locals
    keeper,     \* the step of the LeaseKeeper
    capsule,    \* the grants, by fencing token, the Capsule holds
    host,       \* the host turn of each execution attempt
    faults,     \* faults so far
    refused     \* the journal schema has refused a save

vars == <<relay, receipts, mission, version, entry, main, keeper, capsule, host,
          faults, refused>>

Tokens == 0..MaxAttempts
Attempts == 1..MaxAttempts
Held == {"leased", "executing"}
Closed == {"acknowledged", "dead_lettered", "cancelled"}
Phases == {"ingested", "claim_intent", "claimed", "start_intent", "relay_executing",
           "host_accepted", "host_terminal", "complete_intent", "release_intent",
           "lease_lost", "acknowledged", "dead_lettered", "authority_lost"}
TerminalPhases == {"acknowledged", "dead_lettered", "authority_lost"}
Outcomes == {"completed", "transient", "denied", "cancelled"}

Kinds == {"none", "claim", "start", "renew", "complete", "release"}
Intent(kind, key, token, class) ==
    [kind |-> kind, key |-> key, token |-> token, class |-> class]
NoIntent == Intent("none", 0, 0, "none")

Answer(result, status, token) == [result |-> result, status |-> status, token |-> token]
NoAnswer == Answer("none", "none", 0)
Refusal == Answer("refused", "none", 0)

\* upsertDelivery's entry of a delivery it has not seen.
NewEntry ==
    [known |-> FALSE, status |-> "stored", token |-> 0, phase |-> "ingested",
     claims |-> 0, renews |-> 0, op |-> NoIntent, attempt |-> 1, input |-> 0,
     events |-> "none", result |-> 0, grant |-> 0, predecessor |-> 0, history |-> {}]

\* The locals of process(): where it is, the answer it holds, the round of
\* prepareExecutableLease (0 outside it), whether this claim is a reclaim,
\* whether a journaled completion is replayed, and the local authority session.
At(label) ==
    [at |-> label, answer |-> NoAnswer, round |-> 0, reclaim |-> FALSE, replay |-> FALSE,
     authority |-> 0]
Labels == {"down", "idle", "dispatch", "claim", "start", "renew", "confirm", "confirmed",
           "authorize", "install", "checkpoint", "attach", "input", "lookup", "stream",
           "settle", "complete", "publish", "release_denied", "release_transient",
           "publish_release", "retire", "clear", "abandon"}

TypeOK ==
    /\ relay \in [status : {"stored"} \cup Held \cup Closed, token : Tokens,
                  lapsed : BOOLEAN, due : BOOLEAN, result : Tokens]
    /\ mission \in BOOLEAN
    /\ version \in 1..MaxInputs
    /\ entry.status \in {"stored"} \cup Held \cup Closed
    /\ entry.phase \in Phases
    /\ entry.op.kind \in Kinds
    /\ entry.attempt \in Attempts
    /\ entry.input \in 0..MaxInputs
    /\ entry.events \in {"none", "accepted"} \cup Outcomes
    /\ {entry.token, entry.grant, entry.predecessor, main.authority} \subseteq Tokens
    /\ entry.history \subseteq Attempts
    /\ main.at \in Labels
    /\ main.round \in 0..Rounds + 1
    /\ keeper \in {"off", "waiting", "intended", "renewed", "lost", "error"}
    /\ capsule \subseteq Tokens
    /\ host \in [Attempts -> [state : {"none", "running"} \cup Outcomes,
                              input : 0..MaxInputs, starts : Nat]]
    /\ faults \in 0..MaxFaults
    /\ refused \in BOOLEAN

-----------------------------------------------------------------------------
(* The journal *)

\* validateRuntimeAuthorityPredecessor: a predecessor excludes an active grant
\* and belongs to an older fence than the journaled lease.
PredecessorValid(e) ==
    e.predecessor # 0 => /\ e.grant = 0
                         /\ e.token # 0
                         /\ e.predecessor < e.token

\* journalDeliverySchema: evidence needs its start input, an active grant
\* matches a journaled lease, and archived attempts precede the current one.
Acceptable(e) ==
    /\ (e.events # "none" \/ e.result # 0) => e.input # 0
    /\ (e.grant # 0 /\ e.token # 0) => e.grant = e.token
    /\ PredecessorValid(e)
    /\ \A a \in e.history : a < e.attempt

\* update(): the schema is checked, then the file is saved, then memory follows.
Save(e) ==
    /\ entry' = IF Acceptable(e) THEN e ELSE entry
    /\ refused' = (refused \/ ~Acceptable(e))

\* Mutant: the old grant is dropped when the fence advances.
StageForgets(e, token) ==
    IF token # 0 /\ e.grant # 0 /\ token > e.grant THEN [e EXCEPT !.grant = 0] ELSE e

\* stageRuntimeAuthoritySuccessor: the grant of an older fence steps aside.
Stage(e, token) ==
    CASE token = 0 /\ e.grant = 0 /\ e.predecessor # 0 ->
            [e EXCEPT !.grant = e.predecessor, !.predecessor = 0]
      [] token # 0 /\ e.grant # 0 /\ token > e.grant ->
            [e EXCEPT !.predecessor = e.grant, !.grant = 0]
      [] OTHER -> e

\* upsertDelivery with the Relay's current row.
Upsert(e) ==
    LET token == IF relay.status \in Held THEN relay.token ELSE 0 IN
    IF ~e.known THEN [NewEntry EXCEPT !.known = TRUE, !.status = relay.status, !.token = token]
    ELSE [Stage(e, token) EXCEPT !.status = relay.status, !.token = token]

\* isTerminal, hasJournaledRuntimeAuthority and isAvailable.
Terminal(e) == e.phase \in TerminalPhases \/ e.status \in Closed
Granted(e) == e.grant # 0 \/ e.predecessor # 0

Available(e) == e.status # "stored" \/ relay.due

\* requireLease finds an active lease in the journaled row.
Leased(e) == e.status \in Held /\ e.token # 0

\* The row an answer puts into the entry, ending the pending intent.
Answered(e, answer) ==
    [e EXCEPT !.status = answer.status, !.op = NoIntent,
              !.token = IF answer.status \in Held THEN answer.token ELSE 0]

\* archiveHostExecution.
Archive(e) ==
    [e EXCEPT !.history = IF e.input # 0 THEN @ \cup {e.attempt} ELSE @,
              !.attempt = @ + 1, !.input = 0, !.events = "none", !.result = 0]

-----------------------------------------------------------------------------
(* The Relay, as far as this Node's requests reach it *)

Receipt(op, answer) == [kind |-> op.kind, key |-> op.key, status |-> answer.status,
                        token |-> answer.token]
Stored(op) == {r \in receipts : r.kind = op.kind /\ r.key = op.key}

Row(status) == [relay EXCEPT !.status = status, !.lapsed = FALSE]
Owns(op) == relay.status \in Held /\ relay.token = op.token /\ ~relay.lapsed

\* claimDelivery, with expireLeaseForRetry and deadLetterExpiredFinalClaim.
ServeClaim ==
    LET lapsed == relay.status \in Held /\ relay.lapsed
        granted == [Row("leased") EXCEPT !.token = @ + 1]
    IN CASE lapsed /\ relay.token >= MaxAttempts ->
              <<Row("dead_lettered"), Answer("ok", "dead_lettered", 0)>>
         [] (lapsed \/ (relay.status = "stored" /\ relay.due)) /\ relay.token < MaxAttempts ->
              <<granted, Answer("ok", "leased", granted.token)>>
         [] relay.status = "stored" /\ ~relay.due -> <<relay, Answer("later", "none", 0)>>
         [] OTHER -> <<relay, Refusal>>

\* startDelivery, renewDelivery, completeDelivery and releaseDelivery.
ServeLease(op) ==
    CASE op.kind = "start" /\ Owns(op) /\ relay.status = "leased" ->
              <<Row("executing"), Answer("ok", "executing", op.token)>>
      [] op.kind = "renew" /\ Owns(op) ->
              <<relay, Answer("ok", relay.status, op.token)>>
      [] op.kind = "complete" /\ Owns(op) /\ relay.status = "executing" ->
              <<[Row("acknowledged") EXCEPT !.result = entry.result],
                Answer("ok", "acknowledged", 0)>>
      [] op.kind = "release" /\ Owns(op) ->
              IF op.class = "transient" /\ relay.token < MaxAttempts
              THEN <<[Row("stored") EXCEPT !.due = FALSE], Answer("ok", "stored", 0)>>
              ELSE <<Row("dead_lettered"), Answer("ok", "dead_lettered", 0)>>
      [] OTHER -> <<relay, Refusal>>

\* A request with this intent commits: <<row, answer>>.  A receipt is replayed
\* as it was recorded, even when the row has moved on; a cancelled row and an
\* ended Mission refuse.
Serve(op) ==
    CASE relay.status = "cancelled" -> <<relay, Refusal>>
      [] relay.status # "cancelled" /\ Stored(op) # {} ->
            LET r == CHOOSE r \in Stored(op) : TRUE
            IN <<relay, Answer("replayed", r.status, r.token)>>
      [] relay.status # "cancelled" /\ Stored(op) = {} /\ ~mission -> <<relay, Refusal>>
      [] OTHER -> IF op.kind = "claim" THEN ServeClaim ELSE ServeLease(op)

Commit(op) ==
    LET served == Serve(op) IN
    /\ relay' = served[1]
    /\ receipts' = IF served[2].result = "ok"
                   THEN receipts \cup {Receipt(op, served[2])} ELSE receipts
    /\ mission' = (mission /\ served[1].status # "dead_lettered")

Fault == faults < MaxFaults /\ faults' = faults + 1

Reply(op) == Serve(op)[2]

\* The request is answered, or it fails for good: lost before or after the
\* Relay committed it.
Served(op) == Commit(op) /\ UNCHANGED faults
Failed(op) == Fault /\ (Commit(op) \/ UNCHANGED <<relay, receipts, mission>>)

-----------------------------------------------------------------------------
(* Ends of a pass *)

External == <<relay, receipts, mission, version>>
Go(label) == main' = [main EXCEPT !.at = label, !.answer = NoAnswer]
GoIdle == main' = At("idle")

Cancelled(a) == [host EXCEPT ![a].state = IF @ = "running" THEN "cancelled" ELSE @]

\* cancelHostExecution, bounded by a grace period: it may not succeed.
TryCancel == host' \in {host, Cancelled(entry.attempt)}

\* tryRevokeRuntimeAuthority: revocation of this session's grant may fail.
TryRevoke == capsule' \in {capsule, capsule \ {main.authority}}

MarkLeaseLost(e) == [e EXCEPT !.phase = "lease_lost", !.op = NoIntent]
MarkAuthorityLost(e) == [e EXCEPT !.phase = "authority_lost", !.op = NoIntent]

\* cancelAndMarkAuthorityLost.
GiveUp ==
    /\ IF entry.phase = "authority_lost" THEN UNCHANGED <<entry, refused, host>>
       ELSE Save(MarkAuthorityLost(entry)) /\ TryCancel
    /\ GoIdle

Init ==
    /\ relay = [status |-> "stored", token |-> 0, lapsed |-> FALSE, due |-> TRUE, result |-> 0]
    /\ receipts = {}
    /\ mission = TRUE
    /\ version = 1
    /\ entry = NewEntry
    /\ main = At("idle")
    /\ keeper = "off"
    /\ capsule = {}
    /\ host = [a \in Attempts |-> [state |-> "none", input |-> 0, starts |-> 0]]
    /\ faults = 0
    /\ refused = FALSE

-----------------------------------------------------------------------------
(* One cycle: recover, poll, process *)

\* listRecoverableDeliveryEvents and listStoredDeliveryEvents show the row.
Listed ==
    /\ mission
    /\ \/ relay.status \in Held
       \/ relay.status = "stored" /\ relay.due

\* Mutant: a terminal entry is never looked at again.
CycleSkipsTerminal ==
    /\ main.at = "idle"
    /\ LET e == IF Listed THEN Upsert(entry) ELSE entry IN
       /\ e.known
       /\ Available(e) /\ ~Terminal(e)
       /\ Save(e)
    /\ Go("dispatch")
    /\ UNCHANGED <<External, keeper, capsule, host, faults>>

\* runCycle ingests what the Relay lists and processes the delivery if it is
\* not terminal and is available.
Cycle ==
    /\ main.at = "idle"
    /\ LET e == IF Listed THEN Upsert(entry) ELSE entry IN
       /\ e.known
       /\ Available(e) /\ (Terminal(e) => Granted(e))
       /\ Save(e)
    /\ Go("dispatch")
    /\ UNCHANGED <<External, keeper, capsule, host, faults>>

\* process(): a terminal entry retires its grant, a pending intent is replayed
\* first, a lost lease is reclaimed and a stored row claimed.
Dispatch ==
    /\ main.at = "dispatch"
    /\ main' = [At(IF Terminal(entry) THEN "retire"
                   ELSE CASE entry.op.kind \in {"claim", "start", "renew"} -> entry.op.kind
                          [] entry.op.kind = "complete" -> IF Port THEN "authorize" ELSE "publish"
                          [] entry.op.kind = "release" -> "retire"
                          [] entry.op.kind = "none" ->
                                IF entry.phase = "lease_lost" \/ entry.status = "stored"
                                THEN "claim" ELSE "authorize")
                EXCEPT !.reclaim = (entry.phase = "lease_lost"),
                       !.replay = (entry.op.kind = "complete")]
    /\ UNCHANGED <<External, entry, keeper, capsule, host, faults, refused>>

-----------------------------------------------------------------------------
(* claim, start and renew *)

\* Where each of them returns to: the top of process(), or the round of
\* prepareExecutableLease it serves.
ClaimDone == IF main.round = 0 THEN "dispatch" ELSE IF main.reclaim THEN "renew" ELSE "confirm"
StartDone == IF main.round = 0 THEN "dispatch" ELSE "confirm"
RenewDone == IF main.round = 0 THEN "dispatch" ELSE "confirmed"

ClaimIntent(e) ==
    [e EXCEPT !.claims = @ + 1, !.op = Intent("claim", e.claims + 1, 0, "none"),
              !.phase = "claim_intent"]
StartIntent(e) ==
    [e EXCEPT !.op = Intent("start", e.token, e.token, "none"), !.phase = "start_intent"]
RenewIntent(e) ==
    [e EXCEPT !.renews = @ + 1, !.op = Intent("renew", e.renews + 1, e.token, "none")]

\* An exact intent is journaled before its request is sent.
Intend ==
    /\ main.at \in {"claim", "start", "renew"}
    /\ main.answer = NoAnswer
    /\ entry.op.kind # main.at
    /\ Save(CASE main.at = "claim" -> ClaimIntent(entry)
              [] main.at = "start" -> StartIntent(entry)
              [] main.at = "renew" -> RenewIntent(entry))
    /\ UNCHANGED <<External, main, keeper, capsule, host, faults>>

Ask ==
    /\ main.at \in {"claim", "start", "renew"}
    /\ entry.op.kind = main.at
    /\ main.answer = NoAnswer
    /\ \/ Served(entry.op) /\ main' = [main EXCEPT !.answer = Reply(entry.op)]
       \/ Failed(entry.op) /\ GoIdle
    /\ UNCHANGED <<version, entry, keeper, capsule, host, refused>>

Accepted == main.answer.result \in {"ok", "replayed"}

\* A dead-lettered claim retires its grant before the row is journaled; inside
\* prepareExecutableLease it then abandons the delivery.
SaveClaim ==
    /\ main.at = "claim"
    /\ Accepted
    /\ CASE main.answer.status = "leased" ->
              /\ Save([Answered(Stage(entry, main.answer.token), main.answer)
                       EXCEPT !.phase = "claimed"])
              /\ Go(ClaimDone)
         [] main.answer.status # "leased" /\ Granted(entry) ->
              /\ main' = [main EXCEPT !.at = "retire"]
              /\ UNCHANGED <<entry, refused>>
         [] OTHER ->
              /\ Save([Answered(entry, main.answer) EXCEPT !.phase = "dead_lettered"])
              /\ IF main.round = 0 THEN GoIdle ELSE Go("abandon")
    /\ UNCHANGED <<External, keeper, capsule, host, faults>>

\* A claim is refused: the first claim waits until the row is due (deferRetry);
\* any other refusal, and any refusal of a reclaim, gives the delivery up.
ClaimRefused ==
    /\ main.at = "claim"
    /\ main.answer.result \in {"refused", "later"}
    /\ IF main.answer.result = "later" /\ ~main.reclaim /\ main.round = 0
       THEN /\ Save([entry EXCEPT !.phase = "ingested", !.op = NoIntent])
            /\ UNCHANGED host
            /\ GoIdle
       ELSE GiveUp
    /\ UNCHANGED <<External, keeper, capsule, faults>>

SaveStart ==
    /\ main.at = "start"
    /\ Accepted
    /\ Save([Answered(entry, main.answer) EXCEPT !.phase = "relay_executing"])
    /\ Go(StartDone)
    /\ UNCHANGED <<External, keeper, capsule, host, faults>>

\* confirmLease: a replayed renewal proves nothing about the present, so a
\* fresh one follows.
SaveRenewal ==
    /\ main.at = "renew"
    /\ Accepted
    /\ Save(Answered(entry, main.answer))
    /\ Go(IF main.answer.result = "replayed" THEN "renew" ELSE RenewDone)
    /\ UNCHANGED <<External, keeper, capsule, host, faults>>

\* A start or renewal is refused.  At the top of process() that marks the lease
\* lost; inside prepareExecutableLease the Node reclaims, once for each
\* confirmation, and goes on.
LeaseRefused ==
    /\ main.at \in {"start", "renew"}
    /\ main.answer.result = "refused"
    /\ IF main.at = "renew" /\ main.reclaim
       THEN GiveUp
       ELSE /\ Save(MarkLeaseLost(entry))
            /\ UNCHANGED host
            /\ IF main.round = 0 THEN GoIdle
               ELSE main' = [main EXCEPT !.at = "claim", !.answer = NoAnswer,
                                         !.reclaim = (main.at = "renew")]
    /\ UNCHANGED <<External, keeper, capsule, faults>>

-----------------------------------------------------------------------------
(* authorize and prepareExecutableLease *)

\* Mutant: a completion that may have been sent is dropped with the lease.
RetainForgets(e) == MarkLeaseLost(e)

\* A completion that may have been sent stays a completion to send again.
Retain(e) == [e EXCEPT !.phase = "complete_intent"]

\* The assignment is read again: an ended Mission gives the delivery up, or
\* leaves a pending completion pending.
AuthorizeEnded ==
    /\ main.at = "authorize"
    /\ ~mission
    /\ IF entry.op.kind = "complete" THEN Save(Retain(entry)) /\ GoIdle /\ UNCHANGED host
       ELSE GiveUp
    /\ UNCHANGED <<External, keeper, capsule, faults>>

\* The local policy or workspace no longer allows the work: the turn is
\* cancelled and the delivery released.  A pending completion only fails.
AuthorizeDenied ==
    /\ main.at = "authorize"
    /\ mission
    /\ Fault
    /\ IF entry.op.kind = "complete" THEN GoIdle /\ UNCHANGED host
       ELSE TryCancel /\ main' = At("release_denied")
    /\ UNCHANGED <<External, entry, keeper, capsule, refused>>

Authorized ==
    /\ main.at = "authorize"
    /\ mission
    /\ IF entry.op.kind = "complete"
       THEN Go("install")
       ELSE main' = [At("confirm") EXCEPT !.round = 1]
    /\ UNCHANGED <<External, entry, keeper, capsule, host, faults, refused>>

\* installAuthorityForPendingCompletion: the journaled lease has expired.
CompletionExpired ==
    /\ main.at = "authorize"
    /\ mission
    /\ entry.op.kind = "complete"
    /\ relay.lapsed
    /\ Save(Retain(entry))
    /\ GoIdle
    /\ UNCHANGED <<External, keeper, capsule, host, faults>>

Confirm ==
    /\ main.at = "confirm"
    /\ main.round <= Rounds
    /\ main' = [main EXCEPT !.at = "renew", !.reclaim = FALSE]
    /\ UNCHANGED <<External, entry, keeper, capsule, host, faults, refused>>

\* The lease is confirmed.  A leased row is started in this round and confirmed
\* in the next; an executing one goes on, with the lease keeper when a turn is
\* to be run.
Confirmed ==
    /\ main.at = "confirmed"
    /\ IF entry.status = "executing"
       THEN /\ keeper' = IF entry.result = 0 THEN "waiting" ELSE "off"
            /\ main' = At(IF Port THEN "install" ELSE
                          IF entry.result = 0 THEN "input" ELSE "complete")
       ELSE /\ main' = [main EXCEPT !.at = "start", !.round = @ + 1]
            /\ UNCHANGED keeper
    /\ UNCHANGED <<External, entry, capsule, host, faults, refused>>

\* The confirmed window is too short to be safe.
ShortWindow ==
    /\ main.at = "confirmed"
    /\ entry.status = "executing"
    /\ Fault
    /\ main' = [main EXCEPT !.at = "confirm", !.round = @ + 1]
    /\ UNCHANGED <<External, entry, keeper, capsule, host, refused>>

\* The fourth round was the last, or a reclaim found the row dead.
Abandon ==
    /\ main.at = "abandon" \/ (main.at = "confirm" /\ main.round > Rounds)
    /\ GiveUp
    /\ UNCHANGED <<External, keeper, capsule, faults>>

-----------------------------------------------------------------------------
(* Runtime authority *)

Turn == keeper # "off"
KeeperStopped == keeper \in {"off", "waiting", "lost", "error"}

\* The predecessor's retirement is proven before its successor is compiled.
RevokePredecessor ==
    /\ main.at = "install"
    /\ capsule' = capsule \ {entry.predecessor}
    /\ Go("checkpoint")
    /\ UNCHANGED <<External, entry, keeper, host, faults, refused>>

\* checkpointRuntimeAuthority: the grant of the current fence is journaled
\* before the Capsule sees it.
CheckpointGrant ==
    /\ main.at = "checkpoint"
    /\ Save([entry EXCEPT !.grant = entry.token, !.predecessor = 0])
    /\ Go("attach")
    /\ UNCHANGED <<External, keeper, capsule, host, faults>>

\* NodeRuntimeAuthoritySession.install.
Attach ==
    /\ main.at = "attach"
    /\ capsule' = capsule \cup {entry.token}
    /\ main' = [main EXCEPT !.at = CASE entry.op.kind = "complete" -> "publish"
                                     [] entry.op.kind # "complete" /\ Turn -> "input"
                                     [] OTHER -> "complete",
                            !.authority = entry.token]
    /\ UNCHANGED <<External, entry, keeper, host, faults, refused>>

\* The Capsule cannot be reached: a predecessor that is not proven retired
\* leaves everything for the next cycle, a grant that cannot be installed is
\* an authority loss.
InstallFails ==
    /\ main.at \in {"install", "attach"}
    /\ ~Turn
    /\ Fault
    /\ IF main.at = "install" THEN GoIdle /\ UNCHANGED <<entry, refused, host, capsule>>
       ELSE /\ capsule' \in {capsule, capsule \cup {entry.token}}
            /\ IF entry.op.kind = "complete"
               THEN Save(Retain(entry)) /\ GoIdle /\ UNCHANGED host
               ELSE GiveUp
    /\ UNCHANGED <<External, keeper>>

\* retireJournaled: the Capsule proves the grant retired ...
Retire ==
    /\ main.at = "retire"
    /\ IF Granted(entry)
       THEN capsule' = capsule \ {entry.grant, entry.predecessor}
       ELSE UNCHANGED capsule
    /\ main' = [main EXCEPT !.at = "clear"]
    /\ UNCHANGED <<External, entry, keeper, host, faults, refused>>

\* ... or it stays journaled (RuntimeAuthorityTransitionPendingError).
RetireFails ==
    /\ main.at = "retire"
    /\ Granted(entry)
    /\ Fault
    /\ GoIdle
    /\ UNCHANGED <<External, entry, keeper, capsule, host, refused>>

\* Only then is it cleared, and the caller goes on.
ClearGrant ==
    /\ main.at = "clear"
    /\ Save([entry EXCEPT !.grant = 0, !.predecessor = 0])
    /\ main' = IF main.answer # NoAnswer THEN [main EXCEPT !.at = "claim"]
               ELSE IF ~Terminal(entry) /\ entry.op.kind = "release" THEN At("publish_release")
               ELSE At("idle")
    /\ UNCHANGED <<External, keeper, capsule, host, faults>>

-----------------------------------------------------------------------------
(* The host turn and the lease keeper *)

\* ensureSession and checkpointStartTurnInput: the exact input is journaled
\* once for each execution attempt.
CheckpointInput ==
    /\ main.at = "input"
    /\ Turn
    /\ Save([entry EXCEPT !.input = IF @ = 0 THEN version ELSE @])
    /\ Go("lookup")
    /\ UNCHANGED <<External, keeper, capsule, host, faults>>

\* Mutant: a recovered attempt is started again.
StartTurnAlways ==
    /\ main.at = "lookup"
    /\ keeper \notin {"lost", "error"}
    /\ host' = [host EXCEPT ![entry.attempt] =
                    [state |-> "running", input |-> entry.input, starts |-> @.starts + 1]]
    /\ Go("stream")
    /\ UNCHANGED <<External, entry, keeper, capsule, faults, refused>>

\* lookupTurn, then startTurn for a turn the host does not know and
\* recoverTurn for one it does.
StartTurn ==
    /\ main.at = "lookup"
    /\ keeper \notin {"lost", "error"}
    /\ IF host[entry.attempt].state = "none"
       THEN host' = [host EXCEPT ![entry.attempt] =
                        [state |-> "running", input |-> entry.input, starts |-> @.starts + 1]]
       ELSE UNCHANGED host
    /\ Go("stream")
    /\ UNCHANGED <<External, entry, keeper, capsule, faults, refused>>

\* consumeHostEvents journals the acceptance and then the terminal event;
\* events already journaled are replayed and must be the same.
HostEvent ==
    /\ main.at = "stream"
    /\ keeper \notin {"lost", "error"}
    /\ LET state == host[entry.attempt].state IN
       \/ /\ entry.events = "none"
          /\ Save([entry EXCEPT !.events = "accepted", !.phase = "host_accepted"])
          /\ UNCHANGED main
       \/ /\ entry.events = "accepted"
          /\ state \in Outcomes
          /\ Save([entry EXCEPT !.events = state, !.phase = "host_terminal"])
          /\ Go("settle")
       \/ /\ entry.events \in Outcomes
          /\ Go("settle")
          /\ UNCHANGED <<entry, refused>>
    /\ UNCHANGED <<External, keeper, capsule, host, faults>>

\* The keeper is stopped; a completed turn's result is saved, any other
\* outcome released.
Settle ==
    /\ main.at = "settle"
    /\ keeper = "waiting"
    /\ keeper' = "off"
    /\ IF entry.events = "completed"
       THEN /\ Save([entry EXCEPT !.result = entry.attempt, !.phase = "host_terminal"])
            /\ Go("complete")
            /\ UNCHANGED capsule
       ELSE /\ TryRevoke
            /\ Go(IF entry.events = "denied" THEN "release_denied" ELSE "release_transient")
            /\ UNCHANGED <<entry, refused>>
    /\ UNCHANGED <<External, host, faults>>

InTurn == Turn /\ main.at \in {"install", "attach", "input", "lookup", "stream", "settle"}

\* AuthorityLostError while the turn is prepared or runs: the keeper's lease
\* was refused, or the local authority session ended.
TurnLosesAuthority ==
    /\ InTurn /\ KeeperStopped
    /\ \/ keeper = "lost" /\ UNCHANGED <<faults, host>>
       \/ keeper # "lost" /\ Port /\ Fault /\ TryCancel
    /\ TryRevoke
    /\ Save(MarkLeaseLost(entry))
    /\ keeper' = "off"
    /\ GoIdle
    /\ UNCHANGED External

\* Any other error: the turn's journaled end is released, otherwise the next
\* cycle starts over.
TurnFails ==
    /\ InTurn /\ KeeperStopped
    /\ IF keeper = "error" THEN UNCHANGED faults ELSE Fault
    /\ TryRevoke
    /\ keeper' = "off"
    /\ main' = CASE entry.events = "denied" -> At("release_denied")
                 [] entry.events \in {"transient", "cancelled"} -> At("release_transient")
                 [] OTHER -> At("idle")
    /\ UNCHANGED <<External, entry, host, refused>>

KeeperIntends ==
    /\ keeper = "waiting"
    /\ entry.renews < MaxRenewals
    /\ Save(RenewIntent(entry))
    /\ keeper' = "intended"
    /\ UNCHANGED <<External, main, capsule, host, faults>>

\* A failed keeper cancels the turn and revokes the authority, if it can.
KeeperAborts == TryCancel /\ TryRevoke

KeeperAsks ==
    /\ keeper = "intended"
    /\ \/ /\ Served(entry.op)
          /\ IF Reply(entry.op).result = "ok"
             THEN keeper' = "renewed" /\ UNCHANGED <<capsule, host>>
             ELSE keeper' = "lost" /\ KeeperAborts
       \/ Failed(entry.op) /\ keeper' = "error" /\ KeeperAborts
    /\ UNCHANGED <<version, entry, main, refused>>

\* The renewal is journaled and forwarded to the Capsule, which may fail.
KeeperSaves ==
    /\ keeper = "renewed"
    /\ Save([entry EXCEPT !.op = NoIntent])
    /\ \/ keeper' = "waiting" /\ UNCHANGED <<capsule, host, faults>>
       \/ Port /\ Fault /\ keeper' = "error" /\ KeeperAborts
    /\ UNCHANGED <<External, main>>

-----------------------------------------------------------------------------
(* complete and release *)

CompleteIntent(e) ==
    [e EXCEPT !.op = Intent("complete", e.token, e.token, "none"), !.phase = "complete_intent"]

Complete ==
    /\ main.at = "complete"
    /\ Save(CompleteIntent(entry))
    /\ Go("publish")
    /\ UNCHANGED <<External, keeper, capsule, host, faults>>

\* publishCompletion sends the journaled intent, under the authority session.
Publish ==
    /\ main.at = "publish"
    /\ main.answer = NoAnswer
    /\ \/ Served(entry.op) /\ main' = [main EXCEPT !.answer = Reply(entry.op)]
       \/ Failed(entry.op) /\ GoIdle
    /\ UNCHANGED <<version, entry, keeper, capsule, host, refused>>

\* The session denies the publication before it is sent: a fresh intent is
\* dropped with the lease, a replayed one may have been sent before.
Denied(e) == IF main.replay THEN Retain(e) ELSE MarkLeaseLost(e)

\* The session is denied, or ends while the request is out: then nobody knows,
\* and the intent is retained.
PublishDenied ==
    /\ main.at = "publish"
    /\ main.answer = NoAnswer
    /\ Port
    /\ Fault
    /\ \/ UNCHANGED <<relay, receipts, mission>> /\ Save(Denied(entry))
       \/ UNCHANGED <<relay, receipts, mission>> /\ Save(Retain(entry))
       \/ Commit(entry.op) /\ Save(Retain(entry))
    /\ TryRevoke
    /\ GoIdle
    /\ UNCHANGED <<version, keeper, host>>

SaveCompletion ==
    /\ main.at = "publish"
    /\ Accepted
    /\ Save([Answered(entry, main.answer) EXCEPT !.phase = "acknowledged"])
    /\ main' = At("retire")
    /\ UNCHANGED <<External, keeper, capsule, host, faults>>

\* CompletionRejectedError: the lease is lost, the result stays, and a reclaim
\* will publish it under the next fence.
CompletionRejected ==
    /\ main.at = "publish"
    /\ main.answer = Refusal
    /\ Save(MarkLeaseLost(entry))
    /\ TryRevoke
    /\ IF main.replay THEN main' = At("dispatch") ELSE GoIdle
    /\ UNCHANGED <<External, keeper, host, faults>>

\* release(): without a journaled lease there is nothing to release.
Release ==
    /\ main.at \in {"release_denied", "release_transient"}
    /\ IF Leased(entry)
       THEN /\ Save([entry EXCEPT
                       !.op = Intent("release", entry.token, entry.token,
                                     IF main.at = "release_denied" THEN "denied" ELSE "transient"),
                       !.phase = "release_intent"])
            /\ main' = At("retire")
       ELSE Save(MarkLeaseLost(entry)) /\ GoIdle
    /\ UNCHANGED <<External, keeper, capsule, host, faults>>

PublishRelease ==
    /\ main.at = "publish_release"
    /\ main.answer = NoAnswer
    /\ \/ Served(entry.op) /\ main' = [main EXCEPT !.answer = Reply(entry.op)]
       \/ Failed(entry.op) /\ GoIdle
    /\ UNCHANGED <<version, entry, keeper, capsule, host, refused>>

\* A row that is stored again archives the execution and begins the next.
SaveRelease ==
    /\ main.at = "publish_release"
    /\ main.answer # NoAnswer
    /\ Save(CASE main.answer = Refusal -> MarkLeaseLost(entry)
              [] main.answer.status = "stored" ->
                    [Answered(Archive(entry), main.answer) EXCEPT !.phase = "ingested"]
              [] OTHER -> [Answered(entry, main.answer) EXCEPT !.phase = "dead_lettered"])
    /\ GoIdle
    /\ UNCHANGED <<External, keeper, capsule, host, faults>>

-----------------------------------------------------------------------------
(* The process and its surroundings *)

\* The process dies: the journal, the host and the Capsule remain.
Crash ==
    /\ main.at # "down"
    /\ Fault
    /\ main' = At("down")
    /\ keeper' = "off"
    /\ UNCHANGED <<External, entry, capsule, host, refused>>

\* A shutdown in a turn cancels it, within a grace period, and revokes.
Shutdown ==
    /\ InTurn /\ KeeperStopped
    /\ Fault
    /\ TryCancel
    /\ TryRevoke
    /\ main' = At("down")
    /\ keeper' = "off"
    /\ UNCHANGED <<External, entry, refused>>

Restart ==
    /\ main.at = "down"
    /\ GoIdle
    /\ UNCHANGED <<External, entry, keeper, capsule, host, faults, refused>>

HostFinishes ==
    /\ \E a \in Attempts, outcome \in Outcomes \ {"cancelled"} :
          /\ host[a].state = "running"
          /\ host' = [host EXCEPT ![a].state = outcome]
    /\ UNCHANGED <<External, entry, main, keeper, capsule, faults, refused>>

Lapse ==
    /\ relay.status \in Held
    /\ ~relay.lapsed
    /\ relay' = [relay EXCEPT !.lapsed = TRUE]
    /\ UNCHANGED <<receipts, mission, version, entry, main, keeper, capsule, host, faults,
                   refused>>

BackoffEnds ==
    /\ ~relay.due
    /\ relay' = [relay EXCEPT !.due = TRUE]
    /\ UNCHANGED <<receipts, mission, version, entry, main, keeper, capsule, host, faults,
                   refused>>

\* The Mission ends elsewhere: reconciliation cancels a live row.
MissionEnds ==
    /\ mission
    /\ mission' = FALSE
    /\ relay' = IF relay.status \in Closed THEN relay ELSE Row("cancelled")
    /\ UNCHANGED <<receipts, version, entry, main, keeper, capsule, host, faults, refused>>

MissionMoves ==
    /\ version < MaxInputs
    /\ version' = version + 1
    /\ UNCHANGED <<relay, receipts, mission, entry, main, keeper, capsule, host, faults,
                   refused>>

ProcessStep ==
    \/ Cycle \/ Dispatch
    \/ Intend \/ Ask \/ SaveClaim \/ ClaimRefused \/ SaveStart \/ SaveRenewal \/ LeaseRefused
    \/ AuthorizeEnded \/ Authorized \/ CompletionExpired \/ Confirm \/ Confirmed \/ Abandon
    \/ RevokePredecessor \/ CheckpointGrant \/ Attach \/ Retire \/ ClearGrant
    \/ CheckpointInput \/ StartTurn \/ HostEvent \/ Settle
    \/ TurnLosesAuthority \/ TurnFails
    \/ Complete \/ Publish \/ SaveCompletion \/ CompletionRejected
    \/ Release \/ PublishRelease \/ SaveRelease
    \/ Restart

KeeperStep == KeeperAsks \/ KeeperSaves

Faulty == AuthorizeDenied \/ ShortWindow \/ InstallFails \/ RetireFails \/ PublishDenied
            \/ Crash \/ Shutdown

Environment == Lapse \/ BackoffEnds \/ MissionEnds \/ MissionMoves \/ HostFinishes

Next == ProcessStep \/ KeeperStep \/ KeeperIntends \/ Faulty \/ Environment

Spec == Init /\ [][Next]_vars

\* The event loop runs what is ready, an operator restarts a dead process, the
\* host comes to an end and time passes.
FairSpec ==
    /\ Spec
    /\ WF_vars(ProcessStep)
    /\ WF_vars(KeeperStep)
    /\ WF_vars(HostFinishes)
    /\ WF_vars(BackoffEnds)

-----------------------------------------------------------------------------
(* Properties *)

\* The host starts the turn of an execution attempt at most once, and with the
\* input the journal holds for it: a crash before, during or after startTurn
\* never makes the model act twice on one attempt, or on another input.
StartedOnce ==
    \A a \in Attempts :
        /\ host[a].starts <= 1
        /\ (a = entry.attempt /\ host[a].starts = 1) => host[a].input = entry.input

\* No two attempts run at once: when the journal moves to the next attempt,
\* every turn before it has come to an end.
NoOverlap ==
    \A a \in Attempts : host[a].state = "running" => a = entry.attempt

\* An attempt's turn is started once, with the journaled input, and never beside
\* the turn of another attempt (delivery-processor.ts:404, :965).
TurnsExclusive == StartedOnce /\ NoOverlap

\* A completion the Relay has accepted is never worked on again: the journal
\* still holds its exact intent or its acknowledgement, with the result of the
\* attempt the host really completed.
CompletionRemembered ==
    relay.status = "acknowledged" =>
        /\ entry.op.kind = "complete" \/ entry.phase = "acknowledged"
        /\ relay.result = entry.attempt
        /\ host[relay.result].state = "completed"

\* Every grant the Capsule holds is journaled, so that a restarted Node can
\* still retire it, and the Capsule never holds the grants of two fences.
GrantsTracked ==
    /\ capsule \subseteq {entry.grant, entry.predecessor}
    /\ Cardinality(capsule) <= 1

\* The schema accepts every entry the processor saves: no update strands a
\* delivery half way.
SavesAccepted == ~refused

\* The journaled lease is never ahead of the Relay's row, and what the journal
\* calls executing was started with that fence.
FenceTrue ==
    entry.known =>
        /\ entry.token <= relay.token
        /\ entry.status = "executing" =>
              \E r \in receipts : r.kind = "start" /\ r.key = entry.token

\* The journal tells the truth across crashes and lost answers: every save is
\* accepted, its fence and status are the Relay's, and it has every grant that
\* the Capsule may still act on (journal.ts:258).
JournalSound == SavesAccepted /\ FenceTrue /\ GrantsTracked

\* Every delivery comes to rest: finished or given up with its grant retired,
\* never seen because its Mission ended, or waiting for ever with a completion
\* whose outcome the Node cannot learn.
Unknowable ==
    Port /\ entry.op.kind = "complete" /\ (relay.lapsed \/ ~mission)
Resting ==
    \/ Terminal(entry) /\ ~Granted(entry)
    \/ ~entry.known /\ ~mission
    \/ Unknowable
ComesToRest == <>[]Resting
=============================================================================
