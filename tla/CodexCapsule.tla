---------------------------- MODULE CodexCapsule ----------------------------
(***************************************************************************)
(* The Codex runtime of one Mission Capsule: the runner and its turn       *)
(* drivers (codex-capsule-runner.ts, codex-turn-executor.ts) between a     *)
(* durable store of at-most-once barriers (codex-capsule-store.ts,         *)
(* codex-capsule-transitions.ts) and a provider process that may die, fail *)
(* a call or answer late.                                                  *)
(*                                                                         *)
(* Every mutation of the store is one step: the store serialises them and  *)
(* replaces its file whole.  Everything else a runner knows is lost with   *)
(* it.  The provider (the Codex app-server) is external: it keeps a turn   *)
(* it has answered for, also when its process has gone; a turn whose start *)
(* it never answered may be lost with the process.  A runner opens only    *)
(* when the process of the one before is proven gone (module               *)
(* ProviderTeardown).  Exact inputs, prompts and outputs are left out:     *)
(* module Capsule has the reuse of an execution key with another input.    *)
(***************************************************************************)
EXTENDS Integers, FiniteSets

CONSTANTS Turns,    \* execution keys
          MaxGens   \* provider generations; the last one meets no fault

ASSUME CodexAssumption == IsFiniteSet(Turns) /\ MaxGens \in Nat \ {0}

VARIABLES session,  \* durable phase of the provider session
          turn,     \* durable turns
          prov,     \* the provider's turns
          gen, open,
          client,   \* "up", or "failed" once a call or the process has failed
          retire,   \* the runner has asked for its own retirement
          ready,    \* the session in memory: none, starting, resuming, ready
          driver,   \* the step of each turn's driver, with what it has read
          intr,     \* the step of each turn's interrupt operation
          issued,   \* interrupts this generation has sent
          sends,    \* history: turn starts sent to the provider
          conflict  \* history: a terminal result met a different stored one

store == <<session, turn>>
runner == <<gen, open, client, retire, ready, issued>>
codexVars == <<session, turn, prov, gen, open, client, retire, ready, driver, intr, issued, sends,
          conflict>>

AbsentTurn == [phase |-> "absent", bound |-> FALSE, cancel |-> "none", last |-> "none",
           usage |-> "none"]
NoProvider == [status |-> "none", gen |-> 0, asked |-> FALSE, note |-> FALSE, used |-> FALSE]
Off == [pc |-> "off", out |-> "none", usage |-> FALSE]

At(k, p) == driver[k].pc = p
Go(k, p) == driver' = [driver EXCEPT ![k].pc = p]
Ended(k) == driver' = [driver EXCEPT ![k] = Off]

Terminal(k) == turn[k].phase = "terminal"

-----------------------------------------------------------------------------
CodexInit == /\ session = "prepared"
        /\ turn = [k \in Turns |-> AbsentTurn]
        /\ prov = [k \in Turns |-> NoProvider]
        /\ gen = 0 /\ open = FALSE /\ client = "failed" /\ retire = FALSE
        /\ ready = "none"
        /\ driver = [k \in Turns |-> Off]
        /\ intr = [k \in Turns |-> Off]
        /\ issued = {}
        /\ sends = [k \in Turns |-> 0]
        /\ conflict = FALSE

\* CodexCapsuleRunner.open: a new generation, nothing in memory.
OpenRunner ==
    /\ ~open /\ gen < MaxGens
    /\ gen' = gen + 1 /\ open' = TRUE /\ client' = "up" /\ retire' = FALSE
    /\ ready' = "none" /\ issued' = {}
    /\ driver' = [k \in Turns |-> Off] /\ intr' = [k \in Turns |-> Off]
    /\ UNCHANGED <<store, prov, sends, conflict>>

\* openSession: a start that may have been sent to an earlier generation is
\* reset before it is claimed again.
ClaimSession ==
    /\ open /\ ~retire /\ ready = "none"
    /\ IF session = "ready"
       THEN ready' = "resuming" /\ UNCHANGED session
       ELSE ready' = "starting" /\ session' = "start_maybe_sent"
    /\ UNCHANGED <<turn, prov, gen, open, client, retire, driver, intr, issued, sends, conflict>>

\* thread/start or thread/resume answered; the new thread is stored.
SessionReady ==
    /\ open /\ client = "up" /\ ready \in {"starting", "resuming"}
    /\ session' = "ready" /\ ready' = "ready"
    /\ UNCHANGED <<turn, prov, gen, open, client, retire, driver, intr, issued, sends, conflict>>

\* The provider refuses (the client stays up) or the client has failed: any
\* error that is not a Capsule operation error retires the runner.
SessionFails ==
    /\ open /\ ready \in {"starting", "resuming"}
    /\ gen < MaxGens
    /\ ready' = "none" /\ retire' = TRUE
    /\ UNCHANGED <<store, prov, gen, open, client, driver, intr, issued, sends, conflict>>

\* ensureTurnDriver: one driver per execution key.
Driving(k) == IF driver[k].pc = "off"
              THEN driver' = [driver EXCEPT ![k] = [Off EXCEPT !.pc = "claim"]]
              ELSE UNCHANGED driver

NoneActive == \A k \in Turns : turn[k].phase \in {"absent", "terminal"}

\* startTurn and recoverTurn: a new execution is prepared while no other is
\* active, a known one is found; either is then driven.
Stream(k) ==
    /\ open /\ ~retire /\ ready = "ready"
    /\ \/ /\ turn[k].phase = "absent" /\ NoneActive
          /\ turn' = [turn EXCEPT ![k].phase = "prepared"]
       \/ turn[k].phase # "absent" /\ UNCHANGED turn
    /\ Driving(k)
    /\ UNCHANGED <<session, prov, runner, intr, sends, conflict>>

-----------------------------------------------------------------------------
(* Store transitions *)

AppendTerminal(t, last, usage) == [t EXCEPT !.phase = "terminal", !.last = last, !.usage = usage]

RequestCancellation(t) ==
    CASE t.phase \in {"terminal", "cancelling"} -> t
      [] t.phase = "prepared" ->
            AppendTerminal([t EXCEPT !.cancel = "requested"], "cancelled", "none")
      [] OTHER -> [t EXCEPT !.phase = "cancelling", !.cancel = "requested"]

AcceptTurn(t) ==
    IF t.bound THEN t
    ELSE [t EXCEPT !.bound = TRUE,
                   !.phase = IF t.phase = "start_maybe_sent" THEN "accepted" ELSE t.phase]

RecordUnmatchedStart(t) ==
    IF t.phase = "terminal" THEN t
    ELSE AppendTerminal(t, IF t.cancel = "none" THEN "failed" ELSE "cancelled", "none")

RecordUncertainInterrupt(t) ==
    IF t.phase = "terminal" THEN t ELSE AppendTerminal(t, "failed", "none")

\* recordTerminal refuses a result that differs from the stored one, and a
\* cancellation nobody asked for.
Refuses(t, out, usage) ==
    \/ t.phase = "terminal" /\ <<t.last, t.usage>> # <<out, usage>>
    \/ out = "cancelled" /\ t.phase \notin {"cancelling", "terminal"}

RecordTerminal(t, out, usage) == IF t.phase = "terminal" THEN t ELSE AppendTerminal(t, out, usage)

\* normalizeCodexTerminal
Normalize(status, cancelling) ==
    CASE status = "completed" -> "completed"
      [] status = "interrupted" /\ cancelling -> "cancelled"
      [] OTHER -> "failed"

-----------------------------------------------------------------------------
(* CodexTurnExecutor.run *)

\* Mutant: a claim whose answer was lost sends again.
ClaimTurnStartAgain(k) ==
    /\ open /\ At(k, "claim") /\ ready = "ready"
    /\ \/ /\ turn[k].phase \in {"prepared", "start_maybe_sent"}
          /\ turn' = [turn EXCEPT ![k].phase = "start_maybe_sent"]
          /\ sends' = [sends EXCEPT ![k] = @ + 1]
          /\ Go(k, "sending")
       \/ /\ turn[k].phase = "cancelling" /\ ~turn[k].bound
          /\ Go(k, "reconcile") /\ UNCHANGED <<turn, sends>>
       \/ /\ turn[k].bound /\ ~Terminal(k)
          /\ Go(k, "inspect") /\ UNCHANGED <<turn, sends>>
       \/ /\ Terminal(k)
          /\ Ended(k) /\ UNCHANGED <<turn, sends>>
    /\ UNCHANGED <<session, prov, runner, intr, conflict>>

\* claimTurnStart: the start is sent only by the claim that moved the turn
\* out of `prepared'; every later claim reconciles.
ClaimTurnStart(k) ==
    /\ open /\ At(k, "claim") /\ ready = "ready"
    /\ \/ /\ turn[k].phase = "prepared"
          /\ turn' = [turn EXCEPT ![k].phase = "start_maybe_sent"]
          /\ sends' = [sends EXCEPT ![k] = @ + 1]
          /\ Go(k, "sending")
       \/ /\ turn[k].phase \in {"start_maybe_sent", "cancelling"} /\ ~turn[k].bound
          /\ Go(k, "reconcile") /\ UNCHANGED <<turn, sends>>
       \/ /\ turn[k].bound /\ ~Terminal(k)
          /\ Go(k, "inspect") /\ UNCHANGED <<turn, sends>>
       \/ /\ Terminal(k)
          /\ Ended(k) /\ UNCHANGED <<turn, sends>>
    /\ UNCHANGED <<session, prov, runner, intr, conflict>>

\* The provider takes the turn/start; its answer is on the way.
ProviderStarts(k) ==
    /\ open /\ At(k, "sending") /\ client = "up"
    /\ prov' = [prov EXCEPT ![k] = [NoProvider EXCEPT !.status = "inProgress", !.gen = gen]]
    /\ Go(k, "started")
    /\ UNCHANGED <<store, runner, intr, sends, conflict>>

\* The answer is here; a turn that was lost with its process sent none.
Bind(k) ==
    /\ open /\ At(k, "started") /\ prov[k].status # "none"
    /\ turn' = [turn EXCEPT ![k] = AcceptTurn(@)]
    /\ Go(k, "inspect")
    /\ UNCHANGED <<session, prov, runner, intr, sends, conflict>>

\* reconcileUnbound in a later generation: thread/read finds the turn by its
\* client message, or it is recorded as never started.
Reconcile(k) ==
    /\ open /\ At(k, "reconcile") /\ client = "up"
    /\ IF prov[k].status = "none"
       THEN /\ turn' = [turn EXCEPT ![k] = RecordUnmatchedStart(@)]
            /\ Go(k, "inspect")
       ELSE /\ turn' = [turn EXCEPT ![k] = AcceptTurn(@)]
            /\ Go(k, IF prov[k].status = "inProgress" THEN "inspect" ELSE "finalize")
    /\ UNCHANGED <<session, prov, runner, intr, sends, conflict>>

Inspect(k) ==
    /\ open /\ At(k, "inspect")
    /\ \/ Terminal(k) /\ Ended(k) /\ UNCHANGED intr
       \/ /\ ~Terminal(k) /\ turn[k].cancel # "none"
          /\ Go(k, "interrupting")
          /\ intr' = IF intr[k].pc = "off" THEN [intr EXCEPT ![k].pc = "claim"] ELSE intr
       \/ /\ ~Terminal(k) /\ turn[k].cancel = "none"
          /\ Go(k, "wait") /\ UNCHANGED intr
    /\ UNCHANGED <<store, prov, runner, sends, conflict>>

\* The interrupt operation ends, and with it the wait of a driver that shares
\* it with a concurrent cancelTurn.
Interrupted(k) ==
    /\ intr' = [intr EXCEPT ![k] = Off]
    /\ driver' = IF At(k, "interrupting") THEN [driver EXCEPT ![k].pc = "wait"] ELSE driver

\* waitForTerminal: a notification of this generation, with the usage seen so
\* far, or a thread/read when none came in time.
Notified(k) ==
    /\ open /\ At(k, "wait") /\ ~Terminal(k) /\ client = "up"
    /\ prov[k].note /\ prov[k].gen = gen
    /\ \E seen \in {FALSE, prov[k].used} :
          driver' = [driver EXCEPT ![k] = [@ EXCEPT !.pc = "finalize", !.usage = seen]]
    /\ UNCHANGED <<store, prov, runner, intr, sends, conflict>>

\* Mutant: only turns of this generation are looked up.
PolledOwn(k) ==
    /\ open /\ At(k, "wait") /\ ~Terminal(k) /\ client = "up"
    /\ prov[k].status \notin {"none", "inProgress"} /\ prov[k].gen = gen
    /\ turn' = [turn EXCEPT ![k] = AcceptTurn(@)]
    /\ Go(k, "finalize")
    /\ UNCHANGED <<session, prov, runner, intr, sends, conflict>>

Polled(k) ==
    /\ open /\ At(k, "wait") /\ ~Terminal(k) /\ client = "up"
    /\ prov[k].status \notin {"none", "inProgress"}
    /\ turn' = [turn EXCEPT ![k] = AcceptTurn(@)]
    /\ Go(k, "finalize")
    /\ UNCHANGED <<session, prov, runner, intr, sends, conflict>>

WaitEnds(k) ==
    /\ open /\ At(k, "wait") /\ Terminal(k)
    /\ Ended(k)
    /\ UNCHANGED <<store, prov, runner, intr, sends, conflict>>

\* finalize reads whether cancellation was requested, and then records.
Finalize(k) ==
    /\ open /\ At(k, "finalize")
    /\ driver' = [driver EXCEPT ![k] = [@ EXCEPT !.pc = "record",
                      !.out = Normalize(prov[k].status, turn[k].cancel # "none")]]
    /\ UNCHANGED <<store, prov, runner, intr, sends, conflict>>

Record(k) ==
    /\ open /\ At(k, "record")
    /\ LET u == IF driver[k].usage THEN "reported" ELSE "none" IN
       IF Refuses(turn[k], driver[k].out, u)
       THEN conflict' = TRUE /\ UNCHANGED turn
       ELSE /\ turn' = [turn EXCEPT ![k] = RecordTerminal(@, driver[k].out, u)]
            /\ UNCHANGED conflict
    /\ Ended(k)
    /\ UNCHANGED <<session, prov, runner, intr, sends>>

\* A call or the notification stream fails: the driver ends, the runner
\* retires.  A refusal by the provider leaves the client up.
DriverFails(k) ==
    /\ open /\ gen < MaxGens
    /\ driver[k].pc \in {"sending", "started", "reconcile", "interrupting", "wait"}
    /\ \/ /\ driver[k].pc \in {"sending", "started", "reconcile"}
          /\ client' = "failed" /\ UNCHANGED intr
       \/ /\ driver[k].pc \in {"sending", "reconcile"}
          /\ UNCHANGED <<client, intr>>
       \/ /\ driver[k].pc = "wait" /\ client = "failed"
          /\ UNCHANGED <<client, intr>>
    /\ Ended(k)
    /\ retire' = TRUE
    /\ UNCHANGED <<store, prov, gen, open, ready, issued, sends, conflict>>

-----------------------------------------------------------------------------
(* Cancellation *)

\* cancelTurn: the request is durable first; a driver and the interrupt
\* operation follow.
CancelTurn(k) ==
    /\ open /\ ~retire /\ turn[k].phase # "absent"
    /\ turn[k].cancel = "none" \/ intr[k].pc = "off"
    /\ turn' = [turn EXCEPT ![k] = RequestCancellation(@)]
    /\ Driving(k)
    /\ intr' = IF intr[k].pc = "off" THEN [intr EXCEPT ![k].pc = "claim"] ELSE intr
    /\ UNCHANGED <<session, prov, runner, sends, conflict>>

\* Mutant: the interrupts of this generation are not remembered.
ClaimInterruptForgets(k) ==
    /\ open /\ intr[k].pc = "claim"
    /\ \/ /\ Terminal(k) \/ ~turn[k].bound
          /\ Interrupted(k)
          /\ UNCHANGED turn
       \/ /\ ~Terminal(k) /\ turn[k].bound /\ turn[k].cancel = "requested"
          /\ turn' = [turn EXCEPT ![k].cancel = "interrupt_maybe_sent"]
          /\ intr' = [intr EXCEPT ![k].pc = "send"]
          /\ UNCHANGED driver
       \/ /\ ~Terminal(k) /\ turn[k].bound /\ turn[k].cancel = "interrupt_maybe_sent"
          /\ intr' = [intr EXCEPT ![k].pc = "read"]
          /\ UNCHANGED <<turn, driver>>
    /\ UNCHANGED <<session, prov, runner, sends, conflict>>

\* claimInterrupt: sent once; a barrier left by an earlier generation is
\* reconciled, one of this generation was already sent.
ClaimInterrupt(k) ==
    /\ open /\ intr[k].pc = "claim"
    /\ \/ /\ Terminal(k) \/ ~turn[k].bound
             \/ (turn[k].cancel = "interrupt_maybe_sent" /\ k \in issued)
          /\ Interrupted(k)
          /\ UNCHANGED <<turn, issued>>
       \/ /\ ~Terminal(k) /\ turn[k].bound /\ turn[k].cancel = "requested"
          /\ turn' = [turn EXCEPT ![k].cancel = "interrupt_maybe_sent"]
          /\ issued' = issued \cup {k}
          /\ intr' = [intr EXCEPT ![k].pc = "send"]
          /\ UNCHANGED driver
       \/ /\ ~Terminal(k) /\ turn[k].bound /\ turn[k].cancel = "interrupt_maybe_sent"
          /\ k \notin issued
          /\ intr' = [intr EXCEPT ![k].pc = "read"]
          /\ UNCHANGED <<turn, issued, driver>>
    /\ UNCHANGED <<session, prov, gen, open, client, retire, ready, sends, conflict>>

\* turn/interrupt answered; the provider stops the turn in its own time.
SendInterrupt(k) ==
    /\ open /\ intr[k].pc = "send" /\ client = "up"
    /\ prov' = [prov EXCEPT ![k].asked = TRUE]
    /\ Interrupted(k)
    /\ UNCHANGED <<store, runner, sends, conflict>>

\* An interrupt of an earlier generation: one exact read closes it.
ReadInterrupted(k) ==
    /\ open /\ intr[k].pc = "read" /\ client = "up"
    /\ IF prov[k].status \in {"none", "inProgress"}
       THEN /\ turn' = [turn EXCEPT ![k] = RecordUncertainInterrupt(@)]
            /\ Interrupted(k)
       ELSE /\ intr' = [intr EXCEPT ![k] = [@ EXCEPT !.pc = "record",
                            !.out = Normalize(prov[k].status, TRUE)]]
            /\ UNCHANGED <<turn, driver>>
    /\ UNCHANGED <<session, prov, runner, sends, conflict>>

RecordInterrupted(k) ==
    /\ open /\ intr[k].pc = "record"
    /\ IF Refuses(turn[k], intr[k].out, "none")
       THEN conflict' = TRUE /\ UNCHANGED turn
       ELSE /\ turn' = [turn EXCEPT ![k] = RecordTerminal(@, intr[k].out, "none")]
            /\ UNCHANGED conflict
    /\ Interrupted(k)
    /\ UNCHANGED <<session, prov, runner, sends>>

\* The call fails, or the provider refuses to interrupt: fatal for the runner,
\* and for a driver that waits for it.
InterruptFails(k) ==
    /\ open /\ intr[k].pc \in {"send", "read"}
    /\ gen < MaxGens
    /\ client' \in {client, "failed"}
    /\ intr' = [intr EXCEPT ![k] = Off]
    /\ IF At(k, "interrupting") THEN Ended(k) ELSE UNCHANGED driver
    /\ retire' = TRUE
    /\ UNCHANGED <<store, prov, gen, open, ready, issued, sends, conflict>>

-----------------------------------------------------------------------------
(* Provider and generation *)

\* The provider ends a turn it runs, and says so.
ProviderEnds(k) ==
    /\ open /\ prov[k].status = "inProgress" /\ prov[k].gen = gen
    /\ \E s \in IF prov[k].asked THEN {"completed", "failed", "interrupted"}
                ELSE {"completed", "failed"}, used \in BOOLEAN :
          prov' = [prov EXCEPT ![k].status = s, ![k].note = TRUE, ![k].used = used]
    /\ UNCHANGED <<store, runner, driver, intr, sends, conflict>>

\* A turn of a process that is gone is shown as running until the provider
\* has settled it.
ProviderSettles(k) ==
    /\ open /\ client = "up" /\ prov[k].status = "inProgress" /\ prov[k].gen # gen
    /\ prov' = [prov EXCEPT ![k].status = "interrupted"]
    /\ UNCHANGED <<store, runner, driver, intr, sends, conflict>>

\* What is left of a turn when the process that ran it is gone: a turn whose
\* start was answered is known, and shown as interrupted or as it was.
Left(k) == IF prov[k].status # "inProgress" \/ prov[k].gen # gen THEN {prov[k]}
           ELSE {prov[k], [prov[k] EXCEPT !.status = "interrupted"]}
                \cup (IF turn[k].bound THEN {} ELSE {NoProvider})

\* The process dies: the client fails and the runner asks for retirement.
ProviderDies ==
    /\ open /\ client = "up" /\ gen < MaxGens
    /\ client' = "failed" /\ retire' = TRUE
    /\ prov' \in {p \in [Turns -> UNION {Left(k) : k \in Turns}] : \A k \in Turns : p[k] \in Left(k)}
    /\ UNCHANGED <<store, gen, open, ready, driver, intr, issued, sends, conflict>>

\* The Capsule closes or dies: the generation is terminated with it.
Close ==
    /\ open /\ gen < MaxGens
    /\ open' = FALSE /\ client' = "failed" /\ retire' = TRUE
    /\ ready' = "none" /\ issued' = {}
    /\ driver' = [k \in Turns |-> Off] /\ intr' = [k \in Turns |-> Off]
    /\ prov' \in {p \in [Turns -> UNION {Left(k) : k \in Turns}] : \A k \in Turns : p[k] \in Left(k)}
    /\ UNCHANGED <<store, gen, sends, conflict>>

-----------------------------------------------------------------------------
DriverStep(k) ==
    \/ ClaimTurnStart(k) \/ ProviderStarts(k) \/ Bind(k) \/ Reconcile(k) \/ Inspect(k)
    \/ Notified(k) \/ Polled(k) \/ WaitEnds(k) \/ Finalize(k) \/ Record(k)

InterruptStep(k) ==
    ClaimInterrupt(k) \/ SendInterrupt(k) \/ ReadInterrupted(k) \/ RecordInterrupted(k)

CodexNext == \/ OpenRunner \/ ClaimSession \/ SessionReady \/ SessionFails \/ ProviderDies \/ Close
        \/ \E k \in Turns : \/ Stream(k) \/ CancelTurn(k) \/ DriverStep(k) \/ InterruptStep(k)
                            \/ DriverFails(k) \/ InterruptFails(k) \/ ProviderEnds(k)
                            \/ ProviderSettles(k)

CodexSpec == CodexInit /\ [][CodexNext]_codexVars

\* The runner's own steps are taken, a retired runner is closed, the Node
\* recovers a turn it has started and the provider answers and finishes.
FairSpec ==
    /\ CodexSpec
    /\ WF_codexVars(OpenRunner) /\ WF_codexVars(ClaimSession) /\ WF_codexVars(SessionReady)
    /\ WF_codexVars(retire /\ Close)
    /\ \A k \in Turns :
         /\ WF_codexVars(turn[k].phase # "absent" /\ ~Terminal(k) /\ Stream(k))
         /\ WF_codexVars(DriverStep(k)) /\ WF_codexVars(InterruptStep(k))
         /\ WF_codexVars(ProviderEnds(k)) /\ WF_codexVars(ProviderSettles(k))

-----------------------------------------------------------------------------
\* The types of the variables.
CodexTypeOK ==
    /\ session \in {"prepared", "start_maybe_sent", "ready"}
    /\ turn \in [Turns -> [phase : {"absent", "prepared", "start_maybe_sent", "accepted",
                                    "cancelling", "terminal"},
                           bound : BOOLEAN,
                           cancel : {"none", "requested", "interrupt_maybe_sent"},
                           last : {"none", "completed", "failed", "cancelled"},
                           usage : {"none", "reported"}]]
    /\ gen \in 0 .. MaxGens /\ open \in BOOLEAN /\ retire \in BOOLEAN
    /\ client \in {"up", "failed"}
    /\ ready \in {"none", "starting", "resuming", "ready"}
    /\ issued \subseteq Turns

\* A turn is sent to the provider at most once, however often its runner
\* dies before, during or after the call (codex-capsule-transitions.ts:114).
AtMostOnce == \A k \in Turns : sends[k] <= 1

\* What the store reports of a turn is true of the provider: a turn is not
\* reported finished while this generation still runs it, completed only if
\* it completed, cancelled only if it was asked for and the provider did not
\* finish it (codex-turn-executor.ts:103).
Truthful ==
    \A k \in Turns : Terminal(k) =>
        /\ ~ (open /\ prov[k].status = "inProgress" /\ prov[k].gen = gen)
        /\ turn[k].last = "completed" => prov[k].status = "completed"
        /\ turn[k].last = "cancelled" => /\ turn[k].cancel # "none"
                                         /\ prov[k].status \in {"none", "interrupted"}

\* The stored turns satisfy what the store checks when it is opened: a phase
\* agrees with its binding and its cancellation, at most one turn is active
\* and none precedes the session (codex-capsule-state.ts:107).
Reopens ==
    /\ \A k \in Turns :
         /\ turn[k].phase \in {"prepared", "start_maybe_sent"} => ~turn[k].bound
         /\ turn[k].phase = "accepted" => turn[k].bound
         /\ turn[k].phase = "cancelling" => turn[k].cancel # "none"
         /\ turn[k].phase \notin {"cancelling", "terminal"} => turn[k].cancel = "none"
         /\ turn[k].last = "cancelled" => turn[k].cancel # "none"
         /\ (turn[k].last # "none") <=> Terminal(k)
         /\ turn[k].phase # "absent" => session = "ready"
    /\ Cardinality({k \in Turns : turn[k].phase \notin {"absent", "terminal"}}) <= 1

\* The driver and a concurrent cancellation never bring two different results
\* for one turn (codex-capsule-records.ts:88).
OneResult == ~conflict

\* What the store says of a turn is one result, the provider's, in a form the
\* next process can open (codex-capsule-transitions.ts:117).
ResultsSound == Truthful /\ OneResult /\ Reopens

\* Every turn that was prepared ends, whatever generation its start, its
\* interrupt or its result was lost with (codex-turn-executor.ts:141).
TurnEnds == \A k \in Turns : (turn[k].phase # "absent") ~> Terminal(k)

=============================================================================
