-------------------------- MODULE ProviderTeardown --------------------------
(***************************************************************************)
(* Who may run the Codex provider, and how its end is proven.  One          *)
(* generation is four processes: the Capsule that owns it                   *)
(* (codex-provider-guardian.ts, codex-supervised-process.ts), a supervisor  *)
(* that leads the provider's process group (codex-provider-supervisor.ts),  *)
(* the provider itself, and a reaper outside the group that survives it     *)
(* (codex-provider-reaper.ts).  Owner, supervisor and reaper share one      *)
(* kernel lock through an inherited descriptor; supervisor and reaper       *)
(* rewrite one state file (codex-provider-generation-state.ts) from two     *)
(* processes without a common lock.                                         *)
(*                                                                         *)
(* A rewrite of the file is a read step and a write step where another     *)
(* process may write in between.  Stop causes, observations, heartbeat      *)
(* times and pipes are left out.  Heartbeats may lapse at any time, so a    *)
(* watchdog may fire at any time; what must make it fire is in Fairness.    *)
(***************************************************************************)
EXTENDS Integers, FiniteSets

CONSTANTS MaxGens,    \* generations that may be opened
          MaxFaults,  \* processes that die by themselves
          MaxBoots    \* boot sessions of the host

ASSUME TeardownAssumption == /\ MaxGens \in Nat \ {0} /\ MaxBoots \in Nat \ {0}
                             /\ MaxFaults \in Nat

Gens == 1 .. MaxGens

VARIABLES own,      \* the Capsule's handling of the generation
          sup,      \* the supervisor's place in initialize
          prov,     \* the generation's provider is alive
          reap,     \* the reaper
          inbox,    \* commands on the way to the supervisor: terminate before, after initialize
          halt,     \* the supervisor has latched #stopping
          allow,    \* the owner accepts that no state was written
          sig,      \* SIGKILL has been sent to the group
          hb,       \* the supervisor is about to write the state it read as running
          rq,       \* the reaper's requestStop: none, todo, held, done
          expired,  \* the generation's absolute deadline has passed
          file,     \* provider-generation.json
          boot, faults

gvars == <<own, sup, prov, reap, inbox, halt, allow, sig, hb, rq, expired>>
vars == <<own, sup, prov, reap, inbox, halt, allow, sig, hb, rq, expired, file, boot, faults>>

OwnerUp(g) == own[g] \notin {"idle", "released", "dead"}
SupUp(g) == sup[g] \notin {"none", "gone"}
ReapUp(g) == reap[g] \notin {"none", "done", "dead"}

\* isSupervisorProcessGroupAlive: the supervisor leads the provider's group.
GroupAlive(g) == SupUp(g) \/ prov[g]

\* The kernel lock belongs to the open file the three processes share: one
\* unlock by the owner frees it, otherwise the last descriptor does.
LockHeld(g) == own[g] # "released" /\ (OwnerUp(g) \/ SupUp(g) \/ ReapUp(g))
LockFree == \A g \in Gens : ~LockHeld(g)

Current(g) == file.gen = g

-----------------------------------------------------------------------------
Init == /\ own = [g \in Gens |-> "idle"]
        /\ sup = [g \in Gens |-> "none"]
        /\ prov = [g \in Gens |-> FALSE]
        /\ reap = [g \in Gens |-> "none"]
        /\ inbox = [g \in Gens |-> "none"]
        /\ halt = [g \in Gens |-> FALSE]
        /\ allow = [g \in Gens |-> FALSE]
        /\ sig = [g \in Gens |-> FALSE]
        /\ hb = [g \in Gens |-> FALSE]
        /\ rq = [g \in Gens |-> "none"]
        /\ expired = [g \in Gens |-> FALSE]
        /\ file = [gen |-> 0, phase |-> "quiescent", boot |-> 1]
        /\ boot = 1
        /\ faults = 0

-----------------------------------------------------------------------------
(* The owner *)

\* performOpen: the lock is taken before anything is prepared.
OpenGeneration(g) ==
    /\ own[g] = "idle" /\ \A h \in Gens : h < g => own[h] # "idle"
    /\ LockFree
    /\ own' = [own EXCEPT ![g] = "locked"]
    /\ UNCHANGED <<sup, prov, reap, inbox, halt, allow, sig, hb, rq, expired, file, boot, faults>>

\* Preparation fails: no process exists, the lock is released.
PrepareFails(g) ==
    /\ own[g] = "locked"
    /\ own' = [own EXCEPT ![g] = "released"]
    /\ UNCHANGED <<sup, prov, reap, inbox, halt, allow, sig, hb, rq, expired, file, boot, faults>>

\* The supervisor is spawned and told to initialize.  An authority signal
\* that aborted during the preparation puts terminate in front of it.
SpawnSupervisor(g) ==
    /\ own[g] = "locked"
    /\ sup' = [sup EXCEPT ![g] = "spawned"]
    /\ \/ own' = [own EXCEPT ![g] = "starting"] /\ UNCHANGED inbox
       \/ own' = [own EXCEPT ![g] = "stopping"] /\ inbox' = [inbox EXCEPT ![g] = "first"]
    /\ UNCHANGED <<prov, reap, halt, allow, sig, hb, rq, expired, file, boot, faults>>

\* stop: revocation, shutdown, startup timeout, a failure report or the
\* supervisor's exit.  Only the first call performs it.
OwnerStops(g) ==
    /\ own[g] \in {"starting", "ready"}
    /\ own' = [own EXCEPT ![g] = "stopping"]
    /\ inbox' = [inbox EXCEPT ![g] = IF SupUp(g) THEN "last" ELSE "none"]
    /\ UNCHANGED <<sup, prov, reap, halt, allow, sig, hb, rq, expired, file, boot, faults>>

\* The supervisor has closed, or the grace is over and its group is killed.
OwnerKills(g) ==
    /\ own[g] = "stopping"
    /\ own' = [own EXCEPT ![g] = "polling"]
    /\ sig' = [sig EXCEPT ![g] = @ \/ GroupAlive(g)]
    /\ UNCHANGED <<sup, prov, reap, inbox, halt, allow, hb, rq, expired, file, boot, faults>>

\* waitForReaperFinalization may only begin once the group is absent.
OwnerSeesAbsence(g) ==
    /\ own[g] = "polling" /\ ~GroupAlive(g)
    /\ own' = [own EXCEPT ![g] = "waiting"]
    /\ UNCHANGED <<sup, prov, reap, inbox, halt, allow, sig, hb, rq, expired, file, boot, faults>>

\* What lets the owner release: its own generation recorded quiescent, or
\* the supervisor's word that it failed before a state could be written.
Proven(g) == IF Current(g) THEN file.phase = "quiescent" ELSE allow[g]

OwnerReleases(g) ==
    /\ own[g] = "waiting" /\ Proven(g)
    /\ own' = [own EXCEPT ![g] = "released"]
    /\ UNCHANGED <<sup, prov, reap, inbox, halt, allow, sig, hb, rq, expired, file, boot, faults>>

\* Termination cannot be proven: the guardian stays fail-closed and the
\* lock is kept by the process.
OwnerFailsClosed(g) ==
    /\ \/ own[g] = "polling" /\ sig[g]
       \/ own[g] = "waiting" /\ ~Proven(g)
    /\ own' = [own EXCEPT ![g] = "failed"]
    /\ UNCHANGED <<sup, prov, reap, inbox, halt, allow, sig, hb, rq, expired, file, boot, faults>>

-----------------------------------------------------------------------------
(* The supervisor *)

Running(g, pc) == sup[g] = pc /\ ~sig[g]

OwnerConnected(g) == OwnerUp(g)

\* assertAuthorityActive: the owner lives, the deadline is ahead, no stop.
Authority(g) == OwnerConnected(g) /\ ~expired[g] /\ ~halt[g]

\* The supervisor is gone, and with it what it had in memory.
Exit(g) == /\ sup' = [sup EXCEPT ![g] = "gone"]
           /\ halt' = [halt EXCEPT ![g] = FALSE]
           /\ hb' = [hb EXCEPT ![g] = FALSE]
           /\ inbox' = [inbox EXCEPT ![g] = "none"]

\* stop: latched once; initialize goes on until its next assertion.
Latch(g) == halt' = [halt EXCEPT ![g] = TRUE]

\* initialize is received.  A termination that came first ends it, as does
\* an owner that has gone; otherwise the reaper is spawned.
Initialize(g) ==
    /\ Running(g, "spawned")
    /\ IF inbox[g] = "first" \/ ~OwnerConnected(g)
       THEN Exit(g) /\ UNCHANGED reap
       ELSE /\ sup' = [sup EXCEPT ![g] = "arming"]
            /\ reap' = [reap EXCEPT ![g] = "spawned"]
            /\ UNCHANGED <<inbox, halt, hb>>
    /\ UNCHANGED <<own, prov, allow, sig, rq, expired, file, boot, faults>>

\* The reaper did not answer in time or died: its group is killed and the
\* failure reported as invalid_startup.
ArmingFails(g) ==
    /\ Running(g, "arming")
    /\ Exit(g)
    /\ reap' = [reap EXCEPT ![g] = "dead"]
    /\ allow' = [allow EXCEPT ![g] = OwnerConnected(g)]
    /\ UNCHANGED <<own, prov, sig, rq, expired, file, boot, faults>>

\* The reaper is ready; without an owner initialize stops here.
Armed(g) ==
    /\ Running(g, "arming") /\ reap[g] # "spawned" /\ ReapUp(g)
    /\ sup' = [sup EXCEPT ![g] = IF OwnerConnected(g) THEN "armed" ELSE "idle"]
    /\ halt' = [halt EXCEPT ![g] = ~OwnerConnected(g)]
    /\ UNCHANGED <<own, prov, reap, inbox, allow, sig, hb, rq, expired, file, boot, faults>>

\* begin, first write: an unfinished generation of another boot is over.
Reconcile(g) ==
    /\ Running(g, "armed") /\ file.phase # "quiescent" /\ file.boot # boot
    /\ file' = [file EXCEPT !.phase = "quiescent"]
    /\ UNCHANGED <<gvars, boot, faults>>

\* begin, second write: the start barrier.
Begin(g) ==
    /\ Running(g, "armed") /\ file.phase = "quiescent"
    /\ file' = [gen |-> g, phase |-> "spawn_maybe_started", boot |-> boot]
    /\ sup' = [sup EXCEPT ![g] = "begun"]
    /\ UNCHANGED <<own, prov, reap, inbox, halt, allow, sig, hb, rq, expired, boot, faults>>

\* initialize throws once the reaper exists (an unfinished predecessor of
\* this boot, a wrong version, a failed spawn, authority that has ended):
\* reported as a failure that needs a proof.
InitializeFails(g) ==
    /\ \/ \E pc \in {"armed", "begun", "probed"} : Running(g, pc)
       \/ Running(g, "provided") /\ (~Authority(g) \/ file.phase # "spawn_maybe_started")
    /\ sup' = [sup EXCEPT ![g] = "idle"]
    /\ Latch(g)
    /\ UNCHANGED <<own, prov, reap, inbox, allow, sig, hb, rq, expired, file, boot, faults>>

\* verifyPreparedCodexVersion
Probe(g) ==
    /\ Running(g, "begun") /\ Authority(g)
    /\ sup' = [sup EXCEPT ![g] = "probed"]
    /\ UNCHANGED <<own, prov, reap, inbox, halt, allow, sig, hb, rq, expired, file, boot, faults>>

\* startPreparedCodexProvider, in the supervisor's process group.
StartProvider(g) ==
    /\ Running(g, "probed") /\ Authority(g)
    /\ prov' = [prov EXCEPT ![g] = TRUE]
    /\ sup' = [sup EXCEPT ![g] = "provided"]
    /\ UNCHANGED <<own, reap, inbox, halt, allow, sig, hb, rq, expired, file, boot, faults>>

\* markRunning reads the state it will rewrite.
MarkRead(g) ==
    /\ Running(g, "provided") /\ Authority(g)
    /\ Current(g) /\ file.phase = "spawn_maybe_started"
    /\ sup' = [sup EXCEPT ![g] = "marking"]
    /\ UNCHANGED <<own, prov, reap, inbox, halt, allow, sig, hb, rq, expired, file, boot, faults>>

\* markRunning writes, whatever the reaper has written since; ready is
\* published if authority still holds.
MarkWrite(g) ==
    /\ Running(g, "marking")
    /\ file' = [file EXCEPT !.phase = "running"]
    /\ sup' = [sup EXCEPT ![g] = "idle"]
    /\ own' = [own EXCEPT ![g] = IF Authority(g) /\ @ = "starting" THEN "ready" ELSE @]
    /\ halt' = [halt EXCEPT ![g] = ~Authority(g)]
    /\ UNCHANGED <<prov, reap, inbox, allow, sig, hb, rq, expired, boot, faults>>

\* recordHeartbeat reads a running state, and writes it back later.
HeartbeatRead(g) ==
    /\ Running(g, "idle") /\ OwnerConnected(g) /\ ~hb[g]
    /\ Current(g) /\ file.phase = "running"
    /\ hb' = [hb EXCEPT ![g] = TRUE]
    /\ UNCHANGED <<own, sup, prov, reap, inbox, halt, allow, sig, rq, expired, file, boot, faults>>

HeartbeatWrite(g) ==
    /\ SupUp(g) /\ ~sig[g] /\ hb[g]
    /\ file' = [file EXCEPT !.phase = "running"]
    /\ hb' = [hb EXCEPT ![g] = FALSE]
    /\ UNCHANGED <<own, sup, prov, reap, inbox, halt, allow, sig, rq, expired, boot, faults>>

\* Why the supervisor must stop: the owner is gone or asks for it, the
\* deadline is over, the provider or the reaper is gone.
SupReason(g) == \/ ~OwnerConnected(g) \/ inbox[g] = "last"
                \/ expired[g] /\ sup[g] \notin {"arming", "armed"}
                \/ sup[g] = "idle" /\ (~prov[g] \/ ~ReapUp(g))

\* stop: with no reaper to ask the process exits; else the reaper is told.
\* A heartbeat timeout or SIGTERM may stop it without another reason.
SupStops(g) ==
    /\ SupUp(g) /\ ~sig[g] /\ ~halt[g]
    /\ IF sup[g] \in {"spawned", "arming"}
       THEN Exit(g)
       ELSE Latch(g) /\ UNCHANGED <<sup, hb, inbox>>
    /\ UNCHANGED <<own, prov, reap, allow, sig, rq, expired, file, boot, faults>>

\* The reaper is gone before it has ended the group: exit(1) leaves the
\* provider to the owner, if there is one.
SupExits(g) ==
    /\ SupUp(g) /\ ~sig[g] /\ halt[g] /\ ~ReapUp(g)
    /\ Exit(g)
    /\ UNCHANGED <<own, prov, reap, allow, sig, rq, expired, file, boot, faults>>

-----------------------------------------------------------------------------
(* The reaper *)

\* initialize: the watchdogs are armed before ready is sent.  Without a
\* supervisor the unarmed reaper exits.
ReaperArms(g) ==
    /\ reap[g] = "spawned"
    /\ reap' = [reap EXCEPT ![g] = IF SupUp(g) THEN "armed" ELSE "dead"]
    /\ UNCHANGED <<own, sup, prov, inbox, halt, allow, sig, hb, rq, expired, file, boot, faults>>

\* Why the reaper must act: told to, disconnected, no heartbeats, too late.
ReapReason(g) == halt[g] \/ ~SupUp(g) \/ ~OwnerUp(g) \/ expired[g]

\* reap: requestStop is started, SIGTERM is sent.
Reap(g) ==
    /\ reap[g] = "armed"
    /\ reap' = [reap EXCEPT ![g] = "reaping"]
    /\ rq' = [rq EXCEPT ![g] = "todo"]
    /\ UNCHANGED <<own, sup, prov, inbox, halt, allow, sig, hb, expired, file, boot, faults>>

\* requestStop reads; another generation's state is an error it ignores.
RequestRead(g) ==
    /\ ReapUp(g) /\ rq[g] = "todo"
    /\ rq' = [rq EXCEPT ![g] = IF Current(g) THEN "held" ELSE "done"]
    /\ UNCHANGED <<own, sup, prov, reap, inbox, halt, allow, sig, hb, expired, file, boot, faults>>

RequestWrite(g) ==
    /\ ReapUp(g) /\ rq[g] = "held"
    /\ file' = [file EXCEPT !.phase = "stop_requested"]
    /\ rq' = [rq EXCEPT ![g] = "done"]
    /\ UNCHANGED <<own, sup, prov, reap, inbox, halt, allow, sig, hb, expired, boot, faults>>

\* The grace is over: SIGKILL to whatever is left of the group.
ReapKills(g) ==
    /\ reap[g] = "reaping"
    /\ reap' = [reap EXCEPT ![g] = "polling"]
    /\ sig' = [sig EXCEPT ![g] = @ \/ GroupAlive(g)]
    /\ UNCHANGED <<own, sup, prov, inbox, halt, allow, hb, rq, expired, file, boot, faults>>

\* Mutants: quiescence is recorded without waiting for absence; requestStop
\* is not awaited; the lock is never closed.
Finalize_NoPoll(g) ==
    /\ reap[g] = "polling" /\ rq[g] = "done"
    /\ IF Current(g)
       THEN file' = [file EXCEPT !.phase = "quiescent"] /\ reap' = [reap EXCEPT ![g] = "done"]
       ELSE UNCHANGED file /\ reap' = [reap EXCEPT ![g] = "failclosed"]
    /\ UNCHANGED <<own, sup, prov, inbox, halt, allow, sig, hb, rq, expired, boot, faults>>

Finalize_NoAwait(g) ==
    /\ reap[g] = "polling" /\ ~GroupAlive(g)
    /\ IF Current(g)
       THEN /\ file' = [file EXCEPT !.phase = "quiescent"]
            /\ reap' = [reap EXCEPT ![g] = IF rq[g] = "done" THEN "done" ELSE "polling"]
       ELSE UNCHANGED file /\ reap' = [reap EXCEPT ![g] = "failclosed"]
    /\ UNCHANGED <<own, sup, prov, inbox, halt, allow, sig, hb, rq, expired, boot, faults>>

Finalize_KeepsLock(g) ==
    /\ reap[g] = "polling" /\ ~GroupAlive(g) /\ rq[g] = "done"
    /\ IF Current(g) THEN file' = [file EXCEPT !.phase = "quiescent"] ELSE UNCHANGED file
    /\ reap' = [reap EXCEPT ![g] = "failclosed"]
    /\ UNCHANGED <<own, sup, prov, inbox, halt, allow, sig, hb, rq, expired, boot, faults>>

\* The group is absent and requestStop has settled: quiescence is recorded
\* and the lock closed; if the file is not this generation's the reaper
\* keeps the lock for good.
Finalize(g) ==
    /\ reap[g] = "polling" /\ ~GroupAlive(g) /\ rq[g] = "done"
    /\ IF Current(g)
       THEN file' = [file EXCEPT !.phase = "quiescent"] /\ reap' = [reap EXCEPT ![g] = "done"]
       ELSE UNCHANGED file /\ reap' = [reap EXCEPT ![g] = "failclosed"]
    /\ UNCHANGED <<own, sup, prov, inbox, halt, allow, sig, hb, rq, expired, boot, faults>>

-----------------------------------------------------------------------------
(* The host *)

\* SIGKILL takes effect on the whole group.
GroupDies(g) ==
    /\ sig[g] /\ GroupAlive(g)
    /\ Exit(g)
    /\ prov' = [prov EXCEPT ![g] = FALSE]
    /\ sig' = [sig EXCEPT ![g] = FALSE]
    /\ UNCHANGED <<own, reap, allow, rq, expired, file, boot, faults>>

DeadlinePasses(g) ==
    /\ (LockHeld(g) \/ prov[g]) /\ ~expired[g]
    /\ expired' = [expired EXCEPT ![g] = TRUE]
    /\ UNCHANGED <<own, sup, prov, reap, inbox, halt, allow, sig, hb, rq, file, boot, faults>>

Fault == faults < MaxFaults /\ faults' = faults + 1

OwnerDies(g) ==
    /\ OwnerUp(g) /\ Fault
    /\ own' = [own EXCEPT ![g] = "dead"]
    /\ allow' = [allow EXCEPT ![g] = FALSE]
    /\ UNCHANGED <<sup, prov, reap, inbox, halt, sig, hb, rq, expired, file, boot>>

SupDies(g) ==
    /\ SupUp(g) /\ Fault /\ Exit(g)
    /\ UNCHANGED <<own, prov, reap, allow, sig, rq, expired, file, boot>>

\* The provider ends by itself, of a fault or at SIGTERM.
ProviderDies(g) ==
    /\ prov[g] /\ ~sig[g]
    /\ prov' = [prov EXCEPT ![g] = FALSE]
    /\ UNCHANGED <<own, sup, reap, inbox, halt, allow, sig, hb, rq, expired, file, boot, faults>>

ReaperDies(g) ==
    /\ ReapUp(g) /\ Fault
    /\ reap' = [reap EXCEPT ![g] = "dead"]
    /\ rq' = [rq EXCEPT ![g] = "none"]
    /\ UNCHANGED <<own, sup, prov, inbox, halt, allow, sig, hb, expired, file, boot>>

\* Every process is gone; a new boot session begins.
Reboot ==
    /\ boot < MaxBoots
    /\ boot' = boot + 1
    /\ own' = [g \in Gens |-> IF OwnerUp(g) THEN "dead" ELSE own[g]]
    /\ sup' = [g \in Gens |-> IF SupUp(g) THEN "gone" ELSE sup[g]]
    /\ prov' = [g \in Gens |-> FALSE]
    /\ reap' = [g \in Gens |-> IF ReapUp(g) THEN "dead" ELSE reap[g]]
    /\ inbox' = [g \in Gens |-> "none"] /\ rq' = [g \in Gens |-> "none"]
    /\ LET none == [g \in Gens |-> FALSE]
       IN halt' = none /\ allow' = none /\ sig' = none /\ hb' = none /\ expired' = none
    /\ UNCHANGED <<file, faults>>

-----------------------------------------------------------------------------
OwnerNext(g) == \/ OpenGeneration(g) \/ PrepareFails(g) \/ SpawnSupervisor(g)
                \/ OwnerStops(g) \/ OwnerKills(g) \/ OwnerSeesAbsence(g)
                \/ OwnerReleases(g) \/ OwnerFailsClosed(g)
SupNext(g) == \/ Initialize(g) \/ ArmingFails(g) \/ Armed(g) \/ Reconcile(g) \/ Begin(g)
              \/ InitializeFails(g) \/ Probe(g) \/ StartProvider(g)
              \/ MarkRead(g) \/ MarkWrite(g) \/ HeartbeatRead(g) \/ HeartbeatWrite(g)
              \/ SupStops(g) \/ SupExits(g)
ReaperNext(g) == \/ ReaperArms(g) \/ Reap(g) \/ RequestRead(g) \/ RequestWrite(g)
                 \/ ReapKills(g) \/ Finalize(g)
HostNext(g) == \/ GroupDies(g) \/ DeadlinePasses(g)
               \/ OwnerDies(g) \/ SupDies(g) \/ ProviderDies(g) \/ ReaperDies(g)

Next == \/ \E g \in Gens : OwnerNext(g) \/ SupNext(g) \/ ReaperNext(g) \/ HostNext(g)
        \/ Reboot

Spec == Init /\ [][Next]_vars

\* A live process goes on with what it has begun; a stop condition that
\* holds makes its watchdog or handler fire; SIGKILL works.
Fairness ==
    \A g \in Gens :
       /\ WF_vars(OwnerKills(g)) /\ WF_vars(OwnerSeesAbsence(g)) /\ WF_vars(OwnerReleases(g))
       /\ WF_vars(~SupUp(g) /\ OwnerStops(g))
       /\ WF_vars(SupReason(g) /\ SupStops(g)) /\ WF_vars(SupExits(g))
       /\ WF_vars(ReaperArms(g)) /\ WF_vars(ReapReason(g) /\ Reap(g))
       /\ WF_vars(RequestRead(g)) /\ WF_vars(RequestWrite(g))
       /\ WF_vars(ReapKills(g)) /\ WF_vars(Finalize(g)) /\ WF_vars(GroupDies(g))

FairSpec == Spec /\ Fairness

-----------------------------------------------------------------------------
(* Properties *)

Phases == {"spawn_maybe_started", "running", "stop_requested", "quiescent"}

\* Types of the process states and of the state file.
TypeOK ==
    /\ own \in [Gens -> {"idle", "locked", "starting", "ready", "stopping", "polling", "waiting",
                         "released", "failed", "dead"}]
    /\ sup \in [Gens -> {"none", "spawned", "arming", "armed", "begun", "probed", "provided",
                         "marking", "idle", "gone"}]
    /\ prov \in [Gens -> BOOLEAN]
    /\ reap \in [Gens -> {"none", "spawned", "armed", "reaping", "polling", "done", "failclosed",
                          "dead"}]
    /\ inbox \in [Gens -> {"none", "first", "last"}]
    /\ halt \in [Gens -> BOOLEAN] /\ allow \in [Gens -> BOOLEAN] /\ sig \in [Gens -> BOOLEAN]
    /\ hb \in [Gens -> BOOLEAN] /\ expired \in [Gens -> BOOLEAN]
    /\ rq \in [Gens -> {"none", "todo", "held", "done"}]
    /\ file \in [gen : 0 .. MaxGens, phase : Phases, boot : 1 .. MaxBoots]
    /\ boot \in 1 .. MaxBoots /\ faults \in 0 .. MaxFaults

\* Two provider generations never run at the same time, whichever of the
\* owners, supervisors and reapers die and however often a Capsule is
\* replaced (performOpen's lock together with begin's refusal).
OneProvider == \A g, h \in Gens : prov[g] /\ prov[h] => g = h

\* A live provider is on record as unfinished, in its own boot session:
\* the barrier precedes the spawn and nobody takes it away before the
\* group is gone.
Recorded == \A g \in Gens : prov[g] => Current(g) /\ file.phase # "quiescent" /\ file.boot = boot

\* The state file says quiescent only of a generation whose process group
\* is gone.
QuiescentGone == \A g \in Gens : Current(g) /\ file.phase = "quiescent" => ~GroupAlive(g)

\* The owner frees the lock for all who inherited it; when it has, nothing
\* of the group is left, even where a failed start was never recorded.
ReleasedGone == \A g \in Gens : own[g] = "released" => ~GroupAlive(g)

\* Once a generation is recorded quiescent no late write of its supervisor
\* (heartbeat, markRunning) or reaper (requestStop) takes that back.
QuiescentFinal ==
    [][file.phase = "quiescent" /\ file'.gen = file.gen => file'.phase = "quiescent"]_vars

\* State file and lock tell the truth about the process group: there is at most
\* one provider, a live one is on record, and neither a quiescent record nor a released lock outlives
\* what it denies (codex-provider-generation-state.ts:189, process-lock.ts:129).
GroupsOnRecord == OneProvider /\ Recorded /\ QuiescentGone /\ ReleasedGone

\* When the owner of a recorded generation has died, its reaper, if it
\* survives, gives the lock back, so that a replacement can open.
Freed == \A g \in Gens :
    (Current(g) /\ own[g] = "dead") ~> (~LockHeld(g) \/ reap[g] = "dead")
=============================================================================
