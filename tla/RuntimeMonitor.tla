--------------------------- MODULE RuntimeMonitor ---------------------------
(***************************************************************************)
(* The runtime authority of one delivery on one Node: the grant journaled  *)
(* for a fence (delivery-runtime-authority.ts, runtime-authority-          *)
(* factory.ts), the two reference monitors that enforce it, one in the     *)
(* Node and one in the Capsule (runtime-authority.ts, runtime-authority-   *)
(* session.ts), and the renewals that the lease keeper forwards to both    *)
(* while the grant is being installed, used and revoked                    *)
(* (runtime-authority-lease-synchronizer.ts).                              *)
(*                                                                         *)
(* A grant is its fence, the lease expiry it was compiled with and its     *)
(* hard deadline; its scope, capabilities and limits are the same for      *)
(* every grant of an attempt and are left out.  Node and Capsule run on    *)
(* one machine and read one clock.  The lease keeper saves a renewal in    *)
(* the journal and forwards it in one turn of the event loop: one action.  *)
(* Relay expiry is copied into the journal, so that `lease' is what the    *)
(* journal holds.  What a revocation proves about the Capsule process is   *)
(* the subject of module Capsule; here a revocation that returns has       *)
(* ended the process.                                                      *)
(***************************************************************************)
EXTENDS Integers, Sequences

CONSTANTS MaxTime,      \* the clock stops here
          MaxFence,     \* claims of the delivery
          LeaseLen,     \* how long the Relay grants or renews a lease
          TurnLen,      \* the shortest of the four turn limits
          MissionEnd,   \* the earlier of Mission expiry and wall time
          MaxInstalls,  \* 8 in the code
          MaxResolves,  \* 4 in the code
          MaxFaults     \* lost calls and Node deaths

ASSUME ConstantsAssumption ==
    /\ {MaxTime, MaxFence, LeaseLen, TurnLen, MaxInstalls, MaxResolves} \subseteq Nat \ {0}
    /\ {MissionEnd, MaxFaults} \subseteq Nat

VARIABLES now,       \* the machine's clock
          lease,     \* the journaled Relay lease: fence and expiry
          expiry,    \* history: the last expiry journaled for each fence
          active,    \* the journaled grant
          pred,      \* the journaled grant of an earlier fence, not yet retired
          deadline,  \* history: hard deadline of the first grant since retirement
          keeper,    \* the lease keeper
          node,      \* the processing step, with the grant it works on
          ses,       \* the Node's monitor
          sync,      \* the synchronizer
          cap,       \* the Capsule's monitor
          effect,    \* the last effect performed: fence, time, hard deadline
          faults

vars == <<now, lease, expiry, active, pred, deadline, keeper, node, ses, sync, cap,
          effect, faults>>

Fences == 1 .. MaxFence
NoGrant == [fence |-> 0, seed |-> 0, hard |-> 0]
NoMonitor == [fence |-> 0, lease |-> 0, hard |-> 0, revoked |-> FALSE]
NoEffect == [fence |-> 0, at |-> 0, hard |-> 0]
Unbound == [bound |-> FALSE, pending |-> 0, queue |-> <<>>, remote |-> FALSE]
Idle == [pc |-> "idle", grant |-> NoGrant, cur |-> 0, tries |-> 0, reply |-> "none"]

Least(a, b) == IF a < b THEN a ELSE b

\* Neither the lease nor the hard deadline has passed.
LiveAt(expires, hard) == now < expires /\ now < hard

\* A monitor that answers: assertLive refuses every other one.
Answers(m) == m.fence # 0 /\ ~m.revoked /\ LiveAt(m.lease, m.hard)

Revoked(m) == IF m.fence = 0 THEN m ELSE [m EXCEPT !.revoked = TRUE]

-----------------------------------------------------------------------------
Init == /\ now = 0 /\ lease = [fence |-> 0, expires |-> 0]
        /\ expiry = [f \in Fences |-> 0]
        /\ active = NoGrant /\ pred = NoGrant /\ deadline = 0
        /\ keeper = "off" /\ node = Idle /\ ses = NoMonitor /\ sync = Unbound
        /\ cap = NoMonitor /\ effect = NoEffect /\ faults = 0

Tick == /\ now < MaxTime
        /\ now' = now + 1
        /\ UNCHANGED <<lease, expiry, active, pred, deadline, keeper, node, ses, sync, cap,
                       effect, faults>>

\* A claim answered with a new fence: stageRuntimeAuthoritySuccessor sets the
\* grant of the earlier fence aside before the delivery is replaced.
Stage == IF active # NoGrant
         THEN /\ pred' = active /\ active' = NoGrant
         ELSE UNCHANGED <<pred, active>>

Claim ==
    /\ node.pc = "idle"
    /\ now >= lease.expires
    /\ lease.fence < MaxFence
    /\ lease' = [fence |-> lease.fence + 1, expires |-> now + LeaseLen]
    /\ expiry' = [expiry EXCEPT ![lease.fence + 1] = now + LeaseLen]
    /\ Stage
    /\ UNCHANGED <<now, deadline, keeper, node, ses, sync, cap, effect, faults>>

\* The delivery is executed, with a lease keeper, or its pending completion is
\* published, without one.
Begin(k) ==
    /\ node.pc = "idle" /\ now < lease.expires
    /\ keeper' = k
    /\ sync' = Unbound
    /\ node' = [Idle EXCEPT !.pc = "resolve"]
    /\ UNCHANGED <<now, lease, expiry, active, pred, deadline, ses, cap, effect, faults>>

-----------------------------------------------------------------------------
(* DeliveryRuntimeAuthority.resolveGrant *)

\* Mutant: an accepted revocation counts as a finished one.
ProvenAtOnce(g) == cap' = cap

\* revokeAuthority: returns only once the process that held the grant has ended.
Proven(g) == cap' = IF cap.fence = g.fence THEN NoMonitor ELSE cap

\* A grant that was set aside must be retired before its successor is compiled.
RetirePredecessor ==
    /\ node.pc = "resolve" /\ pred # NoGrant
    /\ \/ /\ Proven(pred)
          /\ node' = [node EXCEPT !.pc = "compile"]
          /\ UNCHANGED faults
       \/ /\ faults < MaxFaults /\ faults' = faults + 1
          /\ node' = [node EXCEPT !.pc = "stop"]
          /\ cap' \in {cap, Revoked(cap)}
    /\ UNCHANGED <<now, lease, expiry, active, pred, deadline, keeper, ses, sync, effect>>

\* createRuntimeAuthorityGrant: a journaled grant, or the one that was set
\* aside, keeps its hard deadline.
HardDeadline ==
    Least(MissionEnd,
          IF active # NoGrant THEN active.hard
          ELSE IF pred # NoGrant THEN pred.hard ELSE now + TurnLen)

Compiled == [fence |-> lease.fence,
             seed |-> IF active # NoGrant THEN active.seed ELSE lease.expires,
             hard |-> HardDeadline]

Compile ==
    /\ node.pc = "compile" \/ (node.pc = "resolve" /\ pred = NoGrant)
    /\ node' = IF ~ LiveAt(lease.expires, HardDeadline)
                  \/ (active # NoGrant /\ Compiled # active)
               THEN [node EXCEPT !.pc = "stop"]
               ELSE [node EXCEPT !.pc = IF active # NoGrant THEN "enter" ELSE "checkpoint",
                                 !.grant = Compiled, !.cur = lease.expires]
    /\ UNCHANGED <<now, lease, expiry, active, pred, deadline, keeper, ses, sync, cap, effect, faults>>

\* checkpointRuntimeAuthority compares the journaled lease with the one the
\* grant was compiled from; a renewal in between starts the round again.
Matches == lease.expires = node.cur

Checkpoint ==
    /\ node.pc = "checkpoint"
    /\ IF Matches
       THEN /\ active' = node.grant /\ pred' = NoGrant
            /\ deadline' = IF deadline = 0 THEN node.grant.hard ELSE deadline
            /\ node' = [node EXCEPT !.pc = "enter"]
       ELSE /\ node' = IF node.tries + 1 < MaxResolves
                       THEN [node EXCEPT !.pc = "resolve", !.tries = @ + 1]
                       ELSE [node EXCEPT !.pc = "stop"]
            /\ UNCHANGED <<active, pred, deadline>>
    /\ UNCHANGED <<now, lease, expiry, keeper, ses, sync, cap, effect, faults>>

-----------------------------------------------------------------------------
(* NodeRuntimeAuthoritySession.install *)

\* The lease is read from the journal and must be live before the first call.
EnterInstall ==
    /\ node.pc = "enter"
    /\ node' = IF LiveAt(lease.expires, node.grant.hard)
               THEN [node EXCEPT !.pc = "install", !.cur = lease.expires, !.tries = 0]
               ELSE [node EXCEPT !.pc = "stop"]
    /\ UNCHANGED <<now, lease, expiry, active, pred, deadline, keeper, ses, sync, cap, effect, faults>>

\* CapsuleAuthority.install of grant g with current lease l: the monitor
\* afterwards and the answer.
Admit(g, l) ==
    IF cap.fence = 0
    THEN IF LiveAt(l, g.hard)
         THEN [m |-> [fence |-> g.fence, lease |-> l, hard |-> g.hard, revoked |-> FALSE],
               answer |-> "ok"]
         ELSE [m |-> NoMonitor, answer |-> "expired"]
    ELSE IF cap.fence # g.fence \/ cap.hard # g.hard
    THEN [m |-> Revoked(cap), answer |-> "denied"]
    ELSE IF cap.revoked THEN [m |-> cap, answer |-> "denied"]
    ELSE IF ~ Answers(cap) THEN [m |-> Revoked(cap), answer |-> "expired"]
    ELSE IF l < cap.lease THEN [m |-> cap, answer |-> "expired"]
    ELSE [m |-> [cap EXCEPT !.lease = l], answer |-> "ok"]

\* The call is served and answered, or it fails before or after it was served.
PortInstall ==
    /\ node.pc = "install"
    /\ LET r == Admit(node.grant, node.cur) IN
       \/ /\ cap' = r.m
          /\ node' = [node EXCEPT !.pc = "installed", !.reply = r.answer]
          /\ UNCHANGED faults
       \/ /\ faults < MaxFaults /\ faults' = faults + 1
          /\ cap' \in {cap, r.m}
          /\ node' = [node EXCEPT !.pc = "installed", !.reply = "lost"]
    /\ UNCHANGED <<now, lease, expiry, active, pred, deadline, keeper, ses, sync, effect>>

Fail == [node EXCEPT !.pc = "failing"]

\* Another round with the lease now in the journal, while one is left.
InstallAgain == IF node.tries + 1 < MaxInstalls
                THEN [node EXCEPT !.pc = "install", !.cur = lease.expires, !.tries = @ + 1]
                ELSE Fail

\* RuntimeAuthorityLeaseSynchronizer.bind: the renewal that was buffered while
\* there was no session is forwarded before the session counts as ready.
Bind == IF sync.pending = 0
        THEN [sync EXCEPT !.bound = TRUE]
        ELSE [sync EXCEPT !.bound = TRUE, !.pending = 0, !.queue = <<sync.pending>>]

\* The lease read again after the answer decides: a newer one is installed in
\* its turn, a dead one ends the attempt, the same one makes the session.
InstallReturns ==
    /\ node.pc = "installed"
    /\ IF \/ ~ LiveAt(lease.expires, node.grant.hard)
          \/ (node.reply \in {"denied", "lost"} /\ lease.expires = node.cur)
       THEN /\ node' = Fail
            /\ UNCHANGED <<ses, sync>>
       ELSE IF node.reply # "ok" \/ lease.expires > node.cur
       THEN /\ node' = InstallAgain
            /\ UNCHANGED <<ses, sync>>
       ELSE /\ ses' = [fence |-> node.grant.fence, lease |-> lease.expires,
                       hard |-> node.grant.hard, revoked |-> FALSE]
            /\ sync' = IF keeper = "off" THEN sync ELSE Bind
            /\ node' = [node EXCEPT !.pc = "binding"]
    /\ UNCHANGED <<now, lease, expiry, active, pred, deadline, keeper, cap, effect, faults>>

\* beforeReady has returned; a session aborted meanwhile is not returned.
Ready ==
    /\ node.pc = "binding" /\ sync.queue = <<>>
    /\ node' = IF ses.revoked THEN Fail ELSE [node EXCEPT !.pc = "ready"]
    /\ UNCHANGED <<now, lease, expiry, active, pred, deadline, keeper, ses, sync, cap, effect, faults>>

-----------------------------------------------------------------------------
(* Renewals *)

\* LeaseKeeper.run: the renewed lease is journaled and handed to the
\* synchronizer, which buffers it until it is bound.
Forward(e) == IF ~ sync.bound THEN [sync EXCEPT !.pending = e]
              ELSE [sync EXCEPT !.queue = Append(@, e)]

RelayRenews ==
    /\ keeper = "waiting"
    /\ now < lease.expires /\ lease.expires < now + LeaseLen
    /\ lease' = [lease EXCEPT !.expires = now + LeaseLen]
    /\ expiry' = [expiry EXCEPT ![lease.fence] = now + LeaseLen]
    /\ sync' = Forward(now + LeaseLen)
    /\ keeper' = IF sync.bound THEN "forwarding" ELSE "waiting"
    /\ UNCHANGED <<now, active, pred, deadline, node, ses, cap, effect, faults>>

\* The keeper waits for its renewal to be forwarded, and stops on failure.
KeeperForwarded ==
    /\ keeper = "forwarding" /\ sync.queue = <<>>
    /\ keeper' = IF ses.revoked THEN "failed" ELSE "waiting"
    /\ UNCHANGED <<now, lease, expiry, active, pred, deadline, node, ses, sync, cap, effect, faults>>

\* The Relay refuses the renewal or does not answer.
KeeperFails ==
    /\ keeper = "waiting"
    /\ faults < MaxFaults /\ faults' = faults + 1
    /\ keeper' = "failed"
    /\ UNCHANGED <<now, lease, expiry, active, pred, deadline, node, ses, sync, cap, effect>>

\* A failed renewal revokes the session, asks the Capsule to revoke, without
\* regard to whether it does, and fails every renewal queued behind it.
RenewalFails ==
    /\ ses' = Revoked(ses)
    /\ sync' = [sync EXCEPT !.queue = <<>>, !.remote = FALSE]

\* Mutant: a renewal that repeats the expiry is refused.
AdvancesStrictly(m, e) == Answers(m) /\ m.lease < e

\* session.renew, first half: the Node's monitor.
Advances(m, e) == Answers(m) /\ m.lease <= e

RenewLocal ==
    /\ sync.queue # <<>> /\ ~ sync.remote
    /\ IF Advances(ses, Head(sync.queue))
       THEN /\ ses' = [ses EXCEPT !.lease = Head(sync.queue)]
            /\ sync' = [sync EXCEPT !.remote = TRUE]
            /\ UNCHANGED <<cap, faults>>
       ELSE /\ RenewalFails
            /\ \/ /\ cap' = Revoked(cap) /\ UNCHANGED faults
               \/ /\ faults < MaxFaults /\ faults' = faults + 1 /\ UNCHANGED cap
    /\ UNCHANGED <<now, lease, expiry, active, pred, deadline, keeper, node, effect>>

\* Second half: the Capsule's monitor.
RenewRemote ==
    /\ sync.queue # <<>> /\ sync.remote
    /\ \/ /\ Advances(cap, Head(sync.queue)) /\ cap.fence = ses.fence
          /\ cap' = [cap EXCEPT !.lease = Head(sync.queue)]
          /\ sync' = [sync EXCEPT !.queue = Tail(@), !.remote = FALSE]
          /\ UNCHANGED <<ses, faults>>
       \/ /\ ~ (Advances(cap, Head(sync.queue)) /\ cap.fence = ses.fence)
          /\ RenewalFails
          /\ cap' = Revoked(cap)
          /\ UNCHANGED faults
       \/ /\ faults < MaxFaults /\ faults' = faults + 1
          /\ RenewalFails
          /\ cap' \in {cap, Revoked(cap)}
    /\ UNCHANGED <<now, lease, expiry, active, pred, deadline, keeper, node, effect>>

\* The expiry timers of the two monitors, and the end of a Capsule whose
\* monitor was revoked.
Expired(m) == m.fence # 0 /\ ~m.revoked /\ ~ LiveAt(m.lease, m.hard)

ExpireSession ==
    /\ Expired(ses) /\ ses' = Revoked(ses)
    /\ UNCHANGED <<now, lease, expiry, active, pred, deadline, keeper, node, sync, cap, effect, faults>>

ExpireCapsule ==
    /\ Expired(cap) /\ cap' = Revoked(cap)
    /\ UNCHANGED <<now, lease, expiry, active, pred, deadline, keeper, node, ses, sync, effect, faults>>

CapsuleEnds ==
    /\ cap.revoked /\ cap' = NoMonitor
    /\ UNCHANGED <<now, lease, expiry, active, pred, deadline, keeper, node, ses, sync, effect, faults>>

-----------------------------------------------------------------------------
(* NodeRuntimeAuthoritySession.perform: the completion is published *)

\* monitor.assert: a refusal revokes an expired monitor and ends the step.
Assert(from, to) ==
    /\ node.pc = from
    /\ IF Answers(ses)
       THEN node' = [node EXCEPT !.pc = to] /\ UNCHANGED ses
       ELSE node' = Fail /\ ses' = IF Expired(ses) THEN Revoked(ses) ELSE ses
    /\ UNCHANGED <<now, lease, expiry, active, pred, deadline, sync, cap>>

\* The lease keeper has stopped (`await leaseKeeper.stop()') before completion.
Publish == /\ keeper \in {"waiting", "off"}
           /\ Assert("ready", "evidence")
           /\ keeper' = "off"
           /\ UNCHANGED <<effect, faults>>

\* The decision is recorded and the request asserted again.
Recheck == Assert("evidence", "ask") /\ UNCHANGED <<keeper, effect, faults>>

\* port.assertAuthority: the Capsule's own monitor; a refusal, or no answer,
\* revokes the session.
AskCapsule ==
    /\ node.pc = "ask"
    /\ \/ /\ Answers(cap) /\ cap.fence = ses.fence
          /\ node' = [node EXCEPT !.pc = "answered"]
          /\ UNCHANGED <<ses, cap, faults>>
       \/ /\ ~ (Answers(cap) /\ cap.fence = ses.fence)
          /\ node' = Fail /\ ses' = Revoked(ses)
          /\ cap' = IF Expired(cap) THEN Revoked(cap) ELSE cap
          /\ UNCHANGED faults
       \/ /\ faults < MaxFaults /\ faults' = faults + 1
          /\ node' = Fail /\ ses' = Revoked(ses)
          /\ UNCHANGED cap
    /\ UNCHANGED <<now, lease, expiry, active, pred, deadline, keeper, sync, effect>>

\* Mutant: the Capsule's answer is taken for the last word.
PerformUnchecked ==
    /\ node.pc = "answered"
    /\ node' = [node EXCEPT !.pc = "done"]
    /\ effect' = [fence |-> ses.fence, at |-> now, hard |-> ses.hard]
    /\ UNCHANGED <<now, lease, expiry, active, pred, deadline, sync, cap, ses, keeper, faults>>

\* The last local assertion and the effect are one turn of the event loop.
Perform == /\ Assert("answered", "done")
           /\ effect' = IF Answers(ses)
                        THEN [fence |-> ses.fence, at |-> now, hard |-> ses.hard]
                        ELSE effect
           /\ UNCHANGED <<keeper, faults>>

\* retireCompletedRuntimeAuthority and retireJournaled: the grants leave the
\* journal only when the revocation is proven.
Retire ==
    /\ node.pc = "done"
    /\ ses' = NoMonitor /\ sync' = Unbound /\ node' = Idle
    /\ \/ /\ Proven(active)
          /\ active' = NoGrant /\ pred' = NoGrant /\ deadline' = 0
          /\ UNCHANGED faults
       \/ /\ faults < MaxFaults /\ faults' = faults + 1
          /\ cap' \in {cap, Revoked(cap)}
          /\ UNCHANGED <<active, pred, deadline>>
    /\ UNCHANGED <<now, lease, expiry, keeper, effect>>

\* The turn is given up: the lease keeper failed, the session was aborted, the
\* completion's outcome is unknown, or the Node shuts down.
Abandon ==
    /\ node.pc \in {"ready", "done"}
    /\ node' = Fail
    /\ UNCHANGED <<now, lease, expiry, active, pred, deadline, keeper, ses, sync, cap, effect, faults>>

\* The catch blocks: the session is revoked at once, the Capsule if it can be
\* reached; the journal keeps the grant.
CleanUp ==
    /\ node.pc = "failing"
    /\ \/ cap' = Revoked(cap) /\ UNCHANGED faults
       \/ faults < MaxFaults /\ faults' = faults + 1 /\ UNCHANGED cap
    /\ node' = Idle /\ ses' = NoMonitor /\ sync' = Unbound /\ keeper' = "off"
    /\ UNCHANGED <<now, lease, expiry, active, pred, deadline, effect>>

\* Nothing was installed: there is nothing to revoke.
Stop ==
    /\ node.pc = "stop"
    /\ node' = Idle /\ ses' = NoMonitor /\ sync' = Unbound /\ keeper' = "off"
    /\ UNCHANGED <<now, lease, expiry, active, pred, deadline, cap, effect, faults>>

\* The Node dies: the journal and the Capsule remain.
NodeDies ==
    /\ node.pc # "idle"
    /\ faults < MaxFaults /\ faults' = faults + 1
    /\ node' = Idle /\ ses' = NoMonitor /\ sync' = Unbound /\ keeper' = "off"
    /\ UNCHANGED <<now, lease, expiry, active, pred, deadline, cap, effect>>

-----------------------------------------------------------------------------
Next == \/ Tick \/ Claim \/ \E k \in {"waiting", "off"} : Begin(k)
        \/ RetirePredecessor \/ Compile \/ Checkpoint
        \/ EnterInstall \/ PortInstall \/ InstallReturns \/ Ready
        \/ RelayRenews \/ KeeperForwarded \/ KeeperFails \/ RenewLocal \/ RenewRemote
        \/ ExpireSession \/ ExpireCapsule \/ CapsuleEnds
        \/ Publish \/ Recheck \/ AskCapsule \/ Perform
        \/ Retire \/ Abandon \/ CleanUp \/ Stop \/ NodeDies

Spec == Init /\ [][Next]_vars

-----------------------------------------------------------------------------
Times == 0 .. MaxTime + LeaseLen
Hards == 0 .. MaxTime + TurnLen
Grants == [fence : 0 .. MaxFence, seed : Times, hard : Hards]
Monitors == [fence : 0 .. MaxFence, lease : Times, hard : Hards, revoked : BOOLEAN]
Steps == {"idle", "resolve", "compile", "checkpoint", "enter", "install", "installed",
          "binding", "ready", "evidence", "ask", "answered", "done", "failing", "stop"}

\* The types of the variables.
TypeOK ==
    /\ now \in 0 .. MaxTime
    /\ lease \in [fence : 0 .. MaxFence, expires : Times]
    /\ expiry \in [Fences -> Times]
    /\ active \in Grants /\ pred \in Grants
    /\ deadline \in Hards
    /\ keeper \in {"off", "waiting", "forwarding", "failed"}
    /\ node \in [pc : Steps, grant : Grants, cur : Times, tries : Nat,
                 reply : {"none", "ok", "denied", "expired", "lost"}]
    /\ ses \in Monitors /\ cap \in Monitors
    /\ node.tries < MaxInstalls \/ node.tries < MaxResolves
    /\ sync \in [bound : BOOLEAN, pending : Times, queue : Seq(Times), remote : BOOLEAN]
    /\ effect \in [fence : 0 .. MaxFence, at : 0 .. MaxTime, hard : Hards]
    /\ faults \in 0 .. MaxFaults

\* An effect happened before the last lease the Relay granted for its own
\* fence ran out and before the hard deadline of its attempt, whatever was
\* renewed, expired or reinstalled while its two assertions were outstanding
\* (runtime-authority-session.ts:121).
EffectsInTime ==
    effect.fence # 0 => /\ effect.at < expiry[effect.fence]
                        /\ effect.at < effect.hard

\* A Capsule never believes in a lease longer than the one the Relay granted
\* for its fence, and once the journal holds the grant of a fence no Capsule
\* answers for an earlier one (delivery-runtime-authority.ts:142).
CapsuleFenced ==
    /\ cap.fence # 0 => cap.lease <= expiry[cap.fence]
    /\ active # NoGrant /\ cap.fence # 0 /\ ~cap.revoked => cap.fence = active.fence

\* A renewal that arrives while the grant is being installed is not lost: a
\* ready session with nothing left to forward has the journaled lease, and so
\* has its Capsule (runtime-authority-lease-synchronizer.ts:26).
ReadyCurrent ==
    node.pc \in {"ready", "evidence", "ask", "answered"} /\ ~ses.revoked /\ sync.queue = <<>> =>
        /\ ses.lease = lease.expires
        /\ cap.fence = ses.fence /\ ~cap.revoked => cap.lease = lease.expires

\* The hard deadline of an attempt is fixed by its first grant: neither a
\* renewal, a new fence nor a restart moves it until the grant is proven
\* retired (runtime-authority-factory.ts:71).
HardKept ==
    /\ \A g \in {active, pred} : g # NoGrant => g.hard = deadline
    /\ ses.fence # 0 => ses.hard = deadline

\* With no lost call and no death, the Node gives up a session only because a
\* lease or the hard deadline really ran out in one of the two monitors: the
\* order in which buffered and new renewals reach them never does it
\* (runtime-authority.ts:266).
NoSpuriousLoss ==
    faults = 0 /\ ses.fence # 0 /\ ses.revoked =>
        \/ ~ LiveAt(ses.lease, ses.hard)
        \/ cap.fence = 0 \/ ~ LiveAt(cap.lease, cap.hard)

\* Renewals reach both monitors, whenever they arrive, and never cost a healthy
\* session, and nothing moves the hard deadline (runtime-authority-session.ts:65,
\* runtime-authority.ts:267, runtime-authority-factory.ts:72).
DeadlinesKept == ReadyCurrent /\ NoSpuriousLoss /\ HardKept

=============================================================================
