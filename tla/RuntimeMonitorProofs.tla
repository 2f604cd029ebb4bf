------------------------- MODULE RuntimeMonitorProofs -------------------------
(***************************************************************************)
(* An effect of a delivery happens before the lease of its own fence and   *)
(* its hard deadline have passed; no Capsule outlives the grant it answers *)
(* for; and renewals reach both monitors: for any lengths of leases and    *)
(* turns, any number of claims, lost calls and deaths.                     *)
(*                                                                         *)
(* The argument: the journaled lease is the last one the Relay granted for *)
(* its fence, and only grows; a grant, a session and every renewal on its  *)
(* way belong to that lease and none outlasts it; and the session is       *)
(* asserted in the same turn as the effect.  For the Capsule, the second   *)
(* half of the module.                                                     *)
(***************************************************************************)
EXTENDS RuntimeMonitor, SequenceTheorems, TLAPS

\* The part of the types the argument needs.
AnyGrant == [fence : Nat, seed : Nat, hard : Nat]
AnyStep == [pc : Steps, grant : AnyGrant, cur : Nat, tries : Nat,
            reply : {"none", "ok", "denied", "expired", "lost"}]
Typed ==
    /\ now \in Nat
    /\ lease \in [fence : 0 .. MaxFence, expires : Nat]
    /\ expiry \in [Fences -> Nat]
    /\ active \in AnyGrant /\ pred \in AnyGrant
    /\ node \in AnyStep
    /\ ses \in [fence : Nat, lease : Nat, hard : Nat, revoked : BOOLEAN]
    /\ sync \in [bound : BOOLEAN, pending : Nat, queue : Seq(Nat), remote : BOOLEAN]
    /\ effect \in [fence : Nat, at : Nat, hard : Nat]

\* The journaled lease is the last one granted for its fence.
Journaled ==
    /\ lease.fence = 0 => lease.expires = 0
    /\ lease.fence # 0 => expiry[lease.fence] = lease.expires
    /\ node.pc # "idle" => lease.fence # 0

\* Grants belong to the journaled fence until they are set aside.
GrantsOwn ==
    node.pc \in {"checkpoint", "enter", "install", "installed"} =>
        node.grant.fence = lease.fence

\* A session, and the renewals on their way to it, never outlast that lease.
SessionOwn ==
    /\ ses.fence # 0 => ses.fence = lease.fence /\ ses.lease <= lease.expires
    /\ node.pc = "idle" => ses.fence = 0

RenewalsOwn ==
    /\ sync.pending <= lease.expires
    /\ \A i \in DOMAIN sync.queue : sync.queue[i] <= lease.expires

EffectOwn == effect.fence <= lease.fence /\ EffectsInTime

IInv == Typed /\ Journaled /\ GrantsOwn /\ SessionOwn /\ RenewalsOwn /\ EffectOwn

LEMMA Constants ==
    /\ MaxFence \in Nat /\ MaxFence >= 1 /\ LeaseLen \in Nat /\ LeaseLen >= 1
    /\ TurnLen \in Nat /\ MissionEnd \in Nat
<1>1. /\ MaxFence \in Nat \ {0} /\ LeaseLen \in Nat \ {0} /\ TurnLen \in Nat \ {0}
      /\ MissionEnd \in Nat
  BY ConstantsAssumption
<1> QED BY <1>1

\* The initial values have these types.
LEMMA Blanks ==
    /\ NoGrant \in AnyGrant
    /\ Idle \in AnyStep
    /\ NoMonitor \in [fence : Nat, lease : Nat, hard : Nat, revoked : BOOLEAN]
    /\ Unbound \in [bound : BOOLEAN, pending : Nat, queue : Seq(Nat), remote : BOOLEAN]
    /\ NoEffect \in [fence : Nat, at : Nat, hard : Nat]
    /\ Idle.pc = "idle" /\ NoMonitor.fence = 0 /\ Unbound.pending = 0
    /\ Unbound.queue = <<>> /\ NoEffect.fence = 0
<1>1. NoGrant \in AnyGrant
  BY DEF AnyGrant, NoGrant
<1>2. Idle \in AnyStep
      /\ Idle.pc = "idle"
  BY <1>1 DEF Idle, AnyStep, Steps
<1>3. NoMonitor \in [fence : Nat, lease : Nat, hard : Nat, revoked : BOOLEAN]
      /\ NoMonitor.fence = 0
  BY DEF NoMonitor
<1>4. Unbound \in [bound : BOOLEAN, pending : Nat, queue : Seq(Nat), remote : BOOLEAN]
      /\ Unbound.pending = 0 /\ Unbound.queue = <<>>
  BY DEF Unbound
<1>5. NoEffect \in [fence : Nat, at : Nat, hard : Nat] /\ NoEffect.fence = 0
  BY DEF NoEffect
<1> QED BY <1>1, <1>2, <1>3, <1>4, <1>5

LEMMA InitIInv == Init => IInv
<1> SUFFICES ASSUME Init PROVE IInv
  OBVIOUS
<1>1. Typed
  BY Constants, Blanks DEF Init, Typed, Fences
<1>2. Journaled /\ GrantsOwn /\ SessionOwn /\ RenewalsOwn /\ EffectOwn
  BY Blanks DEF Init, Journaled, GrantsOwn, SessionOwn, RenewalsOwn, EffectOwn, EffectsInTime
<1> QED BY <1>1, <1>2 DEF IInv

-----------------------------------------------------------------------------
(* Steps that leave the journaled lease, the session and the effect alone *)

\* A step of the processing that neither starts nor ends it.
LEMMA NodeStep ==
    ASSUME IInv,
           UNCHANGED <<now, lease, expiry, ses, effect>>,
           sync' = sync, active' \in AnyGrant, pred' \in AnyGrant,
           node' \in AnyStep,
           node.pc # "idle", node'.pc # "idle", GrantsOwn'
    PROVE  IInv'
BY DEF IInv, Typed, Journaled, GrantsOwn, SessionOwn, RenewalsOwn, EffectOwn, EffectsInTime

\* The processing ends and its session with it.
LEMMA EndStep ==
    ASSUME IInv,
           UNCHANGED <<now, lease, expiry, effect>>,
           node' = Idle, ses' = NoMonitor, sync' = Unbound,
           active' \in AnyGrant, pred' \in AnyGrant
    PROVE  IInv'
<1>1. Typed'
  BY Blanks DEF IInv, Typed
<1>2. Journaled' /\ GrantsOwn' /\ SessionOwn' /\ EffectOwn'
  BY Blanks DEF IInv, Journaled, GrantsOwn, SessionOwn, EffectOwn, EffectsInTime
<1>3. RenewalsOwn'
  BY Blanks DEF IInv, Typed, RenewalsOwn
<1> QED BY <1>1, <1>2, <1>3 DEF IInv

\* Grants, monitors and renewals of the journaled lease.
LEMMA ResolveStep ==
    ASSUME IInv, RetirePredecessor \/ Compile \/ Checkpoint \/ EnterInstall
    PROVE  IInv'
<1> USE DEF IInv, Typed
<1>1. CASE RetirePredecessor
  <2>1. node.pc # "idle" /\ node'.pc \in {"compile", "stop"}
    BY <1>1 DEF RetirePredecessor, AnyStep
  <2>2. node' \in AnyStep
    BY <1>1 DEF RetirePredecessor, AnyStep, Steps
  <2> QED BY <1>1, <2>1, <2>2, NodeStep DEF RetirePredecessor, GrantsOwn
<1>2. CASE Compile
  <2>1. HardDeadline \in Nat
    BY Constants DEF HardDeadline, Least, AnyGrant
  <2>2. Compiled \in AnyGrant /\ Compiled.fence = lease.fence
    BY <2>1 DEF Compiled, AnyGrant
  <2>3. node' \in AnyStep
    BY <1>2, <2>2 DEF Compile, AnyStep, Steps
  <2>4. node.pc # "idle" /\ node'.pc \in {"stop", "enter", "checkpoint"}
        /\ (node'.pc # "stop" => node'.grant = Compiled)
    BY <1>2 DEF Compile, AnyStep
  <2>5. UNCHANGED <<now, lease, expiry, ses, effect>> /\ sync' = sync
        /\ active' = active /\ pred' = pred
    BY <1>2 DEF Compile
  <2>6. GrantsOwn'
    BY <2>2, <2>4, <2>5 DEF GrantsOwn
  <2> QED BY <2>3, <2>4, <2>5, <2>6, NodeStep
<1>3. CASE Checkpoint
  <2>1. node' \in AnyStep
        /\ node.pc = "checkpoint" /\ node'.pc \in {"enter", "resolve", "stop"}
        /\ node'.grant = node.grant
    <3>1. CASE node' = [node EXCEPT !.pc = "enter"]
      BY <1>3, <3>1 DEF Checkpoint, AnyStep, Steps
    <3>2. CASE node' = [node EXCEPT !.pc = "resolve", !.tries = node.tries + 1]
      <4>1. node.tries + 1 \in Nat
        BY DEF AnyStep
      <4> QED BY <1>3, <3>2, <4>1 DEF Checkpoint, AnyStep, Steps
    <3>3. CASE node' = [node EXCEPT !.pc = "stop"]
      BY <1>3, <3>3 DEF Checkpoint, AnyStep, Steps
    <3> QED BY <1>3, <3>1, <3>2, <3>3 DEF Checkpoint
  <2>2. active' \in AnyGrant /\ pred' \in AnyGrant
    BY <1>3, Blanks DEF Checkpoint, AnyStep
  <2>3. UNCHANGED <<now, lease, expiry, ses, effect>> /\ sync' = sync
    BY <1>3 DEF Checkpoint
  <2>4. GrantsOwn'
    BY <2>1, <2>3 DEF GrantsOwn
  <2> QED BY <2>1, <2>2, <2>3, <2>4, NodeStep
<1>4. CASE EnterInstall
  <2>1. node' \in AnyStep
        /\ node.pc = "enter" /\ node'.pc \in {"install", "stop"} /\ node'.grant = node.grant
    BY <1>4 DEF EnterInstall, AnyStep, Steps
  <2>2. UNCHANGED <<now, lease, expiry, ses, effect>> /\ sync' = sync
        /\ active' = active /\ pred' = pred
    BY <1>4 DEF EnterInstall
  <2>3. GrantsOwn'
    BY <2>1, <2>2 DEF GrantsOwn
  <2> QED BY <2>1, <2>2, <2>3, NodeStep
<1> QED BY <1>1, <1>2, <1>3, <1>4

\* Installing: a session gets the fence and the lease of the journal.
LEMMA InstallStep ==
    ASSUME IInv, PortInstall \/ InstallReturns \/ Ready
    PROVE  IInv'
<1> USE DEF IInv, Typed
<1>1. CASE PortInstall
  <2>1. Admit(node.grant, node.cur).answer \in {"ok", "denied", "expired"}
    BY DEF Admit
  <2>2. node' \in AnyStep /\ node.pc = "install" /\ node'.pc = "installed"
        /\ node'.grant = node.grant
    BY <1>1, <2>1 DEF PortInstall, AnyStep, Steps
  <2>3. UNCHANGED <<now, lease, expiry, ses, effect>> /\ sync' = sync
        /\ active' = active /\ pred' = pred
    BY <1>1 DEF PortInstall
  <2>4. GrantsOwn'
    BY <2>2, <2>3 DEF GrantsOwn
  <2> QED BY <2>2, <2>3, <2>4, NodeStep
<1>2. CASE InstallReturns /\ UNCHANGED <<ses, sync>>
  <2>1. node' \in {Fail, InstallAgain} \/ node' = [node EXCEPT !.pc = "binding"]
    BY <1>2 DEF InstallReturns
  <2>2. node.pc = "installed"
    BY <1>2 DEF InstallReturns
  <2>3. node' \in AnyStep /\ node'.pc \in {"failing", "install", "binding"}
        /\ node'.grant = node.grant
    <3>1. CASE node' = Fail
      BY <3>1 DEF Fail, AnyStep, Steps
    <3>2. CASE node' = [node EXCEPT !.pc = "install", !.cur = lease.expires,
                                    !.tries = node.tries + 1]
      <4>1. node.tries + 1 \in Nat /\ lease.expires \in Nat
        BY DEF AnyStep
      <4> QED BY <3>2, <4>1 DEF AnyStep, Steps
    <3>3. CASE node' = [node EXCEPT !.pc = "binding"]
      BY <3>3 DEF AnyStep, Steps
    <3> QED BY <2>1, <3>1, <3>2, <3>3 DEF InstallAgain
  <2>4. UNCHANGED <<now, lease, expiry, ses, effect>> /\ sync' = sync
        /\ active' = active /\ pred' = pred
    BY <1>2 DEF InstallReturns
  <2>5. GrantsOwn'
    BY <2>2, <2>3, <2>4 DEF GrantsOwn
  <2> QED BY <2>2, <2>3, <2>4, <2>5, NodeStep
<1>3. CASE InstallReturns /\ ~ UNCHANGED <<ses, sync>>
  <2>1. /\ node.pc = "installed" /\ node' = [node EXCEPT !.pc = "binding"]
        /\ ses' = [fence |-> node.grant.fence, lease |-> lease.expires,
                   hard |-> node.grant.hard, revoked |-> FALSE]
        /\ sync' \in {sync, Bind}
        /\ UNCHANGED <<now, lease, expiry, active, pred, effect>>
    BY <1>3 DEF InstallReturns
  <2>2. node.grant.fence = lease.fence /\ node.grant \in AnyGrant
    BY <2>1 DEF GrantsOwn, AnyStep
  <2>3. ses' \in [fence : Nat, lease : Nat, hard : Nat, revoked : BOOLEAN]
        /\ ses'.fence = lease.fence /\ ses'.lease = lease.expires
    BY <2>1, <2>2 DEF AnyGrant
  <2>4. node' \in AnyStep /\ node'.pc = "binding"
    BY <2>1 DEF AnyStep, Steps
  <2>5. /\ sync' \in [bound : BOOLEAN, pending : Nat, queue : Seq(Nat), remote : BOOLEAN]
        /\ RenewalsOwn'
    <3>1. CASE sync' = sync
      BY <2>1, <3>1 DEF RenewalsOwn
    <3>2. CASE sync' = [sync EXCEPT !.bound = TRUE]
      BY <2>1, <3>2 DEF RenewalsOwn
    <3>3. CASE sync' = [sync EXCEPT !.bound = TRUE, !.pending = 0, !.queue = <<sync.pending>>]
      <4>1. sync.pending \in Nat /\ sync.pending <= lease.expires
        BY DEF RenewalsOwn
      <4>2. <<sync.pending>> \in Seq(Nat) /\ DOMAIN <<sync.pending>> = 1 .. 1
            /\ <<sync.pending>>[1] = sync.pending
        BY <4>1
      <4>3. sync'.pending = 0 /\ sync'.queue = <<sync.pending>>
            /\ sync' \in [bound : BOOLEAN, pending : Nat, queue : Seq(Nat), remote : BOOLEAN]
        BY <3>3, <4>2
      <4> QED BY <2>1, <4>1, <4>2, <4>3 DEF RenewalsOwn
    <3> QED BY <2>1, <3>1, <3>2, <3>3 DEF Bind
  <2>6. Typed'
    BY <2>1, <2>3, <2>4, <2>5
  <2>7. Journaled' /\ GrantsOwn' /\ SessionOwn' /\ EffectOwn'
    BY <2>1, <2>3, <2>4 DEF Journaled, GrantsOwn, SessionOwn, EffectOwn, EffectsInTime
  <2> QED BY <2>5, <2>6, <2>7
<1>4. CASE Ready
  <2>1. node' \in AnyStep /\ node.pc = "binding" /\ node'.pc \in {"failing", "ready"}
    BY <1>4 DEF Ready, Fail, AnyStep, Steps
  <2>2. UNCHANGED <<now, lease, expiry, ses, effect>> /\ sync' = sync
        /\ active' = active /\ pred' = pred
    BY <1>4 DEF Ready
  <2>3. GrantsOwn'
    BY <2>1, <2>2 DEF GrantsOwn
  <2> QED BY <2>1, <2>2, <2>3, NodeStep
<1> QED BY <1>1, <1>2, <1>3, <1>4

-----------------------------------------------------------------------------
(* Time, claims and renewals *)

\* A later clock, a new fence or a new attempt.
LEMMA ClaimStep ==
    ASSUME IInv, Tick \/ Claim \/ \E k \in {"waiting", "off"} : Begin(k)
    PROVE  IInv'
<1> USE DEF IInv, Typed
<1>1. CASE Tick
  BY <1>1 DEF Tick, Journaled, GrantsOwn, SessionOwn, RenewalsOwn, EffectOwn, EffectsInTime
<1>2. CASE Claim
  <2> DEFINE e == now + LeaseLen
             f == lease.fence + 1
  <2>1. e \in Nat /\ lease.expires < e /\ f \in Fences /\ f # 0 /\ lease.fence < f
    BY <1>2, Constants DEF Claim, Fences
  <2>2. lease' = [fence |-> f, expires |-> e] /\ expiry' = [expiry EXCEPT ![f] = e]
        /\ UNCHANGED <<now, node, ses, sync, effect>> /\ node.pc = "idle"
    BY <1>2 DEF Claim
  <2>3. active' \in AnyGrant /\ pred' \in AnyGrant
    BY <1>2, Blanks DEF Claim, Stage
  <2> HIDE DEF e, f
  <2>4. lease'.fence = f /\ lease'.expires = e /\ f \in 0 .. MaxFence
        /\ lease' \in [fence : 0 .. MaxFence, expires : Nat]
    BY <2>1, <2>2 DEF Fences
  <2>5. expiry' \in [Fences -> Nat] /\ expiry'[f] = e
        /\ \A g \in Fences : g # f => expiry'[g] = expiry[g]
    BY <2>1, <2>2
  <2>6. Typed'
    BY <2>2, <2>3, <2>4, <2>5
  <2>7. Journaled' /\ GrantsOwn' /\ SessionOwn'
    BY <2>1, <2>2, <2>4, <2>5 DEF Journaled, GrantsOwn, SessionOwn
  <2>8. RenewalsOwn'
    <3>1. \A i \in DOMAIN sync.queue : sync.queue[i] \in Nat
      OBVIOUS
    <3> QED BY <2>1, <2>2, <2>4, <3>1 DEF RenewalsOwn
  <2>9. EffectOwn'
    <3>1. effect.fence # 0 => effect.fence \in Fences /\ effect.fence # f
      BY <2>1, Constants DEF EffectOwn, Fences
    <3> QED BY <2>1, <2>2, <2>4, <2>5, <3>1 DEF EffectOwn, EffectsInTime
  <2> QED BY <2>6, <2>7, <2>8, <2>9
<1>3. ASSUME NEW k \in {"waiting", "off"}, Begin(k) PROVE IInv'
  <2>1. UNCHANGED <<now, lease, expiry, active, pred, ses, effect>> /\ sync' = Unbound
        /\ node.pc = "idle" /\ node' = [Idle EXCEPT !.pc = "resolve"] /\ lease.expires # 0
    BY <1>3 DEF Begin
  <2>2. node' \in AnyStep /\ node'.pc = "resolve"
    BY <2>1, Blanks DEF AnyStep, Steps
  <2>3. Typed'
    BY <2>1, <2>2, Blanks
  <2>4. Journaled' /\ GrantsOwn' /\ SessionOwn' /\ EffectOwn'
    BY <2>1, <2>2 DEF Journaled, GrantsOwn, SessionOwn, EffectOwn, EffectsInTime
  <2>5. RenewalsOwn'
    BY <2>1, Blanks DEF RenewalsOwn
  <2> QED BY <2>3, <2>4, <2>5
<1> QED BY <1>1, <1>2, <1>3

\* A queue bounded by the element appended to it stays so.
LEMMA AppendBound ==
    ASSUME NEW s \in Seq(Nat), NEW e \in Nat, \A i \in DOMAIN s : s[i] <= e
    PROVE  Append(s, e) \in Seq(Nat) /\ \A i \in DOMAIN Append(s, e) : Append(s, e)[i] <= e
<1>1. Append(s, e) \in Seq(Nat) /\ DOMAIN Append(s, e) = 1 .. Len(s) + 1
  OBVIOUS
<1>2. ASSUME NEW i \in 1 .. Len(s) + 1 PROVE Append(s, e)[i] <= e
  <2>1. CASE i = Len(s) + 1
    BY <2>1
  <2>2. CASE i # Len(s) + 1
    BY <2>2
  <2> QED BY <2>1, <2>2
<1> QED BY <1>1, <1>2

\* A renewal lengthens the journaled lease and is queued behind no later one.
LEMMA RelayStep ==
    ASSUME IInv, RelayRenews
    PROVE  IInv'
<1> USE DEF IInv, Typed
<1> DEFINE e == now + LeaseLen
<1>1. e \in Nat /\ lease.expires < e /\ lease.fence \in Fences
  BY Constants DEF RelayRenews, Fences, Journaled
<1>2. lease' = [lease EXCEPT !.expires = e] /\ expiry' = [expiry EXCEPT ![lease.fence] = e]
      /\ sync' = Forward(e) /\ UNCHANGED <<now, active, pred, node, ses, effect>>
  BY DEF RelayRenews
<1> HIDE DEF e
<1>3. lease'.fence = lease.fence /\ lease'.expires = e
      /\ lease' \in [fence : 0 .. MaxFence, expires : Nat]
  BY <1>1, <1>2
<1>4. expiry' \in [Fences -> Nat] /\ expiry'[lease.fence] = e
      /\ \A g \in Fences : g # lease.fence => expiry'[g] = expiry[g]
  BY <1>1, <1>2
<1>5. \A i \in DOMAIN sync.queue : sync.queue[i] \in Nat /\ sync.queue[i] <= e
  BY <1>1 DEF RenewalsOwn
<1>6. /\ sync' \in [bound : BOOLEAN, pending : Nat, queue : Seq(Nat), remote : BOOLEAN]
      /\ RenewalsOwn'
  <2>1. CASE sync' = [sync EXCEPT !.pending = e]
    <3>1. sync' \in [bound : BOOLEAN, pending : Nat, queue : Seq(Nat), remote : BOOLEAN]
          /\ sync'.queue = sync.queue /\ sync'.pending = e
      BY <1>1, <2>1
    <3> QED BY <1>1, <1>3, <1>5, <3>1 DEF RenewalsOwn
  <2>2. CASE sync' = [sync EXCEPT !.queue = Append(sync.queue, e)]
    <3> DEFINE q == Append(sync.queue, e)
    <3>1. q \in Seq(Nat) /\ \A i \in DOMAIN q : q[i] <= e
      <4>1. sync.queue \in Seq(Nat)
        OBVIOUS
      <4> QED BY <1>1, <1>5, <4>1, AppendBound
    <3> HIDE DEF q
    <3>2. sync' \in [bound : BOOLEAN, pending : Nat, queue : Seq(Nat), remote : BOOLEAN]
          /\ sync'.queue = q /\ sync'.pending = sync.pending
      BY <2>2, <3>1 DEF q
    <3> QED BY <1>1, <1>3, <3>1, <3>2 DEF RenewalsOwn
  <2> QED BY <1>2, <2>1, <2>2 DEF Forward
<1>7. Typed'
  BY <1>2, <1>3, <1>4, <1>6
<1>8. Journaled' /\ GrantsOwn' /\ SessionOwn'
  BY <1>1, <1>2, <1>3, <1>4 DEF Journaled, GrantsOwn, SessionOwn, Fences
<1>9. EffectOwn'
  <2>1. effect.fence # 0 => effect.fence \in Fences
    BY Constants DEF EffectOwn, Fences
  <2>2. lease.expires = expiry[lease.fence]
    BY <1>1 DEF Journaled, Fences
  <2> QED BY <1>1, <1>2, <1>3, <1>4, <2>1, <2>2 DEF EffectOwn, EffectsInTime
<1> QED BY <1>6, <1>7, <1>8, <1>9

\* A step of a monitor: the session keeps its fence and no longer lease than
\* one on its way to it, and renewals only leave the queue.
LEMMA MonitorStep ==
    ASSUME IInv,
           UNCHANGED <<now, lease, expiry, active, pred, node, effect>>,
           ses' \in [fence : Nat, lease : Nat, hard : Nat, revoked : BOOLEAN],
           sync' \in [bound : BOOLEAN, pending : Nat, queue : Seq(Nat), remote : BOOLEAN],
           ses'.fence = ses.fence,
           ses'.lease <= ses.lease \/ ses'.lease <= lease.expires,
           RenewalsOwn'
    PROVE  IInv'
BY DEF IInv, Typed, Journaled, GrantsOwn, SessionOwn, EffectOwn, EffectsInTime

\* Revoking a monitor changes neither its fence nor its lease.
LEMMA RevokedSame ==
    ASSUME ses \in [fence : Nat, lease : Nat, hard : Nat, revoked : BOOLEAN]
    PROVE  /\ Revoked(ses) \in [fence : Nat, lease : Nat, hard : Nat, revoked : BOOLEAN]
           /\ Revoked(ses).fence = ses.fence /\ Revoked(ses).lease = ses.lease
BY DEF Revoked

LEMMA RenewStep ==
    ASSUME IInv, RenewLocal \/ RenewRemote \/ ExpireSession
    PROVE  IInv'
<1> USE DEF IInv, Typed
<1>1. ses.lease \in Nat /\ lease.expires \in Nat
  OBVIOUS
<1>2. CASE RenewalFails /\ UNCHANGED <<now, lease, expiry, active, pred, node, effect>>
  <2>1. sync' = [sync EXCEPT !.queue = <<>>, !.remote = FALSE] /\ ses' = Revoked(ses)
    BY <1>2 DEF RenewalFails
  <2>2. sync' \in [bound : BOOLEAN, pending : Nat, queue : Seq(Nat), remote : BOOLEAN]
        /\ sync'.queue = <<>> /\ sync'.pending = sync.pending
    <3>1. <<>> \in Seq(Nat)
      OBVIOUS
    <3> QED BY <2>1, <3>1
  <2>3. RenewalsOwn'
    BY <1>2, <2>2 DEF RenewalsOwn
  <2> QED BY <1>1, <1>2, <2>1, <2>2, <2>3, RevokedSame, MonitorStep
<1>3. CASE RenewLocal /\ Advances(ses, Head(sync.queue))
  <2>1. /\ sync.queue # <<>> /\ ses' = [ses EXCEPT !.lease = Head(sync.queue)]
        /\ sync' = [sync EXCEPT !.remote = TRUE]
        /\ UNCHANGED <<now, lease, expiry, active, pred, node, effect>>
    BY <1>3 DEF RenewLocal
  <2>2. Head(sync.queue) \in Nat /\ Head(sync.queue) <= lease.expires
    BY <2>1 DEF RenewalsOwn
  <2>3. ses' \in [fence : Nat, lease : Nat, hard : Nat, revoked : BOOLEAN]
        /\ ses'.fence = ses.fence /\ ses'.lease <= lease.expires
    BY <2>1, <2>2
  <2>4. sync' \in [bound : BOOLEAN, pending : Nat, queue : Seq(Nat), remote : BOOLEAN]
        /\ RenewalsOwn'
    BY <2>1 DEF RenewalsOwn
  <2> QED BY <2>1, <2>3, <2>4, MonitorStep
<1>4. CASE RenewRemote /\ ~ RenewalFails
  <2>1. /\ sync.queue # <<>> /\ ses' = ses
        /\ sync' = [sync EXCEPT !.queue = Tail(sync.queue), !.remote = FALSE]
        /\ UNCHANGED <<now, lease, expiry, active, pred, node, effect>>
    BY <1>4 DEF RenewRemote
  <2> DEFINE q == Tail(sync.queue)
  <2>2. q \in Seq(Nat) /\ \A i \in DOMAIN q : i + 1 \in DOMAIN sync.queue /\ q[i] = sync.queue[i + 1]
    BY <2>1
  <2> HIDE DEF q
  <2>3. sync' \in [bound : BOOLEAN, pending : Nat, queue : Seq(Nat), remote : BOOLEAN]
        /\ sync'.queue = q /\ sync'.pending = sync.pending
    BY <2>1, <2>2 DEF q
  <2>4. RenewalsOwn'
    BY <2>1, <2>2, <2>3 DEF RenewalsOwn
  <2> QED BY <1>1, <2>1, <2>3, <2>4, MonitorStep
<1>5. CASE ExpireSession
  <2>1. RenewalsOwn'
    BY <1>5 DEF ExpireSession, RenewalsOwn
  <2> QED BY <1>1, <1>5, <2>1, RevokedSame, MonitorStep DEF ExpireSession
<1> QED BY <1>2, <1>3, <1>4, <1>5 DEF RenewLocal, RenewRemote

-----------------------------------------------------------------------------
(* The effect, and the end of the processing *)

\* What an assertion does to the processing step and the session.
LEMMA Asserted ==
    ASSUME IInv, NEW from, NEW to \in {"evidence", "ask", "done"},
           from # "idle", Assert(from, to)
    PROVE  /\ node' \in AnyStep /\ node.pc = from
           /\ node'.pc \in {"evidence", "ask", "done", "failing"}
           /\ ses' \in {ses, Revoked(ses)}
           /\ UNCHANGED <<now, lease, expiry, active, pred, sync>>
BY DEF Assert, Fail, AnyStep, Steps, IInv, Typed

\* A processing step past the installation that may revoke the session, and
\* whose effect, if any, is in time.
LEMMA UseStep ==
    ASSUME IInv,
           UNCHANGED <<now, lease, expiry, active, pred, sync>>,
           node' \in AnyStep, node.pc # "idle",
           node'.pc \in {"evidence", "ask", "answered", "done", "failing"},
           ses' \in {ses, Revoked(ses)},
           effect' \in [fence : Nat, at : Nat, hard : Nat], EffectOwn'
    PROVE  IInv'
<1> USE DEF IInv, Typed
<1>1. ses' \in [fence : Nat, lease : Nat, hard : Nat, revoked : BOOLEAN]
      /\ ses'.fence = ses.fence /\ ses'.lease = ses.lease
  BY RevokedSame
<1>2. Typed'
  BY <1>1
<1>3. Journaled' /\ GrantsOwn' /\ SessionOwn' /\ RenewalsOwn'
  BY <1>1 DEF Journaled, GrantsOwn, SessionOwn, RenewalsOwn
<1> QED BY <1>2, <1>3

LEMMA EffectStep ==
    ASSUME IInv, Publish \/ Recheck \/ AskCapsule \/ Perform \/ Abandon
    PROVE  IInv'
<1> USE DEF IInv, Typed
<1>1. effect' = effect /\ UNCHANGED <<lease, expiry>> => EffectOwn'
  BY DEF EffectOwn, EffectsInTime
<1>2. CASE Publish
  <2>1. Assert("ready", "evidence") /\ effect' = effect
    BY <1>2 DEF Publish
  <2>2. /\ node' \in AnyStep /\ node.pc = "ready"
        /\ node'.pc \in {"evidence", "ask", "done", "failing"}
        /\ ses' \in {ses, Revoked(ses)}
        /\ UNCHANGED <<now, lease, expiry, active, pred, sync>>
    BY <2>1, Asserted
  <2> QED BY <1>1, <2>1, <2>2, UseStep
<1>3. CASE Recheck
  <2>1. Assert("evidence", "ask") /\ effect' = effect
    BY <1>3 DEF Recheck
  <2>2. /\ node' \in AnyStep /\ node.pc = "evidence"
        /\ node'.pc \in {"evidence", "ask", "done", "failing"}
        /\ ses' \in {ses, Revoked(ses)}
        /\ UNCHANGED <<now, lease, expiry, active, pred, sync>>
    BY <2>1, Asserted
  <2> QED BY <1>1, <2>1, <2>2, UseStep
<1>4. CASE AskCapsule
  <2>1. node' \in AnyStep /\ node.pc = "ask" /\ node'.pc \in {"answered", "failing"}
    BY <1>4 DEF AskCapsule, Fail, AnyStep, Steps
  <2>2. ses' \in {ses, Revoked(ses)} /\ effect' = effect
        /\ UNCHANGED <<now, lease, expiry, active, pred, sync>>
    BY <1>4 DEF AskCapsule
  <2> QED BY <1>1, <2>1, <2>2, UseStep
<1>5. CASE Perform
  <2>1. /\ node' \in AnyStep /\ node.pc = "answered"
        /\ node'.pc \in {"evidence", "ask", "done", "failing"}
        /\ ses' \in {ses, Revoked(ses)}
        /\ UNCHANGED <<now, lease, expiry, active, pred, sync>>
    BY <1>5, Asserted DEF Perform
  <2>2. CASE Answers(ses)
    <3>1. effect' = [fence |-> ses.fence, at |-> now, hard |-> ses.hard]
      BY <1>5, <2>2 DEF Perform
    <3>2. effect' \in [fence : Nat, at : Nat, hard : Nat] /\ effect'.fence = ses.fence
          /\ effect'.at = now /\ effect'.hard = ses.hard
      BY <3>1
    <3>3. ses.fence = lease.fence /\ ses.lease <= lease.expires /\ lease.fence # 0
          /\ now < ses.lease /\ now < ses.hard
      BY <2>2 DEF Answers, LiveAt, SessionOwn
    <3>4. EffectOwn'
      BY <2>1, <3>2, <3>3 DEF EffectOwn, EffectsInTime, Journaled
    <3> QED BY <2>1, <3>2, <3>4, UseStep
  <2>3. CASE ~ Answers(ses)
    BY <1>1, <1>5, <2>1, <2>3, UseStep DEF Perform
  <2> QED BY <2>2, <2>3
<1>6. CASE Abandon
  <2>1. node' \in AnyStep /\ node.pc # "idle" /\ node'.pc = "failing"
    BY <1>6 DEF Abandon, Fail, AnyStep, Steps
  <2> QED BY <1>1, <1>6, <2>1, UseStep DEF Abandon
<1> QED BY <1>2, <1>3, <1>4, <1>5, <1>6

LEMMA FinalStep ==
    ASSUME IInv, Retire \/ CleanUp \/ Stop \/ NodeDies
    PROVE  IInv'
BY Blanks, EndStep DEF Retire, CleanUp, Stop, NodeDies, IInv, Typed

LEMMA StutterStep ==
    ASSUME IInv, UNCHANGED <<now, lease, expiry, active, pred, node, ses, sync, effect>>
    PROVE  IInv'
BY DEF IInv, Typed, Journaled, GrantsOwn, SessionOwn, RenewalsOwn, EffectOwn, EffectsInTime

LEMMA NextIInv == IInv /\ [Next]_vars => IInv'
<1> SUFFICES ASSUME IInv, [Next]_vars PROVE IInv'
  OBVIOUS
<1>1. CASE KeeperForwarded \/ KeeperFails \/ ExpireCapsule \/ CapsuleEnds \/ UNCHANGED vars
  BY <1>1, StutterStep DEF KeeperForwarded, KeeperFails, ExpireCapsule, CapsuleEnds, vars
<1> QED BY <1>1, ClaimStep, ResolveStep, InstallStep, RelayStep, RenewStep, EffectStep,
           FinalStep DEF Next

\* Every effect of a delivery (a published completion) happens before the
\* Relay's lease for its fence and the hard deadline of its attempt have
\* passed, whatever was renewed, expired, reinstalled or lost while its
\* assertions were outstanding (runtime-authority-session.ts:121).
THEOREM EffectsAreInTime == Spec => []EffectsInTime
<1>1. IInv => EffectsInTime
  BY DEF IInv, EffectOwn
<1> QED BY <1>1, InitIInv, NextIInv, PTL DEF Spec

-----------------------------------------------------------------------------
(***************************************************************************)
(* The two monitors agree.  IInv bounds what a session may believe; what   *)
(* the Capsule believes, and that neither monitor falls behind or is given *)
(* up without cause, needs a second invariant on top of it.                *)
(***************************************************************************)

\* The steps before there is a session.
Early == {"idle", "resolve", "compile", "checkpoint", "enter", "install", "installed", "stop"}

\* The steps that hold a journaled grant.
Held == {"enter", "install", "installed", "binding", "ready", "evidence", "ask", "answered",
         "done"}

SessionLive == ses.fence # 0 /\ ~ses.revoked
CapsuleLive == cap.fence # 0 /\ ~cap.revoked

AnyMonitor == [fence : Nat, lease : Nat, hard : Nat, revoked : BOOLEAN]
CapTyped == cap \in AnyMonitor /\ deadline \in Nat /\ faults \in Nat

\* What is journaled: at most one of a grant of this fence and one of an earlier.
OnRecord ==
    /\ active # NoGrant => pred = NoGrant /\ active.fence = lease.fence /\ lease.fence # 0
    /\ pred # NoGrant => pred.fence < lease.fence
    /\ node.pc \in Held => active # NoGrant /\ node.grant = active
    /\ node.pc = "compile" => pred # NoGrant
    /\ node.pc \in {"compile", "checkpoint"} => active = NoGrant /\ ~CapsuleLive

\* A Capsule that still answers does so for one of the two.
CapsuleOwn ==
    /\ cap.fence # 0 => /\ cap.fence <= lease.fence
                        /\ cap.lease <= expiry[cap.fence]
    /\ CapsuleLive => \/ active # NoGrant /\ cap.fence = active.fence
                      \/ pred # NoGrant /\ cap.fence = pred.fence

\* The hard deadline of the attempt, once there is a grant.
Hard ==
    /\ deadline <= MissionEnd
    /\ active = NoGrant /\ pred = NoGrant <=> deadline = 0
    /\ HardKept
    /\ node.pc = "checkpoint" => /\ node.grant.hard > 0 /\ node.grant.hard <= MissionEnd
                                 /\ deadline # 0 => node.grant.hard = deadline

\* The synchronizer has renewals to forward only while it is bound, and what it
\* buffered before is the journaled lease.
Quiet ==
    /\ node.pc \in Early => ses.fence = 0 /\ ~sync.bound
    /\ node.pc \in Held \ Early => ses.fence = active.fence
    /\ ses.fence = 0 => ~sync.bound
    /\ ~sync.bound => sync.queue = <<>>
    /\ sync.remote => sync.queue # <<>>
    /\ node.pc = "idle" => sync.pending = 0
    /\ ~sync.bound /\ sync.pending # 0 => sync.pending = lease.expires
    /\ node.pc \in {"idle", "evidence", "ask", "answered", "done"} => keeper = "off"
    /\ ses.fence # 0 /\ keeper # "off" => sync.bound

\* The renewals on their way rise to the journaled lease, from what the session
\* has and what its Capsule has.
Sorted ==
    /\ \A i, j \in DOMAIN sync.queue : i <= j => sync.queue[i] <= sync.queue[j]
    /\ SessionLive =>
        /\ sync.queue = <<>> => ses.lease = lease.expires
        /\ sync.queue # <<>> => /\ sync.queue[Len(sync.queue)] = lease.expires
                                /\ ses.lease <= sync.queue[1]
                                /\ sync.remote => ses.lease = sync.queue[1]
        /\ cap.fence = ses.fence /\ ~cap.revoked =>
              cap.lease <= ses.lease /\ (~sync.remote => cap.lease = ses.lease)

\* What an accepted installation has left in the Capsule.
Installing ==
    /\ node.pc \in {"install", "installed"} => node.cur <= lease.expires
    /\ node.pc = "installed" /\ node.reply = "ok" =>
        /\ cap.fence = node.grant.fence /\ ~cap.revoked => cap.lease = node.cur
        /\ faults = 0 /\ cap.fence # 0 =>
              /\ cap.fence = node.grant.fence
              /\ cap.revoked => ~LiveAt(cap.lease, cap.hard)

\* While nothing was lost, the Capsule of a live session is revoked only by time.
Healthy ==
    faults = 0 /\ SessionLive /\ cap.fence # 0 =>
        cap.fence = ses.fence /\ (cap.revoked => ~LiveAt(cap.lease, cap.hard))

Enforced == /\ CapTyped /\ OnRecord /\ CapsuleOwn /\ Hard /\ Quiet /\ Sorted
            /\ Installing /\ Healthy /\ NoSpuriousLoss

\* What the leaves need of the types: which fields the records have, which of
\* them are numbers.
Fields ==
    /\ DOMAIN lease = {"fence", "expires"}
    /\ DOMAIN node = {"pc", "grant", "cur", "tries", "reply"}
    /\ DOMAIN ses = {"fence", "lease", "hard", "revoked"}
    /\ DOMAIN cap = {"fence", "lease", "hard", "revoked"}
    /\ DOMAIN sync = {"bound", "pending", "queue", "remote"}

Numbers ==
    /\ now \in Nat /\ faults \in Nat /\ deadline \in Nat
    /\ lease.fence \in Nat /\ lease.expires \in Nat
    /\ node.cur \in Nat /\ node.tries \in Nat
    /\ node.grant.fence \in Nat /\ node.grant.hard \in Nat
    /\ ses.fence \in Nat /\ ses.lease \in Nat /\ ses.hard \in Nat
    /\ cap.fence \in Nat /\ cap.lease \in Nat /\ cap.hard \in Nat
    /\ active.fence \in Nat /\ active.hard \in Nat /\ pred.fence \in Nat /\ pred.hard \in Nat
    /\ sync.pending \in Nat

Queue == sync.queue \in Seq(Nat)

LEMMA Shapes == IInv /\ CapTyped => Fields /\ Numbers /\ Queue
<1> SUFFICES ASSUME IInv, CapTyped PROVE Fields /\ Numbers /\ Queue
  OBVIOUS
<1>1. DOMAIN lease = {"fence", "expires"} /\ lease.fence \in Nat /\ lease.expires \in Nat
  BY Constants DEF IInv, Typed
<1>2. /\ DOMAIN node = {"pc", "grant", "cur", "tries", "reply"}
      /\ node.cur \in Nat /\ node.tries \in Nat
      /\ node.grant.fence \in Nat /\ node.grant.hard \in Nat
  BY DEF IInv, Typed, AnyStep, AnyGrant
<1>3. /\ DOMAIN ses = {"fence", "lease", "hard", "revoked"}
      /\ ses.fence \in Nat /\ ses.lease \in Nat /\ ses.hard \in Nat
      /\ DOMAIN cap = {"fence", "lease", "hard", "revoked"}
      /\ cap.fence \in Nat /\ cap.lease \in Nat /\ cap.hard \in Nat
  BY DEF IInv, Typed, CapTyped, AnyMonitor
<1>4. /\ DOMAIN sync = {"bound", "pending", "queue", "remote"}
      /\ sync.pending \in Nat /\ sync.queue \in Seq(Nat)
  BY DEF IInv, Typed
<1>5. active.fence \in Nat /\ active.hard \in Nat /\ pred.fence \in Nat /\ pred.hard \in Nat
  BY DEF IInv, Typed, AnyGrant
<1> QED BY <1>1, <1>2, <1>3, <1>4, <1>5 DEF IInv, Typed, CapTyped, Fields, Numbers, Queue

\* A revocation changes nothing else.
LEMMA RevokedFields ==
    ASSUME NEW m \in AnyMonitor
    PROVE  /\ Revoked(m) \in AnyMonitor
           /\ Revoked(m).fence = m.fence /\ Revoked(m).lease = m.lease /\ Revoked(m).hard = m.hard
           /\ m.fence # 0 => Revoked(m).revoked
<1>1. CASE m.fence = 0
  BY <1>1 DEF Revoked
<1>2. CASE m.fence # 0
  BY <1>2 DEF Revoked, AnyMonitor
<1>3. QED
  BY <1>1, <1>2

\* The Capsule keeps its monitor, perhaps revoked, or is gone.
Weakens ==
    /\ cap' \in AnyMonitor
    /\ cap'.fence # 0 => /\ cap'.fence = cap.fence /\ cap'.lease = cap.lease
                         /\ cap'.hard = cap.hard
                         /\ ~cap'.revoked => ~cap.revoked

LEMMA CapsuleWeakens ==
    ASSUME cap \in AnyMonitor, cap' \in {cap, Revoked(cap), NoMonitor}
    PROVE  Weakens
<1>1. CASE cap' = cap
  BY <1>1 DEF Weakens
<1>2. CASE cap' = Revoked(cap)
  BY <1>2, RevokedFields DEF Weakens
<1>3. CASE cap' = NoMonitor
  BY <1>3, Blanks DEF Weakens, AnyMonitor
<1>4. QED
  BY <1>1, <1>2, <1>3

\* CapsuleAuthority.install leaves the monitor as it was, revokes it, or gives it
\* the grant and the lease it was called with.
LEMMA Admits ==
    ASSUME cap \in AnyMonitor, NEW g \in AnyGrant, NEW l \in Nat
    PROVE  LET r == Admit(g, l)
               Same == /\ r.m.fence = cap.fence /\ r.m.lease = cap.lease /\ r.m.hard = cap.hard
                       /\ ~r.m.revoked => ~cap.revoked
               New == r.m.fence = g.fence /\ r.m.lease = l /\ ~r.m.revoked
           IN  /\ r.m \in AnyMonitor
               /\ r.m.fence # 0 => Same \/ New
               /\ r.answer = "ok" => New
<1> DEFINE r == Admit(g, l)
<1>1. CASE cap.fence = 0
  <2>1. CASE LiveAt(l, g.hard)
    BY <1>1, <2>1 DEF Admit, AnyMonitor, AnyGrant
  <2>2. CASE ~ LiveAt(l, g.hard)
    BY <1>1, <2>2, Blanks DEF Admit, AnyMonitor
  <2>3. QED
    BY <2>1, <2>2
<1>2. CASE r.m \in {cap, Revoked(cap)} /\ r.answer # "ok"
  BY <1>2, RevokedFields
<1>3. CASE r = [m |-> [cap EXCEPT !.lease = l], answer |-> "ok"]
           /\ cap.fence = g.fence /\ ~cap.revoked
  BY <1>3 DEF AnyMonitor
<1>4. QED
  BY <1>1, <1>2, <1>3 DEF Admit

\* A queue without its first element.
LEMMA TailFacts ==
    ASSUME NEW s \in Seq(Nat), s # <<>>
    PROVE  LET q == Tail(s) IN
           /\ q \in Seq(Nat) /\ Len(q) = Len(s) - 1 /\ DOMAIN q = 1 .. Len(q)
           /\ \A i \in 1 .. Len(q) : q[i] = s[i + 1] /\ i + 1 \in DOMAIN s
           /\ q = <<>> => Len(s) = 1
           /\ q # <<>> => Len(q) >= 1
<1> DEFINE q == Tail(s)
<1>1. q \in Seq(Nat) /\ Len(q) = Len(s) - 1 /\ \A i \in 1 .. Len(q) : q[i] = s[i + 1]
  BY HeadTailProperties
<1>2. Len(s) \in Nat /\ Len(q) \in Nat /\ DOMAIN s = 1 .. Len(s) /\ DOMAIN q = 1 .. Len(q)
  BY <1>1
<1> HIDE DEF q
<1>3. \A i \in 1 .. Len(q) : i + 1 \in DOMAIN s
  BY <1>1, <1>2
<1>4. q = <<>> => Len(s) = 1
  <2>1. q = <<>> => Len(q) = 0
    OBVIOUS
  <2>2. QED
    BY <1>1, <1>2, <2>1
<1>5. q # <<>> => Len(q) >= 1
  <2>1. Len(q) = 0 => q = <<>>
    BY <1>1, EmptySeq
  <2>2. QED
    BY <1>2, <2>1
<1>6. QED
  BY <1>1, <1>2, <1>3, <1>4, <1>5 DEF q

\* A session is given up for a reason.
LEMMA GivenUp ==
    ASSUME IInv, Enforced, ses' = Revoked(ses), Weakens,
           faults' \in Nat, faults' = 0 => faults = 0,
           UNCHANGED <<now, lease, expiry, active, pred, deadline>>, node.pc # "installed",
           sync' = sync \/ sync' = [sync EXCEPT !.queue = <<>>, !.remote = FALSE],
           /\ node' = node \/ node'.pc = "failing"
           /\ keeper' \in {keeper, "off"},
           faults' = 0 /\ SessionLive => \/ ~ LiveAt(ses.lease, ses.hard) \/ cap.fence = 0
                                         \/ ~ LiveAt(cap.lease, cap.hard)
    PROVE  Enforced'
<1>0. Fields /\ Numbers /\ Queue
  BY Shapes DEF Enforced
<1>1. /\ ses'.fence = ses.fence /\ ses'.lease = ses.lease /\ ses'.hard = ses.hard
      /\ ses.fence # 0 => ses'.revoked
  BY RevokedFields DEF IInv, Typed, AnyMonitor
<1>2. /\ sync'.bound = sync.bound /\ sync'.pending = sync.pending
      /\ sync'.queue \in {sync.queue, <<>>} /\ (sync'.remote => sync.remote /\ sync'.queue = sync.queue)
  BY <1>0 DEF Fields
<1>3. CapTyped'
  BY DEF Enforced, CapTyped, Weakens
<1>4. OnRecord'
  BY DEF Enforced, OnRecord, Held, CapsuleLive, Weakens
<1>5. CapsuleOwn'
  BY DEF Enforced, CapsuleOwn, CapsuleLive, Weakens
<1>6. Hard'
  BY <1>1 DEF Enforced, Hard, HardKept
<1>7. Quiet'
  BY <1>1, <1>2 DEF Enforced, Quiet, Held, Early
<1>8. Sorted'
  <2>1. \A i, j \in DOMAIN sync'.queue : i <= j => sync'.queue[i] <= sync'.queue[j]
    BY <1>2 DEF Enforced, Sorted
  <2>2. QED
    BY <1>1, <2>1 DEF Sorted, SessionLive
<1>9. Installing'
  BY DEF Enforced, Installing
<1>10. Healthy'
  BY <1>1 DEF Healthy, SessionLive
<1>11. NoSpuriousLoss'
  BY <1>1 DEF Enforced, NoSpuriousLoss, Weakens, SessionLive, LiveAt
<1>12. QED
  BY <1>3, <1>4, <1>5, <1>6, <1>7, <1>8, <1>9, <1>10, <1>11 DEF Enforced

\* A turn is over: its session and its synchronizer are gone.
LEMMA TurnOver ==
    ASSUME IInv, Enforced, Weakens, faults' \in {faults, faults + 1},
           node'.pc = "idle", ses'.fence = 0, sync' = Unbound, keeper' = "off",
           UNCHANGED <<lease, expiry, active, pred, deadline>>
    PROVE  Enforced'
<1>0. Fields /\ Numbers /\ Queue
  BY Shapes DEF Enforced
<1>1. CapTyped'
  <2>1. faults' \in Nat
    BY <1>0 DEF Numbers
  <2>2. QED
    BY <2>1 DEF Enforced, CapTyped, Weakens
<1>2. ~sync'.bound /\ sync'.queue = <<>> /\ sync'.pending = 0 /\ ~sync'.remote
  BY DEF Unbound
<1>3. OnRecord' /\ CapsuleOwn'
  BY DEF Enforced, OnRecord, CapsuleOwn, CapsuleLive, Held, Weakens
<1>4. Hard'
  BY DEF Enforced, Hard, HardKept
<1>5. Quiet'
  BY <1>2 DEF Quiet, Held, Early
<1>6. Sorted'
  BY <1>2 DEF Sorted, SessionLive
<1>7. Installing' /\ Healthy' /\ NoSpuriousLoss'
  BY DEF Installing, Healthy, NoSpuriousLoss, SessionLive
<1>8. QED
  BY <1>1, <1>3, <1>4, <1>5, <1>6, <1>7 DEF Enforced

\* A step of the processing, or of the lease keeper, that leaves both monitors
\* and the synchronizer alone.
LEMMA StepKeeps ==
    ASSUME Enforced, UNCHANGED <<now, lease, expiry, active, pred, deadline, ses, sync, cap>>,
           faults' \in Nat, faults' = 0 => faults = 0,
           OnRecord', Hard', Quiet', Installing'
    PROVE  Enforced'
<1>1. CapTyped' /\ CapsuleOwn' /\ Sorted'
  BY DEF Enforced, CapTyped, CapsuleOwn, CapsuleLive, Sorted, SessionLive
<1>2. Healthy' /\ NoSpuriousLoss'
  BY DEF Enforced, Healthy, NoSpuriousLoss, SessionLive, LiveAt
<1>3. QED
  BY <1>1, <1>2 DEF Enforced

\* monitor.assert while the completion is published.
LEMMA AssertKeeps ==
    ASSUME IInv, Enforced, NEW from \in {"ready", "evidence", "answered"},
           NEW to \in {"evidence", "ask", "done"}, Assert(from, to),
           keeper' \in {keeper, "off"}, from = "ready" => keeper' = "off", faults' = faults
    PROVE  Enforced'
<1>0. Fields /\ Numbers /\ Queue
  BY Shapes DEF Enforced
<1>1. node.pc = from /\ UNCHANGED <<now, lease, expiry, active, pred, deadline, sync, cap>>
  BY DEF Assert
<1>2. keeper' = "off"
  BY <1>1 DEF Enforced, Quiet
<1>3. CASE Answers(ses)
  <2>1. node'.pc = to /\ node'.grant = node.grant /\ ses' = ses
    BY <1>0, <1>3 DEF Assert, Fields
  <2>2. OnRecord' /\ Hard'
    BY <1>1, <2>1 DEF Enforced, OnRecord, Hard, HardKept, Held, CapsuleLive
  <2>3. Quiet' /\ Installing'
    BY <1>1, <1>2, <2>1 DEF Enforced, Quiet, Held, Early, Installing
  <2>4. QED
    BY <1>0, <1>1, <2>1, <2>2, <2>3, StepKeeps DEF Numbers
<1>4. CASE ~ Answers(ses) /\ Expired(ses)
  <2>1. node'.pc = "failing" /\ ses' = Revoked(ses)
    BY <1>0, <1>4 DEF Assert, Fail, Fields
  <2>2. Weakens
    BY <1>1, CapsuleWeakens DEF Enforced, CapTyped
  <2>3. QED
    BY <1>0, <1>1, <1>4, <2>1, <2>2, GivenUp DEF Expired, Numbers
<1>5. CASE ~ Answers(ses) /\ ~ Expired(ses)
  <2>1. node'.pc = "failing" /\ ses' = ses
    BY <1>0, <1>5 DEF Assert, Fail, Fields
  <2>2. OnRecord' /\ Hard'
    BY <1>1, <2>1 DEF Enforced, OnRecord, Hard, HardKept, Held, CapsuleLive
  <2>3. Quiet' /\ Installing'
    BY <1>1, <1>2, <2>1 DEF Enforced, Quiet, Held, Early, Installing
  <2>4. QED
    BY <1>0, <1>1, <2>1, <2>2, <2>3, StepKeeps DEF Numbers
<1>6. QED
  BY <1>3, <1>4, <1>5

-----------------------------------------------------------------------------
(* Every action keeps the second invariant *)

LEMMA TickKeeps == ASSUME IInv, IInv', Enforced, Tick PROVE Enforced'
<1>0. Fields /\ Numbers /\ Queue
  BY Shapes DEF Enforced
<1>1. /\ now' = now + 1
      /\ UNCHANGED <<lease, expiry, active, pred, deadline, keeper, node, ses, sync, cap, faults>>
  BY DEF Tick
<1>3. /\ LiveAt(cap.lease, cap.hard)' => LiveAt(cap.lease, cap.hard)
      /\ LiveAt(ses.lease, ses.hard)' => LiveAt(ses.lease, ses.hard)
  BY <1>0, <1>1 DEF Numbers, LiveAt
<1>4. CapTyped' /\ OnRecord' /\ CapsuleOwn' /\ Hard' /\ Quiet' /\ Sorted'
  BY <1>1 DEF Enforced, CapTyped, OnRecord, CapsuleOwn, Hard, HardKept, Quiet, Sorted,
       SessionLive, CapsuleLive
<1>5. Installing'
  BY <1>1, <1>3 DEF Enforced, Installing
<1>6. Healthy' /\ NoSpuriousLoss'
  BY <1>1, <1>3 DEF Enforced, Healthy, NoSpuriousLoss, SessionLive
<1> QED BY <1>1, <1>3, <1>4, <1>5, <1>6 DEF Enforced

LEMMA ClaimKeeps == ASSUME IInv, IInv', Enforced, Claim PROVE Enforced'
<1>0. Fields /\ Numbers /\ Queue
  BY Shapes DEF Enforced
<1>1. /\ node.pc = "idle" /\ lease' = [fence |-> lease.fence + 1, expires |-> now + LeaseLen]
      /\ expiry' = [expiry EXCEPT ![lease.fence + 1] = now + LeaseLen]
      /\ lease.fence < MaxFence
      /\ UNCHANGED <<now, deadline, keeper, node, ses, sync, cap, faults>>
  BY DEF Claim
<1>11. lease'.fence = lease.fence + 1 /\ lease.fence + 1 \in 1 .. MaxFence
       /\ lease.fence + 1 > lease.fence
  BY <1>0, <1>1, Constants DEF Numbers
<1>10. lease'.fence = lease.fence + 1 /\ lease.fence + 1 \in Fences
  BY <1>11 DEF Fences
<1>2. \/ active # NoGrant /\ pred' = active /\ active' = NoGrant
      \/ active = NoGrant /\ UNCHANGED <<pred, active>>
  BY DEF Claim, Stage
<1>3. ses.fence = 0 /\ sync.queue = <<>> /\ sync.pending = 0 /\ ~sync.bound
  BY <1>1 DEF Enforced, Quiet, Early
<1>4. OnRecord'
  <2>1. /\ active' = NoGrant
        /\ pred' # NoGrant => pred'.fence < lease'.fence
    BY <1>0, <1>2, <1>10 DEF Enforced, OnRecord, Numbers
  <2>2. QED
    BY <1>1, <2>1 DEF OnRecord, Held
<1>5. CapsuleOwn'
  <2>1. cap.fence # 0 => cap.fence \in Fences /\ cap.fence # lease.fence + 1
    <3>1. cap.fence # 0 => cap.fence <= lease.fence
      BY DEF Enforced, CapsuleOwn
    <3>2. QED
      BY <1>0, <1>1, <3>1, Constants DEF Numbers, Fences
  <2>2. cap.fence # 0 => expiry'[cap.fence] = expiry[cap.fence]
    BY <1>1, <2>1 DEF IInv, Typed
  <2>3. QED
    <3>1. cap.fence # 0 => cap.fence <= lease'.fence /\ cap.lease <= expiry'[cap.fence]
      <4>1. cap.fence # 0 => cap.fence <= lease.fence /\ cap.lease <= expiry[cap.fence]
        BY DEF Enforced, CapsuleOwn
      <4>2. cap.fence # 0 => cap.fence <= lease'.fence
        BY <1>0, <1>10, <4>1 DEF Numbers
      <4>3. QED
        BY <2>2, <4>1, <4>2
    <3>2. CapsuleLive => pred' # NoGrant /\ cap.fence = pred'.fence
      BY <1>2 DEF Enforced, CapsuleOwn, OnRecord
    <3>3. QED
      BY <1>1, <3>1, <3>2 DEF CapsuleOwn, CapsuleLive
<1>6. Hard'
  BY <1>1, <1>2 DEF Enforced, Hard, HardKept, OnRecord
<1>7. Quiet'
  BY <1>1, <1>3 DEF Enforced, Quiet, Held, Early
<1>8. Sorted'
  BY <1>1, <1>3 DEF Enforced, Sorted, SessionLive
<1>9. CapTyped' /\ Installing' /\ Healthy' /\ NoSpuriousLoss'
  BY <1>1, <1>3 DEF Enforced, CapTyped, Installing, Healthy, NoSpuriousLoss, SessionLive
<1> QED BY <1>1, <1>2, <1>3, <1>4, <1>5, <1>6, <1>7, <1>8, <1>9, <1>10, <1>11 DEF Enforced

LEMMA BeginKeeps ==
    ASSUME IInv, IInv', Enforced, NEW k \in {"waiting", "off"}, Begin(k)
    PROVE  Enforced'
<1>1. /\ node.pc = "idle" /\ node'.pc = "resolve" /\ sync' = Unbound
      /\ UNCHANGED <<now, lease, expiry, active, pred, deadline, ses, cap, faults>>
  BY Blanks DEF Begin, Idle
<1>2. /\ ses.fence = 0 /\ ~sync'.bound /\ sync'.queue = <<>> /\ sync'.pending = 0
      /\ ~sync'.remote
  BY <1>1 DEF Enforced, Quiet, Early, Unbound
<1>3. OnRecord' /\ Hard' /\ Quiet'
  BY <1>1, <1>2 DEF Enforced, OnRecord, Hard, HardKept, Quiet, Held, Early, CapsuleLive
<1>4. Sorted'
  BY <1>1, <1>2 DEF SessionLive, Sorted
<1>5. CapTyped' /\ CapsuleOwn' /\ Installing' /\ Healthy' /\ NoSpuriousLoss'
  BY <1>1, <1>2 DEF Enforced, CapTyped, CapsuleOwn, CapsuleLive, Installing, Healthy,
       NoSpuriousLoss, SessionLive
<1> QED BY <1>1, <1>2, <1>3, <1>4, <1>5 DEF Enforced

LEMMA RetirePredecessorKeeps == ASSUME IInv, IInv', Enforced, RetirePredecessor PROVE Enforced'
<1>0. Fields /\ Numbers /\ Queue
  BY Shapes DEF Enforced
<1>1. /\ node.pc = "resolve" /\ pred # NoGrant /\ node'.pc \in {"compile", "stop"}
      /\ node'.grant = node.grant
      /\ UNCHANGED <<now, lease, expiry, active, pred, deadline, keeper, ses, sync>>
  BY <1>0 DEF RetirePredecessor, Fields
<1>2. active = NoGrant /\ ses.fence = 0
  BY <1>1 DEF Enforced, OnRecord, Quiet, Early
<1>3. cap' \in {cap, Revoked(cap), NoMonitor} /\ faults' \in {faults, faults + 1}
  BY DEF RetirePredecessor, Proven
<1>11. faults' \in Nat
  BY <1>0, <1>3 DEF Numbers
<1>4. Weakens
  BY <1>3, CapsuleWeakens DEF Enforced, CapTyped
<1>5. node'.pc = "compile" => ~CapsuleLive'
  <2>1. CapsuleLive => cap.fence = pred.fence
    BY <1>2 DEF Enforced, CapsuleOwn
  <2>2. CASE node'.pc = "compile"
    <3>1. Proven(pred)
      BY <1>0, <2>2 DEF RetirePredecessor, Fields
    <3>2. QED
      BY <2>1, <3>1, Blanks DEF Proven, CapsuleLive
  <2>3. QED
    BY <2>2
<1>6. CapTyped'
  BY <1>1, <1>4, <1>11 DEF Enforced, CapTyped, Weakens
<1>7. OnRecord'
  BY <1>1, <1>2, <1>5 DEF Enforced, OnRecord, Held
<1>8. CapsuleOwn'
  BY <1>1, <1>4 DEF Enforced, CapsuleOwn, CapsuleLive, Weakens
<1>9. Hard' /\ Quiet'
  BY <1>1, <1>2 DEF Enforced, Hard, HardKept, Quiet, Held, Early
<1>10. Sorted' /\ Installing' /\ Healthy' /\ NoSpuriousLoss'
  BY <1>1, <1>2 DEF Enforced, Sorted, Installing, Healthy, NoSpuriousLoss, SessionLive
<1> QED BY <1>1, <1>2, <1>3, <1>4, <1>5, <1>6, <1>7, <1>8, <1>9, <1>10, <1>11 DEF Enforced

LEMMA CompileKeeps == ASSUME IInv, IInv', Enforced, Compile PROVE Enforced'
<1>0. Fields /\ Numbers /\ Queue
  BY Shapes DEF Enforced
<1>1. UNCHANGED <<now, lease, expiry, active, pred, deadline, keeper, ses, sync, cap, faults>>
  BY DEF Compile
<1>2. /\ node.pc \in {"compile", "resolve"}
      /\ node.pc = "resolve" => pred = NoGrant
      /\ node'.pc \in {"stop", "enter", "checkpoint"}
      /\ node'.pc # "stop" => node'.grant = Compiled /\ now < HardDeadline
      /\ node'.pc = "enter" => active # NoGrant /\ Compiled = active
      /\ node'.pc = "checkpoint" => active = NoGrant
  BY <1>0 DEF Compile, Fields, Numbers, LiveAt
<1>3. Compiled.hard = HardDeadline
  BY DEF Compiled
<1>4. /\ active = NoGrant /\ pred # NoGrant => HardDeadline = deadline
      /\ HardDeadline <= MissionEnd /\ HardDeadline \in Nat
  <2>1. \A a, b \in Nat : Least(a, b) <= a /\ Least(a, b) \in Nat /\ (b <= a => Least(a, b) = b)
    BY DEF Least
  <2>2. now + TurnLen \in Nat
    BY <1>0, Constants DEF Numbers
  <2>3. HardDeadline <= MissionEnd /\ HardDeadline \in Nat
    BY <1>0, <2>1, <2>2, Constants DEF HardDeadline, Numbers
  <2>4. CASE active = NoGrant /\ pred # NoGrant
    BY <1>0, <2>1, <2>4, Constants DEF Enforced, Hard, HardKept, HardDeadline, Numbers
  <2>5. QED
    BY <2>3, <2>4
<1>5. Hard'
  BY <1>0, <1>1, <1>2, <1>3, <1>4 DEF Enforced, Hard, HardKept, Numbers
<1>6. OnRecord'
  BY <1>1, <1>2 DEF Enforced, OnRecord, CapsuleOwn, CapsuleLive, Held
<1>7. Quiet'
  BY <1>1, <1>2 DEF Enforced, Quiet, Held, Early
<1>8. CapTyped' /\ CapsuleOwn' /\ Sorted' /\ Healthy' /\ NoSpuriousLoss'
  BY <1>1 DEF Enforced, CapTyped, CapsuleOwn, CapsuleLive, Sorted, Healthy, NoSpuriousLoss,
       SessionLive, LiveAt
<1>9. Installing'
  BY <1>2 DEF Installing
<1> QED BY <1>1, <1>2, <1>3, <1>4, <1>5, <1>6, <1>7, <1>8, <1>9 DEF Enforced

LEMMA CheckpointKeeps == ASSUME IInv, IInv', Enforced, Checkpoint PROVE Enforced'
<1>0. Fields /\ Numbers /\ Queue
  BY Shapes DEF Enforced
<1>1. /\ UNCHANGED <<now, lease, expiry, keeper, ses, sync, cap, faults>>
      /\ node.pc = "checkpoint"
  BY DEF Checkpoint
<1>2. active = NoGrant /\ ~CapsuleLive /\ ses.fence = 0 /\ node.grant.fence = lease.fence
      /\ lease.fence # 0
  BY <1>1 DEF Enforced, OnRecord, Quiet, Early, IInv, GrantsOwn, Journaled
<1>9. Sorted' /\ Healthy' /\ NoSpuriousLoss'
  BY <1>1 DEF Enforced, Sorted, Healthy, NoSpuriousLoss, SessionLive, LiveAt
<1>3. CASE Matches
  <2>1. /\ active' = node.grant /\ pred' = NoGrant /\ node'.pc = "enter" /\ node'.grant = node.grant
        /\ deadline' = IF deadline = 0 THEN node.grant.hard ELSE deadline
    BY <1>0, <1>3 DEF Checkpoint, Fields
  <2>2. active' # NoGrant
    BY <1>2, <2>1 DEF NoGrant
  <2>3. deadline' = node.grant.hard /\ node.grant.hard > 0 /\ node.grant.hard <= MissionEnd
    BY <1>1, <2>1 DEF Enforced, Hard
  <2>4. OnRecord'
    BY <1>1, <1>2, <2>1, <2>2 DEF OnRecord, Held
  <2>5. CapsuleOwn'
    BY <1>1, <1>2, <2>1 DEF Enforced, CapsuleOwn, CapsuleLive
  <2>6. Hard'
    BY <1>0, <1>1, <1>2, <2>1, <2>2, <2>3 DEF Hard, HardKept, Numbers
  <2>7. CapTyped'
    BY <1>0, <1>1, <2>3 DEF Enforced, CapTyped, Numbers
  <2>8. Quiet'
    BY <1>1, <2>1 DEF Enforced, Quiet, Held, Early
  <2>9. Installing'
    BY <2>1 DEF Installing
  <2>10. QED
    BY <1>9, <2>4, <2>5, <2>6, <2>7, <2>8, <2>9 DEF Enforced
<1>4. CASE ~Matches
  <2>1. UNCHANGED <<active, pred, deadline>> /\ node'.pc \in {"resolve", "stop"}
    BY <1>0, <1>4 DEF Checkpoint, Fields
  <2>2. OnRecord' /\ CapsuleOwn' /\ Hard' /\ CapTyped'
    BY <1>1, <2>1 DEF Enforced, OnRecord, CapsuleOwn, CapsuleLive, Hard, HardKept, CapTyped,
         Held
  <2>3. Quiet' /\ Installing'
    BY <1>1, <2>1 DEF Enforced, Quiet, Held, Early, Installing
  <2>4. QED
    BY <1>9, <2>2, <2>3 DEF Enforced
<1>5. QED
  BY <1>3, <1>4

LEMMA EnterInstallKeeps == ASSUME IInv, IInv', Enforced, EnterInstall PROVE Enforced'
<1>0. Fields /\ Numbers /\ Queue
  BY Shapes DEF Enforced
<1>1. /\ node.pc = "enter" /\ node'.pc \in {"install", "stop"} /\ node'.grant = node.grant
      /\ node'.pc = "install" => node'.cur = lease.expires
      /\ UNCHANGED <<now, lease, expiry, active, pred, deadline, keeper, ses, sync, cap, faults>>
  BY <1>0 DEF EnterInstall, Fields
<1>2. OnRecord' /\ Hard'
  BY <1>1 DEF Enforced, OnRecord, Hard, HardKept, Held, CapsuleLive
<1>3. Quiet'
  BY <1>1 DEF Enforced, Quiet, Held, Early
<1>4. Installing'
  BY <1>0, <1>1 DEF Installing, Numbers
<1>5. QED
  BY <1>0, <1>1, <1>2, <1>3, <1>4, StepKeeps DEF Numbers

LEMMA PortInstallKeeps == ASSUME IInv, IInv', Enforced, PortInstall PROVE Enforced'
<1>0. Fields /\ Numbers /\ Queue
  BY Shapes DEF Enforced
<1> DEFINE r == Admit(node.grant, node.cur)
<1>1. /\ node.pc = "install" /\ node'.pc = "installed" /\ node'.grant = node.grant
      /\ node'.cur = node.cur /\ cap' \in {cap, r.m} /\ faults' \in Nat
      /\ node'.reply = "ok" => cap' = r.m /\ r.answer = "ok"
      /\ UNCHANGED <<now, lease, expiry, active, pred, deadline, keeper, ses, sync>>
  <2>1. faults \in Nat /\ faults + 1 \in Nat
    BY <1>0 DEF Numbers
  <2> HIDE DEF r
  <2>2. /\ node.pc = "install"
        /\ UNCHANGED <<now, lease, expiry, active, pred, deadline, keeper, ses, sync>>
    BY DEF PortInstall
  <2>3. CASE /\ cap' = r.m /\ node' = [node EXCEPT !.pc = "installed", !.reply = r.answer]
             /\ UNCHANGED faults
    BY <1>0, <2>1, <2>2, <2>3 DEF Fields
  <2>4. CASE /\ faults' = faults + 1 /\ cap' \in {cap, r.m}
             /\ node' = [node EXCEPT !.pc = "installed", !.reply = "lost"]
    BY <1>0, <2>1, <2>2, <2>4 DEF Fields
  <2>5. QED
    BY <2>3, <2>4 DEF PortInstall, r
<1>2. /\ active # NoGrant /\ node.grant = active /\ active.fence = lease.fence /\ lease.fence # 0
      /\ ses.fence = 0 /\ node.cur <= lease.expires
  BY <1>1 DEF Enforced, OnRecord, Held, Quiet, Early, Installing
<1>3. /\ cap' \in AnyMonitor
      /\ cap'.fence # 0 =>
            \/ /\ cap'.fence = cap.fence /\ cap'.lease = cap.lease
               /\ ~cap'.revoked => ~cap.revoked
            \/ cap'.fence = node.grant.fence /\ cap'.lease = node.cur
      /\ node'.reply = "ok" => /\ cap'.fence = node.grant.fence /\ cap'.lease = node.cur
                               /\ ~cap'.revoked
  <2>1. cap \in AnyMonitor /\ node.grant \in AnyGrant /\ node.cur \in Nat
    BY DEF Enforced, CapTyped, IInv, Typed, AnyStep
  <2> HIDE DEF r
  <2>2. /\ r.m \in AnyMonitor
        /\ r.m.fence # 0 =>
              \/ /\ r.m.fence = cap.fence /\ r.m.lease = cap.lease
                 /\ ~r.m.revoked => ~cap.revoked
              \/ r.m.fence = node.grant.fence /\ r.m.lease = node.cur
        /\ r.answer = "ok" => /\ r.m.fence = node.grant.fence /\ r.m.lease = node.cur
                              /\ ~r.m.revoked
    BY <2>1, Admits DEF r
  <2>3. QED
    BY <1>1, <2>1, <2>2
<1> HIDE DEF r
<1>4. CapTyped'
  BY <1>1, <1>3 DEF Enforced, CapTyped
<1>5. OnRecord' /\ Hard' /\ Quiet'
  BY <1>1, <1>2 DEF Enforced, OnRecord, Hard, HardKept, Quiet, Held, Early
<1>6. CapsuleOwn'
  <2>1. expiry[lease.fence] = lease.expires
    BY <1>2 DEF IInv, Journaled
  <2>2. QED
    BY <1>0, <1>1, <1>2, <1>3, <2>1 DEF Enforced, CapsuleOwn, CapsuleLive, Numbers
<1>7. Installing'
  BY <1>1, <1>2, <1>3 DEF Installing
<1>8. Sorted' /\ Healthy' /\ NoSpuriousLoss'
  BY <1>1, <1>2 DEF Enforced, Sorted, Healthy, NoSpuriousLoss, SessionLive
<1> QED BY <1>1, <1>2, <1>3, <1>4, <1>5, <1>6, <1>7, <1>8 DEF Enforced

LEMMA InstallReturnsKeeps == ASSUME IInv, IInv', Enforced, InstallReturns PROVE Enforced'
<1>0. Fields /\ Numbers /\ Queue
  BY Shapes DEF Enforced
<1>1. /\ node.pc = "installed"
      /\ UNCHANGED <<now, lease, expiry, active, pred, deadline, keeper, cap, faults>>
  BY DEF InstallReturns
<1>2. ses.fence = 0 /\ ~sync.bound /\ sync.queue = <<>> /\ ~sync.remote
      /\ active # NoGrant /\ node.grant = active /\ active.fence = lease.fence /\ lease.fence # 0
  BY <1>1 DEF Enforced, Quiet, Early, OnRecord, Held
<1>3. CapTyped' /\ CapsuleOwn'
  BY <1>1 DEF Enforced, CapTyped, CapsuleOwn, CapsuleLive
<1>4. CASE node' \in {Fail, InstallAgain} /\ UNCHANGED <<ses, sync>>
  <2>1. /\ node'.pc \in {"failing", "install"} /\ node'.grant = node.grant
        /\ node'.pc = "install" => node'.cur = lease.expires
    BY <1>0, <1>4 DEF Fail, InstallAgain, Fields
  <2>2. OnRecord' /\ Hard' /\ Quiet'
    BY <1>1, <1>2, <1>4, <2>1 DEF Enforced, OnRecord, Hard, HardKept, Quiet, Held, Early,
         CapsuleLive
  <2>3. Sorted' /\ Healthy' /\ NoSpuriousLoss'
    BY <1>1, <1>2, <1>4 DEF Enforced, Sorted, Healthy, NoSpuriousLoss, SessionLive
  <2>4. Installing'
    <3>1. lease.expires <= lease.expires
      BY <1>0 DEF Numbers
    <3>2. QED
      BY <1>1, <2>1, <3>1 DEF Installing
  <2>5. QED
    BY <1>3, <2>2, <2>3, <2>4 DEF Enforced
<1>5. CASE /\ node.reply = "ok" /\ ~ (lease.expires > node.cur)
           /\ ses' = [fence |-> node.grant.fence, lease |-> lease.expires,
                      hard |-> node.grant.hard, revoked |-> FALSE]
           /\ sync' = IF keeper = "off" THEN sync ELSE Bind
           /\ node' = [node EXCEPT !.pc = "binding"]
  <2>1. /\ node'.pc = "binding" /\ node'.grant = node.grant
        /\ ses'.fence = active.fence /\ ses'.lease = lease.expires /\ ses'.hard = active.hard
        /\ ~ses'.revoked
    BY <1>0, <1>2, <1>5 DEF Fields
  <2>2. node.cur = lease.expires
    BY <1>0, <1>1, <1>5 DEF Enforced, Installing, Numbers
  <2>3. /\ ~sync'.remote
        /\ keeper = "off" => sync' = sync
        /\ keeper # "off" => sync'.bound
        /\ sync'.queue \in {<<>>, <<lease.expires>>}
        /\ ~sync'.bound => sync'.queue = <<>> /\ sync'.pending = sync.pending
    <3>1. CASE keeper = "off"
      BY <1>2, <1>5, <3>1
    <3>2. CASE keeper # "off" /\ sync.pending = 0
      BY <1>0, <1>2, <1>5, <3>2 DEF Bind, Fields
    <3>3. CASE keeper # "off" /\ sync.pending # 0
      <4>1. sync.pending = lease.expires
        BY <1>2, <3>3 DEF Enforced, Quiet
      <4>2. QED
        BY <1>0, <1>2, <1>5, <3>3, <4>1 DEF Bind, Fields
    <3>4. QED
      BY <3>1, <3>2, <3>3
  <2>4. OnRecord' /\ Hard' /\ Installing'
    BY <1>1, <1>2, <2>1 DEF Enforced, OnRecord, Hard, HardKept, Held, CapsuleLive,
         Installing
  <2>5. Quiet'
    BY <1>1, <1>2, <2>1, <2>3 DEF Enforced, Quiet, Held, Early
  <2>6. Sorted'
    <3>1. cap.fence = ses'.fence /\ ~cap.revoked => cap.lease = lease.expires
      BY <1>1, <1>2, <1>5, <2>1, <2>2 DEF Enforced, Installing
    <3>2. CASE sync'.queue = <<>>
      BY <1>0, <1>1, <2>1, <2>3, <3>1, <3>2 DEF Sorted, Numbers
    <3>3. CASE sync'.queue = <<lease.expires>>
      <4>1. sync'.queue # <<>> /\ Len(sync'.queue) = 1 /\ sync'.queue[1] = lease.expires
            /\ DOMAIN sync'.queue = {1}
        BY <1>0, <3>3 DEF Numbers
      <4>2. QED
        BY <1>0, <1>1, <2>1, <2>3, <3>1, <4>1 DEF Sorted, Numbers
    <3>4. QED
      BY <2>3, <3>2, <3>3
  <2>7. Healthy' /\ NoSpuriousLoss'
    BY <1>1, <1>2, <1>5, <2>1 DEF Enforced, Installing, Healthy, NoSpuriousLoss, LiveAt
  <2>8. QED
    BY <1>3, <2>4, <2>5, <2>6, <2>7 DEF Enforced
<1>6. QED
  BY <1>4, <1>5 DEF InstallReturns

LEMMA ReadyKeeps == ASSUME IInv, IInv', Enforced, Ready PROVE Enforced'
<1>0. Fields /\ Numbers /\ Queue
  BY Shapes DEF Enforced
<1>1. /\ node.pc = "binding" /\ node'.pc \in {"failing", "ready"} /\ node'.grant = node.grant
      /\ UNCHANGED <<now, lease, expiry, active, pred, deadline, keeper, ses, sync, cap, faults>>
  BY <1>0 DEF Ready, Fail, Fields
<1>2. OnRecord' /\ Hard' /\ Installing'
  BY <1>1 DEF Enforced, OnRecord, Hard, HardKept, Held, CapsuleLive, Installing
<1>3. Quiet'
  BY <1>1 DEF Enforced, Quiet, Held, Early
<1>4. QED
  BY <1>0, <1>1, <1>2, <1>3, StepKeeps DEF Numbers

LEMMA RelayRenewsKeeps == ASSUME IInv, IInv', Enforced, RelayRenews PROVE Enforced'
<1>0. Fields /\ Numbers /\ Queue
  BY Shapes DEF Enforced
<1> DEFINE e == now + LeaseLen
<1>1. /\ keeper = "waiting" /\ lease.expires < e /\ e \in Nat
      /\ lease'.fence = lease.fence /\ lease'.expires = e
      /\ expiry' = [expiry EXCEPT ![lease.fence] = e] /\ sync' = Forward(e)
      /\ keeper' \in {"forwarding", "waiting"}
      /\ UNCHANGED <<now, active, pred, deadline, node, ses, cap, effect, faults>>
  <2>1. e \in Nat
    BY <1>0, Constants DEF Numbers
  <2>2. lease'.fence = lease.fence /\ lease'.expires = e
    BY <1>0 DEF RelayRenews, Fields
  <2>3. QED
    BY <2>1, <2>2 DEF RelayRenews
<1> HIDE DEF e
<1>2. lease.fence # 0 /\ lease.fence \in Fences /\ expiry[lease.fence] = lease.expires
  <2>1. node.pc # "idle"
    BY <1>1 DEF Enforced, Quiet
  <2>2. lease.fence # 0 /\ expiry[lease.fence] = lease.expires
    BY <2>1 DEF IInv, Journaled
  <2>3. lease.fence \in 0 .. MaxFence
    BY DEF IInv, Typed
  <2>4. QED
    BY <2>2, <2>3, Constants DEF Fences
<1>3. \/ /\ ~sync.bound /\ ~sync'.bound /\ sync'.pending = e /\ sync'.queue = sync.queue
         /\ sync'.remote = sync.remote
      \/ /\ sync.bound /\ sync'.bound /\ sync'.queue = Append(sync.queue, e)
         /\ sync'.remote = sync.remote
  BY <1>0, <1>1 DEF Forward, Fields, Queue
<1>4. CapTyped' /\ OnRecord' /\ Hard' /\ Healthy' /\ NoSpuriousLoss'
  BY <1>1 DEF Enforced, CapTyped, OnRecord, Hard, HardKept, Healthy, NoSpuriousLoss,
       CapsuleLive, SessionLive, LiveAt
<1>5. CapsuleOwn'
  <2>1. cap.fence # 0 => cap.fence \in Fences
    <3>1. lease.fence <= MaxFence
      BY Constants DEF IInv, Typed
    <3>2. QED
      BY <1>0, <3>1, Constants DEF Enforced, CapsuleOwn, Numbers, Fences
  <2>2. \A f \in Fences : expiry'[f] >= expiry[f] /\ expiry'[f] \in Nat /\ expiry[f] \in Nat
    <3>1. expiry \in [Fences -> Nat]
      BY DEF IInv, Typed
    <3>2. QED
      BY <1>0, <1>1, <1>2, <3>1 DEF Numbers
  <2>3. cap.fence # 0 => cap.lease <= expiry'[cap.fence]
    BY <1>0, <2>1, <2>2 DEF Enforced, CapsuleOwn, Numbers
  <2>4. QED
    BY <1>1, <2>3 DEF Enforced, CapsuleOwn, CapsuleLive
<1>6. Quiet'
  BY <1>1, <1>3 DEF Enforced, Quiet, Held, Early
<1>7. Installing'
  BY <1>0, <1>1 DEF Enforced, Installing, Numbers, LiveAt
<1>8. Sorted'
  <2>1. CASE ~sync.bound
    <3>1. ses.fence = 0 /\ sync.queue = <<>>
      BY <1>1, <2>1 DEF Enforced, Quiet
    <3>2. QED
      BY <1>1, <1>3, <2>1, <3>1 DEF Enforced, Sorted, SessionLive
  <2>2. CASE sync.bound
    <3> DEFINE q == sync.queue
    <3>1. /\ sync'.queue = Append(q, e) /\ sync'.remote = sync.remote
      BY <1>3, <2>2
    <3>2. q \in Seq(Nat) /\ \A i \in DOMAIN q : q[i] <= e /\ q[i] \in Nat
      <4>1. q \in Seq(Nat)
        BY <1>0 DEF Queue
      <4>2. \A i \in DOMAIN q : q[i] \in Nat
        BY <4>1
      <4>3. \A i \in DOMAIN q : q[i] <= lease.expires
        BY DEF IInv, RenewalsOwn
      <4>4. QED
        BY <1>0, <1>1, <4>1, <4>2, <4>3 DEF Numbers
    <3>3. /\ Append(q, e) # <<>> /\ Len(Append(q, e)) = Len(q) + 1
          /\ Append(q, e)[Len(q) + 1] = e
          /\ \A i \in 1 .. Len(q) : Append(q, e)[i] = q[i]
          /\ DOMAIN Append(q, e) = 1 .. Len(q) + 1 /\ DOMAIN q = 1 .. Len(q) /\ Len(q) \in Nat
          /\ q # <<>> => Len(q) >= 1
          /\ q = <<>> => Len(q) = 0
      BY <1>1, <3>2
    <3>4. \A i, j \in DOMAIN q : i <= j => q[i] <= q[j]
      BY DEF Enforced, Sorted
    <3> HIDE DEF q
    <3>5. \A i, j \in DOMAIN sync'.queue : i <= j => sync'.queue[i] <= sync'.queue[j]
      BY <1>1, <3>1, <3>2, <3>3, <3>4
    <3>6. SessionLive => ses.lease <= sync'.queue[1] /\ (sync.remote => ses.lease = sync'.queue[1])
      <4>1. CASE q = <<>>
        BY <1>0, <1>1, <3>1, <3>3, <4>1 DEF Enforced, Sorted, Quiet, q, Numbers
      <4>2. CASE q # <<>>
        BY <3>1, <3>3, <4>2 DEF Enforced, Sorted, q
      <4>3. QED
        BY <4>1, <4>2
    <3>7. QED
      BY <1>1, <3>1, <3>3, <3>5, <3>6 DEF Enforced, Sorted, SessionLive
  <2>3. QED
    BY <2>1, <2>2
<1> QED BY <1>1, <1>2, <1>3, <1>4, <1>5, <1>6, <1>7, <1>8 DEF Enforced

LEMMA KeeperForwardedKeeps == ASSUME IInv, IInv', Enforced, KeeperForwarded PROVE Enforced'
<1>0. Fields /\ Numbers /\ Queue
  BY Shapes DEF Enforced
<1>1. /\ keeper = "forwarding" /\ keeper' \in {"failed", "waiting"}
      /\ UNCHANGED <<now, lease, expiry, active, pred, deadline, node, ses, sync, cap, faults>>
  BY DEF KeeperForwarded
<1>2. OnRecord' /\ Hard' /\ Installing'
  BY <1>1 DEF Enforced, OnRecord, Hard, HardKept, CapsuleLive, Installing, LiveAt
<1>3. Quiet'
  BY <1>1 DEF Enforced, Quiet
<1>4. QED
  BY <1>0, <1>1, <1>2, <1>3, StepKeeps DEF Numbers

LEMMA KeeperFailsKeeps == ASSUME IInv, IInv', Enforced, KeeperFails PROVE Enforced'
<1>0. Fields /\ Numbers /\ Queue
  BY Shapes DEF Enforced
<1>1. /\ keeper = "waiting" /\ keeper' = "failed" /\ faults' = faults + 1
      /\ UNCHANGED <<now, lease, expiry, active, pred, deadline, node, ses, sync, cap>>
  BY DEF KeeperFails
<1>2. faults' \in Nat /\ faults' # 0
  BY <1>0, <1>1 DEF Numbers
<1>3. OnRecord' /\ Hard' /\ Installing'
  BY <1>1, <1>2 DEF Enforced, OnRecord, Hard, HardKept, CapsuleLive, Installing, LiveAt
<1>4. Quiet'
  BY <1>1 DEF Enforced, Quiet
<1>5. QED
  BY <1>1, <1>2, <1>3, <1>4, StepKeeps

LEMMA RenewLocalKeeps == ASSUME IInv, IInv', Enforced, RenewLocal PROVE Enforced'
<1>0. Fields /\ Numbers /\ Queue
  BY Shapes DEF Enforced
<1>1. /\ sync.queue # <<>> /\ ~sync.remote
      /\ UNCHANGED <<now, lease, expiry, active, pred, deadline, keeper, node>>
  BY DEF RenewLocal
<1>2. Head(sync.queue) = sync.queue[1] /\ sync.queue[1] \in Nat
  <2>1. sync.queue \in Seq(Nat)
    BY <1>0 DEF Queue
  <2>2. 1 \in DOMAIN sync.queue
    BY <1>1, <2>1
  <2>3. QED
    BY <1>1, <2>1, <2>2
<1>6. node.pc # "installed"
  BY <1>1 DEF Enforced, Quiet, Early
<1>3. CASE Advances(ses, Head(sync.queue))
  <2>1. /\ ses' = [ses EXCEPT !.lease = sync.queue[1]] /\ sync' = [sync EXCEPT !.remote = TRUE]
        /\ UNCHANGED <<cap, faults>> /\ ses.lease <= sync.queue[1] /\ SessionLive
    BY <1>2, <1>3 DEF RenewLocal, Advances, Answers, SessionLive
  <2>2. /\ ses'.fence = ses.fence /\ ses'.lease = sync.queue[1] /\ ses'.hard = ses.hard
        /\ ses'.revoked = ses.revoked
        /\ sync'.bound = sync.bound /\ sync'.pending = sync.pending /\ sync'.queue = sync.queue
        /\ sync'.remote
    BY <1>0, <2>1 DEF Fields
  <2>3. CapTyped' /\ OnRecord' /\ CapsuleOwn' /\ Installing'
    BY <1>1, <2>1 DEF Enforced, CapTyped, OnRecord, CapsuleOwn, CapsuleLive, Installing,
         LiveAt
  <2>4. Hard' /\ Quiet'
    BY <1>1, <2>2 DEF Enforced, Hard, HardKept, Quiet
  <2>5. Sorted'
    <3>1. /\ \A i, j \in DOMAIN sync.queue : i <= j => sync.queue[i] <= sync.queue[j]
          /\ sync.queue[Len(sync.queue)] = lease.expires
          /\ cap.fence = ses.fence /\ ~cap.revoked => cap.lease = ses.lease
      BY <1>1, <2>1 DEF Enforced, Sorted
    <3>2. cap.fence = ses.fence /\ ~cap.revoked => cap.lease <= sync.queue[1]
      BY <2>1, <3>1
    <3>3. sync.queue[1] <= sync.queue[1]
      BY <1>2
    <3>4. QED
      BY <1>1, <2>1, <2>2, <3>1, <3>2, <3>3 DEF Sorted
  <2>6. Healthy' /\ NoSpuriousLoss'
    BY <1>1, <2>1, <2>2 DEF Enforced, Healthy, NoSpuriousLoss, SessionLive, LiveAt
  <2>7. QED
    BY <2>3, <2>4, <2>5, <2>6 DEF Enforced
<1>4. CASE ~ Advances(ses, Head(sync.queue))
  <2>1. /\ RenewalFails /\ cap' \in {cap, Revoked(cap), NoMonitor} /\ faults' \in Nat
        /\ faults' = 0 => faults = 0
    <3>1. faults + 1 \in Nat /\ faults \in Nat /\ faults + 1 # 0
      BY <1>0 DEF Numbers
    <3>2. QED
      BY <1>4, <3>1 DEF RenewLocal
  <2>2. Weakens
    BY <2>1, CapsuleWeakens DEF Enforced, CapTyped
  <2>3. SessionLive => ~ LiveAt(ses.lease, ses.hard)
    BY <1>1, <1>2, <1>4 DEF Enforced, Sorted, Advances, Answers, SessionLive
  <2>4. QED
    BY <1>1, <1>6, <2>1, <2>2, <2>3, GivenUp DEF RenewalFails
<1>5. QED
  BY <1>3, <1>4

LEMMA RenewRemoteKeeps == ASSUME IInv, IInv', Enforced, RenewRemote PROVE Enforced'
<1>0. Fields /\ Numbers /\ Queue
  BY Shapes DEF Enforced
<1>1. /\ sync.queue # <<>> /\ sync.remote
      /\ UNCHANGED <<now, lease, expiry, active, pred, deadline, keeper, node>>
  BY DEF RenewRemote
<1>2. /\ Head(sync.queue) = sync.queue[1] /\ sync.queue[1] \in Nat
      /\ sync.queue[1] <= lease.expires
  <2>1. sync.queue \in Seq(Nat)
    BY <1>0 DEF Queue
  <2>2. 1 \in DOMAIN sync.queue
    BY <1>1, <2>1
  <2>3. Head(sync.queue) = sync.queue[1] /\ sync.queue[1] \in Nat
    BY <1>1, <2>1, <2>2
  <2>4. QED
    BY <2>2, <2>3 DEF IInv, RenewalsOwn
<1>6. node.pc # "installed"
  BY <1>1 DEF Enforced, Quiet, Early
<1>3. CASE /\ Advances(cap, Head(sync.queue)) /\ cap.fence = ses.fence
           /\ cap' = [cap EXCEPT !.lease = Head(sync.queue)]
           /\ sync' = [sync EXCEPT !.queue = Tail(@), !.remote = FALSE]
           /\ UNCHANGED <<ses, faults>>
  <2> DEFINE q == Tail(sync.queue)
  <2>1. /\ cap'.fence = cap.fence /\ cap'.lease = sync.queue[1] /\ cap'.hard = cap.hard
        /\ cap'.revoked = cap.revoked /\ cap' \in AnyMonitor
    BY <1>0, <1>2, <1>3 DEF Enforced, CapTyped, AnyMonitor, Fields, Numbers
  <2>2. /\ sync'.bound = sync.bound /\ sync'.pending = sync.pending /\ sync'.queue = q
        /\ ~sync'.remote
    BY <1>0, <1>3 DEF Fields
  <2>3. Answers(cap) /\ cap.fence # 0 /\ ~cap.revoked /\ cap.fence = ses.fence
    BY <1>3 DEF Advances, Answers
  <2>4. ses.fence = lease.fence /\ lease.fence # 0 /\ expiry[lease.fence] = lease.expires
    BY <2>3 DEF IInv, SessionOwn, Journaled
  <2>5. CapTyped' /\ OnRecord' /\ Hard'
    BY <1>1, <1>3, <2>1 DEF Enforced, CapTyped, OnRecord, Hard, HardKept, CapsuleLive
  <2>6. CapsuleOwn'
    BY <1>1, <1>2, <2>1, <2>3, <2>4 DEF Enforced, CapsuleOwn, CapsuleLive
  <2>7. sync.bound
    BY <1>1 DEF Enforced, Quiet
  <2>8. Quiet'
    BY <1>1, <1>3, <2>2, <2>7 DEF Enforced, Quiet
  <2>9. node.pc # "installed"
    BY <2>7 DEF Enforced, Quiet, Early
  <2>10. Installing'
    BY <1>1, <2>9 DEF Enforced, Installing
  <2>11. Healthy' /\ NoSpuriousLoss'
    BY <1>1, <1>3, <2>1, <2>3 DEF Enforced, Healthy, NoSpuriousLoss, SessionLive, LiveAt,
         Answers
  <2>12. Sorted'
    <3>1. sync.queue \in Seq(Nat) /\ Len(sync.queue) \in Nat /\ Len(sync.queue) >= 1
      <4>1. sync.queue \in Seq(Nat)
        BY <1>0 DEF Queue
      <4>2. QED
        BY <1>1, <4>1
    <3>2. /\ q \in Seq(Nat) /\ Len(q) = Len(sync.queue) - 1 /\ DOMAIN q = 1 .. Len(q)
          /\ \A i \in 1 .. Len(q) : q[i] = sync.queue[i + 1] /\ i + 1 \in DOMAIN sync.queue
          /\ q = <<>> => Len(sync.queue) = 1
          /\ q # <<>> => Len(q) >= 1
      BY <1>1, <3>1, TailFacts
    <3> HIDE DEF q
    <3>3. \A i, j \in DOMAIN q : i <= j => q[i] <= q[j]
      <4>1. \A i, j \in DOMAIN sync.queue : i <= j => sync.queue[i] <= sync.queue[j]
        BY DEF Enforced, Sorted
      <4> SUFFICES ASSUME NEW i \in 1 .. Len(q), NEW j \in 1 .. Len(q), i <= j
                   PROVE  q[i] <= q[j]
        BY <3>2
      <4>2. i + 1 <= j + 1
        OBVIOUS
      <4>3. sync.queue[i + 1] <= sync.queue[j + 1]
        BY <3>2, <4>1, <4>2
      <4>4. QED
        BY <3>2, <4>3
    <3>4. SessionLive => ses.lease = sync.queue[1]
      BY <1>1 DEF Enforced, Sorted
    <3>5. CASE q = <<>>
      BY <1>1, <1>3, <2>1, <2>2, <3>2, <3>3, <3>4, <3>5 DEF Enforced, Sorted, SessionLive
    <3>6. CASE q # <<>>
      <4>1. 1 \in DOMAIN sync.queue /\ 2 \in DOMAIN sync.queue /\ q[1] = sync.queue[2]
            /\ q[Len(q)] = sync.queue[Len(sync.queue)]
        <5>1. Len(q) \in 1 .. Len(q) /\ 1 \in 1 .. Len(q) /\ Len(q) + 1 = Len(sync.queue)
          BY <3>1, <3>2, <3>6
        <5>2. /\ q[1] = sync.queue[1 + 1] /\ 1 + 1 \in DOMAIN sync.queue
              /\ q[Len(q)] = sync.queue[Len(q) + 1]
          BY <3>2, <5>1
        <5>3. 1 \in DOMAIN sync.queue
          BY <3>1
        <5>4. QED
          BY <5>1, <5>2, <5>3
      <4>2. sync.queue[1] <= sync.queue[2]
        BY <4>1 DEF Enforced, Sorted
      <4>3. QED
        BY <1>1, <1>3, <2>1, <2>2, <3>3, <3>4, <3>6, <4>1, <4>2, <1>2 DEF Enforced, Sorted,
             SessionLive
    <3>7. QED
      BY <3>5, <3>6
  <2>13. QED
    BY <2>5, <2>6, <2>8, <2>10, <2>11, <2>12 DEF Enforced
<1>4. CASE /\ RenewalFails /\ cap' \in {cap, Revoked(cap)}
           /\ \/ UNCHANGED faults /\ ~ (Advances(cap, Head(sync.queue)) /\ cap.fence = ses.fence)
              \/ faults' = faults + 1
  <2>1. /\ faults' \in Nat
        /\ faults' = 0 => faults = 0
        /\ faults' = 0 => ~ (Advances(cap, Head(sync.queue)) /\ cap.fence = ses.fence)
    <3>1. faults + 1 \in Nat /\ faults \in Nat /\ faults + 1 # 0
      BY <1>0 DEF Numbers
    <3>2. QED
      BY <1>4, <3>1
  <2>2. Weakens
    BY <1>4, CapsuleWeakens DEF Enforced, CapTyped
  <2>3. SessionLive /\ cap.fence # 0 /\ LiveAt(cap.lease, cap.hard) /\ faults = 0
           => Advances(cap, Head(sync.queue)) /\ cap.fence = ses.fence
    BY <1>1, <1>2 DEF Enforced, Sorted, Healthy, Advances, Answers
  <2>4. QED
    BY <1>1, <1>4, <1>6, <2>1, <2>2, <2>3, GivenUp DEF RenewalFails
<1>5. QED
  BY <1>3, <1>4 DEF RenewRemote

LEMMA ExpireSessionKeeps == ASSUME IInv, IInv', Enforced, ExpireSession PROVE Enforced'
<1>0. Fields /\ Numbers /\ Queue
  BY Shapes DEF Enforced
<1>1. /\ ses' = Revoked(ses) /\ ses.fence # 0 /\ ~ LiveAt(ses.lease, ses.hard)
      /\ UNCHANGED <<now, lease, expiry, active, pred, deadline, keeper, node, sync, cap, faults>>
  BY DEF ExpireSession, Expired
<1>2. Weakens
  BY <1>1, CapsuleWeakens DEF Enforced, CapTyped
<1>3. node.pc # "installed"
  BY <1>1 DEF Enforced, Quiet, Early
<1>4. QED
  BY <1>0, <1>1, <1>2, <1>3, GivenUp DEF Numbers

LEMMA ExpireCapsuleKeeps == ASSUME IInv, IInv', Enforced, ExpireCapsule PROVE Enforced'
<1>1. /\ cap' = Revoked(cap) /\ cap.fence # 0 /\ ~ LiveAt(cap.lease, cap.hard)
      /\ UNCHANGED <<now, lease, expiry, active, pred, deadline, keeper, node, ses, sync, faults>>
  BY DEF ExpireCapsule, Expired
<1>2. /\ cap' \in AnyMonitor /\ cap'.revoked
      /\ cap'.fence = cap.fence /\ cap'.lease = cap.lease /\ cap'.hard = cap.hard
  BY <1>1, RevokedFields DEF Enforced, CapTyped
<1>3. CapTyped' /\ OnRecord' /\ CapsuleOwn' /\ Hard' /\ Quiet'
  BY <1>1, <1>2 DEF Enforced, CapTyped, OnRecord, CapsuleOwn, CapsuleLive, Hard, HardKept,
       Quiet
<1>4. Sorted' /\ Installing'
  BY <1>1, <1>2 DEF Enforced, Sorted, SessionLive, Installing, LiveAt
<1>5. Healthy' /\ NoSpuriousLoss'
  BY <1>1, <1>2 DEF Enforced, Healthy, NoSpuriousLoss, SessionLive, LiveAt
<1> QED BY <1>1, <1>2, <1>3, <1>4, <1>5 DEF Enforced

LEMMA CapsuleEndsKeeps == ASSUME IInv, IInv', Enforced, CapsuleEnds PROVE Enforced'
<1>1. /\ cap' = NoMonitor
      /\ UNCHANGED <<now, lease, expiry, active, pred, deadline, keeper, node, ses, sync, faults>>
  BY DEF CapsuleEnds
<1>2. cap'.fence = 0 /\ cap' \in AnyMonitor
  BY <1>1, Blanks DEF AnyMonitor
<1>3. CapTyped' /\ OnRecord' /\ CapsuleOwn' /\ Hard' /\ Quiet'
  BY <1>1, <1>2 DEF Enforced, CapTyped, OnRecord, CapsuleOwn, CapsuleLive, Hard, HardKept,
       Quiet
<1>4. Sorted'
  BY <1>1, <1>2 DEF Enforced, Sorted, SessionLive
<1>5. Installing'
  <2>1. node.pc = "installed" => node.grant.fence # 0
    BY DEF Enforced, OnRecord, Held
  <2>2. QED
    BY <1>1, <1>2, <2>1 DEF Enforced, Installing
<1>6. Healthy' /\ NoSpuriousLoss'
  BY <1>1, <1>2 DEF Enforced, Healthy, NoSpuriousLoss, SessionLive
<1> QED BY <1>1, <1>2, <1>3, <1>4, <1>5, <1>6 DEF Enforced

LEMMA PublishKeeps == ASSUME IInv, IInv', Enforced, Publish PROVE Enforced'
BY AssertKeeps DEF Publish

LEMMA RecheckKeeps == ASSUME IInv, IInv', Enforced, Recheck PROVE Enforced'
BY AssertKeeps DEF Recheck

LEMMA AskCapsuleKeeps == ASSUME IInv, IInv', Enforced, AskCapsule PROVE Enforced'
<1>0. Fields /\ Numbers /\ Queue
  BY Shapes DEF Enforced
<1>1. /\ node.pc = "ask"
      /\ UNCHANGED <<now, lease, expiry, active, pred, deadline, keeper, sync>>
  BY DEF AskCapsule
<1>2. CASE node' = [node EXCEPT !.pc = "answered"] /\ UNCHANGED <<ses, cap, faults>>
  <2>1. node'.pc = "answered" /\ node'.grant = node.grant
    BY <1>0, <1>2 DEF Fields
  <2>2. OnRecord' /\ Hard' /\ Quiet' /\ Installing'
    BY <1>1, <1>2, <2>1 DEF Enforced, OnRecord, Hard, HardKept, Quiet, Installing, Held,
         Early, CapsuleLive
  <2>3. CapTyped' /\ CapsuleOwn' /\ Sorted' /\ Healthy' /\ NoSpuriousLoss'
    BY <1>1, <1>2 DEF Enforced, CapTyped, CapsuleOwn, Sorted, Healthy, NoSpuriousLoss,
         CapsuleLive, SessionLive, LiveAt
  <2>4. QED
    BY <2>2, <2>3 DEF Enforced
<1>3. CASE /\ node' = Fail /\ ses' = Revoked(ses)
           /\ cap' \in {cap, Revoked(cap)} /\ faults' \in {faults, faults + 1}
           /\ faults' = faults => ~ (Answers(cap) /\ cap.fence = ses.fence)
  <2>1. node'.pc = "failing" /\ faults' \in Nat /\ (faults' = 0 => faults = 0 /\ faults' = faults)
    BY <1>0, <1>3 DEF Fail, Fields, Numbers
  <2>2. Weakens
    BY <1>3, CapsuleWeakens DEF Enforced, CapTyped
  <2>3. faults = 0 /\ SessionLive /\ cap.fence # 0 /\ LiveAt(cap.lease, cap.hard)
           => Answers(cap) /\ cap.fence = ses.fence
    BY DEF Enforced, Healthy, Answers
  <2>4. QED
    BY <1>1, <1>3, <2>1, <2>2, <2>3, GivenUp
<1>4. QED
  <2>1. faults + 1 # faults
    BY <1>0 DEF Numbers
  <2>2. QED
    BY <1>2, <1>3, <2>1 DEF AskCapsule

LEMMA PerformKeeps == ASSUME IInv, IInv', Enforced, Perform PROVE Enforced'
BY AssertKeeps DEF Perform

LEMMA RetireKeeps == ASSUME IInv, IInv', Enforced, Retire PROVE Enforced'
<1>0. Fields /\ Numbers /\ Queue
  BY Shapes DEF Enforced
<1>1. /\ node.pc = "done" /\ ses'.fence = 0 /\ sync' = Unbound /\ node'.pc = "idle"
      /\ UNCHANGED <<now, lease, expiry, keeper>>
  BY Blanks DEF Retire
<1>2. ~sync'.bound /\ sync'.queue = <<>> /\ sync'.pending = 0 /\ ~sync'.remote
  BY <1>1 DEF Unbound
<1>3. active # NoGrant /\ pred = NoGrant /\ keeper = "off"
  BY <1>1 DEF Enforced, OnRecord, Held, Quiet
<1>4. cap' \in {cap, Revoked(cap), NoMonitor} /\ faults' \in {faults, faults + 1}
  BY DEF Retire, Proven
<1>14. faults' \in Nat
  BY <1>0, <1>4 DEF Numbers
<1>5. Weakens
  BY <1>4, CapsuleWeakens DEF Enforced, CapTyped
<1>6. \/ active' = NoGrant /\ pred' = NoGrant /\ deadline' = 0 /\ ~CapsuleLive'
      \/ UNCHANGED <<active, pred, deadline>>
  <2>1. CASE Proven(active) /\ active' = NoGrant /\ pred' = NoGrant /\ deadline' = 0
    <3>1. CapsuleLive => cap.fence = active.fence
      BY <1>3 DEF Enforced, CapsuleOwn
    <3>2. ~CapsuleLive'
      BY <2>1, <3>1, Blanks DEF Proven, CapsuleLive
    <3>3. QED
      BY <2>1, <3>2
  <2>2. QED
    BY <2>1 DEF Retire
<1>7. CapTyped'
  BY <1>0, <1>5, <1>6, <1>14 DEF Enforced, CapTyped, Weakens, Numbers
<1>8. OnRecord'
  BY <1>1, <1>6 DEF Enforced, OnRecord, Held
<1>9. CapsuleOwn'
  BY <1>1, <1>5, <1>6 DEF Enforced, CapsuleOwn, CapsuleLive, Weakens
<1>10. Hard'
  BY <1>1, <1>6, Constants DEF Enforced, Hard, HardKept
<1>11. Quiet'
  BY <1>1, <1>2, <1>3 DEF Enforced, Quiet, Held, Early
<1>12. Sorted'
  BY <1>1, <1>2 DEF Sorted, SessionLive
<1>13. Installing' /\ Healthy' /\ NoSpuriousLoss'
  BY <1>1 DEF Installing, Healthy, NoSpuriousLoss, SessionLive
<1> QED BY <1>1, <1>2, <1>3, <1>4, <1>5, <1>6, <1>7, <1>8, <1>9, <1>10, <1>11, <1>12, <1>13,
     <1>14 DEF Enforced

LEMMA AbandonKeeps == ASSUME IInv, IInv', Enforced, Abandon PROVE Enforced'
<1>0. Fields /\ Numbers /\ Queue
  BY Shapes DEF Enforced
<1>1. /\ node'.pc = "failing"
      /\ UNCHANGED <<now, lease, expiry, active, pred, deadline, keeper, ses, sync, cap, faults>>
  BY <1>0 DEF Abandon, Fail, Fields
<1>2. OnRecord' /\ Hard' /\ Installing'
  BY <1>1 DEF Enforced, OnRecord, Hard, HardKept, Held, CapsuleLive, Installing
<1>3. Quiet'
  BY <1>1 DEF Enforced, Quiet, Held, Early
<1>4. QED
  BY <1>0, <1>1, <1>2, <1>3, StepKeeps DEF Numbers

LEMMA CleanUpKeeps == ASSUME IInv, IInv', Enforced, CleanUp PROVE Enforced'
<1>1. cap' \in {cap, Revoked(cap), NoMonitor} /\ faults' \in {faults, faults + 1}
  BY DEF CleanUp
<1>2. Weakens
  BY <1>1, CapsuleWeakens DEF Enforced, CapTyped
<1>3. QED
  BY <1>1, <1>2, TurnOver, Blanks DEF CleanUp

LEMMA StopKeeps == ASSUME IInv, IInv', Enforced, Stop PROVE Enforced'
<1>1. Weakens
  BY CapsuleWeakens DEF Enforced, CapTyped, Stop
<1>2. QED
  BY <1>1, TurnOver, Blanks DEF Stop

LEMMA NodeDiesKeeps == ASSUME IInv, IInv', Enforced, NodeDies PROVE Enforced'
<1>1. Weakens
  BY CapsuleWeakens DEF Enforced, CapTyped, NodeDies
<1>2. QED
  BY <1>1, TurnOver, Blanks DEF NodeDies

-----------------------------------------------------------------------------
LEMMA InitEnforced == Init => Enforced
<1> SUFFICES ASSUME Init PROVE Enforced
  OBVIOUS
<1>1. /\ active = NoGrant /\ pred = NoGrant /\ deadline = 0 /\ faults = 0 /\ keeper = "off"
      /\ node.pc = "idle" /\ ses.fence = 0 /\ cap.fence = 0
      /\ sync.queue = <<>> /\ ~sync.bound /\ ~sync.remote /\ sync.pending = 0
  BY Blanks DEF Init, Unbound
<1>2. CapTyped /\ OnRecord /\ CapsuleOwn
  BY <1>1, Blanks DEF Init, CapTyped, AnyMonitor, OnRecord, CapsuleOwn, CapsuleLive, Held
<1>3. Hard /\ Quiet
  BY <1>1, Constants DEF Hard, HardKept, Quiet, Held, Early
<1>4. Sorted /\ Installing /\ Healthy /\ NoSpuriousLoss
  BY <1>1 DEF Sorted, SessionLive, Installing, Healthy, NoSpuriousLoss
<1> QED BY <1>2, <1>3, <1>4 DEF Enforced

LEMMA NextEnforced == IInv /\ IInv' /\ Enforced /\ [Next]_vars => Enforced'
<1> SUFFICES ASSUME IInv, IInv', Enforced, [Next]_vars PROVE Enforced'
  OBVIOUS
<1>1. CASE UNCHANGED vars
  <2>1. CapTyped' /\ OnRecord' /\ CapsuleOwn' /\ Hard' /\ Quiet'
    BY <1>1 DEF vars, Enforced, CapTyped, OnRecord, CapsuleOwn, CapsuleLive, Hard, HardKept,
         Quiet
  <2>2. Sorted' /\ Installing' /\ Healthy' /\ NoSpuriousLoss'
    BY <1>1 DEF vars, Enforced, Sorted, SessionLive, Installing, Healthy, NoSpuriousLoss, LiveAt
  <2> QED BY <2>1, <2>2 DEF Enforced
<1>2. CASE Next
  BY <1>2, TickKeeps, ClaimKeeps, BeginKeeps, RetirePredecessorKeeps, CompileKeeps,
     CheckpointKeeps, EnterInstallKeeps, PortInstallKeeps, InstallReturnsKeeps, ReadyKeeps,
     RelayRenewsKeeps, KeeperForwardedKeeps, KeeperFailsKeeps, RenewLocalKeeps,
     RenewRemoteKeeps, ExpireSessionKeeps, ExpireCapsuleKeeps, CapsuleEndsKeeps, PublishKeeps,
     RecheckKeeps, AskCapsuleKeeps, PerformKeeps, RetireKeeps, AbandonKeeps, CleanUpKeeps,
     StopKeeps, NodeDiesKeeps DEF Next
<1> QED BY <1>1, <1>2

LEMMA AlwaysEnforced == Spec => [](IInv /\ Enforced)
<1>1. Init => IInv /\ Enforced
  BY InitIInv, InitEnforced
<1>2. IInv /\ Enforced /\ [Next]_vars => (IInv /\ Enforced)'
  BY NextIInv, NextEnforced
<1> QED BY <1>1, <1>2, PTL DEF Spec

\* A Capsule never believes in a lease longer than the one the Relay granted for
\* its fence, and once the journal holds the grant of a fence no Capsule answers
\* for an earlier one, whatever was lost and however often the Node died
\* (delivery-runtime-authority.ts:142).
THEOREM CapsulesAreFenced == Spec => []CapsuleFenced
<1>1. Enforced => CapsuleFenced
  BY DEF Enforced, CapsuleOwn, CapsuleLive, OnRecord, CapsuleFenced
<1> QED BY <1>1, AlwaysEnforced, PTL

\* Renewals reach both monitors, whenever they arrive, and never cost a healthy
\* session, and nothing moves the hard deadline (runtime-authority-session.ts:65,
\* runtime-authority.ts:267, runtime-authority-factory.ts:72).
THEOREM DeadlinesAreKept == Spec => []DeadlinesKept
<1>1. IInv /\ Enforced => ReadyCurrent
  <2> SUFFICES ASSUME IInv, Enforced,
                      node.pc \in {"ready", "evidence", "ask", "answered"}, ~ses.revoked,
                      sync.queue = <<>>
               PROVE  /\ ses.lease = lease.expires
                      /\ cap.fence = ses.fence /\ ~cap.revoked => cap.lease = lease.expires
    BY DEF ReadyCurrent
  <2>1. SessionLive
    BY DEF Enforced, OnRecord, Quiet, Held, Early, SessionLive
  <2>2. ~sync.remote
    BY DEF Enforced, Quiet
  <2> QED BY <2>1, <2>2 DEF Enforced, Sorted
<1>2. Enforced => NoSpuriousLoss /\ HardKept
  BY DEF Enforced, Hard
<1>3. IInv /\ Enforced => DeadlinesKept
  BY <1>1, <1>2 DEF DeadlinesKept
<1> QED BY <1>3, AlwaysEnforced, PTL

===============================================================================
