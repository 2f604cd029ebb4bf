----------------------------- MODULE NodeProofs -----------------------------
(***************************************************************************)
(* What is proved of the Node process: that one process owns the state     *)
(* directory (ProcessLock), and, of the delivery the owner processes        *)
(* (NodeProcessor), that no two turns of it run at once, that the journal   *)
(* is sound whenever the process may die, and that a completion outlives   *)
(* the process that observed it.                                           *)
(***************************************************************************)
EXTENDS ProcessLock, NodeProcessor, FiniteSetTheorems, TLAPS

-----------------------------------------------------------------------------
(***************************************************************************)
(* At most one process owns the state directory, for any number of         *)
(* processes, starts and deaths, and while it does the diagnostics name it. *)
(*                                                                         *)
(* The argument: the path is linked once and never changes, so every open  *)
(* descriptor is the same inode; a process has the kernel lock exactly     *)
(* while it is past tryLock; and tryLock gives it to nobody while another  *)
(* has it on that inode.                                                   *)
(***************************************************************************)

Past == {"check", "name", "recheck", "held"}

\* Every open descriptor is the file at the path.
OneInode == \A p \in Procs : fd[p] # None => fd[p] = path

\* A process that has found the file has it open, and has its lock exactly
\* when it is past tryLock.
LockedPast ==
    \A p \in Procs : /\ p \in locked <=> pc[p] \in Past
                     /\ pc[p] \in Past \cup {"scan", "confirm", "remove", "stable", "try"} => fd[p] # None

Alone == \A p, q \in locked : p = q

Named == \A p \in Procs : pc[p] \in {"recheck", "held"} => meta = p

LockInv == LockTypeOK /\ OneInode /\ LockedPast /\ Alone /\ Named

\* The initial state: no file and no owner.
LEMMA InitLockInv == LockInit => LockInv
BY LockAssumption, NoneIsNoProcess
   DEF LockInit, LockInv, LockTypeOK, OneInode, LockedPast, Alone, Named, Past, None

\* A start, and the steps that publish the file and look at it.
LEMMA OpeningStep ==
    ASSUME LockInv, NEW p \in Procs,
           Start(p) \/ Create(p) \/ Link(p) \/ Unlink(p) \/ Scan(p) \/ Remove(p)
    PROVE  LockInv'
<1> USE LockAssumption, NoneIsNoProcess
        DEF LockInv, LockTypeOK, OneInode, LockedPast, Alone, Named, Past, LockGo, None
<1>1. CASE Start(p) BY <1>1 DEF Start
<1>2. CASE Create(p) BY <1>2 DEF Create
<1>3. CASE Link(p)
  <2>1. \A q \in Procs : fd[q] # None => path # None
    BY DEF OneInode
  <2> QED BY <1>3, <2>1 DEF Link
<1>4. CASE Unlink(p) BY <1>4 DEF Unlink
<1>5. CASE Scan(p) BY <1>5 DEF Scan
<1>6. CASE Remove(p) BY <1>6 DEF Remove
<1> QED BY <1>1, <1>2, <1>3, <1>4, <1>5, <1>6

\* Opening the file gives the inode at the path.
LEMMA OpenStep ==
    ASSUME LockInv, NEW p \in Procs, OpenLockFile(p)
    PROVE  LockInv'
BY LockAssumption, NoneIsNoProcess
   DEF LockInv, LockTypeOK, OneInode, LockedPast, Alone, Named, Past, LockGo, None, OpenLockFile

\* A refusal closes the file and drops the lock.
LEMMA RefusedStep ==
    ASSUME LockInv, NEW p \in Procs, Refuse(p), UNCHANGED <<path, temps, meta, crashes>>
    PROVE  LockInv'
BY LockAssumption, NoneIsNoProcess
   DEF LockInv, LockTypeOK, OneInode, LockedPast, Alone, Named, Past, LockGo, None, Refuse

\* The checks that go on or refuse.
LEMMA CheckStep ==
    ASSUME LockInv, NEW p \in Procs, ConfirmInode(p) \/ CheckOpen(p) \/ CheckLocked(p)
    PROVE  LockInv'
<1>1. CASE Refuse(p) /\ UNCHANGED <<path, temps, meta, crashes>>
  BY <1>1, RefusedStep
<1>2. CASE ~Refuse(p)
  <2> USE LockAssumption, NoneIsNoProcess
          DEF LockInv, LockTypeOK, OneInode, LockedPast, Alone, Named, Past, LockGo, None
  <2>1. CASE ConfirmInode(p) BY <1>2, <2>1 DEF ConfirmInode
  <2>2. CASE CheckOpen(p) BY <1>2, <2>2 DEF CheckOpen
  <2>3. CASE CheckLocked(p) BY <1>2, <2>3 DEF CheckLocked
  <2> QED BY <2>1, <2>2, <2>3
<1> QED BY <1>1, <1>2 DEF ConfirmInode, CheckOpen, CheckLocked

\* tryLock succeeds only if nobody else has the lock: whoever had it would
\* have it on the same inode.
LEMMA TryStep ==
    ASSUME LockInv, NEW p \in Procs, TryLock(p)
    PROVE  LockInv'
<1>1. CASE Refuse(p)
  BY <1>1, RefusedStep DEF TryLock
<1>2. CASE ~Rival(p) /\ locked' = locked \cup {p} /\ LockGo(p, "check") /\ UNCHANGED fd
  <2>1. locked \subseteq {p}
    <3> SUFFICES ASSUME NEW q \in locked, q # p PROVE FALSE
      OBVIOUS
    <3>1. fd[q] # None /\ fd[p] # None
      BY DEF LockInv, LockTypeOK, LockedPast, TryLock, Past
    <3>2. fd[q] = fd[p]
      BY <3>1 DEF LockInv, LockTypeOK, OneInode
    <3> QED BY <1>2, <3>2 DEF Rival
  <2>2. Alone'
    BY <1>2, <2>1 DEF Alone
  <2> QED
    BY <1>2, <2>2, LockAssumption, NoneIsNoProcess
       DEF LockInv, LockTypeOK, OneInode, LockedPast, Named, Past, LockGo, None, TryLock
<1> QED BY <1>1, <1>2 DEF TryLock

\* The owner leaves its name; nobody else is past tryLock.
LEMMA OwnerStep ==
    ASSUME LockInv, NEW p \in Procs, WriteOwner(p)
    PROVE  LockInv'
<1>1. \A q \in Procs : q # p => pc[q] \notin Past
  BY DEF LockInv, LockTypeOK, LockedPast, Alone, Past, WriteOwner
<1> QED
  BY <1>1, LockAssumption, NoneIsNoProcess
     DEF LockInv, LockTypeOK, OneInode, LockedPast, Alone, Named, Past, LockGo, None, WriteOwner

\* A release and a death: the kernel drops the lock with the descriptor.
LEMMA EndStep ==
    ASSUME LockInv, NEW p \in Procs, LockRelease(p) \/ LockCrash(p)
    PROVE  LockInv'
<1> USE LockAssumption, NoneIsNoProcess
        DEF LockInv, LockTypeOK, OneInode, LockedPast, Alone, Named, Past, LockGo, None
<1>1. CASE LockRelease(p) BY <1>1 DEF LockRelease
<1>2. CASE LockCrash(p) BY <1>2 DEF LockCrash
<1> QED BY <1>1, <1>2

LEMMA NextLockInv == LockInv /\ [LockNext]_lockVars => LockInv'
<1> SUFFICES ASSUME LockInv, [LockNext]_lockVars PROVE LockInv'
  OBVIOUS
<1>1. CASE UNCHANGED lockVars
  BY <1>1 DEF lockVars, LockInv, LockTypeOK, OneInode, LockedPast, Alone, Named
<1>2. ASSUME NEW p \in Procs, Start(p) \/ Acquire(p) \/ LockRelease(p) \/ LockCrash(p)
      PROVE  LockInv'
  BY <1>2, OpeningStep, OpenStep, CheckStep, TryStep, OwnerStep, EndStep DEF Acquire
<1> QED BY <1>1, <1>2 DEF LockNext

\* IInv holds in every reachable state.
LEMMA Invariance == LockSpec => []LockInv
BY InitLockInv, NextLockInv, PTL DEF LockSpec

\* A set no two members of which differ has at most one.
LEMMA AtMostOneOwner ==
    ASSUME NEW S, \A p, q \in S : p = q
    PROVE  Cardinality(S) <= 1
<1>1. CASE S = {}
  BY <1>1, FS_EmptySet
<1>2. CASE S # {}
  <2>1. PICK p \in S : S = {p}
    BY <1>2
  <2>2. Cardinality({p}) = 1
    BY FS_Singleton
  <2> QED BY <2>1, <2>2
<1> QED BY <1>1, <1>2

\* At most one process owns the lock, for every number of starting and dying
\* processes: the publication by link never replaces the file, so all of them
\* lock the same inode.
THEOREM LockExcludes == LockSpec => []MutualExclusion
<1>1. LockInv => MutualExclusion
  BY AtMostOneOwner DEF LockInv, Alone, MutualExclusion
<1> QED BY <1>1, Invariance, PTL

\* What holds of a process that has the lock, and of one that has not.
LEMMA Holders ==
    ASSUME LockInv, NEW p \in Procs
    PROVE  /\ pc[p] \in Past => p \in locked /\ path # None
           /\ pc[p] \notin Past => locked \ {p} = locked
           /\ pc[p] = "try" => path # None
<1>1. p \in locked <=> pc[p] \in Past
  BY DEF LockInv, LockedPast
<1>2. pc[p] \in Past \cup {"try"} => fd[p] # None /\ fd[p] = path
  BY DEF LockInv, LockedPast, OneInode
<1> QED BY <1>1, <1>2

\* An end of a process or of its start gives the lock up, if it has it.
LEMMA DropStep ==
    ASSUME LockInv, NEW p \in Procs, locked' = locked \ {p}, UNCHANGED <<path, meta>>
    PROVE  [Service!Next]_(Service!vars)
BY Holders DEF Service!Next, Service!Drop, Service!vars

\* tryLock takes the lock when nobody has it.
LEMMA TakeStep ==
    ASSUME LockInv, NEW p \in Procs, TryLock(p)
    PROVE  [Service!Next]_(Service!vars)
<1>1. CASE Refuse(p)
  BY <1>1, DropStep DEF TryLock, Refuse
<1>2. CASE ~Rival(p) /\ locked' = locked \cup {p}
  <2>1. locked = {}
    <3> SUFFICES ASSUME NEW q \in locked PROVE FALSE
      OBVIOUS
    <3>1. q # p
      BY DEF LockInv, LockTypeOK, LockedPast, TryLock, Past
    <3>2. fd[q] = fd[p]
      BY DEF LockInv, LockTypeOK, OneInode, LockedPast, TryLock, Past
    <3> QED BY <1>2, <3>1, <3>2 DEF Rival
  <2>2. path # None
    BY Holders DEF TryLock
  <2> QED BY <1>2, <2>1, <2>2 DEF TryLock, Service!Next, Service!Take, Service!vars
<1> QED BY <1>1, <1>2 DEF TryLock

\* The steps that neither take nor give up the lock.
LEMMA OtherStep ==
    ASSUME LockInv, NEW p \in Procs,
           \/ Start(p) \/ OpenLockFile(p) \/ Create(p) \/ Link(p) \/ Unlink(p)
           \/ Scan(p) \/ Remove(p) \/ WriteOwner(p)
    PROVE  [Service!Next]_(Service!vars)
<1>1. CASE Link(p)
  BY <1>1 DEF Link, Service!Next, Service!Publish, Service!vars
<1>2. CASE WriteOwner(p)
  <2>1. p \in locked
    BY <1>2, Holders DEF WriteOwner, Past
  <2> QED BY <1>2, <2>1 DEF WriteOwner, Service!Next, Service!Sign, Service!vars
<1>3. CASE ~Link(p) /\ ~WriteOwner(p)
  BY <1>3 DEF Start, OpenLockFile, Create, Unlink, Scan, Remove, Service!vars
<1> QED BY <1>1, <1>2, <1>3

\* The checks of an opened and of a locked file go on or refuse.
LEMMA LookStep ==
    ASSUME LockInv, NEW p \in Procs, ConfirmInode(p) \/ CheckOpen(p) \/ CheckLocked(p)
    PROVE  [Service!Next]_(Service!vars)
<1>1. CASE Refuse(p)
  BY <1>1, DropStep DEF ConfirmInode, CheckOpen, CheckLocked, Refuse
<1>2. CASE ~Refuse(p)
  BY <1>2 DEF ConfirmInode, CheckOpen, CheckLocked, Service!vars
<1> QED BY <1>1, <1>2

\* The lock of the file system calls implements the promised one: the file is
\* published once, the lock is taken by one process at a time and only its
\* holder signs the diagnostics, for every number of starts and deaths.
THEOREM LockImplementsOwnership == LockSpec => OwnershipKept
<1>1. LockInit => Service!Init
  BY DEF LockInit, Service!Init
<1>2. LockInv /\ [LockNext]_lockVars => [Service!Next]_(Service!vars)
  <2> SUFFICES ASSUME LockInv, [LockNext]_lockVars PROVE [Service!Next]_(Service!vars)
    OBVIOUS
  <2>1. CASE UNCHANGED lockVars
    BY <2>1 DEF lockVars, Service!vars
  <2>2. ASSUME NEW p \in Procs, LockRelease(p) \/ LockCrash(p)
        PROVE  [Service!Next]_(Service!vars)
    BY <2>2, DropStep DEF LockRelease, LockCrash
  <2>3. ASSUME NEW p \in Procs, Start(p) \/ Acquire(p)
        PROVE  [Service!Next]_(Service!vars)
    BY <2>3, TakeStep, OtherStep, LookStep DEF Acquire
  <2> QED BY <2>1, <2>2, <2>3 DEF LockNext
<1> QED BY <1>1, <1>2, Invariance, PTL DEF LockSpec, OwnershipKept, Service!Spec

\* While a process owns the lock the diagnostics file names it, and no start
\* that is refused has written there.
THEOREM LockNamesOwner == LockSpec => []OwnerNamed
<1>1. LockInv => OwnerNamed
  BY DEF LockInv, Named, OwnerNamed
<1> QED BY <1>1, Invariance, PTL

\* The state of the file system and of the processes keeps its type.
THEOREM LockTypesHold == LockSpec => []LockTypeOK
<1>1. LockInv => LockTypeOK
  BY DEF LockInv
<1> QED BY <1>1, Invariance, PTL
-----------------------------------------------------------------------------
-----------------------------------------------------------------------------
(* The delivery processor: its invariant *)

\* The types of the state.
Statuses == {"stored"} \cup Held \cup Closed
OpRow == [kind : Kinds, key : Nat, token : Tokens, class : {"none", "denied", "transient"}]
EntryRow ==
    [known : BOOLEAN, status : Statuses, token : Tokens, phase : Phases, claims : Nat,
     renews : Nat, op : OpRow, attempt : Attempts, input : 0..MaxInputs,
     events : {"none", "accepted"} \cup Outcomes, result : Tokens, grant : Tokens,
     predecessor : Tokens, history : SUBSET Attempts]
RelayRow == [status : Statuses, token : Tokens, lapsed : BOOLEAN, due : BOOLEAN, result : Tokens]
ReceiptRow == [kind : Kinds, key : Nat, status : Statuses, token : Tokens]
AnswerRow ==
    [result : {"none", "ok", "replayed", "refused", "later"}, status : Statuses \cup {"none"},
     token : Tokens]
MainRow ==
    [at : Labels, answer : AnswerRow, round : Nat, reclaim : BOOLEAN, replay : BOOLEAN,
     authority : Tokens]
TurnRow == [state : {"none", "running"} \cup Outcomes, input : 0..MaxInputs, starts : Nat]
KeeperSteps == {"off", "waiting", "intended", "renewed", "lost", "error"}

JournalShape == entry \in EntryRow /\ refused \in BOOLEAN
RelayShape == relay \in RelayRow /\ receipts \subseteq ReceiptRow /\ mission \in BOOLEAN
ProcessShape ==
    /\ main \in MainRow /\ keeper \in KeeperSteps /\ capsule \subseteq Tokens
    /\ host \in [Attempts -> TurnRow] /\ version \in 1..MaxInputs /\ faults \in 0..MaxFaults
NodeShape == JournalShape /\ RelayShape /\ ProcessShape

\* The receipts of an operation.
Kept(kind, key) == {r \in receipts : r.kind = kind /\ r.key = key}

\* Where the journal is with the delivery: given up or done, its lease lost, or
\* with a lease to work under.
Over(e) == e.phase \in TerminalPhases
Lost(e) == e.phase = "lease_lost"
HasLease(e) == e.token # 0 /\ ~Lost(e) /\ ~Over(e)

\* What the Relay's receipts say of its row: a start or a release is about a
\* fence that was granted, a released fence is not held any more, a leased row
\* was not started under its fence, and only a completion acknowledges.
ReceiptsSound ==
    \A r \in receipts :
        /\ r.kind = "claim" => r.status \in {"leased", "dead_lettered"}
        /\ r.kind = "start" => r.status = "executing" /\ r.token = r.key /\ r.key \in 1..relay.token
        /\ r.kind = "renew" => /\ r.status \in Held
                               /\ r.status = "executing" => Kept("start", r.token) # {}
        /\ r.kind = "complete" =>
              r.status = "acknowledged" /\ r.token = 0 /\ relay.status = "acknowledged"
        /\ r.kind = "release" =>
              /\ r.status \in {"stored", "dead_lettered"} /\ r.token = 0
              /\ r.key \in 1..relay.token
              /\ r.status = "stored" => r.key < MaxAttempts
              /\ r.key = relay.token => relay.status \notin Held
RowSound ==
    /\ relay.status \in Held => relay.token # 0
    /\ relay.status = "executing" => Kept("start", relay.token) # {}
    /\ relay.status = "leased" => Kept("start", relay.token) = {}
RelaySound == ReceiptsSound /\ RowSound

\* The intent a journal holds, and what a receipt of it can say.
ClaimPends(e) ==
    e.op.kind = "claim" =>
        /\ e.op.key = e.claims /\ e.phase = "claim_intent"
        /\ \A r \in Kept("claim", e.op.key) : r.status = "leased" =>
              /\ r.token = relay.token /\ r.token # 0
              /\ relay.status \in {"leased", "cancelled"}
              /\ e.attempt <= r.token
              /\ Kept("release", r.token) = {}
StartPends(e) ==
    e.op.kind = "start" =>
        e.op.key = e.token /\ e.op.token = e.token /\ e.token # 0 /\ e.phase = "start_intent"
RenewPends(e) ==
    e.op.kind = "renew" =>
        /\ e.op.key = e.renews /\ e.op.token = e.token /\ HasLease(e)
        /\ \A r \in Kept("renew", e.op.key) : r.token = e.token
CompletePends(e) ==
    e.op.kind = "complete" =>
        /\ e.op.key = e.token /\ e.op.token = e.token /\ e.token # 0
        /\ e.status = "executing" /\ e.phase = "complete_intent" /\ e.result = e.attempt
ReleasePends(e) ==
    e.op.kind = "release" =>
        /\ e.op.key = e.op.token /\ e.op.token # 0 /\ e.phase = "release_intent"
        /\ e.attempt <= e.op.token
        /\ e.token \in {0, e.op.token}
        /\ e.op.class = "transient" => e.events \in {"transient", "cancelled"}
        /\ e.op.class # "transient" => \A r \in Kept("release", e.op.key) : r.status # "stored"
        /\ relay.status \in Held => relay.token = e.op.token
Pending(e) ==
    /\ e.op.kind = "none" => e.op = NoIntent
    /\ ClaimPends(e) /\ StartPends(e) /\ RenewPends(e) /\ CompletePends(e) /\ ReleasePends(e)
    /\ Over(e) => e.op.kind = "none"

\* Keys of claims and renewals are not used twice.
KeysOf(e) ==
    \A r \in receipts : /\ r.kind = "claim" => r.key <= e.claims
                        /\ r.kind = "renew" => r.key <= e.renews

\* The lease the journal holds: it was granted, what is executing was started
\* under it, and an attempt is never older than the fence it runs under.
LeaseOf(e) ==
    /\ e.token <= relay.token
    /\ e.grant <= relay.token
    /\ e.status \in Held <=> e.token # 0
    /\ e.status = "executing" => Kept("start", e.token) # {}
    /\ e.token # 0 => e.attempt <= e.token
    /\ e.attempt <= relay.token + 1
    /\ relay.status \in Held => e.attempt <= relay.token
    /\ e.status \in Closed => Over(e)

\* It is the Relay's, until a claim the Relay has granted is journaled ...
Granting(e) == e.op.kind = "claim" /\ \E r \in Kept("claim", e.op.key) : r.status = "leased"
SameLease(e) ==
    e.token # 0 /\ relay.status \in Held => e.token = relay.token \/ Granting(e)

\* ... and is given back only by a release whose intent is still journaled.
GivenBack(e) ==
    relay.status = "stored" /\ e.token # 0 =>
        e.op.kind = "release" /\ e.op.token = e.token /\ Kept("release", e.op.key) # {}
NotReleased(e) ==
    HasLease(e) /\ e.op.kind \notin {"release", "claim"} => Kept("release", e.token) = {}
Fenced(e) == KeysOf(e) /\ LeaseOf(e) /\ SameLease(e) /\ GivenBack(e) /\ NotReleased(e)

\* Attempts are started once and in order, none while another one runs, and the
\* journaled events and result are those of the current one.
TurnsOf(e) ==
    /\ \A a \in Attempts :
          /\ host[a].state = "none" <=> host[a].starts = 0
          /\ host[a].starts <= 1
          /\ host[a].starts = 1 => host[a].input # 0
          /\ a > e.attempt => host[a].state = "none"
          /\ host[a].state = "running" => a = e.attempt
    /\ host[e.attempt].starts = 1 => host[e.attempt].input = e.input
    /\ e.events \in Outcomes => host[e.attempt].state = e.events
    /\ e.result # 0 => e.result = e.attempt /\ e.events = "completed"

\* The grants the Capsule holds are journaled.
GrantsOf(e) ==
    /\ capsule \subseteq {e.grant, e.predecessor}
    /\ 0 \notin capsule
    /\ ~Port => e.grant = 0 /\ e.predecessor = 0

\* An acknowledged row is remembered by the intent or by the acknowledgement.
CompletionOf(e) ==
    relay.status = "acknowledged" =>
        /\ \/ e.op.kind = "complete" /\ Kept("complete", e.op.key) # {}
           \/ e.phase = "acknowledged"
        /\ relay.result = e.attempt
        /\ host[e.attempt].state = "completed"

\* Nothing has happened to a delivery the Node has not seen.
UnseenOf(e) ==
    ~e.known =>
        /\ e = NewEntry /\ relay.token = 0 /\ receipts = {}
        /\ relay.status \in {"stored", "cancelled"}
        /\ \A a \in Attempts : host[a].state = "none"

SavesSound == Acceptable(entry) /\ ~refused

JournalFits(e) ==
    Pending(e) /\ Fenced(e) /\ TurnsOf(e) /\ GrantsOf(e) /\ CompletionOf(e) /\ UnseenOf(e)

\* What process() may rely on at each of its steps.
Leasing == {"none", "renew"}
Executes(e) == e.status = "executing"
Replays == entry.op.kind = "complete" /\ main.replay

KeeperSound ==
    /\ keeper # "off" =>
          /\ main.at \in {"install", "checkpoint", "attach", "input", "lookup", "stream", "settle"}
          /\ entry.op.kind \in Leasing
    /\ keeper = "waiting" => entry.op.kind = "none"
    /\ keeper \in {"intended", "renewed"} => entry.op.kind = "renew"

Leases ==
    /\ main.at = "claim" => entry.op.kind \in {"none", "claim"}
    /\ main.at = "start" => entry.op.kind = "start" \/ (entry.op.kind = "none" /\ HasLease(entry))
    /\ main.at = "renew" => entry.op.kind = "renew" \/ (entry.op.kind = "none" /\ HasLease(entry))
    /\ main.at = "authorize" => (Replays /\ Port) \/ (entry.op.kind = "none" /\ HasLease(entry))
    /\ main.at \in {"confirm", "confirmed"} =>
          entry.op.kind = "none" /\ HasLease(entry) /\ main.round # 0

Installs ==
    /\ main.at \in {"install", "checkpoint", "attach"} =>
          /\ Executes(entry)
          /\ \/ Replays
             \/ /\ entry.op.kind \in Leasing /\ HasLease(entry)
                /\ keeper = "off" => entry.result # 0 /\ entry.op.kind = "none"
    /\ main.at = "checkpoint" => entry.predecessor \notin capsule
    /\ main.at \in {"install", "checkpoint", "attach"} => Port
    /\ main.at = "attach" => entry.grant = entry.token /\ entry.predecessor = 0

Runs ==
    /\ main.at \in {"input", "lookup", "stream", "settle"} =>
          /\ entry.op.kind \in Leasing /\ HasLease(entry) /\ Executes(entry)
          /\ entry.predecessor = 0 /\ keeper # "off"
    /\ main.at \in {"lookup", "stream", "settle"} => entry.input # 0
    /\ main.at \in {"stream", "settle"} => host[entry.attempt].state # "none"
    /\ main.at = "settle" => entry.events \in Outcomes

Completes ==
    /\ main.at = "complete" =>
          /\ entry.op.kind = "none" /\ entry.result # 0 /\ Executes(entry) /\ HasLease(entry)
          /\ entry.predecessor = 0
    /\ main.at = "publish" =>
          /\ entry.op.kind = "complete" /\ entry.predecessor = 0
          /\ main.answer = NoAnswer /\ ~main.replay => relay.status # "acknowledged"

Releases ==
    /\ main.at \in {"release_denied", "release_transient"} =>
          entry.op.kind \in Leasing /\ HasLease(entry)
    /\ main.at = "release_transient" => entry.events \in {"transient", "cancelled"}
    /\ main.at \in {"retire", "clear"} =>
          \/ main.answer = NoAnswer /\ (Over(entry) \/ entry.op.kind = "release")
          \/ entry.op.kind = "claim" /\ Accepted /\ main.answer.status # "leased"
    /\ main.at = "clear" => capsule = {}
    /\ main.at = "publish_release" =>
          entry.op.kind = "release" /\ entry.grant = 0 /\ entry.predecessor = 0

Quiet == {"idle", "down"}
Ends ==
    /\ main.at \notin Quiet => entry.known
    /\ main.at = "abandon" => entry.op.kind = "none" /\ entry.phase = "dead_lettered"
    /\ Over(entry) => main.at \in Quiet \cup {"dispatch", "retire", "clear", "abandon"}

\* The answer process() holds is about the journaled intent: a receipt that is
\* still there, or a refusal that left none.
AnswersSound ==
    main.answer # NoAnswer =>
        /\ main.at \in {"claim", "start", "renew", "publish", "publish_release", "retire", "clear"}
        /\ main.at \in {"claim", "start", "renew"} => entry.op.kind = main.at
        /\ Accepted => Receipt(entry.op, main.answer) \in receipts
        /\ ~Accepted => /\ relay.status = "cancelled" \/ Stored(entry.op) = {}
                        /\ main.answer = Refusal \/ (entry.op.kind = "claim" /\ entry.token = 0)

ProcessFits ==
    KeeperSound /\ Leases /\ Installs /\ Runs /\ Completes /\ Releases /\ Ends /\ AnswersSound

NodeInv == NodeShape /\ RelaySound /\ SavesSound /\ JournalFits(entry) /\ ProcessFits

-----------------------------------------------------------------------------
(* Frames *)

\* What the assumption on the constants gives.
LEMMA NodeBounds ==
    /\ MaxAttempts \in Nat \ {0} /\ MaxInputs \in Nat \ {0} /\ MaxFaults \in Nat
    /\ Rounds \in Nat /\ MaxRenewals \in Nat /\ Port \in BOOLEAN
    /\ 0 \in Tokens /\ Attempts \subseteq Tokens
<1>1. MaxAttempts \in Nat \ {0} /\ MaxInputs \in Nat \ {0} /\ Port \in BOOLEAN
  BY ProcessorAssumption
<1>2. MaxFaults \in Nat /\ Rounds \in Nat /\ MaxRenewals \in Nat
  BY ProcessorAssumption
<1> QED
  BY <1>1, <1>2 DEF Tokens, Attempts

\* Intents, answers and the locals of a pass have their fields.
LEMMA Fields ==
    /\ NoIntent \in OpRow /\ NoIntent.kind = "none" /\ NoIntent.token = 0 /\ NoIntent.key = 0
    /\ \A k \in Kinds, n \in Nat, t \in Tokens, c \in {"none", "denied", "transient"} :
          /\ Intent(k, n, t, c) \in OpRow
          /\ Intent(k, n, t, c).kind = k /\ Intent(k, n, t, c).key = n
          /\ Intent(k, n, t, c).token = t /\ Intent(k, n, t, c).class = c
    /\ NoAnswer \in AnswerRow /\ NoAnswer.result = "none"
    /\ Refusal \in AnswerRow /\ Refusal.result = "refused" /\ Refusal # NoAnswer
    /\ \A l \in Labels :
          /\ At(l) \in MainRow /\ At(l).at = l /\ At(l).answer = NoAnswer /\ At(l).round = 0
          /\ ~At(l).reclaim /\ ~At(l).replay
<1>1. \A k \in Kinds, n \in Nat, t \in Tokens, c \in {"none", "denied", "transient"} :
          /\ Intent(k, n, t, c) \in OpRow
          /\ Intent(k, n, t, c).kind = k /\ Intent(k, n, t, c).key = n
          /\ Intent(k, n, t, c).token = t /\ Intent(k, n, t, c).class = c
  BY DEF Intent, OpRow
<1>2. NoIntent \in OpRow /\ NoIntent.kind = "none" /\ NoIntent.token = 0 /\ NoIntent.key = 0
  BY <1>1, NodeBounds DEF NoIntent, Kinds
<1>3. /\ NoAnswer \in AnswerRow /\ NoAnswer.result = "none"
      /\ Refusal \in AnswerRow /\ Refusal.result = "refused" /\ Refusal # NoAnswer
  BY NodeBounds DEF NoAnswer, Refusal, Answer, AnswerRow, Statuses
<1>4. \A l \in Labels :
          /\ At(l) \in MainRow /\ At(l).at = l /\ At(l).answer = NoAnswer /\ At(l).round = 0
          /\ ~At(l).reclaim /\ ~At(l).replay
  BY <1>3, NodeBounds DEF At, MainRow
<1> QED
  BY <1>1, <1>2, <1>3, <1>4

\* The schema accepts the entry: it is saved.
LEMMA Saved ==
    ASSUME NEW f, Acceptable(f), ~refused, Save(f)
    PROVE  entry' = f /\ ~refused'
BY DEF Save

\* Two entries that agree on parts of the delivery.
SameWork(e, f) ==
    /\ f.known = e.known /\ f.attempt = e.attempt /\ f.input = e.input
    /\ f.events = e.events /\ f.result = e.result /\ f.history = e.history
SameFence(e, f) == f.status = e.status /\ f.token = e.token
SameGrants(e, f) == f.grant = e.grant /\ f.predecessor = e.predecessor
SameKeys(e, f) == f.claims = e.claims /\ f.renews = e.renews
SameIntent(e, f) == f.op = e.op /\ f.phase = e.phase

\* The turns are judged by the attempt and its evidence only.
LEMMA TurnsSame ==
    ASSUME NEW e, NEW f, TurnsOf(e), SameWork(e, f)
    PROVE  TurnsOf(f)
BY DEF TurnsOf, SameWork

\* The same for the grants.
LEMMA GrantsSame ==
    ASSUME NEW e, NEW f, GrantsOf(e), SameGrants(e, f)
    PROVE  GrantsOf(f)
BY DEF GrantsOf, SameGrants

\* The lease and the intent fit after a save, when the Relay does nothing.
LEMMA FencedAfter ==
    ASSUME NEW f \in EntryRow, entry' = f, UNCHANGED <<relay, receipts>>, Pending(f), Fenced(f)
    PROVE  Pending(entry)' /\ Fenced(entry)'
<1>1. Pending(entry)'
  BY DEF Pending, ClaimPends, StartPends, RenewPends, CompletePends, ReleasePends, Kept, HasLease, Lost,
         Over
<1>2. Fenced(entry)'
  BY DEF Fenced, KeysOf, LeaseOf, SameLease, Granting, GivenBack, NotReleased, Kept, HasLease, Lost, Over
<1> QED
  BY <1>1, <1>2

\* A turn that is cancelled stops running, and nothing else changes.
LEMMA CancelledTurn ==
    ASSUME NEW b \in Attempts, host \in [Attempts -> TurnRow],
           host' = [host EXCEPT ![b].state = IF @ = "running" THEN "cancelled" ELSE @]
    PROVE  /\ host' \in [Attempts -> TurnRow]
           /\ \A a \in Attempts :
                 /\ a # b => host'[a] = host[a]
                 /\ host'[a].starts = host[a].starts /\ host'[a].input = host[a].input
                 /\ host'[a].state # host[a].state =>
                       host[a].state = "running" /\ host'[a].state = "cancelled"
                 /\ host'[a].state # "running" \/ a # b
<1>1. \A a \in Attempts : host[a] \in TurnRow
  OBVIOUS
<1>2. [host[b] EXCEPT !.state = IF @ = "running" THEN "cancelled" ELSE @] \in TurnRow
  BY <1>1 DEF TurnRow, Outcomes
<1>3. host' \in [Attempts -> TurnRow]
  BY <1>2
<1> QED
  BY <1>3 DEF TurnRow

\* So do the turns, when one of them may be cancelled.
LEMMA TurnsAfter ==
    ASSUME NEW f \in EntryRow, NodeShape, entry' = f, TurnsOf(f),
           host' = host \/ (f.attempt = entry.attempt /\ TryCancel)
    PROVE  /\ TurnsOf(entry)'
           /\ host' \in [Attempts -> TurnRow]
           /\ \A a \in Attempts : host[a].state # "running" => host'[a].state = host[a].state
           /\ \A a \in Attempts : host[a].state # "none" => host'[a].state # "none"
<1>1. f.attempt \in Attempts /\ host \in [Attempts -> TurnRow]
  BY DEF EntryRow, NodeShape, ProcessShape
<1>2. CASE host' = host
  <2>1. TurnsOf(entry)'
    BY <1>2 DEF TurnsOf
  <2> QED
    BY <1>1, <1>2, <2>1
<1>3. CASE host' # host
  <2>1. host' = [host EXCEPT ![f.attempt].state = IF @ = "running" THEN "cancelled" ELSE @]
    BY <1>3 DEF TryCancel, Cancelled
  <2>2. /\ host' \in [Attempts -> TurnRow]
        /\ \A a \in Attempts :
              /\ a # f.attempt => host'[a] = host[a]
              /\ host'[a].starts = host[a].starts /\ host'[a].input = host[a].input
              /\ host'[a].state # host[a].state =>
                    host[a].state = "running" /\ host'[a].state = "cancelled"
              /\ host'[a].state # "running" \/ a # f.attempt
    BY <1>1, <2>1, CancelledTurn
  <2>3. TurnsOf(entry)'
    BY <1>1, <2>2 DEF TurnsOf, Outcomes
  <2> QED
    BY <2>2, <2>3
<1> QED
  BY <1>2, <1>3

\* The journal fits the state after a save, when nothing else changes but for
\* a turn that is cancelled and a grant that is withdrawn.
LEMMA FitsAfter ==
    ASSUME NEW f \in EntryRow, NodeShape, entry' = f, UNCHANGED <<relay, receipts>>,
           JournalFits(f),
           host' = host \/ (f.attempt = entry.attempt /\ TryCancel)
    PROVE  /\ Pending(entry)' /\ Fenced(entry)' /\ TurnsOf(entry)' /\ CompletionOf(entry)'
           /\ UnseenOf(entry)'
           /\ capsule' \subseteq capsule => GrantsOf(entry)'
<1>0. Pending(f) /\ Fenced(f) /\ TurnsOf(f) /\ CompletionOf(f) /\ UnseenOf(f) /\ GrantsOf(f)
  BY DEF JournalFits
<1>1. Pending(entry)' /\ Fenced(entry)'
  BY <1>0, FencedAfter
<1>2. /\ TurnsOf(entry)'
      /\ \A a \in Attempts : host[a].state # "running" => host'[a].state = host[a].state
  BY <1>0, TurnsAfter
<1>3. /\ \A a \in Attempts : host[a].state # "running" => host'[a].state = host[a].state
      /\ f.attempt \in Attempts
  <2>1. f.attempt \in Attempts
    BY DEF EntryRow
  <2> QED
    BY <1>2, <2>1, Zenon
<1>4. CompletionOf(entry)'
  BY <1>0, <1>3 DEF CompletionOf, Kept
<1>5. UnseenOf(entry)'
  BY <1>0, <1>3 DEF UnseenOf
<1>6. capsule' \subseteq capsule => GrantsOf(entry)'
  BY <1>0 DEF GrantsOf
<1> QED
  BY <1>1, <1>2, <1>4, <1>5, <1>6

-----------------------------------------------------------------------------
(* What a save does to the journal *)

Fit(f) == f \in EntryRow /\ Acceptable(f) /\ JournalFits(f)

\* No intent is pending whose outcome the journal would have to remember.
Free(e) ==
    /\ relay.status = "stored" => e.token = 0
    /\ relay.status \in Held /\ e.token # 0 => e.token = relay.token
    /\ relay.status = "acknowledged" => e.phase = "acknowledged"

\* A start or a renewal may be dropped; a completion the Relay has not taken, a
\* claim it has not granted and a release it has not stored may be, too.
LEMMA Droppable ==
    ASSUME NEW e \in EntryRow, Fit(e), RelayShape,
           \/ e.op.kind \in {"none", "start", "renew"}
           \/ e.op.kind = "complete" /\ (relay.status # "acknowledged" \/ Kept("complete", e.op.key) = {})
           \/ e.op.kind \in {"claim", "release"} /\ Kept(e.op.kind, e.op.key) = {}
           \/ relay.status = "cancelled"
    PROVE  Free(e)
<1>1. relay.status = "stored" => e.token = 0
  BY DEF Fit, JournalFits, Fenced, GivenBack
<1>2. relay.status \in Held /\ e.token # 0 => e.token = relay.token
  BY DEF Fit, JournalFits, Fenced, SameLease, Granting, Held
<1>3. relay.status = "acknowledged" => e.phase = "acknowledged"
  BY DEF Fit, JournalFits, CompletionOf
<1> QED
  BY <1>1, <1>2, <1>3 DEF Free

\* The intent is dropped with the lease ...
LEMMA LostOK ==
    ASSUME NEW e \in EntryRow, Fit(e), e.known, RelayShape, Free(e), ~Over(e)
    PROVE  Fit(MarkLeaseLost(e))
<1> DEFINE f == MarkLeaseLost(e)
<1>1. /\ f \in EntryRow /\ f.phase = "lease_lost" /\ f.op = NoIntent
      /\ SameWork(e, f) /\ SameFence(e, f) /\ SameGrants(e, f) /\ SameKeys(e, f)
  BY Fields DEF MarkLeaseLost, EntryRow, Phases, SameWork, SameFence, SameGrants, SameKeys
<1> HIDE DEF f
<1>2. Acceptable(f)
  BY <1>1 DEF Fit, Acceptable, PredecessorValid, SameWork, SameFence, SameGrants
<1>3. Pending(f)
  BY <1>1, Fields
  DEF Pending, ClaimPends, StartPends, RenewPends, CompletePends, ReleasePends, Over, TerminalPhases
<1>4. Fenced(f)
  <2>1. Fenced(e) BY DEF Fit, JournalFits
  <2> QED
    BY <1>1, <2>1, Fields
    DEF Fenced, KeysOf, LeaseOf, SameLease, GivenBack, NotReleased, HasLease, Lost, Free, SameWork,
        SameFence, SameGrants, SameKeys, Over
<1>5. TurnsOf(f) /\ GrantsOf(f)
  BY <1>1, TurnsSame, GrantsSame DEF Fit, JournalFits
<1>6. CompletionOf(f) /\ UnseenOf(f)
  BY <1>1 DEF CompletionOf, UnseenOf, Free, Over, SameWork, TerminalPhases
<1>20. Fit(f)
  BY <1>1, <1>2, <1>3, <1>4, <1>5, <1>6 DEF Fit, JournalFits
<1> QED
  BY <1>20 DEF f

\* ... or with the authority over the work.
LEMMA AuthorityLostOK ==
    ASSUME NEW e \in EntryRow, Fit(e), e.known, RelayShape, Free(e), e.phase # "acknowledged"
    PROVE  Fit(MarkAuthorityLost(e))
<1> DEFINE f == MarkAuthorityLost(e)
<1>1. /\ f \in EntryRow /\ f.phase = "authority_lost" /\ f.op = NoIntent
      /\ SameWork(e, f) /\ SameFence(e, f) /\ SameGrants(e, f) /\ SameKeys(e, f)
  BY Fields DEF MarkAuthorityLost, EntryRow, Phases, SameWork, SameFence, SameGrants, SameKeys
<1> HIDE DEF f
<1>2. Acceptable(f)
  BY <1>1 DEF Fit, Acceptable, PredecessorValid, SameWork, SameFence, SameGrants
<1>3. Pending(f)
  BY <1>1, Fields
  DEF Pending, ClaimPends, StartPends, RenewPends, CompletePends, ReleasePends, Over, TerminalPhases
<1>4. Fenced(f)
  <2>1. Fenced(e) BY DEF Fit, JournalFits
  <2> QED
    BY <1>1, <2>1, Fields
    DEF Fenced, KeysOf, LeaseOf, SameLease, GivenBack, NotReleased, HasLease, Lost, Free, SameWork,
        SameFence, SameGrants, SameKeys, Over, TerminalPhases
<1>5. TurnsOf(f) /\ GrantsOf(f)
  BY <1>1, TurnsSame, GrantsSame DEF Fit, JournalFits
<1>6. CompletionOf(f) /\ UnseenOf(f)
  BY <1>1 DEF CompletionOf, UnseenOf, Free, Over, SameWork, TerminalPhases
<1>20. Fit(f)
  BY <1>1, <1>2, <1>3, <1>4, <1>5, <1>6 DEF Fit, JournalFits
<1> QED
  BY <1>20 DEF f

\* A retained completion is the one that is journaled.
LEMMA RetainOK ==
    ASSUME NEW e \in EntryRow, Fit(e), e.op.kind = "complete"
    PROVE  Retain(e) = e
BY DEF Fit, JournalFits, Pending, CompletePends, Retain, EntryRow

\* A claim gets a key no request has had.
LEMMA ClaimIntentOK ==
    ASSUME NEW e \in EntryRow, Fit(e), e.known, RelayShape, e.op.kind = "none", ~Over(e)
    PROVE  Fit(ClaimIntent(e))
<1> DEFINE f == ClaimIntent(e)
           n == e.claims + 1
<1>0. n \in Nat /\ "claim" \in Kinds /\ Free(e)
  BY Droppable DEF EntryRow, Kinds
<1>1. /\ f \in EntryRow /\ f.phase = "claim_intent" /\ f.op = Intent("claim", n, 0, "none")
      /\ f.claims = n /\ f.renews = e.renews
      /\ SameWork(e, f) /\ SameFence(e, f) /\ SameGrants(e, f)
  BY <1>0, Fields, NodeBounds DEF ClaimIntent, EntryRow, Phases, SameWork, SameFence, SameGrants
<1>2. f.op.kind = "claim" /\ f.op.key = n
  BY <1>0, <1>1, Fields, NodeBounds
<1>3. Fenced(e) /\ KeysOf(e) BY DEF Fit, JournalFits, Fenced
<1>4. Kept("claim", n) = {}
  BY <1>3 DEF Kept, KeysOf, RelayShape, ReceiptRow, EntryRow
<1>5. KeysOf(f)
  BY <1>1, <1>3 DEF KeysOf, RelayShape, ReceiptRow, EntryRow
<1> HIDE DEF f, n
<1>6. Acceptable(f)
  BY <1>1 DEF Fit, Acceptable, PredecessorValid, SameWork, SameFence, SameGrants
<1>7. Pending(f)
  BY <1>1, <1>2, <1>4
  DEF Pending, ClaimPends, StartPends, RenewPends, CompletePends, ReleasePends, Over, TerminalPhases
<1>8. Fenced(f)
  BY <1>0, <1>1, <1>2, <1>3, <1>5
  DEF Fenced, LeaseOf, SameLease, GivenBack, NotReleased, HasLease, Lost, Free, SameWork,
      SameFence, SameGrants, Over, TerminalPhases
<1>9. TurnsOf(f) /\ GrantsOf(f)
  BY <1>1, TurnsSame, GrantsSame DEF Fit, JournalFits
<1>10. CompletionOf(f) /\ UnseenOf(f)
  BY <1>0, <1>1 DEF CompletionOf, UnseenOf, Free, Over, SameWork, TerminalPhases
<1>20. Fit(f)
  BY <1>1, <1>6, <1>7, <1>8, <1>9, <1>10 DEF Fit, JournalFits
<1> QED
  BY <1>20 DEF f

\* A start uses the fence as its key; no release under it has been served.
LEMMA StartIntentOK ==
    ASSUME NEW e \in EntryRow, Fit(e), e.known, RelayShape, e.op.kind = "none", HasLease(e)
    PROVE  Fit(StartIntent(e))
<1> DEFINE f == StartIntent(e)
<1>0. e.token \in Nat /\ e.token \in Tokens /\ "start" \in Kinds /\ Free(e)
  BY Droppable, NodeBounds DEF EntryRow, Kinds, Tokens
<1>1. /\ f \in EntryRow /\ f.phase = "start_intent" /\ f.op = Intent("start", e.token, e.token, "none")
      /\ SameWork(e, f) /\ SameFence(e, f) /\ SameGrants(e, f) /\ SameKeys(e, f)
  BY <1>0, Fields, NodeBounds
  DEF StartIntent, EntryRow, Phases, SameWork, SameFence, SameGrants, SameKeys
<1>2. f.op.kind = "start" /\ f.op.key = e.token /\ f.op.token = e.token
  BY <1>0, <1>1, Fields
<1>3. Fenced(e) BY DEF Fit, JournalFits
<1> HIDE DEF f
<1>6. Acceptable(f)
  BY <1>1 DEF Fit, Acceptable, PredecessorValid, SameWork, SameFence, SameGrants
<1>7. Pending(f)
  BY <1>1, <1>2
  DEF Pending, ClaimPends, StartPends, RenewPends, CompletePends, ReleasePends, Over, TerminalPhases,
      HasLease, SameFence
<1>8. Fenced(f)
  BY <1>0, <1>1, <1>2, <1>3
  DEF Fenced, KeysOf, LeaseOf, SameLease, GivenBack, NotReleased, HasLease, Lost, Free, SameWork,
      SameFence, SameGrants, SameKeys, Over, TerminalPhases
<1>9. TurnsOf(f) /\ GrantsOf(f)
  BY <1>1, TurnsSame, GrantsSame DEF Fit, JournalFits
<1>10. CompletionOf(f) /\ UnseenOf(f)
  BY <1>0, <1>1 DEF CompletionOf, UnseenOf, Free, HasLease, Over, SameWork, TerminalPhases
<1>20. Fit(f)
  BY <1>1, <1>6, <1>7, <1>8, <1>9, <1>10 DEF Fit, JournalFits
<1> QED
  BY <1>20 DEF f

\* A renewal gets a key no request has had.
LEMMA RenewIntentOK ==
    ASSUME NEW e \in EntryRow, Fit(e), e.known, RelayShape, e.op.kind = "none", HasLease(e)
    PROVE  Fit(RenewIntent(e))
<1> DEFINE f == RenewIntent(e)
           n == e.renews + 1
<1>0. n \in Nat /\ "renew" \in Kinds /\ Free(e) /\ e.token \in Tokens
  BY Droppable DEF EntryRow, Kinds
<1>1. /\ f \in EntryRow /\ f.phase = e.phase /\ f.op = Intent("renew", n, e.token, "none")
      /\ f.renews = n /\ f.claims = e.claims
      /\ SameWork(e, f) /\ SameFence(e, f) /\ SameGrants(e, f)
  BY <1>0, Fields, NodeBounds DEF RenewIntent, EntryRow, Phases, SameWork, SameFence, SameGrants
<1>2. f.op.kind = "renew" /\ f.op.key = n /\ f.op.token = e.token
  BY <1>0, <1>1, Fields
<1>3. Fenced(e) /\ KeysOf(e) BY DEF Fit, JournalFits, Fenced
<1>4. Kept("renew", n) = {}
  BY <1>3 DEF Kept, KeysOf, RelayShape, ReceiptRow, EntryRow
<1>5. KeysOf(f)
  BY <1>1, <1>3 DEF KeysOf, RelayShape, ReceiptRow, EntryRow
<1> HIDE DEF f, n
<1>6. Acceptable(f)
  BY <1>1 DEF Fit, Acceptable, PredecessorValid, SameWork, SameFence, SameGrants
<1>7. Pending(f)
  BY <1>1, <1>2, <1>4
  DEF Pending, ClaimPends, StartPends, RenewPends, CompletePends, ReleasePends, Over, HasLease, Lost,
      SameFence
<1>8. Fenced(f)
  BY <1>0, <1>1, <1>2, <1>3, <1>5
  DEF Fenced, LeaseOf, SameLease, GivenBack, NotReleased, HasLease, Lost, Free, SameWork,
      SameFence, SameGrants, Over
<1>9. TurnsOf(f) /\ GrantsOf(f)
  BY <1>1, TurnsSame, GrantsSame DEF Fit, JournalFits
<1>10. CompletionOf(f) /\ UnseenOf(f)
  BY <1>0, <1>1 DEF CompletionOf, UnseenOf, Free, HasLease, Over, SameWork, TerminalPhases
<1>20. Fit(f)
  BY <1>1, <1>6, <1>7, <1>8, <1>9, <1>10 DEF Fit, JournalFits
<1> QED
  BY <1>20 DEF f

\* A receipt has the key of its operation and the fields of its answer.
LEMMA ReceiptSays ==
    ASSUME NEW e, NEW a
    PROVE  LET r == Receipt(e.op, a) IN
           r.kind = e.op.kind /\ r.key = e.op.key /\ r.status = a.status /\ r.token = a.token
BY DEF Receipt

\* A grant of an older fence steps aside, and nothing else changes.
LEMMA StageOK ==
    ASSUME NEW e \in EntryRow, Fit(e), RelayShape, NEW t \in {0, relay.token}
    PROVE  LET g == Stage(e, t) IN
           /\ g \in EntryRow /\ SameWork(e, g) /\ SameKeys(e, g) /\ SameIntent(e, g)
           /\ capsule \subseteq {g.grant, g.predecessor}
           /\ e.grant = 0 /\ e.predecessor = 0 => g.grant = 0 /\ g.predecessor = 0
           /\ g.grant <= relay.token
           /\ g.grant # 0 /\ t # 0 => g.grant = t
           /\ g.predecessor # 0 => g.grant = 0 /\ t # 0 /\ g.predecessor < t
<1> DEFINE g == Stage(e, t)
<1>1. /\ e.grant <= relay.token /\ e.token <= relay.token
      /\ e.predecessor # 0 => e.grant = 0 /\ e.token # 0 /\ e.predecessor < e.token
  BY DEF Fit, JournalFits, Fenced, LeaseOf, Acceptable, PredecessorValid
<1>2. e.grant \in Nat /\ e.predecessor \in Nat /\ e.token \in Nat /\ relay.token \in Nat /\ t \in Nat
  BY DEF EntryRow, RelayShape, RelayRow, Tokens
<1>3. capsule \subseteq {e.grant, e.predecessor} /\ 0 \notin capsule
  BY DEF Fit, JournalFits, GrantsOf
<1>4. CASE t = 0 /\ e.grant = 0 /\ e.predecessor # 0
  <2>1. g = [e EXCEPT !.grant = e.predecessor, !.predecessor = 0]
    BY <1>4 DEF Stage
  <2>2. /\ g \in EntryRow /\ SameWork(e, g) /\ SameKeys(e, g) /\ SameIntent(e, g)
        /\ g.grant = e.predecessor /\ g.predecessor = 0
    BY <2>1, NodeBounds DEF EntryRow, SameWork, SameKeys, SameIntent
  <2> HIDE DEF g
  <2>3. capsule \subseteq {g.grant, g.predecessor}
    BY <1>3, <1>4, <2>2
  <2> QED
    BY <1>1, <1>2, <1>4, <2>2, <2>3 DEF g
<1>5. CASE t # 0 /\ e.grant # 0 /\ t > e.grant
  <2>1. g = [e EXCEPT !.predecessor = e.grant, !.grant = 0]
    BY <1>5 DEF Stage
  <2>2. /\ g \in EntryRow /\ SameWork(e, g) /\ SameKeys(e, g) /\ SameIntent(e, g)
        /\ g.predecessor = e.grant /\ g.grant = 0
    BY <2>1, NodeBounds DEF EntryRow, SameWork, SameKeys, SameIntent
  <2> HIDE DEF g
  <2>3. capsule \subseteq {g.grant, g.predecessor}
    BY <1>1, <1>3, <1>5, <2>2
  <2> QED
    BY <1>1, <1>2, <1>5, <2>2, <2>3 DEF g
<1>6. CASE ~(t = 0 /\ e.grant = 0 /\ e.predecessor # 0) /\ ~(t # 0 /\ e.grant # 0 /\ t > e.grant)
  <2>1. g = e
    BY <1>6 DEF Stage
  <2> HIDE DEF g
  <2>2. SameWork(e, g) /\ SameKeys(e, g) /\ SameIntent(e, g)
    BY <2>1 DEF SameWork, SameKeys, SameIntent
  <2> QED
    BY <1>1, <1>2, <1>3, <1>6, <2>1, <2>2 DEF g
<1> QED
  BY <1>4, <1>5, <1>6

\* The Relay's row is journaled; the first time it makes the entry.
LEMMA UpsertOK ==
    ASSUME NEW e \in EntryRow, Fit(e), RelayShape, RelaySound, Listed
    PROVE  Fit(Upsert(e)) /\ Upsert(e).known /\ SameIntent(e, Upsert(e))
<1> DEFINE t == IF relay.status \in Held THEN relay.token ELSE 0
           f == Upsert(e)
<1>0. /\ relay.status \in Held \cup {"stored"}
      /\ relay.token \in Nat /\ relay.token \in Tokens
      /\ relay.status \in Held => relay.token # 0
  BY DEF Listed, RelayShape, RelayRow, Tokens, RelaySound, RowSound
<1>1. /\ t \in {0, relay.token} /\ t \in Tokens /\ t \in Nat
      /\ relay.status \in Held => t = relay.token
      /\ relay.status \in Held <=> t # 0
      /\ relay.status = "stored" => t = 0
  BY <1>0, NodeBounds DEF Held
<1>2. CASE ~e.known
  <2>1. /\ e = NewEntry /\ relay.token = 0 /\ receipts = {} /\ relay.status = "stored"
        /\ \A a \in Attempts : host[a].state = "none"
    BY <1>0, <1>2 DEF Fit, JournalFits, UnseenOf, Held
  <2>2. f = [NewEntry EXCEPT !.known = TRUE, !.status = relay.status, !.token = t]
    BY <1>2 DEF Upsert
  <2>3. /\ NewEntry \in EntryRow /\ NewEntry.op = NoIntent /\ NewEntry.phase = "ingested"
        /\ NewEntry.attempt = 1 /\ NewEntry.events = "none" /\ NewEntry.result = 0
        /\ NewEntry.input = 0 /\ NewEntry.grant = 0 /\ NewEntry.predecessor = 0
        /\ NewEntry.history = {} /\ NewEntry.claims = 0 /\ NewEntry.renews = 0
    <3>1. 1 \in Attempts /\ 0 \in 0..MaxInputs
      BY NodeBounds DEF Attempts
    <3> QED
      BY <3>1, NodeBounds, Fields DEF NewEntry, EntryRow, Statuses, Phases
  <2>4. /\ f \in EntryRow /\ f.op = NoIntent /\ f.phase = "ingested" /\ f.known
        /\ f.attempt = 1 /\ f.events = "none" /\ f.result = 0 /\ f.status = "stored" /\ f.token = 0
        /\ f.input = 0 /\ f.grant = 0 /\ f.predecessor = 0 /\ f.history = {}
    <3>1. t = 0 BY <1>1, <2>1
    <3>2. f = [NewEntry EXCEPT !.known = TRUE, !.status = "stored", !.token = 0]
      BY <2>1, <2>2, <3>1
    <3> QED
      BY <2>3, <3>2, NodeBounds DEF EntryRow, Statuses
  <2> HIDE DEF f, t
  <2>5. Acceptable(f)
    BY <2>4 DEF Acceptable, PredecessorValid
  <2>6. Pending(f)
    BY <2>4, Fields
    DEF Pending, ClaimPends, StartPends, RenewPends, CompletePends, ReleasePends, Over, TerminalPhases
  <2>7. Fenced(f)
    BY <2>1, <2>4, Fields
    DEF Fenced, KeysOf, LeaseOf, SameLease, GivenBack, NotReleased, HasLease, Held, Closed
  <2>8. TurnsOf(f)
    <3>1. TurnsOf(e) BY DEF Fit, JournalFits
    <3> QED
      BY <2>1, <2>3, <2>4, <3>1 DEF TurnsOf, Outcomes
  <2>9. GrantsOf(f)
    <3>1. GrantsOf(e) BY DEF Fit, JournalFits
    <3> QED
      BY <2>1, <2>3, <2>4, <3>1 DEF GrantsOf
  <2>10. CompletionOf(f) /\ UnseenOf(f)
    BY <2>1, <2>4 DEF CompletionOf, UnseenOf
  <2>11. SameIntent(e, f)
    BY <2>1, <2>3, <2>4 DEF SameIntent
  <2>12. Fit(f) /\ f.known
    BY <2>4, <2>5, <2>6, <2>7, <2>8, <2>9, <2>10 DEF Fit, JournalFits
  <2> QED
    BY <2>11, <2>12 DEF f
<1>3. CASE e.known
  <2> DEFINE g == Stage(e, t)
  <2>1. /\ g \in EntryRow /\ SameWork(e, g) /\ SameKeys(e, g) /\ SameIntent(e, g)
        /\ capsule \subseteq {g.grant, g.predecessor}
        /\ e.grant = 0 /\ e.predecessor = 0 => g.grant = 0 /\ g.predecessor = 0
        /\ g.grant <= relay.token
        /\ g.grant # 0 /\ t # 0 => g.grant = t
        /\ g.predecessor # 0 => g.grant = 0 /\ t # 0 /\ g.predecessor < t
    <3> HIDE DEF t
    <3> QED BY <1>1, StageOK
  <2>2. f = [g EXCEPT !.status = relay.status, !.token = t]
    BY <1>3 DEF Upsert
  <2> HIDE DEF g
  <2>3. /\ f \in EntryRow /\ f.status = relay.status /\ f.token = t
        /\ SameWork(e, f) /\ SameKeys(e, f) /\ SameIntent(e, f) /\ SameGrants(g, f)
    <3> HIDE DEF t, f
    <3> QED
      BY <1>0, <1>1, <2>1, <2>2
      DEF EntryRow, SameWork, SameKeys, SameIntent, SameGrants, Statuses
  <2> HIDE DEF t, f
  <2>4. Fenced(e) /\ Pending(e) /\ Acceptable(e)
    BY DEF Fit, JournalFits
  <2>5. Acceptable(f)
    BY <2>1, <2>3, <2>4 DEF Acceptable, PredecessorValid, SameWork, SameGrants
  <2>6. e.token # 0 => \/ f.token = e.token /\ relay.token = e.token /\ relay.status \in Held
                       \/ e.op.kind = "release" /\ e.op.token = e.token
                       \/ e.op.kind = "claim"
    BY <1>0, <1>1, <2>3, <2>4 DEF Fenced, SameLease, GivenBack, Granting
  <2>7. e.status = "executing" /\ f.token = e.token => f.status = "executing"
    BY <1>0, <1>1, <2>3, <2>4 DEF Fenced, LeaseOf, RelaySound, RowSound, Held
  <2>8. Pending(f)
    <3>1. ClaimPends(f) /\ StartPends(f)
      BY <2>3, <2>4, <2>6 DEF Pending, ClaimPends, StartPends, SameWork, SameKeys, SameIntent
    <3>2. RenewPends(f) /\ CompletePends(f)
      BY <2>3, <2>4, <2>6, <2>7
      DEF Pending, RenewPends, CompletePends, SameWork, SameKeys, SameIntent, HasLease, Lost, Over
    <3>3. ReleasePends(f)
      BY <1>0, <1>1, <2>3, <2>4 DEF Pending, ReleasePends, SameWork, SameIntent
    <3> QED
      BY <2>3, <2>4, <3>1, <3>2, <3>3 DEF Pending, SameIntent, Over
  <2>9. Fenced(f)
    <3>1. KeysOf(f)
      BY <2>3, <2>4 DEF Fenced, KeysOf, SameKeys
    <3>2. LeaseOf(f)
      BY <1>0, <1>1, <2>1, <2>3, <2>4
      DEF Fenced, LeaseOf, SameWork, SameGrants, RelaySound, RowSound, Held, Closed
    <3>3. SameLease(f) /\ GivenBack(f)
      BY <1>1, <2>3 DEF SameLease, GivenBack
    <3>4. NotReleased(f)
      <4>1. f.token # 0 => Kept("release", f.token) = {}
        BY <1>0, <1>1, <2>3 DEF RelaySound, ReceiptsSound, Kept
      <4> QED
        BY <4>1 DEF NotReleased, HasLease
    <3> QED
      BY <3>1, <3>2, <3>3, <3>4 DEF Fenced
  <2>10. TurnsOf(f)
    BY <2>3, TurnsSame DEF Fit, JournalFits
  <2>11. GrantsOf(f)
    <3>1. GrantsOf(e) BY DEF Fit, JournalFits
    <3> QED
      BY <2>1, <2>3, <3>1 DEF GrantsOf, SameGrants
  <2>12. CompletionOf(f) /\ UnseenOf(f) /\ f.known
    BY <1>0, <1>3, <2>3 DEF CompletionOf, UnseenOf, SameWork, Held
  <2>13. Fit(f)
    BY <2>3, <2>5, <2>8, <2>9, <2>10, <2>11, <2>12 DEF Fit, JournalFits
  <2> QED
    BY <2>3, <2>12, <2>13 DEF f
<1> QED
  BY <1>2, <1>3 DEF EntryRow

\* A granted claim: the journal takes the Relay's fence.
LEMMA ClaimedOK ==
    ASSUME NEW e \in EntryRow, Fit(e), e.known, RelayShape, RelaySound, NEW a \in AnswerRow,
           e.op.kind = "claim", Receipt(e.op, a) \in receipts, a.status = "leased"
    PROVE  /\ Fit([Answered(Stage(e, a.token), a) EXCEPT !.phase = "claimed"])
           /\ a.token # 0
<1> DEFINE t == a.token
           g == Stage(e, t)
           f == [Answered(g, a) EXCEPT !.phase = "claimed"]
<1>0. Fenced(e) /\ Pending(e) /\ Acceptable(e)
  BY DEF Fit, JournalFits
<1>1. /\ t = relay.token /\ t # 0 /\ relay.status \in {"leased", "cancelled"}
      /\ e.attempt <= t /\ Kept("release", t) = {}
  <2>1. PICK r \in receipts : r.kind = "claim" /\ r.key = e.op.key /\ r.status = "leased"
                            /\ r.token = a.token
    BY ReceiptSays
  <2> QED
    BY <1>0, <2>1 DEF Pending, ClaimPends, Kept
<1>2. t \in Tokens /\ t \in Nat /\ relay.token \in Nat
  BY NodeBounds DEF AnswerRow, Tokens, RelayShape, RelayRow
<1>3. /\ g \in EntryRow /\ SameWork(e, g) /\ SameKeys(e, g) /\ SameIntent(e, g)
      /\ capsule \subseteq {g.grant, g.predecessor}
      /\ e.grant = 0 /\ e.predecessor = 0 => g.grant = 0 /\ g.predecessor = 0
      /\ g.grant <= relay.token
      /\ g.grant # 0 /\ t # 0 => g.grant = t
      /\ g.predecessor # 0 => g.grant = 0 /\ t # 0 /\ g.predecessor < t
  <2> HIDE DEF t
  <2> QED BY <1>1, StageOK
<1> HIDE DEF g
<1>4. /\ f \in EntryRow /\ f.status = "leased" /\ f.token = t /\ f.op = NoIntent
      /\ f.phase = "claimed" /\ SameWork(e, f) /\ SameKeys(e, f) /\ SameGrants(g, f)
  BY <1>2, <1>3, Fields
  DEF Answered, EntryRow, Held, Statuses, Phases, SameWork, SameKeys, SameGrants
<1> HIDE DEF t, f
<1>5. Acceptable(f)
  BY <1>0, <1>3, <1>4 DEF Acceptable, PredecessorValid, SameWork, SameGrants
<1>6. Pending(f)
  BY <1>4, Fields
  DEF Pending, ClaimPends, StartPends, RenewPends, CompletePends, ReleasePends, Over, TerminalPhases
<1>7. Fenced(f)
  <2>1. KeysOf(f)
    BY <1>0, <1>4 DEF Fenced, KeysOf, SameKeys
  <2>2. LeaseOf(f)
    BY <1>0, <1>1, <1>2, <1>3, <1>4
    DEF Fenced, LeaseOf, SameWork, SameGrants, Held, Closed
  <2>3. SameLease(f) /\ GivenBack(f) /\ NotReleased(f)
    BY <1>1, <1>4 DEF SameLease, GivenBack, NotReleased
  <2> QED
    BY <2>1, <2>2, <2>3 DEF Fenced
<1>8. TurnsOf(f)
  BY <1>4, TurnsSame DEF Fit, JournalFits
<1>9. GrantsOf(f)
  <2>1. GrantsOf(e) BY DEF Fit, JournalFits
  <2> QED
    BY <1>3, <1>4, <2>1 DEF GrantsOf, SameGrants
<1>10. CompletionOf(f) /\ UnseenOf(f)
  BY <1>1, <1>4 DEF CompletionOf, UnseenOf, SameWork
<1>11. Fit(f)
  BY <1>4, <1>5, <1>6, <1>7, <1>8, <1>9, <1>10 DEF Fit, JournalFits
<1> QED
  BY <1>1, <1>11 DEF f, g, t

\* The row is closed: the journal has no lease any more, and no intent.
LEMMA ClosedOK ==
    ASSUME NEW e \in EntryRow, Fit(e), e.known, RelayShape, RelaySound, NEW a \in AnswerRow,
           a.status \in Closed, e.predecessor = 0, NEW p \in {"acknowledged", "dead_lettered"},
           relay.status = "acknowledged" =>
               p = "acknowledged" /\ (e.op.kind = "complete" \/ e.phase = "acknowledged")
    PROVE  Fit([Answered(e, a) EXCEPT !.phase = p])
<1> DEFINE f == [Answered(e, a) EXCEPT !.phase = p]
<1>0. Fenced(e) /\ Acceptable(e) /\ CompletionOf(e)
  BY DEF Fit, JournalFits
<1>1. a.status \in Statuses /\ a.status \notin Held /\ a.status # "stored"
  BY DEF Closed, Held, Statuses
<1>4. /\ f \in EntryRow /\ f.status = a.status /\ f.token = 0 /\ f.op = NoIntent
      /\ f.phase = p /\ SameWork(e, f) /\ SameKeys(e, f) /\ SameGrants(e, f)
  BY <1>1, Fields, NodeBounds
  DEF Answered, EntryRow, Phases, SameWork, SameKeys, SameGrants
<1> HIDE DEF f
<1>5. Acceptable(f)
  BY <1>0, <1>4 DEF Acceptable, PredecessorValid, SameWork, SameGrants
<1>6. Pending(f)
  BY <1>4, Fields
  DEF Pending, ClaimPends, StartPends, RenewPends, CompletePends, ReleasePends
<1>7. Fenced(f)
  <2>1. KeysOf(f)
    BY <1>0, <1>4 DEF Fenced, KeysOf, SameKeys
  <2>2. LeaseOf(f)
    <3>1. relay.token \in Nat BY DEF RelayShape, RelayRow, Tokens
    <3> QED
      BY <1>0, <1>1, <1>4, <3>1
      DEF Fenced, LeaseOf, SameWork, SameGrants, Over, TerminalPhases, Held
  <2>3. SameLease(f) /\ GivenBack(f) /\ NotReleased(f)
    BY <1>4 DEF SameLease, GivenBack, NotReleased, HasLease
  <2> QED
    BY <2>1, <2>2, <2>3 DEF Fenced
<1>8. TurnsOf(f) /\ GrantsOf(f)
  BY <1>4, TurnsSame, GrantsSame DEF Fit, JournalFits
<1>10. CompletionOf(f) /\ UnseenOf(f)
  BY <1>0, <1>4 DEF CompletionOf, UnseenOf, SameWork
<1>11. Fit(f)
  BY <1>4, <1>5, <1>6, <1>7, <1>8, <1>10 DEF Fit, JournalFits
<1> QED
  BY <1>11 DEF f

\* A claim that must wait is dropped: there is no lease to lose.
LEMMA LaterOK ==
    ASSUME NEW e \in EntryRow, Fit(e), e.known, RelayShape, e.op.kind = "claim", e.token = 0, Free(e)
    PROVE  Fit([e EXCEPT !.phase = "ingested", !.op = NoIntent])
<1> DEFINE f == [e EXCEPT !.phase = "ingested", !.op = NoIntent]
<1>0. Fenced(e) /\ Pending(e) /\ Acceptable(e)
  BY DEF Fit, JournalFits
<1>1. /\ f \in EntryRow /\ f.phase = "ingested" /\ f.op = NoIntent
      /\ SameWork(e, f) /\ SameFence(e, f) /\ SameGrants(e, f) /\ SameKeys(e, f)
  BY Fields DEF EntryRow, Phases, SameWork, SameFence, SameGrants, SameKeys
<1> HIDE DEF f
<1>2. Acceptable(f)
  BY <1>0, <1>1 DEF Acceptable, PredecessorValid, SameWork, SameFence, SameGrants
<1>3. Pending(f)
  BY <1>1, Fields
  DEF Pending, ClaimPends, StartPends, RenewPends, CompletePends, ReleasePends, Over, TerminalPhases
<1>4. e.phase = "claim_intent"
  BY <1>0 DEF Pending, ClaimPends
<1>5. Fenced(f)
  BY <1>0, <1>1, <1>4
  DEF Fenced, KeysOf, LeaseOf, SameLease, GivenBack, NotReleased, HasLease, SameWork,
      SameFence, SameGrants, SameKeys, Over, TerminalPhases
<1>6. TurnsOf(f) /\ GrantsOf(f)
  BY <1>1, TurnsSame, GrantsSame DEF Fit, JournalFits
<1>7. CompletionOf(f) /\ UnseenOf(f)
  BY <1>1, <1>4 DEF CompletionOf, UnseenOf, Free, SameWork
<1>8. Fit(f)
  BY <1>1, <1>2, <1>3, <1>5, <1>6, <1>7 DEF Fit, JournalFits
<1> QED
  BY <1>8 DEF f

\* A start or a renewal was answered: the lease is the one the journal holds.
LEMMA HeldOK ==
    ASSUME NEW e \in EntryRow, Fit(e), e.known, RelayShape, RelaySound, NEW a \in AnswerRow,
           e.op.kind \in {"start", "renew"}, Receipt(e.op, a) \in receipts,
           NEW p \in Phases, p = "relay_executing" \/ (e.op.kind = "renew" /\ p = e.phase)
    PROVE  LET f == [Answered(e, a) EXCEPT !.phase = p] IN
           /\ Fit(f) /\ HasLease(f) /\ f.status = a.status /\ f.op = NoIntent
           /\ SameWork(e, f) /\ SameGrants(e, f)
<1> DEFINE f == [Answered(e, a) EXCEPT !.phase = p]
<1>0. Fenced(e) /\ Pending(e) /\ Acceptable(e) /\ CompletionOf(e)
  BY DEF Fit, JournalFits
<1>1. /\ a.status \in Held /\ a.token = e.token /\ e.token # 0
      /\ a.status = "executing" => Kept("start", e.token) # {}
  <2>1. PICK r \in receipts : r.kind = e.op.kind /\ r.key = e.op.key /\ r.status = a.status
                            /\ r.token = a.token
    BY ReceiptSays
  <2>2. CASE e.op.kind = "start"
    <3>1. a.status = "executing" /\ a.token = e.token /\ e.token # 0 /\ r \in Kept("start", e.token)
      BY <1>0, <2>1, <2>2 DEF RelaySound, ReceiptsSound, Pending, StartPends, Kept
    <3> QED
      BY <3>1 DEF Held
  <2>3. CASE e.op.kind = "renew"
    BY <1>0, <2>1, <2>3 DEF RelaySound, ReceiptsSound, Pending, RenewPends, HasLease, Kept
  <2> QED
    BY <2>2, <2>3
<1>2. p # "lease_lost" /\ p \notin TerminalPhases /\ ~Over(e) /\ e.status \notin Closed
  BY <1>0
  DEF Pending, RenewPends, StartPends, HasLease, Lost, Over, TerminalPhases, Fenced, LeaseOf
<1>4. /\ f \in EntryRow /\ f.status = a.status /\ f.token = e.token /\ f.op = NoIntent
      /\ f.phase = p /\ SameWork(e, f) /\ SameKeys(e, f) /\ SameGrants(e, f)
  BY <1>1, Fields
  DEF Answered, EntryRow, Statuses, SameWork, SameKeys, SameGrants
<1> HIDE DEF f
<1>5. Acceptable(f)
  BY <1>0, <1>4 DEF Acceptable, PredecessorValid, SameWork, SameGrants
<1>6. Pending(f)
  BY <1>2, <1>4, Fields
  DEF Pending, ClaimPends, StartPends, RenewPends, CompletePends, ReleasePends, Over
<1>7. Fenced(f)
  <2>1. KeysOf(f)
    BY <1>0, <1>4 DEF Fenced, KeysOf, SameKeys
  <2>2. LeaseOf(f)
    BY <1>0, <1>1, <1>2, <1>4
    DEF Fenced, LeaseOf, SameWork, SameGrants, Held, Closed
  <2>3. SameLease(f) /\ GivenBack(f)
    BY <1>0, <1>4 DEF Fenced, SameLease, GivenBack, Granting
  <2>4. NotReleased(f)
    <3>1. HasLease(e)
      BY <1>0, <1>1, <1>2 DEF Pending, RenewPends, StartPends, HasLease, Lost
    <3> QED
      BY <1>0, <1>4, <3>1 DEF Fenced, NotReleased
  <2> QED
    BY <2>1, <2>2, <2>3, <2>4 DEF Fenced
<1>8. TurnsOf(f) /\ GrantsOf(f)
  BY <1>4, TurnsSame, GrantsSame DEF Fit, JournalFits
<1>10. CompletionOf(f) /\ UnseenOf(f)
  <2>1. relay.status # "acknowledged"
    BY <1>0, <1>2 DEF CompletionOf, Over, TerminalPhases
  <2> QED
    BY <1>4, <2>1 DEF CompletionOf, UnseenOf, SameWork
<1>11. Fit(f) /\ HasLease(f)
  BY <1>1, <1>2, <1>4, <1>5, <1>6, <1>7, <1>8, <1>10
  DEF Fit, JournalFits, HasLease, Lost, Over
<1> QED
  BY <1>4, <1>11 DEF f

\* A renewal of the lease keeper ends its intent and leaves the row alone.
LEMMA RenewedOK ==
    ASSUME NEW e \in EntryRow, Fit(e), e.known, RelayShape, e.op.kind = "renew"
    PROVE  Fit([e EXCEPT !.op = NoIntent])
<1> DEFINE f == [e EXCEPT !.op = NoIntent]
<1>0. Fenced(e) /\ Pending(e) /\ Acceptable(e) /\ Free(e) /\ HasLease(e)
  BY Droppable DEF Fit, JournalFits, Pending, RenewPends
<1>1. /\ f \in EntryRow /\ f.phase = e.phase /\ f.op = NoIntent
      /\ SameWork(e, f) /\ SameFence(e, f) /\ SameGrants(e, f) /\ SameKeys(e, f)
  BY Fields DEF EntryRow, SameWork, SameFence, SameGrants, SameKeys
<1> HIDE DEF f
<1>2. Acceptable(f)
  BY <1>0, <1>1 DEF Acceptable, PredecessorValid, SameWork, SameFence, SameGrants
<1>3. Pending(f)
  BY <1>1, Fields
  DEF Pending, ClaimPends, StartPends, RenewPends, CompletePends, ReleasePends
<1>5. Fenced(f)
  BY <1>0, <1>1, Fields
  DEF Fenced, KeysOf, LeaseOf, SameLease, GivenBack, NotReleased, HasLease, Lost, SameWork,
      SameFence, SameGrants, SameKeys, Over, Free
<1>6. TurnsOf(f) /\ GrantsOf(f)
  BY <1>1, TurnsSame, GrantsSame DEF Fit, JournalFits
<1>7. CompletionOf(f) /\ UnseenOf(f)
  BY <1>0, <1>1 DEF CompletionOf, UnseenOf, Free, SameWork, HasLease, Over, TerminalPhases
<1>8. Fit(f)
  BY <1>1, <1>2, <1>3, <1>5, <1>6, <1>7 DEF Fit, JournalFits
<1> QED
  BY <1>8 DEF f

\* The completion intent of an executing row with a result.
LEMMA CompleteIntentOK ==
    ASSUME NEW e \in EntryRow, Fit(e), e.known, RelayShape, e.op.kind = "none", HasLease(e),
           Executes(e), e.result # 0
    PROVE  Fit(CompleteIntent(e))
<1> DEFINE f == CompleteIntent(e)
<1>0. /\ Fenced(e) /\ Pending(e) /\ Acceptable(e) /\ Free(e) /\ e.token \in Tokens /\ e.token \in Nat
      /\ e.result = e.attempt /\ "complete" \in Kinds
  BY Droppable DEF Fit, JournalFits, EntryRow, Tokens, Kinds, TurnsOf
<1>1. /\ f \in EntryRow /\ f.phase = "complete_intent"
      /\ f.op = Intent("complete", e.token, e.token, "none")
      /\ SameWork(e, f) /\ SameFence(e, f) /\ SameGrants(e, f) /\ SameKeys(e, f)
  BY <1>0, Fields DEF CompleteIntent, EntryRow, Phases, SameWork, SameFence, SameGrants, SameKeys
<1>2. f.op.kind = "complete" /\ f.op.key = e.token /\ f.op.token = e.token
  BY <1>0, <1>1, Fields
<1> HIDE DEF f
<1>3. Acceptable(f)
  BY <1>0, <1>1 DEF Acceptable, PredecessorValid, SameWork, SameFence, SameGrants
<1>4. Pending(f)
  BY <1>0, <1>1, <1>2
  DEF Pending, ClaimPends, StartPends, RenewPends, CompletePends, ReleasePends, HasLease, Executes,
      SameFence, SameWork, Over, TerminalPhases
<1>5. Fenced(f)
  BY <1>0, <1>1, <1>2
  DEF Fenced, KeysOf, LeaseOf, SameLease, GivenBack, NotReleased, HasLease, Lost, SameWork,
      SameFence, SameGrants, SameKeys, Over, Free
<1>6. TurnsOf(f) /\ GrantsOf(f)
  BY <1>1, TurnsSame, GrantsSame DEF Fit, JournalFits
<1>7. CompletionOf(f) /\ UnseenOf(f)
  BY <1>0, <1>1 DEF CompletionOf, UnseenOf, Free, SameWork, HasLease, Over, TerminalPhases
<1>8. Fit(f)
  BY <1>1, <1>3, <1>4, <1>5, <1>6, <1>7 DEF Fit, JournalFits
<1> QED
  BY <1>8 DEF f

\* The release intent of a lease, whatever ended its turn.
ReleaseEntry(e, class) ==
    [e EXCEPT !.op = Intent("release", e.token, e.token, class), !.phase = "release_intent"]

LEMMA ReleaseIntentOK ==
    ASSUME NEW e \in EntryRow, Fit(e), e.known, RelayShape, e.op.kind \in Leasing, HasLease(e),
           NEW c \in {"denied", "transient"},
           c = "transient" => e.events \in {"transient", "cancelled"}
    PROVE  LET f == ReleaseEntry(e, c) IN
           Fit(f) /\ f.op.kind = "release" /\ f.phase = "release_intent" /\ f.known
<1> DEFINE f == ReleaseEntry(e, c)
<1>0. /\ Fenced(e) /\ Pending(e) /\ Acceptable(e) /\ Free(e) /\ e.token \in Tokens /\ e.token \in Nat
      /\ "release" \in Kinds
      /\ Kept("release", e.token) = {}
  BY Droppable DEF Fit, JournalFits, EntryRow, Tokens, Kinds, Leasing, Fenced, NotReleased
<1>1. /\ f \in EntryRow /\ f.phase = "release_intent"
      /\ f.op = Intent("release", e.token, e.token, c)
      /\ SameWork(e, f) /\ SameFence(e, f) /\ SameGrants(e, f) /\ SameKeys(e, f)
  BY <1>0, Fields DEF ReleaseEntry, EntryRow, Phases, SameWork, SameFence, SameGrants, SameKeys
<1>2. f.op.kind = "release" /\ f.op.key = e.token /\ f.op.token = e.token /\ f.op.class = c
  BY <1>0, <1>1, Fields
<1> HIDE DEF f
<1>3. Acceptable(f)
  BY <1>0, <1>1 DEF Acceptable, PredecessorValid, SameWork, SameFence, SameGrants
<1>4. Pending(f)
  BY <1>0, <1>1, <1>2
  DEF Pending, ClaimPends, StartPends, RenewPends, CompletePends, ReleasePends, HasLease,
      SameFence, SameWork, Over, TerminalPhases, Free, Fenced, LeaseOf
<1>5. Fenced(f)
  BY <1>0, <1>1, <1>2
  DEF Fenced, KeysOf, LeaseOf, SameLease, GivenBack, NotReleased, HasLease, Lost, SameWork,
      SameFence, SameGrants, SameKeys, Over, Free
<1>6. TurnsOf(f) /\ GrantsOf(f)
  BY <1>1, TurnsSame, GrantsSame DEF Fit, JournalFits
<1>7. CompletionOf(f) /\ UnseenOf(f)
  BY <1>0, <1>1 DEF CompletionOf, UnseenOf, Free, SameWork, HasLease, Over, TerminalPhases
<1>8. Fit(f)
  BY <1>1, <1>3, <1>4, <1>5, <1>6, <1>7 DEF Fit, JournalFits
<1> QED
  BY <1>1, <1>2, <1>8 DEF f, SameWork

\* A row that is stored again: the attempt is archived and the next begins.
LEMMA NextAttemptOK ==
    ASSUME NEW e \in EntryRow, Fit(e), e.known, RelayShape, RelaySound, NEW a \in AnswerRow,
           e.op.kind = "release", Receipt(e.op, a) \in receipts, a.status = "stored",
           e.grant = 0, e.predecessor = 0
    PROVE  Fit([Answered(Archive(e), a) EXCEPT !.phase = "ingested"])
<1> DEFINE g == Archive(e)
           f == [Answered(g, a) EXCEPT !.phase = "ingested"]
           h == IF e.input # 0 THEN e.history \cup {e.attempt} ELSE e.history
<1>0. Fenced(e) /\ Pending(e) /\ Acceptable(e) /\ CompletionOf(e) /\ TurnsOf(e) /\ GrantsOf(e)
  BY DEF Fit, JournalFits
<1>1. PICK r \in receipts : r.kind = "release" /\ r.key = e.op.key /\ r.status = "stored"
  BY ReceiptSays
<1>2. /\ e.op.key < MaxAttempts /\ e.op.key = e.op.token /\ e.attempt <= e.op.token
      /\ e.op.token <= relay.token /\ relay.status \notin Held
      /\ e.op.class = "transient" /\ e.events \in {"transient", "cancelled"}
      /\ e.phase = "release_intent"
  BY <1>0, <1>1 DEF RelaySound, ReceiptsSound, Pending, ReleasePends, Kept
<1>3. e.attempt \in Nat /\ e.op.token \in Nat /\ relay.token \in Nat /\ e.attempt >= 1
  BY NodeBounds DEF EntryRow, OpRow, Tokens, Attempts, RelayShape, RelayRow
<1>4. e.attempt + 1 \in Attempts /\ e.attempt + 1 <= relay.token + 1
  BY <1>2, <1>3, NodeBounds DEF Attempts
<1>5. h \in SUBSET Attempts /\ \A b \in h : b < e.attempt + 1
  <2>1. e.history \subseteq Attempts /\ e.attempt \in Attempts /\ \A b \in e.history : b < e.attempt
    BY <1>0 DEF EntryRow, Acceptable
  <2> QED
    BY <1>3, <2>1 DEF Attempts
<1>6. /\ g \in EntryRow /\ g.attempt = e.attempt + 1 /\ g.input = 0 /\ g.events = "none"
      /\ g.result = 0 /\ g.history = h /\ g.known
      /\ SameFence(e, g) /\ SameGrants(e, g) /\ SameKeys(e, g) /\ SameIntent(e, g)
  <2>1. g = [e EXCEPT !.history = h, !.attempt = e.attempt + 1, !.input = 0, !.events = "none",
                      !.result = 0]
    BY DEF Archive
  <2> HIDE DEF h, g
  <2>2. 0 \in 0..MaxInputs /\ 0 \in Tokens
    BY NodeBounds
  <2>3. g \in EntryRow
    BY <1>4, <1>5, <2>1, <2>2 DEF EntryRow
  <2>4. /\ g.attempt = e.attempt + 1 /\ g.input = 0 /\ g.events = "none"
        /\ g.result = 0 /\ g.history = h /\ g.known
    BY <2>1 DEF EntryRow
  <2>5. SameFence(e, g) /\ SameGrants(e, g) /\ SameKeys(e, g) /\ SameIntent(e, g)
    BY <2>1 DEF EntryRow, SameFence, SameGrants, SameKeys, SameIntent
  <2> QED
    BY <2>3, <2>4, <2>5
<1> HIDE DEF g, h
<1>7. /\ f \in EntryRow /\ f.status = "stored" /\ f.token = 0 /\ f.op = NoIntent
      /\ f.phase = "ingested" /\ SameWork(g, f) /\ SameKeys(e, f) /\ SameGrants(e, f)
  BY <1>6, Fields, NodeBounds
  DEF Answered, EntryRow, Statuses, Held, Phases, SameWork, SameKeys, SameGrants
<1> HIDE DEF f
<1>8. Acceptable(f)
  BY <1>5, <1>6, <1>7 DEF Acceptable, PredecessorValid, SameWork, SameGrants
<1>9. Pending(f)
  BY <1>7, Fields
  DEF Pending, ClaimPends, StartPends, RenewPends, CompletePends, ReleasePends, Over, TerminalPhases
<1>10. Fenced(f)
  <2>1. KeysOf(f)
    BY <1>0, <1>7 DEF Fenced, KeysOf, SameKeys
  <2>2. LeaseOf(f)
    BY <1>2, <1>3, <1>4, <1>6, <1>7
    DEF LeaseOf, SameWork, SameGrants, Held, Closed
  <2>3. SameLease(f) /\ GivenBack(f) /\ NotReleased(f)
    BY <1>7 DEF SameLease, GivenBack, NotReleased, HasLease
  <2> QED
    BY <2>1, <2>2, <2>3 DEF Fenced
<1>11. TurnsOf(f)
  <2>1. /\ f.attempt = e.attempt + 1 /\ f.input = 0 /\ f.events = "none" /\ f.result = 0
    BY <1>6, <1>7 DEF SameWork
  <2>2. host[e.attempt + 1].state = "none" /\ host[e.attempt].state # "running"
    BY <1>0, <1>2, <1>3, <1>4 DEF TurnsOf, Outcomes, EntryRow
  <2>3. \A b \in Attempts : b > e.attempt + 1 => b > e.attempt
    BY <1>3 DEF Attempts
  <2>4. host[e.attempt + 1].starts = 0
    BY <1>0, <1>4, <2>2 DEF TurnsOf
  <2> QED
    BY <1>0, <2>1, <2>2, <2>3, <2>4 DEF TurnsOf, Outcomes
<1>12. GrantsOf(f)
  BY <1>0, <1>7 DEF GrantsOf, SameGrants
<1>13. CompletionOf(f) /\ UnseenOf(f)
  BY <1>0, <1>2, <1>6, <1>7 DEF CompletionOf, UnseenOf, SameWork
<1>14. Fit(f)
  BY <1>7, <1>8, <1>9, <1>10, <1>11, <1>12, <1>13 DEF Fit, JournalFits
<1> QED
  BY <1>14 DEF f, g

\* New evidence, or another grant, leaves the intents and the fence as they are.
LEMMA EvidenceOK ==
    ASSUME NEW e \in EntryRow, Fit(e), e.known, RelayShape, NEW f \in EntryRow,
           SameFence(e, f), SameKeys(e, f), f.op = e.op, f.known = e.known,
           f.attempt = e.attempt, f.grant <= relay.token,
           \/ f.phase = e.phase
           \/ e.op.kind \in Leasing /\ HasLease(e) /\ ~Over(f) /\ ~Lost(f),
           \/ f.result = e.result /\ f.events = e.events
           \/ e.op.kind \in Leasing,
           Acceptable(f), TurnsOf(f), GrantsOf(f)
    PROVE  Fit(f)
<1>0. Fenced(e) /\ Pending(e) /\ CompletionOf(e)
  BY DEF Fit, JournalFits
<1>1. Pending(f)
  BY <1>0
  DEF Pending, ClaimPends, StartPends, RenewPends, CompletePends, ReleasePends, SameFence, SameKeys,
      HasLease, Lost, Over, Leasing
<1>2. Over(e) => Over(f)
  BY DEF Over, HasLease
<1>3. HasLease(f) => HasLease(e)
  BY DEF HasLease, Over, Lost, SameFence
<1>4. Fenced(f)
  BY <1>0, <1>2, <1>3
  DEF Fenced, KeysOf, LeaseOf, SameLease, Granting, GivenBack, NotReleased, SameFence, SameKeys
<1>5. CompletionOf(f) /\ UnseenOf(f)
  BY <1>0 DEF CompletionOf, UnseenOf, Leasing, HasLease, Over, TerminalPhases
<1> QED
  BY <1>1, <1>4, <1>5 DEF Fit, JournalFits

\* The grant of the fence is journaled once its predecessor is retired.
LEMMA GrantOK ==
    ASSUME NEW e \in EntryRow, Fit(e), e.known, RelayShape, e.token # 0, Port,
           e.predecessor \notin capsule
    PROVE  LET f == [e EXCEPT !.grant = e.token, !.predecessor = 0] IN
           /\ Fit(f) /\ f.grant = e.token /\ f.predecessor = 0 /\ f.phase = e.phase
           /\ SameWork(e, f) /\ SameFence(e, f) /\ SameKeys(e, f) /\ f.op = e.op
<1> DEFINE f == [e EXCEPT !.grant = e.token, !.predecessor = 0]
<1>0. Fenced(e) /\ Acceptable(e) /\ TurnsOf(e) /\ GrantsOf(e)
  BY DEF Fit, JournalFits
<1>1. /\ f \in EntryRow /\ f.grant = e.token /\ f.predecessor = 0 /\ f.phase = e.phase
      /\ SameWork(e, f) /\ SameFence(e, f) /\ SameKeys(e, f) /\ f.op = e.op
  BY NodeBounds DEF EntryRow, SameWork, SameFence, SameKeys
<1> HIDE DEF f
<1>2. Acceptable(f)
  BY <1>0, <1>1 DEF Acceptable, PredecessorValid, SameWork, SameFence
<1>3. TurnsOf(f)
  BY <1>0, <1>1, TurnsSame
<1>4. GrantsOf(f)
  BY <1>0, <1>1 DEF GrantsOf, Acceptable
<1>5. f.grant <= relay.token
  BY <1>0, <1>1 DEF Fenced, LeaseOf
<1>6. Fit(f)
  BY <1>1, <1>2, <1>3, <1>4, <1>5, EvidenceOK DEF SameWork
<1> QED
  BY <1>1, <1>6 DEF f

\* A retired grant is cleared once the Capsule holds none.
LEMMA ClearOK ==
    ASSUME NEW e \in EntryRow, Fit(e), e.known, RelayShape, capsule = {}
    PROVE  LET f == [e EXCEPT !.grant = 0, !.predecessor = 0] IN
           /\ Fit(f) /\ f.grant = 0 /\ f.predecessor = 0 /\ f.phase = e.phase
           /\ SameWork(e, f) /\ SameFence(e, f) /\ SameKeys(e, f) /\ f.op = e.op
<1> DEFINE f == [e EXCEPT !.grant = 0, !.predecessor = 0]
<1>0. Fenced(e) /\ Acceptable(e) /\ TurnsOf(e) /\ GrantsOf(e)
  BY DEF Fit, JournalFits
<1>1. /\ f \in EntryRow /\ f.grant = 0 /\ f.predecessor = 0 /\ f.phase = e.phase
      /\ SameWork(e, f) /\ SameFence(e, f) /\ SameKeys(e, f) /\ f.op = e.op
  BY NodeBounds DEF EntryRow, SameWork, SameFence, SameKeys
<1> HIDE DEF f
<1>2. Acceptable(f)
  BY <1>0, <1>1 DEF Acceptable, PredecessorValid, SameWork, SameFence
<1>3. TurnsOf(f)
  BY <1>0, <1>1, TurnsSame
<1>4. GrantsOf(f)
  BY <1>1 DEF GrantsOf
<1>5. f.grant <= relay.token
  BY <1>1 DEF RelayShape, RelayRow, Tokens
<1>6. Fit(f)
  BY <1>1, <1>2, <1>3, <1>4, <1>5, EvidenceOK DEF SameWork
<1> QED
  BY <1>1, <1>6 DEF f

\* The exact input of the attempt is journaled once.
LEMMA InputOK ==
    ASSUME NEW e \in EntryRow, Fit(e), e.known, RelayShape, NEW v \in 1..MaxInputs
    PROVE  LET f == [e EXCEPT !.input = IF e.input = 0 THEN v ELSE e.input] IN
           /\ Fit(f) /\ f.input # 0 /\ f.known /\ f.attempt = e.attempt
           /\ SameFence(e, f) /\ SameGrants(e, f) /\ SameIntent(e, f)
<1> DEFINE n == IF e.input = 0 THEN v ELSE e.input
           f == [e EXCEPT !.input = n]
<1>0. Fenced(e) /\ Acceptable(e) /\ TurnsOf(e) /\ GrantsOf(e)
  BY DEF Fit, JournalFits
<1>1. n # 0 /\ n \in 0..MaxInputs /\ (e.input # 0 => n = e.input)
  BY NodeBounds DEF EntryRow
<1> HIDE DEF n
<1>2. /\ f \in EntryRow /\ f.input = n /\ f.known = e.known /\ f.attempt = e.attempt
      /\ f.events = e.events /\ f.result = e.result /\ f.history = e.history
      /\ SameFence(e, f) /\ SameGrants(e, f) /\ SameKeys(e, f) /\ SameIntent(e, f)
  BY <1>1 DEF EntryRow, SameFence, SameGrants, SameKeys, SameIntent
<1> HIDE DEF f
<1>3. Acceptable(f)
  BY <1>0, <1>1, <1>2 DEF Acceptable, PredecessorValid, SameFence, SameGrants
<1>4. TurnsOf(f)
  <2>1. e.attempt \in Attempts BY DEF EntryRow
  <2> QED BY <1>0, <1>1, <1>2, <2>1 DEF TurnsOf
<1>5. GrantsOf(f)
  BY <1>0, <1>2, GrantsSame
<1>6. f.grant <= relay.token
  BY <1>0, <1>2 DEF Fenced, LeaseOf, SameGrants
<1>7. Fit(f)
  BY <1>2, <1>3, <1>4, <1>5, <1>6, EvidenceOK DEF SameIntent
<1> QED
  BY <1>1, <1>2, <1>7 DEF f, n

\* The host's events and the result are journaled as they come.
LEMMA EventsOK ==
    ASSUME NEW e \in EntryRow, Fit(e), e.known, RelayShape, e.op.kind \in Leasing, HasLease(e),
           e.input # 0, NEW f \in EntryRow, ~Over(f), ~Lost(f),
           f.input = e.input, f.known = e.known, f.attempt = e.attempt, f.history = e.history,
           f.op = e.op, SameFence(e, f), SameGrants(e, f), SameKeys(e, f),
           \/ e.events = "none" /\ f.events = "accepted" /\ f.result = e.result
           \/ /\ f.events \in Outcomes /\ e.events = "accepted"
              /\ host[e.attempt].state = f.events /\ f.result = e.result
           \/ e.events = "completed" /\ f.events = "completed" /\ f.result = e.attempt
    PROVE  Fit(f) /\ HasLease(f)
<1>0. Fenced(e) /\ Acceptable(e) /\ TurnsOf(e) /\ GrantsOf(e)
  BY DEF Fit, JournalFits
<1>3. Acceptable(f)
  BY <1>0 DEF Acceptable, PredecessorValid, SameFence, SameGrants
<1>4. TurnsOf(f)
  BY <1>0 DEF TurnsOf, Outcomes
<1>5. GrantsOf(f)
  BY <1>0, GrantsSame
<1>6. f.grant <= relay.token
  BY <1>0 DEF Fenced, LeaseOf, SameGrants
<1>7. HasLease(f)
  BY DEF Over, Lost, HasLease, SameFence
<1>8. Fit(f)
  BY <1>3, <1>4, <1>5, <1>6, <1>7, EvidenceOK
<1> QED
  BY <1>7, <1>8

-----------------------------------------------------------------------------
(* What a request does at the Relay *)

\* The row and the receipt of an intent that is served for the first time.
Outcome(row, status, token) ==
    \/ /\ entry.op.kind = "claim" /\ relay.status \in Held
       /\ row.status = "dead_lettered" /\ row.token = relay.token
       /\ status = "dead_lettered" /\ token = 0
    \/ /\ entry.op.kind = "claim" /\ relay.status \in Held \cup {"stored"}
       /\ row.status = "leased" /\ row.token = relay.token + 1
       /\ status = "leased" /\ token = row.token
    \/ /\ entry.op.kind = "start" /\ relay.status = "leased" /\ relay.token = entry.op.token
       /\ row.status = "executing" /\ row.token = relay.token
       /\ status = "executing" /\ token = relay.token
    \/ /\ entry.op.kind = "renew" /\ relay.status \in Held /\ relay.token = entry.op.token
       /\ row = relay
       /\ status = relay.status /\ token = relay.token
    \/ /\ entry.op.kind = "complete" /\ relay.status = "executing" /\ relay.token = entry.op.token
       /\ row.status = "acknowledged" /\ row.token = relay.token /\ row.result = entry.result
       /\ status = "acknowledged" /\ token = 0
    \/ /\ entry.op.kind = "release" /\ relay.status \in Held /\ relay.token = entry.op.token
       /\ row.status = "stored" /\ row.token = relay.token
       /\ entry.op.class = "transient" /\ relay.token < MaxAttempts
       /\ status = "stored" /\ token = 0
    \/ /\ entry.op.kind = "release" /\ relay.status \in Held /\ relay.token = entry.op.token
       /\ row.status = "dead_lettered" /\ row.token = relay.token
       /\ status = "dead_lettered" /\ token = 0

\* An answer that changed nothing: a receipt, or a refusal that left none.
Nothing(a) ==
    \/ /\ a.result = "replayed"
       /\ \E r \in Stored(entry.op) : a.status = r.status /\ a.token = r.token
    \/ a = Refusal /\ (relay.status = "cancelled" \/ Stored(entry.op) = {})
    \/ /\ a.result = "later" /\ a # NoAnswer
       /\ entry.op.kind = "claim" /\ relay.status = "stored" /\ Stored(entry.op) = {}

\* An answer has its fields.
LEMMA AnswerFields ==
    ASSUME NEW x \in {"none", "ok", "replayed", "refused", "later"}, NEW s \in Statuses \cup {"none"},
           NEW t \in Tokens
    PROVE  LET a == Answer(x, s, t) IN
           a \in AnswerRow /\ a.result = x /\ a.status = s /\ a.token = t
BY DEF Answer, AnswerRow

\* A row the Relay writes.
LEMMA RowFields ==
    ASSUME RelayShape, NEW s \in Statuses
    PROVE  Row(s) \in RelayRow /\ Row(s).status = s /\ Row(s).token = relay.token
BY DEF Row, RelayShape, RelayRow

\* claimDelivery.
LEMMA ServeClaimCases ==
    ASSUME NodeShape, entry.op.kind = "claim", Stored(entry.op) = {}
    PROVE  LET s == ServeClaim IN
           /\ s[1] \in RelayRow /\ s[2] \in AnswerRow
           /\ \/ s[1] = relay /\ Nothing(s[2])
              \/ s[2].result = "ok" /\ Outcome(s[1], s[2].status, s[2].token)
<1> DEFINE lapsed == relay.status \in Held /\ relay.lapsed
           granted == [Row("leased") EXCEPT !.token = @ + 1]
<1>0. RelayShape /\ relay.token \in Nat /\ {"leased", "dead_lettered", "none"} \subseteq Statuses \cup {"none"}
      /\ {"leased", "dead_lettered"} \subseteq Statuses
  BY DEF NodeShape, RelayShape, RelayRow, Tokens, Statuses, Held, Closed
<1>1. CASE lapsed /\ relay.token >= MaxAttempts
  <2>1. ServeClaim = <<Row("dead_lettered"), Answer("ok", "dead_lettered", 0)>>
    BY <1>0, <1>1, NodeBounds DEF ServeClaim, Held
  <2>2. Row("dead_lettered") \in RelayRow /\ Row("dead_lettered").status = "dead_lettered"
        /\ Row("dead_lettered").token = relay.token
    BY <1>0, RowFields
  <2>3. LET a == Answer("ok", "dead_lettered", 0) IN
           a \in AnswerRow /\ a.result = "ok" /\ a.status = "dead_lettered" /\ a.token = 0
    BY <1>0, NodeBounds, AnswerFields
  <2> QED
    BY <1>1, <2>1, <2>2, <2>3 DEF Outcome
<1>2. CASE (lapsed \/ (relay.status = "stored" /\ relay.due)) /\ relay.token < MaxAttempts
  <2>1. ServeClaim = <<granted, Answer("ok", "leased", granted.token)>>
    BY <1>0, <1>2, NodeBounds DEF ServeClaim, Held
  <2>2. relay.token + 1 \in Tokens
    BY <1>0, <1>2, NodeBounds DEF Tokens
  <2>3. granted \in RelayRow /\ granted.status = "leased" /\ granted.token = relay.token + 1
    BY <1>0, <2>2 DEF Row, RelayShape, RelayRow
  <2> HIDE DEF granted
  <2>4. LET a == Answer("ok", "leased", granted.token) IN
           a \in AnswerRow /\ a.result = "ok" /\ a.status = "leased" /\ a.token = granted.token
    BY <1>0, <2>2, <2>3, AnswerFields
  <2> QED
    BY <1>2, <2>1, <2>3, <2>4 DEF Outcome
<1>3. CASE relay.status = "stored" /\ ~relay.due
  <2>1. ServeClaim = <<relay, Answer("later", "none", 0)>>
    BY <1>3 DEF ServeClaim, Held
  <2>2. LET a == Answer("later", "none", 0) IN a \in AnswerRow /\ a.result = "later"
    BY <1>0, NodeBounds, AnswerFields
  <2> QED
    BY <1>0, <1>3, <2>1, <2>2, Fields DEF Nothing, RelayShape
<1>4. CASE /\ ~(lapsed /\ relay.token >= MaxAttempts)
           /\ ~((lapsed \/ (relay.status = "stored" /\ relay.due)) /\ relay.token < MaxAttempts)
           /\ ~(relay.status = "stored" /\ ~relay.due)
  <2>1. ServeClaim = <<relay, Refusal>>
    BY <1>4 DEF ServeClaim
  <2> QED
    BY <1>0, <2>1, Fields DEF Nothing, RelayShape
<1> QED
  BY <1>1, <1>2, <1>3, <1>4

\* startDelivery, renewDelivery, completeDelivery and releaseDelivery.
LEMMA ServeLeaseCases ==
    ASSUME NodeShape, entry.op.kind \in Kinds \ {"claim"}, Stored(entry.op) = {}
    PROVE  LET s == ServeLease(entry.op) IN
           /\ s[1] \in RelayRow /\ s[2] \in AnswerRow
           /\ \/ s[1] = relay /\ Nothing(s[2])
              \/ s[2].result = "ok" /\ Outcome(s[1], s[2].status, s[2].token)
<1>0. /\ RelayShape /\ relay.token \in Nat /\ relay \in RelayRow
      /\ {"executing", "acknowledged", "stored", "dead_lettered"} \subseteq Statuses
      /\ relay.status \in Statuses /\ entry.op.token \in Tokens /\ entry.result \in Tokens
  BY DEF NodeShape, RelayShape, JournalShape, RelayRow, EntryRow, OpRow, Tokens, Statuses, Held, Closed
<1>1. CASE entry.op.kind = "start" /\ Owns(entry.op) /\ relay.status = "leased"
  <2>1. ServeLease(entry.op) = <<Row("executing"), Answer("ok", "executing", entry.op.token)>>
    BY <1>1 DEF ServeLease
  <2>2. Row("executing") \in RelayRow /\ Row("executing").status = "executing"
        /\ Row("executing").token = relay.token
    BY <1>0, RowFields
  <2>3. LET a == Answer("ok", "executing", entry.op.token) IN
           a \in AnswerRow /\ a.result = "ok" /\ a.status = "executing" /\ a.token = entry.op.token
    BY <1>0, AnswerFields
  <2> QED
    BY <1>1, <2>1, <2>2, <2>3 DEF Outcome, Owns
<1>2. CASE entry.op.kind = "renew" /\ Owns(entry.op)
  <2>1. ServeLease(entry.op) = <<relay, Answer("ok", relay.status, entry.op.token)>>
    BY <1>2 DEF ServeLease
  <2>2. LET a == Answer("ok", relay.status, entry.op.token) IN
           a \in AnswerRow /\ a.result = "ok" /\ a.status = relay.status /\ a.token = entry.op.token
    BY <1>0, AnswerFields
  <2> QED
    BY <1>0, <1>2, <2>1, <2>2 DEF Outcome, Owns
<1>3. CASE entry.op.kind = "complete" /\ Owns(entry.op) /\ relay.status = "executing"
  <2> DEFINE row == [Row("acknowledged") EXCEPT !.result = entry.result]
  <2>1. ServeLease(entry.op) = <<row, Answer("ok", "acknowledged", 0)>>
    BY <1>3 DEF ServeLease
  <2>2. row \in RelayRow /\ row.status = "acknowledged" /\ row.token = relay.token
        /\ row.result = entry.result
    BY <1>0 DEF Row, RelayShape, RelayRow
  <2> HIDE DEF row
  <2>3. LET a == Answer("ok", "acknowledged", 0) IN
           a \in AnswerRow /\ a.result = "ok" /\ a.status = "acknowledged" /\ a.token = 0
    BY <1>0, NodeBounds, AnswerFields
  <2> QED
    BY <1>3, <2>1, <2>2, <2>3 DEF Outcome, Owns
<1>4. CASE /\ entry.op.kind = "release" /\ Owns(entry.op)
           /\ entry.op.class = "transient" /\ relay.token < MaxAttempts
  <2> DEFINE row == [Row("stored") EXCEPT !.due = FALSE]
  <2>1. ServeLease(entry.op) = <<row, Answer("ok", "stored", 0)>>
    BY <1>4 DEF ServeLease
  <2>2. row \in RelayRow /\ row.status = "stored" /\ row.token = relay.token
    BY <1>0 DEF Row, RelayShape, RelayRow
  <2> HIDE DEF row
  <2>3. LET a == Answer("ok", "stored", 0) IN
           a \in AnswerRow /\ a.result = "ok" /\ a.status = "stored" /\ a.token = 0
    BY <1>0, NodeBounds, AnswerFields
  <2> QED
    BY <1>4, <2>1, <2>2, <2>3 DEF Outcome, Owns
<1>5. CASE /\ entry.op.kind = "release" /\ Owns(entry.op)
           /\ ~(entry.op.class = "transient" /\ relay.token < MaxAttempts)
  <2>1. ServeLease(entry.op) = <<Row("dead_lettered"), Answer("ok", "dead_lettered", 0)>>
    BY <1>5 DEF ServeLease
  <2>2. Row("dead_lettered") \in RelayRow /\ Row("dead_lettered").status = "dead_lettered"
        /\ Row("dead_lettered").token = relay.token
    BY <1>0, RowFields
  <2>3. LET a == Answer("ok", "dead_lettered", 0) IN
           a \in AnswerRow /\ a.result = "ok" /\ a.status = "dead_lettered" /\ a.token = 0
    BY <1>0, NodeBounds, AnswerFields
  <2> QED
    BY <1>5, <2>1, <2>2, <2>3 DEF Outcome, Owns
<1>6. CASE /\ ~(entry.op.kind = "start" /\ Owns(entry.op) /\ relay.status = "leased")
           /\ ~(entry.op.kind = "renew" /\ Owns(entry.op))
           /\ ~(entry.op.kind = "complete" /\ Owns(entry.op) /\ relay.status = "executing")
           /\ ~(entry.op.kind = "release" /\ Owns(entry.op))
  <2>1. ServeLease(entry.op) = <<relay, Refusal>>
    BY <1>6 DEF ServeLease
  <2> QED
    BY <1>0, <2>1, Fields DEF Nothing
<1> QED
  BY <1>1, <1>2, <1>3, <1>4, <1>5, <1>6

\* Any request.
LEMMA ServeCases ==
    ASSUME NodeShape, entry.op.kind # "none"
    PROVE  LET s == Serve(entry.op) IN
           /\ s[1] \in RelayRow /\ s[2] \in AnswerRow
           /\ \/ s[1] = relay /\ Nothing(s[2])
              \/ /\ Stored(entry.op) = {} /\ relay.status # "cancelled"
                 /\ s[2].result = "ok" /\ Outcome(s[1], s[2].status, s[2].token)
<1>0. relay \in RelayRow /\ receipts \subseteq ReceiptRow /\ entry.op.kind \in Kinds
  BY DEF NodeShape, RelayShape, JournalShape, EntryRow, OpRow
<1>1. CASE relay.status = "cancelled" \/ (Stored(entry.op) = {} /\ ~mission)
  <2>1. Serve(entry.op) = <<relay, Refusal>>
    BY <1>1 DEF Serve
  <2> QED
    BY <1>0, <1>1, <2>1, Fields DEF Nothing
<1>2. CASE relay.status # "cancelled" /\ Stored(entry.op) # {}
  <2> DEFINE r == CHOOSE r \in Stored(entry.op) : TRUE
  <2>1. Serve(entry.op) = <<relay, Answer("replayed", r.status, r.token)>>
    BY <1>2 DEF Serve
  <2>2. r \in Stored(entry.op)
    BY <1>2
  <2>3. r.status \in Statuses /\ r.token \in Tokens
    BY <1>0, <2>2 DEF Stored, ReceiptRow
  <2> HIDE DEF r
  <2>4. LET a == Answer("replayed", r.status, r.token) IN
           a \in AnswerRow /\ a.result = "replayed" /\ a.status = r.status /\ a.token = r.token
    BY <2>3, AnswerFields
  <2> QED
    BY <1>0, <2>1, <2>2, <2>4 DEF Nothing
<1>3. CASE relay.status # "cancelled" /\ Stored(entry.op) = {} /\ mission
  <2>1. Serve(entry.op) = IF entry.op.kind = "claim" THEN ServeClaim ELSE ServeLease(entry.op)
    BY <1>3 DEF Serve
  <2>2. CASE entry.op.kind = "claim"
    BY <1>3, <2>1, <2>2, ServeClaimCases
  <2>3. CASE entry.op.kind # "claim"
    BY <1>0, <1>3, <2>1, <2>3, ServeLeaseCases
  <2> QED
    BY <2>2, <2>3
<1> QED
  BY <1>1, <1>2, <1>3

\* What a served request leaves, as far as the journal can tell.
Recorded(a) ==
    /\ a \in AnswerRow /\ a # NoAnswer
    /\ IF a.result \in {"ok", "replayed"} THEN Receipt(entry.op, a) \in receipts'
       ELSE /\ relay'.status = "cancelled" \/ Stored(entry.op)' = {}
            /\ a = Refusal \/ (entry.op.kind = "claim" /\ entry.token = 0)

\* A request that changed nothing.
LEMMA NothingOK ==
    ASSUME NodeShape, Fit(entry), entry.op.kind # "none", NEW a \in AnswerRow, Nothing(a),
           UNCHANGED <<relay, receipts, entry>>
    PROVE  Recorded(a) /\ a.result # "ok"
<1>0. relay' = relay /\ receipts' = receipts /\ entry' = entry
  OBVIOUS
<1>1. CASE a.result = "replayed"
  <2>1. PICK r \in Stored(entry.op) : a.status = r.status /\ a.token = r.token
    BY <1>1, Fields DEF Nothing
  <2>2. r \in ReceiptRow /\ r \in receipts /\ r.kind = entry.op.kind /\ r.key = entry.op.key
    BY <2>1 DEF Stored, NodeShape, RelayShape
  <2>3. Receipt(entry.op, a) = r
    BY <2>1, <2>2 DEF Receipt, ReceiptRow
  <2>4. Receipt(entry.op, a) \in receipts'
    BY <1>0, <2>2, <2>3 DEF Receipt
  <2> QED
    BY <1>1, <2>4, Fields DEF Recorded
<1>2. CASE a = Refusal /\ (relay.status = "cancelled" \/ Stored(entry.op) = {})
  <2>1. relay'.status = "cancelled" \/ Stored(entry.op)' = {}
    BY <1>0, <1>2 DEF Stored
  <2> QED
    BY <1>2, <2>1, Fields DEF Recorded
<1>3. CASE /\ a.result = "later" /\ a # NoAnswer
           /\ entry.op.kind = "claim" /\ relay.status = "stored" /\ Stored(entry.op) = {}
  <2>1. Stored(entry.op)' = {}
    BY <1>0, <1>3 DEF Stored
  <2>2. entry.token = 0
    BY <1>3 DEF Fit, JournalFits, Fenced, GivenBack
  <2> QED
    BY <1>3, <2>1, <2>2 DEF Recorded
<1> QED
  BY <1>1, <1>2, <1>3 DEF Nothing

\* A request that is served for the first time adds its receipt.
LEMMA OutcomeOK ==
    ASSUME NodeShape, RelaySound, Fit(entry), entry.known, NEW s \in Statuses, NEW t \in Tokens, NEW n,
           n = [kind |-> entry.op.kind, key |-> entry.op.key, status |-> s, token |-> t],
           Stored(entry.op) = {}, Outcome(relay', s, t),
           receipts' = receipts \cup {n}, entry' = entry
    PROVE  /\ RelaySound' /\ Pending(entry)' /\ Fenced(entry)'
           /\ relay'.status = "acknowledged" =>
                 /\ entry.op.kind = "complete" /\ Kept("complete", entry.op.key)' # {}
                 /\ relay'.result = entry.attempt /\ host[entry.attempt].state = "completed"
<1>p. PICK k, i : k = entry.op.kind /\ i = entry.op.key
  OBVIOUS
<1>0. /\ Pending(entry) /\ Fenced(entry) /\ TurnsOf(entry) /\ entry \in EntryRow
      /\ relay.token \in Nat /\ entry.token \in Nat /\ i \in Nat /\ entry.op.token \in Nat
      /\ entry.attempt \in Nat /\ entry.attempt # 0 /\ entry.grant \in Nat
      /\ receipts \subseteq ReceiptRow
  BY <1>p, NodeBounds
  DEF Fit, JournalFits, EntryRow, OpRow, Tokens, Attempts, NodeShape, RelayShape, RelayRow
<1>1. n.kind = k /\ n.key = i /\ n.status = s /\ n.token = t
  BY <1>p
<1>2. \A kk, j : Kept(kk, j)' = Kept(kk, j) \cup {r \in {n} : r.kind = kk /\ r.key = j}
  BY DEF Kept
<1>3. Kept(k, i) = {}
  BY <1>p DEF Kept, Stored
<1>4. \A kk, j : /\ kk # k \/ j # i => Kept(kk, j)' = Kept(kk, j)
                 /\ kk = k /\ j = i => Kept(kk, j)' = {n}
                 /\ Kept(kk, j) \subseteq Kept(kk, j)'
  BY <1>p, <1>1, <1>2, <1>3
<1>5. receipts' = receipts \cup {n}
  OBVIOUS
<1>6. CASE /\ k = "claim" /\ relay.status \in Held
           /\ relay'.status = "dead_lettered" /\ relay'.token = relay.token
           /\ s = "dead_lettered" /\ t = 0
  <2>1. RelaySound'
    <3>1. ReceiptsSound'
      BY <1>p, <1>1, <1>4, <1>5, <1>6 DEF RelaySound, ReceiptsSound, Held
    <3>2. RowSound'
      BY <1>p, <1>6 DEF RowSound, Held
    <3> QED BY <3>1, <3>2 DEF RelaySound
  <2>2. Pending(entry)'
    BY <1>p, <1>0, <1>1, <1>4, <1>6
    DEF Pending, ClaimPends, StartPends, RenewPends, CompletePends, ReleasePends, HasLease, Lost, Over
  <2>3. Fenced(entry)'
    <3>1. KeysOf(entry)'
      BY <1>p, <1>0, <1>1, <1>5, <1>6 DEF Fenced, KeysOf, Pending, ClaimPends
    <3>2. LeaseOf(entry)'
      BY <1>p, <1>0, <1>4, <1>6 DEF Fenced, LeaseOf, Over, Held
    <3>3. SameLease(entry)' /\ GivenBack(entry)' /\ NotReleased(entry)'
      BY <1>p, <1>0, <1>6 DEF SameLease, GivenBack, NotReleased, HasLease, Held
    <3> QED BY <3>1, <3>2, <3>3 DEF Fenced
  <2> QED BY <1>p, <1>6, <2>1, <2>2, <2>3
<1>7. CASE /\ k = "claim" /\ relay.status \in Held \cup {"stored"}
           /\ relay'.status = "leased" /\ relay'.token = relay.token + 1
           /\ s = "leased" /\ t = relay'.token
  <2>m. PICK m \in Nat : m = relay.token + 1
    BY <1>p, <1>0
  <2>0. \A r \in receipts : r.kind \in {"start", "release"} =>
           r.key <= relay.token /\ r.key >= 1 /\ r.key \in Nat
    BY <1>p, <2>m, <1>7 DEF RelaySound, ReceiptsSound, Held
  <2>5. m \in Nat /\ relay.token < m /\ relay'.token = m /\ t = m /\ m # 0
        /\ \A j \in Nat : j <= relay.token => j < m
    BY <1>p, <2>m, <1>0, <1>7
  <2>6. \A r \in receipts : r.kind \in {"start", "release"} => r.key # m /\ r.key \in 1..m
    <3> SUFFICES ASSUME NEW r \in receipts, r.kind \in {"start", "release"}
                 PROVE  r.key # m /\ r.key \in 1..m
      OBVIOUS
    <3>1. r.key \in Nat /\ r.key >= 1 /\ r.key <= relay.token
      BY <2>0
    <3> QED
      BY <1>0, <2>m, <3>1
  <2>7. Kept("start", m) = {} /\ Kept("release", m) = {}
    BY <2>6 DEF Kept
  <2>8. Kept("start", m)' = {} /\ Kept("release", m)' = {}
    BY <1>p, <2>m, <1>4, <1>7, <2>7
  <2>1. RelaySound'
    <3>1. ReceiptsSound'
      BY <1>p, <2>m, <1>0, <1>1, <1>4, <1>5, <1>7, <2>0, <2>5, <2>6 DEF RelaySound, ReceiptsSound, Held
    <3>2. RowSound'
      BY <1>p, <2>m, <1>7, <2>5, <2>8 DEF RowSound, Held
    <3> QED BY <3>1, <3>2 DEF RelaySound
  <2>3. Pending(entry)'
    <3>1. ClaimPends(entry)'
      <4>1. entry.attempt <= m
        BY <1>p, <2>m, <1>0 DEF Fenced, LeaseOf
      <4>2. Kept("claim", i)' = {n} /\ n.token = m
        BY <1>p, <2>m, <1>1, <1>4, <1>7, <2>5
      <4>3. entry'.op.key = i /\ entry'.attempt <= m /\ entry'.op.key = entry'.claims
            /\ entry'.phase = "claim_intent"
        BY <1>p, <2>m, <1>0, <1>7, <4>1 DEF Pending, ClaimPends
      <4> QED
        BY <1>p, <2>m, <1>7, <2>5, <2>8, <4>2, <4>3 DEF ClaimPends
    <3> QED
      BY <1>p, <2>m, <1>0, <1>7, <3>1
      DEF Pending, StartPends, RenewPends, CompletePends, ReleasePends, Over
  <2>4. Fenced(entry)'
    <3>1. KeysOf(entry)'
      BY <1>p, <2>m, <1>0, <1>1, <1>5, <1>7 DEF Fenced, KeysOf, Pending, ClaimPends
    <3>2. LeaseOf(entry)'
      BY <1>p, <2>m, <1>0, <1>4, <1>7, <2>5 DEF Fenced, LeaseOf, Over, Held
    <3>3. SameLease(entry)'
      <4>1. n \in Kept("claim", entry.op.key)'
        BY <1>p, <2>m, <1>4, <1>7
      <4> QED
        BY <1>p, <2>m, <1>0, <1>1, <1>7, <4>1 DEF SameLease, Granting
    <3>4. GivenBack(entry)' /\ NotReleased(entry)'
      BY <1>p, <2>m, <1>0, <1>7 DEF GivenBack, NotReleased, Held
    <3> QED BY <3>1, <3>2, <3>3, <3>4 DEF Fenced
  <2> QED BY <1>p, <2>m, <1>7, <2>1, <2>3, <2>4
<1>8. CASE /\ k = "start" /\ relay.status = "leased" /\ relay.token = entry.op.token
           /\ relay'.status = "executing" /\ relay'.token = relay.token
           /\ s = "executing" /\ t = relay.token
  <2>0. /\ i = relay.token /\ entry.token = relay.token /\ relay.token # 0
        /\ entry.phase = "start_intent"
    BY <1>p, <1>0, <1>8 DEF Pending, StartPends
  <2>1. RelaySound'
    <3>1. ReceiptsSound'
      BY <1>p, <1>0, <1>1, <1>4, <1>5, <1>8, <2>0 DEF RelaySound, ReceiptsSound, Held
    <3>2. RowSound'
      BY <1>p, <1>4, <1>8, <2>0 DEF RowSound, Held
    <3> QED BY <3>1, <3>2 DEF RelaySound
  <2>2. Pending(entry)'
    BY <1>p, <1>0, <1>1, <1>4, <1>8
    DEF Pending, ClaimPends, StartPends, RenewPends, CompletePends, ReleasePends, HasLease, Lost, Over
  <2>3. Fenced(entry)'
    <3>1. KeysOf(entry)'
      BY <1>p, <1>0, <1>1, <1>5, <1>8 DEF Fenced, KeysOf
    <3>2. LeaseOf(entry)'
      BY <1>p, <1>0, <1>4, <1>8 DEF Fenced, LeaseOf, Over, Held
    <3>3. SameLease(entry)' /\ GivenBack(entry)' /\ NotReleased(entry)'
      BY <1>p, <1>0, <1>4, <1>8, <2>0 DEF Fenced, SameLease, GivenBack, NotReleased, HasLease, Lost, Over
    <3> QED BY <3>1, <3>2, <3>3 DEF Fenced
  <2> QED BY <1>p, <1>8, <2>1, <2>2, <2>3
<1>9. CASE /\ k = "renew" /\ relay.status \in Held /\ relay.token = entry.op.token
           /\ relay' = relay /\ s = relay.status /\ t = relay.token
  <2>0. /\ i = entry.renews /\ entry.token = relay.token /\ relay.token # 0
    BY <1>p, <1>0, <1>9 DEF Pending, RenewPends, HasLease
  <2>1. RelaySound'
    <3>1. ReceiptsSound'
      BY <1>p, <1>0, <1>1, <1>4, <1>5, <1>9, <2>0 DEF RelaySound, ReceiptsSound, RowSound, Held
    <3>2. RowSound'
      BY <1>p, <1>4, <1>9 DEF RelaySound, RowSound, Held
    <3> QED BY <3>1, <3>2 DEF RelaySound
  <2>2. Pending(entry)'
    <3>1. RenewPends(entry)'
      BY <1>p, <1>0, <1>1, <1>4, <1>9, <2>0 DEF Pending, RenewPends, HasLease, Lost, Over
    <3> QED
      BY <1>p, <1>0, <1>9, <3>1
      DEF Pending, ClaimPends, StartPends, CompletePends, ReleasePends, Over
  <2>3. Fenced(entry)'
    <3>1. KeysOf(entry)'
      BY <1>p, <1>0, <1>1, <1>5, <1>9, <2>0 DEF Fenced, KeysOf, EntryRow
    <3>2. LeaseOf(entry)'
      BY <1>p, <1>0, <1>4, <1>9 DEF Fenced, LeaseOf, Over, Held
    <3>3. SameLease(entry)' /\ GivenBack(entry)' /\ NotReleased(entry)'
      BY <1>p, <1>0, <1>4, <1>9, <2>0 DEF Fenced, SameLease, GivenBack, NotReleased, HasLease, Lost, Over, Held
    <3> QED BY <3>1, <3>2, <3>3 DEF Fenced
  <2>4. relay'.status # "acknowledged"
    BY <1>p, <1>9 DEF Held
  <2> QED BY <2>1, <2>2, <2>3, <2>4
<1>10. CASE /\ k = "complete" /\ relay.status = "executing" /\ relay.token = entry.op.token
            /\ relay'.status = "acknowledged" /\ relay'.token = relay.token
            /\ relay'.result = entry.result
            /\ s = "acknowledged" /\ t = 0
  <2>0. /\ i = entry.token /\ entry.token = relay.token /\ relay.token # 0
        /\ entry.result = entry.attempt
    BY <1>p, <1>0, <1>10 DEF Pending, CompletePends
  <2>1. RelaySound'
    <3>1. ReceiptsSound'
      BY <1>p, <1>0, <1>1, <1>4, <1>5, <1>10, <2>0 DEF RelaySound, ReceiptsSound, Held
    <3>2. RowSound'
      BY <1>p, <1>10 DEF RowSound, Held
    <3> QED BY <3>1, <3>2 DEF RelaySound
  <2>2. Pending(entry)'
    BY <1>p, <1>0, <1>1, <1>4, <1>10
    DEF Pending, ClaimPends, StartPends, RenewPends, CompletePends, ReleasePends, HasLease, Lost, Over
  <2>3. Fenced(entry)'
    <3>1. KeysOf(entry)'
      BY <1>p, <1>0, <1>1, <1>5, <1>10 DEF Fenced, KeysOf
    <3>2. LeaseOf(entry)'
      BY <1>p, <1>0, <1>4, <1>10 DEF Fenced, LeaseOf, Over, Held
    <3>3. SameLease(entry)' /\ GivenBack(entry)' /\ NotReleased(entry)'
      BY <1>p, <1>0, <1>4, <1>10 DEF Fenced, SameLease, GivenBack, NotReleased, HasLease, Lost, Over, Held
    <3> QED BY <3>1, <3>2, <3>3 DEF Fenced
  <2>4. Kept("complete", entry.op.key)' # {}
    BY <1>p, <1>4, <1>10
  <2>5. host[entry.attempt].state = "completed"
    BY <1>p, <1>0, <2>0 DEF TurnsOf, Outcomes
  <2> QED BY <1>p, <1>10, <2>0, <2>1, <2>2, <2>3, <2>4, <2>5
<1>11. CASE /\ k = "release" /\ relay.status \in Held /\ relay.token = entry.op.token
            /\ relay'.token = relay.token /\ t = 0
            /\ \/ /\ relay'.status = "stored" /\ s = "stored"
                  /\ entry.op.class = "transient" /\ relay.token < MaxAttempts
               \/ relay'.status = "dead_lettered" /\ s = "dead_lettered"
  <2>0. /\ i = relay.token /\ relay.token # 0 /\ entry.token \in {0, entry.op.token}
        /\ entry.phase = "release_intent"
    BY <1>p, <1>0, <1>11 DEF Pending, ReleasePends
  <2>1. RelaySound'
    <3>1. ReceiptsSound'
      BY <1>p, <1>0, <1>1, <1>4, <1>5, <1>11, <2>0 DEF RelaySound, ReceiptsSound, Held
    <3>2. RowSound'
      BY <1>p, <1>11 DEF RowSound, Held
    <3> QED BY <3>1, <3>2 DEF RelaySound
  <2>2. Pending(entry)'
    <3>1. ReleasePends(entry)'
      BY <1>p, <1>0, <1>1, <1>4, <1>11 DEF Pending, ReleasePends, Held
    <3> QED
      BY <1>p, <1>0, <1>11, <3>1
      DEF Pending, ClaimPends, StartPends, RenewPends, CompletePends, Over
  <2>3. Fenced(entry)'
    <3>1. KeysOf(entry)'
      BY <1>p, <1>0, <1>1, <1>5, <1>11 DEF Fenced, KeysOf
    <3>2. LeaseOf(entry)'
      BY <1>p, <1>0, <1>4, <1>11 DEF Fenced, LeaseOf, Over, Held
    <3>3. SameLease(entry)' /\ GivenBack(entry)' /\ NotReleased(entry)'
      BY <1>p, <1>0, <1>4, <1>11, <2>0 DEF SameLease, GivenBack, NotReleased, Held
    <3> QED BY <3>1, <3>2, <3>3 DEF Fenced
  <2> QED BY <1>p, <1>11, <2>1, <2>2, <2>3
<1> QED
  BY <1>p, <1>6, <1>7, <1>8, <1>9, <1>10, <1>11 DEF Outcome

\* The journal after a step that leaves the entry or saves another one.
JournalKept ==
    /\ Pending(entry)' /\ Fenced(entry)' /\ TurnsOf(entry)' /\ CompletionOf(entry)' /\ UnseenOf(entry)'
    /\ host' \in [Attempts -> TurnRow]
    /\ \A a \in Attempts : host[a].state # "none" => host'[a].state # "none"

\* A request that reaches the Relay: the journal fits the row it leaves, and
\* the answer is about a receipt that is kept.
LEMMA CommitOK ==
    ASSUME NodeShape, RelaySound, Fit(entry), entry.known, entry.op.kind # "none",
           Commit(entry.op), entry' = entry, host' = host \/ TryCancel
    PROVE  /\ RelayShape' /\ RelaySound' /\ JournalKept
           /\ Recorded(Reply(entry.op))
           /\ entry.op.kind # "complete" /\ relay.status # "acknowledged" =>
                 relay'.status # "acknowledged"
<1> DEFINE row == Serve(entry.op)[1]
           a == Serve(entry.op)[2]
<1>1. /\ row \in RelayRow /\ a \in AnswerRow
      /\ \/ row = relay /\ Nothing(a)
         \/ /\ Stored(entry.op) = {} /\ relay.status # "cancelled"
            /\ a.result = "ok" /\ Outcome(row, a.status, a.token)
  BY ServeCases
<1>2. /\ relay' = row
      /\ receipts' = IF a.result = "ok" THEN receipts \cup {Receipt(entry.op, a)} ELSE receipts
      /\ mission' \in BOOLEAN
  BY DEF Commit, NodeShape, RelayShape
<1>3. a = Reply(entry.op)
  BY DEF Reply
<1>4. /\ entry \in EntryRow /\ entry.op \in OpRow /\ receipts \subseteq ReceiptRow
      /\ Pending(entry) /\ Fenced(entry) /\ TurnsOf(entry) /\ CompletionOf(entry)
  BY DEF NodeShape, JournalShape, RelayShape, EntryRow, Fit, JournalFits
<1> HIDE DEF row, a
<1>5. PICK f \in EntryRow : f = entry
  BY <1>4
<1>6. PICK b \in AnswerRow : b = a
  BY <1>1
<1>7. /\ TurnsOf(entry)' /\ host' \in [Attempts -> TurnRow]
      /\ \A x \in Attempts : host[x].state # "none" => host'[x].state # "none"
      /\ \A x \in Attempts : host[x].state # "running" => host'[x].state = host[x].state
  BY <1>4, <1>5, TurnsAfter
<1>8. UnseenOf(entry)'
  BY DEF UnseenOf
<1>9. CASE row = relay /\ Nothing(a)
  <2>1. b.result # "ok"
    BY <1>6, <1>9, Fields DEF Nothing
  <2>2. relay' = relay /\ receipts' = receipts
    BY <1>2, <1>6, <1>9, <2>1
  <2>3. Recorded(b)
    BY <1>6, <1>9, <2>2, NothingOK
  <2>4. RelayShape' /\ RelaySound'
    BY <1>1, <1>2, <1>4, <2>2 DEF RelayShape, RelaySound, ReceiptsSound, RowSound, Kept
  <2>5. Pending(entry)' /\ Fenced(entry)'
    BY <1>4, <1>5, <2>2, FencedAfter
  <2>6. CompletionOf(entry)'
    BY <1>4, <1>7, <2>2 DEF CompletionOf, Kept, EntryRow
  <2> QED
    BY <1>3, <1>6, <1>7, <1>8, <2>2, <2>3, <2>4, <2>5, <2>6 DEF JournalKept
<1>10. CASE /\ Stored(entry.op) = {} /\ relay.status # "cancelled"
            /\ a.result = "ok" /\ Outcome(row, a.status, a.token)
  <2>1. b.status \in Statuses /\ b.token \in Tokens
    BY <1>4, <1>6, <1>10, NodeBounds
    DEF Outcome, AnswerRow, NodeShape, RelayShape, RelayRow, Statuses, Held, Closed
  <2>2. PICK n : n = [kind |-> entry.op.kind, key |-> entry.op.key, status |-> b.status,
                      token |-> b.token]
    OBVIOUS
  <2>3. n = Receipt(entry.op, b)
    BY <2>2 DEF Receipt
  <2>4. receipts' = receipts \cup {n}
    BY <1>2, <1>6, <1>10, <2>3
  <2>5. Outcome(relay', b.status, b.token)
    BY <1>2, <1>6, <1>10
  <2>6. PICK s \in Statuses, t \in Tokens : s = b.status /\ t = b.token
    BY <2>1
  <2>7. /\ RelaySound' /\ Pending(entry)' /\ Fenced(entry)'
        /\ relay'.status = "acknowledged" =>
              /\ entry.op.kind = "complete" /\ Kept("complete", entry.op.key)' # {}
              /\ relay'.result = entry.attempt /\ host[entry.attempt].state = "completed"
    <3>1. /\ n = [kind |-> entry.op.kind, key |-> entry.op.key, status |-> s, token |-> t]
          /\ Outcome(relay', s, t)
      BY <2>2, <2>5, <2>6
    <3> QED
      BY <1>10, <2>4, <3>1, OutcomeOK
  <2>8. RelayShape'
    <3>1. n \in ReceiptRow
      BY <1>4, <2>1, <2>2 DEF OpRow, ReceiptRow
    <3> QED
      BY <1>1, <1>2, <1>4, <2>4, <3>1 DEF RelayShape
  <2>9. CompletionOf(entry)'
    BY <1>4, <1>7, <2>7 DEF CompletionOf, EntryRow
  <2>10. Recorded(b)
    <3>1. b.result = "ok" /\ b # NoAnswer
      BY <1>6, <1>10, Fields
    <3>2. Receipt(entry.op, b) \in receipts'
      BY <2>3, <2>4 DEF Receipt
    <3> QED
      BY <3>1, <3>2 DEF Recorded
  <2> QED
    BY <1>3, <1>6, <1>7, <1>8, <2>7, <2>8, <2>9, <2>10 DEF JournalKept
<1> QED
  BY <1>1, <1>9, <1>10

\* What is left of FitsAfter's conclusion, when the entry is saved.
LEMMA SaveOK ==
    ASSUME NodeShape, SavesSound, NEW f \in EntryRow, Fit(f), Save(f), UNCHANGED <<relay, receipts>>,
           host' = host \/ (f.attempt = entry.attempt /\ TryCancel)
    PROVE  /\ entry' = f /\ JournalKept /\ JournalShape' /\ SavesSound'
           /\ capsule' \subseteq capsule => GrantsOf(entry)'
<1>1. Acceptable(f) /\ ~refused /\ JournalFits(f)
  BY DEF Fit, SavesSound
<1>2. entry' = f /\ ~refused'
  BY <1>1, Saved
<1>3. /\ Pending(entry)' /\ Fenced(entry)' /\ TurnsOf(entry)' /\ CompletionOf(entry)'
      /\ UnseenOf(entry)'
      /\ capsule' \subseteq capsule => GrantsOf(entry)'
  BY <1>1, <1>2, FitsAfter
<1>4. /\ host' \in [Attempts -> TurnRow]
      /\ \A a \in Attempts : host[a].state # "none" => host'[a].state # "none"
  BY <1>1, <1>2, TurnsAfter DEF JournalFits
<1>5. JournalShape'
  <2>1. refused' \in BOOLEAN
    BY DEF Save
  <2> QED
    BY <1>2, <2>1 DEF JournalShape
<1>6. SavesSound'
  BY <1>1, <1>2 DEF SavesSound, Acceptable, PredecessorValid
<1> QED
  BY <1>2, <1>3, <1>4, <1>5, <1>6 DEF JournalKept

\* The same when the entry is left alone.
LEMMA LeftOK ==
    ASSUME NodeShape, SavesSound, JournalFits(entry), UNCHANGED <<relay, receipts, entry, refused>>,
           host' = host \/ TryCancel
    PROVE  /\ JournalKept /\ JournalShape' /\ SavesSound'
           /\ capsule' \subseteq capsule => GrantsOf(entry)'
<1>1. PICK f \in EntryRow : f = entry
  BY DEF NodeShape, JournalShape
<1>2. Fit(f) /\ Acceptable(f)
  BY <1>1 DEF SavesSound, Fit
<1>3. Save(f)
  <2>1. refused = FALSE /\ refused' = refused /\ entry' = f
    BY <1>1 DEF NodeShape, JournalShape, SavesSound
  <2>2. entry' = IF Acceptable(f) THEN f ELSE entry
    BY <1>2, <2>1
  <2>3. refused' = (refused \/ ~Acceptable(f))
    BY <1>2, <2>1
  <2> QED
    BY <2>2, <2>3 DEF Save
<1> QED
  BY <1>1, <1>2, <1>3, SaveOK

-----------------------------------------------------------------------------
(* One action at a time *)

\* What an action can rely on.
LEMMA NodeFacts ==
    ASSUME NodeInv
    PROVE  /\ NodeShape /\ RelayShape /\ RelaySound /\ SavesSound /\ Fit(entry) /\ entry \in EntryRow
           /\ main \in MainRow /\ main.answer \in AnswerRow /\ capsule \subseteq Tokens
           /\ keeper \in KeeperSteps /\ host \in [Attempts -> TurnRow]
           /\ JournalFits(entry) /\ ProcessFits
           /\ Over(entry) /\ main.at \notin Quiet \cup {"dispatch", "retire", "clear"} =>
                 main.at = "abandon"
           /\ main.at \notin {"install", "checkpoint", "attach", "input", "lookup", "stream", "settle"}
                 => keeper = "off"
           /\ main.at \notin {"claim", "start", "renew", "publish", "publish_release", "retire", "clear"}
                 => main.answer = NoAnswer
<1>1. /\ NodeShape /\ RelayShape /\ RelaySound /\ SavesSound /\ entry \in EntryRow
      /\ main \in MainRow /\ capsule \subseteq Tokens /\ keeper \in KeeperSteps
      /\ host \in [Attempts -> TurnRow] /\ JournalFits(entry) /\ ProcessFits
  BY DEF NodeInv, NodeShape, JournalShape, ProcessShape
<1>2. Fit(entry)
  BY <1>1 DEF Fit, SavesSound
<1>3. main.answer \in AnswerRow
  BY <1>1 DEF MainRow
<1>4. Over(entry) /\ main.at \notin Quiet \cup {"dispatch", "retire", "clear"} => main.at = "abandon"
  BY <1>1 DEF ProcessFits, Ends
<1>5. main.at \notin {"install", "checkpoint", "attach", "input", "lookup", "stream", "settle"}
         => keeper = "off"
  BY <1>1 DEF ProcessFits, KeeperSound
<1>6. main.at \notin {"claim", "start", "renew", "publish", "publish_release", "retire", "clear"}
         => main.answer = NoAnswer
  BY <1>1 DEF ProcessFits, AnswersSound
<1> QED
  BY <1>1, <1>2, <1>3, <1>4, <1>5, <1>6

\* The process after a step.
ProcessKept ==
    /\ main' \in MainRow /\ keeper' \in KeeperSteps /\ faults' \in 0..MaxFaults
    /\ ProcessFits'

\* An action that saves an entry and makes no request.
LEMMA SaveStep ==
    ASSUME NodeInv, NEW f \in EntryRow, Fit(f), Save(f), UNCHANGED External,
           host' = host \/ (f.attempt = entry.attempt /\ TryCancel),
           capsule' \subseteq capsule \/ (GrantsOf(entry)' /\ capsule' \subseteq Tokens),
           JournalKept => ProcessKept
    PROVE  NodeInv'
<1>1. /\ entry' = f /\ JournalKept /\ JournalShape' /\ SavesSound'
      /\ capsule' \subseteq capsule => GrantsOf(entry)'
  BY NodeFacts, SaveOK DEF External
<1>2. GrantsOf(entry)' /\ capsule' \subseteq Tokens
  BY <1>1, NodeFacts
<1>3. JournalFits(entry)'
  BY <1>1, <1>2 DEF JournalFits, JournalKept
<1>4. RelayShape' /\ RelaySound'
  BY NodeFacts DEF External, RelayShape, RelaySound, ReceiptsSound, RowSound, Kept
<1>5. ProcessShape'
  BY <1>1, <1>2, NodeFacts DEF NodeShape, ProcessShape, ProcessKept, JournalKept, External
<1> QED
  BY <1>1, <1>3, <1>4, <1>5 DEF NodeInv, NodeShape, ProcessKept

\* An action that leaves the entry alone and makes no request.
LEMMA LeftStep ==
    ASSUME NodeInv, UNCHANGED <<External, entry, refused>>, host' = host \/ TryCancel,
           capsule' \subseteq capsule \/ (GrantsOf(entry)' /\ capsule' \subseteq Tokens),
           JournalKept => ProcessKept
    PROVE  NodeInv'
<1>0. /\ UNCHANGED External /\ entry' = entry
      /\ UNCHANGED <<relay, receipts, entry, refused>>
  BY DEF External
<1>1. /\ JournalKept /\ JournalShape' /\ SavesSound'
      /\ capsule' \subseteq capsule => GrantsOf(entry)'
  BY <1>0, NodeFacts, LeftOK
<1>2. GrantsOf(entry)' /\ capsule' \subseteq Tokens
  BY <1>1, NodeFacts
<1>3. JournalFits(entry)'
  BY <1>1, <1>2 DEF JournalFits, JournalKept
<1>4. RelayShape' /\ RelaySound'
  BY <1>0, NodeFacts DEF External, RelayShape, RelaySound, ReceiptsSound, RowSound, Kept
<1>5. ProcessShape'
  BY <1>0, <1>1, <1>2, NodeFacts DEF NodeShape, ProcessShape, ProcessKept, JournalKept, External
<1> QED
  BY <1>1, <1>3, <1>4, <1>5 DEF NodeInv, NodeShape, ProcessKept

\* A fault is counted.
LEMMA FaultOK ==
    ASSUME NodeInv
    PROVE  Fault \/ UNCHANGED faults => faults' \in 0..MaxFaults
BY NodeBounds DEF Fault, NodeInv, NodeShape, ProcessShape

\* A pass that has ended, or begins again, asks for nothing.
LEMMA RestOK ==
    ASSUME main' \in MainRow, main'.at \in {"idle", "down", "dispatch"}, main'.answer = NoAnswer,
           keeper' = "off", main'.at = "dispatch" => entry'.known, faults' \in 0..MaxFaults
    PROVE  ProcessKept
<1>1. KeeperSound' /\ Leases' /\ Installs' /\ Runs' /\ Completes' /\ Releases'
  BY DEF KeeperSound, Leases, Installs, Runs, Completes, Releases
<1>2. Ends' /\ AnswersSound'
  BY DEF Ends, AnswersSound, Quiet
<1>3. keeper' \in KeeperSteps
  BY DEF KeeperSteps
<1> QED
  BY <1>1, <1>2, <1>3 DEF ProcessKept, ProcessFits

\* At(...) and Go(...).
LEMMA IdleOK ==
    ASSUME main' \in {At("idle"), At("down")}, keeper' = "off", faults' \in 0..MaxFaults
    PROVE  ProcessKept
BY RestOK, Fields DEF Labels

\* The step to another label.
LEMMA GoOK ==
    ASSUME main \in MainRow, NEW l \in Labels, Go(l)
    PROVE  /\ main' \in MainRow /\ main'.at = l /\ main'.answer = NoAnswer /\ main'.round = main.round
           /\ main'.reclaim = main.reclaim /\ main'.replay = main.replay
           /\ main'.authority = main.authority
BY Fields DEF Go, MainRow

\* cancelAndMarkAuthorityLost.
LEMMA GiveUpStep ==
    ASSUME NodeInv, GiveUp, entry.known, Free(entry), entry.phase # "acknowledged",
           UNCHANGED External, keeper' = "off", faults' \in 0..MaxFaults,
           capsule' \subseteq capsule \/ (GrantsOf(entry)' /\ capsule' \subseteq Tokens)
    PROVE  NodeInv'
<1>1. ProcessKept
  BY IdleOK DEF GiveUp, GoIdle
<1>2. CASE entry.phase = "authority_lost"
  BY <1>1, <1>2, LeftStep DEF GiveUp
<1>3. CASE entry.phase # "authority_lost"
  <2>1. Fit(MarkAuthorityLost(entry))
    BY NodeFacts, AuthorityLostOK
  <2>2. PICK f \in EntryRow : f = MarkAuthorityLost(entry)
    BY <2>1 DEF Fit
  <2>3. f.attempt = entry.attempt
    BY <2>2, NodeFacts DEF MarkAuthorityLost, EntryRow
  <2>4. Save(f) /\ TryCancel /\ Fit(f)
    BY <1>3, <2>1, <2>2 DEF GiveUp
  <2> QED
    BY <1>1, <2>3, <2>4, SaveStep
<1> QED
  BY <1>2, <1>3

\* runCycle.
LEMMA CycleStep ==
    ASSUME NodeInv, Cycle
    PROVE  NodeInv'
<1> DEFINE e == IF Listed THEN Upsert(entry) ELSE entry
<1>1. /\ main.at = "idle" /\ e.known /\ Save(e) /\ Go("dispatch")
      /\ UNCHANGED External /\ UNCHANGED <<keeper, capsule, host, faults>>
  BY DEF Cycle
<1>2. Fit(e)
  BY NodeFacts, UpsertOK
<1> HIDE DEF e
<1>3. PICK f \in EntryRow : f = e
  BY <1>2 DEF Fit
<1>4. Save(f) /\ Fit(f) /\ f.known
  BY <1>1, <1>2, <1>3
<1>5. entry' = f
  BY <1>4, NodeFacts, Saved DEF Fit, SavesSound
<1>6. main' \in MainRow /\ main'.at = "dispatch" /\ main'.answer = NoAnswer
  BY <1>1, NodeFacts, GoOK DEF Labels
<1>7. ProcessKept
  BY <1>1, <1>4, <1>5, <1>6, NodeFacts, FaultOK, RestOK
<1> QED
  BY <1>1, <1>4, <1>7, SaveStep

\* Where process() goes first.
LEMMA DispatchStep ==
    ASSUME NodeInv, Dispatch
    PROVE  NodeInv'
<1> DEFINE l == IF Terminal(entry) THEN "retire"
                ELSE CASE entry.op.kind \in {"claim", "start", "renew"} -> entry.op.kind
                       [] entry.op.kind = "complete" -> IF Port THEN "authorize" ELSE "publish"
                       [] entry.op.kind = "release" -> "retire"
                       [] entry.op.kind = "none" ->
                             IF entry.phase = "lease_lost" \/ entry.status = "stored"
                             THEN "claim" ELSE "authorize"
<1>1. /\ main.at = "dispatch"
      /\ main' = [At(l) EXCEPT !.reclaim = (entry.phase = "lease_lost"),
                               !.replay = (entry.op.kind = "complete")]
      /\ UNCHANGED <<External, entry, refused>> /\ UNCHANGED <<keeper, capsule, host, faults>>
      /\ entry' = entry /\ keeper' = keeper
  BY DEF Dispatch
<1>2. /\ entry \in EntryRow /\ entry.op.kind \in Kinds /\ Pending(entry) /\ Fenced(entry)
      /\ GrantsOf(entry) /\ keeper = "off" /\ entry.known
  BY <1>1, NodeFacts DEF EntryRow, OpRow, JournalFits, ProcessFits, Ends, Quiet
<1>3. /\ Terminal(entry) => l = "retire" /\ Over(entry)
      /\ ~Terminal(entry) =>
            /\ ~Over(entry)
            /\ entry.op.kind \in {"claim", "start", "renew"} => l = entry.op.kind
            /\ entry.op.kind = "complete" => l = IF Port THEN "authorize" ELSE "publish"
            /\ entry.op.kind = "release" => l = "retire"
            /\ entry.op.kind = "none" =>
                  IF entry.phase = "lease_lost" \/ entry.status = "stored"
                  THEN l = "claim" ELSE l = "authorize" /\ HasLease(entry)
  <2>1. Terminal(entry) => l = "retire" /\ Over(entry)
    BY <1>2 DEF Terminal, Over, Fenced, LeaseOf
  <2>2. CASE ~Terminal(entry)
    <3>1. ~Over(entry) /\ entry.status \in Held \cup {"stored"}
      BY <1>2, <2>2 DEF Terminal, Over, EntryRow, Statuses
    <3>2. entry.op.kind = "none" /\ entry.phase # "lease_lost" /\ entry.status # "stored" =>
             HasLease(entry)
      BY <1>2, <3>1 DEF HasLease, Lost, Fenced, LeaseOf
    <3>3. entry.op.kind \in {"claim", "start", "renew"} => l = entry.op.kind
      BY <2>2
    <3>4. entry.op.kind = "complete" => l = IF Port THEN "authorize" ELSE "publish"
      BY <2>2
    <3>5. entry.op.kind = "release" => l = "retire"
      BY <2>2
    <3>6. entry.op.kind = "none" =>
             l = IF entry.phase = "lease_lost" \/ entry.status = "stored"
                 THEN "claim" ELSE "authorize"
      BY <2>2
    <3> QED
      BY <2>2, <3>1, <3>2, <3>3, <3>4, <3>5, <3>6
  <2> QED
    BY <2>1, <2>2
<1> HIDE DEF l
<1>4. l \in {"retire", "claim", "start", "renew", "authorize", "publish"}
  BY <1>2, <1>3 DEF Kinds
<1>5. /\ main' \in MainRow /\ main'.at = l /\ main'.answer = NoAnswer
      /\ main'.replay = (entry.op.kind = "complete")
  <2>1. At(l) \in MainRow /\ At(l).at = l /\ At(l).answer = NoAnswer
    BY <1>4, Fields DEF Labels
  <2> QED
    BY <1>1, <2>1 DEF MainRow
<1>6. ProcessFits'
  <2>1. KeeperSound' /\ Installs' /\ Runs'
    BY <1>1, <1>2, <1>4, <1>5 DEF KeeperSound, Installs, Runs
  <2>2. Leases'
    BY <1>1, <1>2, <1>3, <1>4, <1>5
    DEF Leases, Replays, Kinds, HasLease, Lost, Over
  <2>3. Completes'
    BY <1>1, <1>2, <1>3, <1>4, <1>5 DEF Completes, Kinds, GrantsOf
  <2>4. Releases'
    BY <1>1, <1>2, <1>3, <1>4, <1>5 DEF Releases, Kinds, Over
  <2>5. Ends' /\ AnswersSound'
    BY <1>1, <1>2, <1>3, <1>4, <1>5 DEF Ends, AnswersSound, Over
  <2> QED
    BY <2>1, <2>2, <2>3, <2>4, <2>5 DEF ProcessFits
<1>7. ProcessKept
  BY <1>1, <1>5, <1>6, NodeFacts, FaultOK DEF ProcessKept
<1> QED
  BY <1>1, <1>7, LeftStep

\* An intent is journaled.
LEMMA IntendStep ==
    ASSUME NodeInv, Intend
    PROVE  NodeInv'
<1>1. /\ main.at \in {"claim", "start", "renew"} /\ main.answer = NoAnswer /\ entry.op.kind # main.at
      /\ UNCHANGED External /\ UNCHANGED <<main, keeper, capsule, host, faults>>
      /\ main' = main /\ keeper' = keeper
  BY DEF Intend
<1>2. /\ entry.op.kind = "none" /\ ~Over(entry) /\ entry.known /\ keeper = "off"
      /\ main.at # "claim" => HasLease(entry)
  BY <1>1, NodeFacts DEF ProcessFits, Leases, Ends, Quiet
<1> DEFINE f == CASE main.at = "claim" -> ClaimIntent(entry)
                  [] main.at = "start" -> StartIntent(entry)
                  [] main.at = "renew" -> RenewIntent(entry)
<1>3. Save(f)
  BY DEF Intend
<1>4. Fit(f) /\ f.op.kind = main.at /\ f.known /\ ~Over(f)
  <2>0. entry \in EntryRow /\ entry.claims + 1 \in Nat /\ entry.renews + 1 \in Nat /\ entry.token \in Tokens
        /\ entry.phase \notin TerminalPhases
    BY <1>2, NodeFacts DEF EntryRow, Over
  <2>1. CASE main.at = "claim"
    <3>1. f = ClaimIntent(entry)
      BY <2>1
    <3>2. Fit(ClaimIntent(entry))
      BY <1>2, NodeFacts, ClaimIntentOK
    <3>3. LET g == ClaimIntent(entry) IN g.op.kind = "claim" /\ g.known /\ ~Over(g)
      BY <1>2, <2>0, Fields, NodeBounds DEF ClaimIntent, EntryRow, Over, TerminalPhases, Kinds
    <3> QED
      BY <2>1, <3>1, <3>2, <3>3
  <2>2. CASE main.at = "start"
    <3>1. f = StartIntent(entry)
      BY <2>2
    <3>2. Fit(StartIntent(entry))
      BY <1>2, <2>2, NodeFacts, StartIntentOK
    <3>3. LET g == StartIntent(entry) IN g.op.kind = "start" /\ g.known /\ ~Over(g)
      BY <1>2, <2>0 DEF StartIntent, Intent, EntryRow, Over, TerminalPhases
    <3> QED
      BY <2>2, <3>1, <3>2, <3>3
  <2>3. CASE main.at = "renew"
    <3>1. f = RenewIntent(entry)
      BY <2>3
    <3>2. Fit(RenewIntent(entry))
      BY <1>2, <2>3, NodeFacts, RenewIntentOK
    <3>3. LET g == RenewIntent(entry) IN g.op.kind = "renew" /\ g.known /\ ~Over(g)
      BY <1>2, <2>0 DEF RenewIntent, Intent, EntryRow, Over, TerminalPhases
    <3> QED
      BY <2>3, <3>1, <3>2, <3>3
  <2> QED
    BY <1>1, <2>1, <2>2, <2>3
<1> HIDE DEF f
<1>5. PICK g \in EntryRow : g = f
  BY <1>4 DEF Fit
<1>6. entry' = g
  BY <1>3, <1>4, <1>5, NodeFacts, Saved DEF Fit, SavesSound
<1>7. ProcessFits'
  <2>1. KeeperSound' /\ Installs' /\ Runs' /\ Completes' /\ Releases'
    BY <1>1, <1>2 DEF KeeperSound, Installs, Runs, Completes, Releases
  <2>2. Leases'
    BY <1>1, <1>4, <1>5, <1>6 DEF Leases
  <2>3. Ends' /\ AnswersSound'
    BY <1>1, <1>4, <1>5, <1>6 DEF Ends, AnswersSound
  <2> QED
    BY <2>1, <2>2, <2>3 DEF ProcessFits
<1>8. ProcessKept
  BY <1>1, <1>7, NodeFacts, FaultOK DEF ProcessKept
<1> QED
  BY <1>1, <1>3, <1>4, <1>5, <1>8, SaveStep

\* A request that commits while the entry stays.
LEMMA RequestStep ==
    ASSUME NodeInv, entry.op.kind # "none", entry.known, UNCHANGED <<version, entry, refused>>,
           Commit(entry.op), host' = host \/ TryCancel, capsule' \subseteq capsule,
           /\ JournalKept /\ Recorded(Reply(entry.op))
           /\ entry.op.kind # "complete" /\ relay.status # "acknowledged" =>
                 relay'.status # "acknowledged"
           => ProcessKept
    PROVE  NodeInv'
<1>0. entry' = entry /\ version' = version /\ refused' = refused
  OBVIOUS
<1>1. /\ RelayShape' /\ RelaySound' /\ JournalKept
      /\ Recorded(Reply(entry.op))
      /\ entry.op.kind # "complete" /\ relay.status # "acknowledged" =>
            relay'.status # "acknowledged"
  BY <1>0, NodeFacts, CommitOK
<1>2. JournalShape' /\ SavesSound' /\ GrantsOf(entry)'
  BY <1>0, NodeFacts
  DEF NodeShape, JournalShape, SavesSound, Acceptable, PredecessorValid, JournalFits, GrantsOf
<1>3. JournalFits(entry)'
  BY <1>1, <1>2 DEF JournalFits, JournalKept
<1>4. ProcessKept
  BY <1>1
<1>5. ProcessShape'
  BY <1>0, <1>1, <1>4, NodeFacts DEF NodeShape, ProcessShape, ProcessKept, JournalKept
<1> QED
  BY <1>1, <1>2, <1>3, <1>4, <1>5 DEF NodeInv, NodeShape, ProcessKept

\* process() holds the answer.
LEMMA AnswerOK ==
    ASSUME NodeInv, NEW a \in AnswerRow, Recorded(a), main' = [main EXCEPT !.answer = a],
           UNCHANGED <<entry, keeper>>, entry.known, faults' \in 0..MaxFaults,
           \/ main.at \in {"claim", "start", "renew"} /\ entry.op.kind = main.at
           \/ main.at \in {"publish", "publish_release"}
    PROVE  ProcessKept
<1>0. entry' = entry /\ keeper' = keeper /\ keeper = "off" /\ ~Over(entry)
  BY NodeFacts DEF Quiet
<1>1. /\ main' \in MainRow /\ main'.at = main.at /\ main'.answer = a
      /\ main'.replay = main.replay /\ main'.round = main.round
  BY NodeFacts DEF MainRow
<1>2. ProcessFits
  BY NodeFacts
<1>3. a # NoAnswer
  BY DEF Recorded
<1>4. KeeperSound' /\ Installs' /\ Runs'
  BY <1>0, <1>1 DEF KeeperSound, Installs, Runs
<1>5. Leases'
  BY <1>0, <1>1, <1>2 DEF ProcessFits, Leases
<1>6. Completes' /\ Releases' /\ Ends'
  BY <1>0, <1>1, <1>2, <1>3 DEF ProcessFits, Completes, Releases, Ends, Over
<1>7. AnswersSound'
  <2>1. Accepted' <=> a.result \in {"ok", "replayed"}
    BY <1>1 DEF Accepted
  <2>2. Receipt(entry.op, main.answer)' = Receipt(entry.op, a)
    BY <1>0, <1>1 DEF Receipt
  <2> QED
    BY <1>0, <1>1, <2>1, <2>2 DEF AnswersSound, Recorded
<1>8. keeper' \in KeeperSteps
  BY <1>0 DEF KeeperSteps
<1> QED
  BY <1>1, <1>4, <1>5, <1>6, <1>7, <1>8 DEF ProcessKept, ProcessFits

\* The three shapes of a request process() sends: answered, or failed for good.
LEMMA SendStep ==
    ASSUME NodeInv, entry.op.kind # "none", entry.known,
           \/ main.at \in {"claim", "start", "renew"} /\ entry.op.kind = main.at
           \/ main.at \in {"publish", "publish_release"},
           \/ Served(entry.op) /\ main' = [main EXCEPT !.answer = Reply(entry.op)]
           \/ Failed(entry.op) /\ GoIdle,
           UNCHANGED <<version, entry, keeper, capsule, host, refused>>
    PROVE  NodeInv'
<1>0. /\ entry' = entry /\ keeper' = keeper /\ capsule' = capsule /\ host' = host
      /\ UNCHANGED <<version, entry, refused>> /\ keeper = "off"
      /\ version' = version
  BY NodeFacts
<1>1. CASE Served(entry.op) /\ main' = [main EXCEPT !.answer = Reply(entry.op)]
  <2>1. Commit(entry.op) /\ UNCHANGED faults
    BY <1>1 DEF Served
  <2>2. Recorded(Reply(entry.op)) => ProcessKept
    <3> SUFFICES ASSUME Recorded(Reply(entry.op)) PROVE ProcessKept
      OBVIOUS
    <3>1. Reply(entry.op) \in AnswerRow
      BY DEF Recorded
    <3> QED
      BY <1>0, <1>1, <2>1, <3>1, FaultOK, AnswerOK
  <2> QED
    BY <1>0, <2>1, <2>2, RequestStep
<1>2. CASE Failed(entry.op) /\ GoIdle
  <2>1. ProcessKept
    BY <1>0, <1>2, FaultOK, IdleOK DEF Failed, GoIdle
  <2>2. CASE Commit(entry.op)
    BY <1>0, <2>1, <2>2, RequestStep
  <2>3. CASE UNCHANGED <<relay, receipts, mission>>
    BY <1>0, <2>1, <2>3, LeftStep DEF External
  <2> QED
    BY <1>2, <2>2, <2>3 DEF Failed
<1> QED
  BY <1>1, <1>2

\* claim, start and renew are asked.
LEMMA AskStep ==
    ASSUME NodeInv, Ask
    PROVE  NodeInv'
<1>1. entry.known
  BY NodeFacts DEF Ask, ProcessFits, Ends, Quiet
<1> QED
  BY <1>1, SendStep DEF Ask

\* An answer process() has accepted has its receipt.
LEMMA AcceptedOK ==
    ASSUME NodeInv, main.at \in {"claim", "start", "renew", "publish", "publish_release"}, Accepted
    PROVE  /\ Receipt(entry.op, main.answer) \in receipts
           /\ main.at \in {"claim", "start", "renew"} => entry.op.kind = main.at
           /\ main.answer \in AnswerRow /\ main.answer # NoAnswer
<1>1. main.answer # NoAnswer
  BY Fields DEF Accepted
<1> QED
  BY <1>1, NodeFacts DEF ProcessFits, AnswersSound

\* A refused request has left no receipt, or the row is cancelled.
LEMMA RefusedOK ==
    ASSUME NodeInv, main.at \in {"claim", "start", "renew", "publish", "publish_release"},
           main.answer # NoAnswer, ~Accepted,
           entry.op.kind \in {"claim", "start", "renew", "complete", "release"}
    PROVE  /\ Free(entry)
           /\ main.at \in {"claim", "start", "renew"} => entry.op.kind = main.at
           /\ main.answer = Refusal \/ (entry.op.kind = "claim" /\ entry.token = 0)
<1>1. /\ relay.status = "cancelled" \/ Stored(entry.op) = {}
      /\ main.at \in {"claim", "start", "renew"} => entry.op.kind = main.at
      /\ main.answer = Refusal \/ (entry.op.kind = "claim" /\ entry.token = 0)
  BY NodeFacts DEF ProcessFits, AnswersSound
<1>2. relay.status = "cancelled" \/ Kept(entry.op.kind, entry.op.key) = {}
  BY <1>1 DEF Stored, Kept
<1> QED
  BY <1>1, <1>2, NodeFacts, Droppable

\* A claim the Relay has granted is journaled.
LEMMA ClaimGrantedStep ==
    ASSUME NodeInv, main.at = "claim", Accepted, main.answer.status = "leased",
           Save([Answered(Stage(entry, main.answer.token), main.answer) EXCEPT !.phase = "claimed"]),
           Go(ClaimDone), UNCHANGED External, UNCHANGED <<keeper, capsule, host, faults>>
    PROVE  NodeInv'
<1> DEFINE e == [Answered(Stage(entry, main.answer.token), main.answer) EXCEPT !.phase = "claimed"]
<1>0. /\ Receipt(entry.op, main.answer) \in receipts /\ entry.op.kind = "claim"
      /\ main.answer \in AnswerRow /\ entry.known /\ keeper = "off"
      /\ keeper' = keeper /\ UNCHANGED faults
  BY NodeFacts, AcceptedOK DEF ProcessFits, Ends, Quiet
<1>1. Fit(e) /\ main.answer.token # 0
  BY <1>0, NodeFacts, ClaimedOK
<1>2. /\ e.phase = "claimed" /\ e.op = NoIntent /\ e.known /\ e.token # 0
  <2>1. \/ Stage(entry, main.answer.token) = entry
        \/ Stage(entry, main.answer.token) = [entry EXCEPT !.grant = entry.predecessor, !.predecessor = 0]
        \/ Stage(entry, main.answer.token) = [entry EXCEPT !.predecessor = entry.grant, !.grant = 0]
    BY DEF Stage
  <2>2. PICK g : g = Stage(entry, main.answer.token)
    OBVIOUS
  <2>3. g \in EntryRow /\ g.known
    BY <1>0, <2>1, <2>2, NodeFacts, NodeBounds DEF EntryRow
  <2>4. Answered(g, main.answer).known = g.known
    BY <2>3 DEF Answered, EntryRow
  <2>5. e = [g EXCEPT !.status = "leased", !.op = NoIntent, !.token = main.answer.token, !.phase = "claimed"]
    BY <2>2, <2>3 DEF Answered, Held, EntryRow
  <2> QED
    BY <1>1, <2>3, <2>5 DEF EntryRow
<1> HIDE DEF e
<1>3. PICK f \in EntryRow : f = e
  BY <1>1 DEF Fit
<1>4. /\ Save(f) /\ Fit(f) /\ f.known /\ f.op.kind = "none" /\ HasLease(f) /\ ~Over(f)
  BY <1>1, <1>2, <1>3, Fields DEF e, HasLease, Lost, Over, TerminalPhases
<1>5. entry' = f
  BY <1>4, NodeFacts, Saved DEF Fit, SavesSound
<1>6. /\ main' \in MainRow /\ main'.at = ClaimDone /\ main'.answer = NoAnswer
      /\ main'.round = main.round
  BY NodeFacts, GoOK DEF Labels, ClaimDone
<1>7. CASE main.round = 0
  <2>1. main'.at = "dispatch"
    BY <1>6, <1>7 DEF ClaimDone
  <2>2. ProcessKept
    BY <1>0, <1>4, <1>5, <1>6, <2>1, NodeFacts, FaultOK, RestOK
  <2> QED
    BY <1>4, <2>2, SaveStep
<1>8. CASE main.round # 0
  <2>1. main'.at \in {"renew", "confirm"}
    BY <1>6, <1>8 DEF ClaimDone
  <2>2. ProcessFits'
    <3>1. KeeperSound' /\ Installs' /\ Runs' /\ Completes' /\ Releases' /\ AnswersSound'
      BY <1>0, <1>6, <2>1 DEF KeeperSound, Installs, Runs, Completes, Releases, AnswersSound
    <3>2. Leases' /\ Ends'
      BY <1>4, <1>5, <1>6, <1>8, <2>1 DEF Leases, Ends
    <3> QED
      BY <3>1, <3>2 DEF ProcessFits
  <2>3. ProcessKept
    BY <1>0, <1>6, <2>2, NodeFacts, FaultOK DEF ProcessKept
  <2> QED
    BY <1>4, <2>3, SaveStep
<1> QED
  BY <1>7, <1>8

\* A claim that found the row dead.
LEMMA SaveClaimStep ==
    ASSUME NodeInv, SaveClaim
    PROVE  NodeInv'
<1>0. /\ main.at = "claim" /\ Accepted /\ UNCHANGED External /\ UNCHANGED <<keeper, capsule, host, faults>>
      /\ keeper' = keeper /\ host' = host /\ capsule' = capsule /\ UNCHANGED faults
  BY DEF SaveClaim
<1>1. /\ Receipt(entry.op, main.answer) \in receipts /\ entry.op.kind = "claim"
      /\ main.answer \in AnswerRow /\ entry.known /\ keeper = "off" /\ ~Over(entry)
      /\ main.answer # NoAnswer /\ entry.phase = "claim_intent"
  BY <1>0, NodeFacts, AcceptedOK
  DEF ProcessFits, Ends, Quiet, JournalFits, Pending, ClaimPends
<1>2. CASE main.answer.status = "leased"
  <2>1. /\ Save([Answered(Stage(entry, main.answer.token), main.answer) EXCEPT !.phase = "claimed"])
        /\ Go(ClaimDone)
    BY <1>2 DEF SaveClaim
  <2> QED
    BY <1>0, <1>2, <2>1, ClaimGrantedStep
<1>3. CASE main.answer.status # "leased" /\ Granted(entry)
  <2>1. main' = [main EXCEPT !.at = "retire"] /\ entry' = entry /\ refused' = refused
    BY <1>3 DEF SaveClaim
  <2>2. /\ main' \in MainRow /\ main'.at = "retire" /\ main'.answer = main.answer
    BY <2>1, NodeFacts DEF MainRow, Labels
  <2>3. ProcessFits'
    <3>0. Accepted' /\ Receipt(entry.op, main.answer)' = Receipt(entry.op, main.answer)
          /\ receipts' = receipts
      BY <1>0, <2>1, <2>2 DEF Accepted, Receipt, External
    <3>1. KeeperSound' /\ Installs' /\ Runs' /\ Completes' /\ Leases' /\ Ends'
      BY <1>0, <1>1, <2>1, <2>2 DEF KeeperSound, Installs, Runs, Completes, Leases, Ends
    <3>2. Releases' /\ AnswersSound'
      BY <1>1, <1>3, <2>1, <2>2, <3>0 DEF Releases, AnswersSound
    <3> QED
      BY <3>1, <3>2 DEF ProcessFits
  <2>4. ProcessKept
    BY <1>0, <2>2, <2>3, NodeFacts, FaultOK DEF ProcessKept
  <2> QED
    BY <1>0, <2>1, <2>4, LeftStep
<1>4. CASE main.answer.status # "leased" /\ ~Granted(entry)
  <2> DEFINE e == [Answered(entry, main.answer) EXCEPT !.phase = "dead_lettered"]
  <2>1. Save(e) /\ (IF main.round = 0 THEN GoIdle ELSE Go("abandon"))
    BY <1>4 DEF SaveClaim
  <2>2. main.answer.status = "dead_lettered" /\ main.answer.status \in Closed
    <3>1. PICK r \in receipts : r.kind = "claim" /\ r.status = main.answer.status
      BY <1>1 DEF Receipt
    <3>2. r.status \in {"leased", "dead_lettered"}
      BY <3>1, NodeFacts DEF RelaySound, ReceiptsSound
    <3> QED
      BY <1>4, <3>1, <3>2 DEF Closed
  <2>3. relay.status # "acknowledged"
    BY <1>1, NodeFacts DEF JournalFits, CompletionOf
  <2>4. Fit(e)
    BY <1>1, <1>4, <2>2, <2>3, NodeFacts, ClosedOK DEF Granted
  <2>5. e.op = NoIntent /\ e.phase = "dead_lettered" /\ e.known
    BY <1>1, NodeFacts DEF Answered, EntryRow
  <2> HIDE DEF e
  <2>6. PICK f \in EntryRow : f = e
    BY <2>4 DEF Fit
  <2>7. Save(f) /\ Fit(f) /\ f.known /\ f.op.kind = "none" /\ f.phase = "dead_lettered"
    BY <2>1, <2>4, <2>5, <2>6, Fields
  <2>8. entry' = f
    BY <2>7, NodeFacts, Saved DEF Fit, SavesSound
  <2>9. CASE main.round = 0
    <3>1. ProcessKept
      BY <1>0, <1>1, <2>1, <2>9, NodeFacts, FaultOK, IdleOK DEF GoIdle
    <3> QED
      BY <1>0, <2>7, <3>1, SaveStep
  <2>10. CASE main.round # 0
    <3>1. main' \in MainRow /\ main'.at = "abandon" /\ main'.answer = NoAnswer
      BY <2>1, <2>10, NodeFacts, GoOK DEF Labels
    <3>2. KeeperSound' /\ Installs' /\ Runs' /\ Completes' /\ Releases' /\ AnswersSound' /\ Leases'
      BY <1>0, <1>1, <3>1 DEF KeeperSound, Installs, Runs, Completes, Releases, AnswersSound, Leases
    <3>3. Ends'
      BY <2>7, <2>8, <3>1 DEF Ends
    <3>4. ProcessKept
      BY <1>0, <3>1, <3>2, <3>3, NodeFacts, FaultOK DEF ProcessKept, ProcessFits
    <3> QED
      BY <1>0, <2>7, <3>4, SaveStep
  <2> QED
    BY <2>9, <2>10
<1> QED
  BY <1>2, <1>3, <1>4

\* A claim that is refused.
LEMMA ClaimRefusedStep ==
    ASSUME NodeInv, ClaimRefused
    PROVE  NodeInv'
<1>0. /\ main.at = "claim" /\ main.answer.result \in {"refused", "later"}
      /\ UNCHANGED External /\ keeper' = keeper /\ capsule' = capsule /\ UNCHANGED faults
  BY DEF ClaimRefused
<1>1. /\ entry.known /\ keeper = "off" /\ ~Over(entry) /\ ~Accepted /\ main.answer # NoAnswer
      /\ faults' \in 0..MaxFaults
  BY <1>0, NodeFacts, Fields, FaultOK DEF ProcessFits, Ends, Quiet, Accepted
<1>2. entry.op.kind = "claim"
  BY <1>0, <1>1, NodeFacts DEF ProcessFits, AnswersSound
<1>3. Free(entry) /\ (main.answer = Refusal \/ entry.token = 0)
  BY <1>0, <1>1, <1>2, RefusedOK
<1>4. CASE main.answer.result = "later" /\ ~main.reclaim /\ main.round = 0
  <2> DEFINE e == [entry EXCEPT !.phase = "ingested", !.op = NoIntent]
  <2>1. Save(e) /\ host' = host /\ GoIdle
    BY <1>4 DEF ClaimRefused
  <2>2. entry.token = 0
    BY <1>3, <1>4, Fields
  <2>3. Fit(e)
    BY <1>1, <1>2, <1>3, <2>2, NodeFacts, LaterOK
  <2> HIDE DEF e
  <2>4. PICK f \in EntryRow : f = e
    BY <2>3 DEF Fit
  <2>5. ProcessKept
    BY <1>0, <1>1, <2>1, IdleOK DEF GoIdle
  <2> QED
    BY <1>0, <2>1, <2>3, <2>4, <2>5, SaveStep
<1>5. CASE ~(main.answer.result = "later" /\ ~main.reclaim /\ main.round = 0)
  <2>1. GiveUp
    BY <1>5 DEF ClaimRefused
  <2> QED
    BY <1>0, <1>1, <1>3, <2>1, GiveUpStep DEF Over, TerminalPhases
<1> QED
  BY <1>4, <1>5

\* A start or a renewal is journaled.
LEMMA SaveHeldStep ==
    ASSUME NodeInv, main.at \in {"start", "renew"}, Accepted, NEW p \in Phases,
           p = "relay_executing" \/ (main.at = "renew" /\ p = entry.phase),
           Save([Answered(entry, main.answer) EXCEPT !.phase = p]),
           NEW l \in {"dispatch", "renew", "confirm", "confirmed"}, Go(l),
           l \in {"confirm", "confirmed"} => main.round # 0,
           UNCHANGED External, UNCHANGED <<keeper, capsule, host, faults>>
    PROVE  NodeInv'
<1> DEFINE e == [Answered(entry, main.answer) EXCEPT !.phase = p]
<1>0. /\ Receipt(entry.op, main.answer) \in receipts /\ entry.op.kind = main.at
      /\ main.answer \in AnswerRow /\ entry.known /\ keeper = "off"
      /\ keeper' = keeper /\ UNCHANGED faults
  BY NodeFacts, AcceptedOK DEF ProcessFits, Ends, Quiet
<1>1. Fit(e) /\ HasLease(e) /\ e.op = NoIntent /\ SameWork(entry, e)
  BY <1>0, NodeFacts, HeldOK
<1> HIDE DEF e
<1>3. PICK f \in EntryRow : f = e
  BY <1>1 DEF Fit
<1>4. Save(f) /\ Fit(f) /\ f.known /\ f.op.kind = "none" /\ HasLease(f) /\ ~Over(f)
  BY <1>0, <1>1, <1>3, Fields DEF e, SameWork, HasLease
<1>5. entry' = f
  BY <1>4, NodeFacts, Saved DEF Fit, SavesSound
<1>6. main' \in MainRow /\ main'.at = l /\ main'.answer = NoAnswer /\ main'.round = main.round
  BY NodeFacts, GoOK DEF Labels
<1>7. KeeperSound' /\ Installs' /\ Runs' /\ Completes' /\ Releases' /\ AnswersSound'
  BY <1>0, <1>6 DEF KeeperSound, Installs, Runs, Completes, Releases, AnswersSound
<1>8. Leases' /\ Ends'
  BY <1>4, <1>5, <1>6 DEF Leases, Ends
<1>9. ProcessKept
  BY <1>0, <1>6, <1>7, <1>8, NodeFacts, FaultOK DEF ProcessKept, ProcessFits
<1> QED
  BY <1>4, <1>9, SaveStep

\* startDelivery's answer.
LEMMA SaveStartStep ==
    ASSUME NodeInv, SaveStart
    PROVE  NodeInv'
<1>1. StartDone \in {"dispatch", "renew", "confirm", "confirmed"}
      /\ (StartDone \in {"confirm", "confirmed"} => main.round # 0)
  BY DEF StartDone
<1>2. PICK l \in {"dispatch", "renew", "confirm", "confirmed"} : l = StartDone
  BY <1>1
<1>3. "relay_executing" \in Phases
  BY DEF Phases
<1> QED
  BY <1>1, <1>2, <1>3, SaveHeldStep DEF SaveStart

\* renewDelivery's answer, which keeps the phase.
LEMMA SaveRenewalStep ==
    ASSUME NodeInv, SaveRenewal
    PROVE  NodeInv'
<1> DEFINE label == IF main.answer.result = "replayed" THEN "renew" ELSE RenewDone
<1>1. label \in {"dispatch", "renew", "confirm", "confirmed"}
      /\ (label \in {"confirm", "confirmed"} => main.round # 0)
  BY DEF RenewDone
<1>2. PICK l \in {"dispatch", "renew", "confirm", "confirmed"} : l = label
  BY <1>1
<1>3. PICK p \in Phases : p = entry.phase
  BY NodeFacts DEF EntryRow
<1>4. Answered(entry, main.answer) = [Answered(entry, main.answer) EXCEPT !.phase = p]
  BY <1>3, NodeFacts DEF Answered, EntryRow
<1>5. /\ main.at = "renew" /\ Accepted /\ Save(Answered(entry, main.answer)) /\ Go(label)
      /\ UNCHANGED External /\ UNCHANGED <<keeper, capsule, host, faults>>
  BY DEF SaveRenewal
<1>6. Save([Answered(entry, main.answer) EXCEPT !.phase = p])
  BY <1>4, <1>5
<1>7. Go(l)
  BY <1>2, <1>5
<1> QED
  BY <1>1, <1>2, <1>3, <1>5, <1>6, <1>7, SaveHeldStep

\* The lease is lost: the intent is dropped and the pass ends or goes on.
LEMMA LostStep ==
    ASSUME NodeInv, Free(entry), ~Over(entry), entry.known, Save(MarkLeaseLost(entry)),
           UNCHANGED External, host' = host \/ TryCancel, capsule' \subseteq capsule,
           entry'.known /\ entry'.op.kind = "none" /\ ~Over(entry)' => ProcessKept
    PROVE  NodeInv'
<1>1. Fit(MarkLeaseLost(entry))
  BY NodeFacts, LostOK
<1>2. PICK f \in EntryRow : f = MarkLeaseLost(entry)
  BY <1>1 DEF Fit
<1>3. /\ f.attempt = entry.attempt /\ f.known /\ f.op.kind = "none" /\ f.phase = "lease_lost"
  BY <1>2, NodeFacts, Fields DEF MarkLeaseLost, EntryRow
<1>4. Save(f) /\ Fit(f)
  BY <1>1, <1>2
<1>5. entry' = f
  BY <1>4, NodeFacts, Saved DEF Fit, SavesSound
<1>6. ProcessKept
  BY <1>3, <1>5 DEF Over, TerminalPhases
<1> QED
  BY <1>3, <1>4, <1>6, SaveStep

\* A start or a renewal that is refused.
LEMMA LeaseRefusedStep ==
    ASSUME NodeInv, LeaseRefused
    PROVE  NodeInv'
<1>0. /\ main.at \in {"start", "renew"} /\ main.answer.result = "refused"
      /\ UNCHANGED External /\ keeper' = keeper /\ capsule' = capsule /\ UNCHANGED faults
  BY DEF LeaseRefused
<1>1. /\ entry.known /\ keeper = "off" /\ ~Over(entry) /\ ~Accepted /\ main.answer # NoAnswer
      /\ faults' \in 0..MaxFaults
  BY <1>0, NodeFacts, Fields, FaultOK DEF ProcessFits, Ends, Quiet, Accepted
<1>2. entry.op.kind = main.at
  BY <1>0, <1>1, NodeFacts DEF ProcessFits, AnswersSound
<1>3. Free(entry)
  BY <1>0, <1>1, <1>2, RefusedOK
<1>4. CASE main.at = "renew" /\ main.reclaim
  <2>1. GiveUp
    BY <1>4 DEF LeaseRefused
  <2> QED
    BY <1>0, <1>1, <1>3, <2>1, GiveUpStep DEF Over, TerminalPhases
<1>5. CASE ~(main.at = "renew" /\ main.reclaim)
  <2>1. Save(MarkLeaseLost(entry)) /\ host' = host
    BY <1>5 DEF LeaseRefused
  <2>2. CASE main.round = 0
    <3>1. ProcessKept
      BY <1>0, <1>1, <1>5, <2>2, IdleOK DEF GoIdle, LeaseRefused
    <3> QED
      BY <1>0, <1>1, <1>3, <2>1, <3>1, LostStep
  <2>3. CASE main.round # 0
    <3>1. main' = [main EXCEPT !.at = "claim", !.answer = NoAnswer, !.reclaim = (main.at = "renew")]
      BY <1>5, <2>3 DEF LeaseRefused
    <3>2. main' \in MainRow /\ main'.at = "claim" /\ main'.answer = NoAnswer
      <4>1. PICK b \in BOOLEAN : b = (main.at = "renew")
        OBVIOUS
      <4>2. main \in MainRow /\ NoAnswer \in AnswerRow /\ "claim" \in Labels
        BY NodeFacts, Fields DEF Labels
      <4>3. main' = [main EXCEPT !.at = "claim", !.answer = NoAnswer, !.reclaim = b]
        BY <3>1, <4>1
      <4> QED
        BY <4>2, <4>3 DEF MainRow
    <3>3. entry'.known /\ entry'.op.kind = "none" /\ ~Over(entry)' => ProcessKept
      <4> SUFFICES ASSUME entry'.known, entry'.op.kind = "none", ~Over(entry)' PROVE ProcessKept
        OBVIOUS
      <4>1. KeeperSound' /\ Installs' /\ Runs' /\ Completes' /\ Releases' /\ AnswersSound'
        BY <1>0, <1>1, <3>2 DEF KeeperSound, Installs, Runs, Completes, Releases, AnswersSound
      <4>2. Leases' /\ Ends'
        BY <3>2 DEF Leases, Ends
      <4> QED
        BY <1>0, <1>1, <3>2, <4>1, <4>2, NodeFacts DEF ProcessKept, ProcessFits
    <3> QED
      BY <1>0, <1>1, <1>3, <2>1, <3>3, LostStep
  <2> QED
    BY <2>2, <2>3
<1> QED
  BY <1>4, <1>5

-----------------------------------------------------------------------------
(* authorize and the rounds of prepareExecutableLease *)

\* A pending completion is retained as it is, and the pass ends.
LEMMA RetainStep ==
    ASSUME NodeInv, entry.op.kind = "complete", Save(Retain(entry)), UNCHANGED External,
           host' = host \/ TryCancel, ProcessKept,
           capsule' \subseteq capsule \/ (GrantsOf(entry)' /\ capsule' \subseteq Tokens)
    PROVE  NodeInv'
<1>1. Retain(entry) = entry
  BY NodeFacts, RetainOK
<1>2. PICK f \in EntryRow : f = entry
  BY NodeFacts
<1>3. Save(f) /\ Fit(f) /\ f.attempt = entry.attempt
  BY <1>1, <1>2, NodeFacts
<1> QED
  BY <1>3, SaveStep

\* Without a pending intent nothing has to be remembered.
LEMMA NothingPends ==
    ASSUME NodeInv, entry.op.kind \in Leasing
    PROVE  Free(entry)
BY NodeFacts, Droppable DEF Leasing

\* The Mission has ended.
LEMMA AuthorizeEndedStep ==
    ASSUME NodeInv, AuthorizeEnded
    PROVE  NodeInv'
<1>0. main.at = "authorize" /\ UNCHANGED External /\ keeper' = keeper /\ capsule' = capsule
      /\ UNCHANGED faults
  BY DEF AuthorizeEnded
<1>1. /\ entry.known /\ keeper = "off" /\ ~Over(entry) /\ faults' \in 0..MaxFaults
      /\ entry.op.kind = "complete" \/ entry.op.kind = "none"
  BY <1>0, NodeFacts, FaultOK DEF ProcessFits, Ends, Quiet, Leases, Replays
<1>2. CASE entry.op.kind = "complete"
  <2>1. Save(Retain(entry)) /\ GoIdle /\ host' = host
    BY <1>2 DEF AuthorizeEnded
  <2>2. ProcessKept
    BY <1>0, <1>1, <2>1, IdleOK DEF GoIdle
  <2> QED
    BY <1>0, <1>2, <2>1, <2>2, RetainStep
<1>3. CASE entry.op.kind # "complete"
  <2>1. GiveUp
    BY <1>3 DEF AuthorizeEnded
  <2>2. Free(entry)
    BY <1>1, <1>3, NothingPends DEF Leasing
  <2> QED
    BY <1>0, <1>1, <2>1, <2>2, GiveUpStep DEF Over, TerminalPhases
<1> QED
  BY <1>2, <1>3

\* The work is denied.
LEMMA AuthorizeDeniedStep ==
    ASSUME NodeInv, AuthorizeDenied
    PROVE  NodeInv'
<1>0. /\ main.at = "authorize" /\ Fault /\ UNCHANGED <<External, entry, refused>>
      /\ keeper' = keeper /\ capsule' = capsule /\ entry' = entry
  BY DEF AuthorizeDenied
<1>1. /\ entry.known /\ keeper = "off" /\ ~Over(entry) /\ faults' \in 0..MaxFaults
      /\ entry.op.kind = "complete" \/ (entry.op.kind = "none" /\ HasLease(entry))
  BY <1>0, NodeFacts, FaultOK DEF ProcessFits, Ends, Quiet, Leases, Replays
<1>2. CASE entry.op.kind = "complete"
  <2>1. GoIdle /\ host' = host
    BY <1>2 DEF AuthorizeDenied
  <2>2. ProcessKept
    BY <1>0, <1>1, <2>1, IdleOK DEF GoIdle
  <2> QED
    BY <1>0, <2>1, <2>2, LeftStep
<1>3. CASE entry.op.kind # "complete"
  <2>1. TryCancel /\ main' = At("release_denied")
    BY <1>3 DEF AuthorizeDenied
  <2>2. main' \in MainRow /\ main'.at = "release_denied" /\ main'.answer = NoAnswer
    BY <2>1, Fields DEF Labels
  <2>3. KeeperSound' /\ Installs' /\ Runs' /\ Completes' /\ Leases' /\ AnswersSound'
    BY <1>0, <1>1, <2>2 DEF KeeperSound, Installs, Runs, Completes, Leases, AnswersSound
  <2>4. Releases' /\ Ends'
    BY <1>0, <1>1, <1>3, <2>2 DEF Releases, Ends, Leasing, HasLease, Lost, Over
  <2>5. ProcessKept
    BY <1>0, <1>1, <2>2, <2>3, <2>4, NodeFacts DEF ProcessKept, ProcessFits
  <2> QED
    BY <1>0, <2>1, <2>5, LeftStep
<1> QED
  BY <1>2, <1>3

\* The work is allowed.
LEMMA AuthorizedStep ==
    ASSUME NodeInv, Authorized
    PROVE  NodeInv'
<1>0. main.at = "authorize" /\ UNCHANGED <<External, entry, refused>> /\ host' = host
      /\ keeper' = keeper /\ capsule' = capsule /\ UNCHANGED faults /\ entry' = entry
  BY DEF Authorized
<1>1. /\ entry.known /\ keeper = "off" /\ ~Over(entry) /\ faults' \in 0..MaxFaults
      /\ (Replays /\ Port) \/ (entry.op.kind = "none" /\ HasLease(entry))
  BY <1>0, NodeFacts, FaultOK DEF ProcessFits, Ends, Quiet, Leases
<1>2. CASE entry.op.kind = "complete"
  <2>1. Go("install")
    BY <1>2 DEF Authorized
  <2>2. /\ main' \in MainRow /\ main'.at = "install" /\ main'.answer = NoAnswer
        /\ main'.replay = main.replay
    BY <2>1, NodeFacts, GoOK DEF Labels
  <2>3. entry.status = "executing"
    BY <1>2, NodeFacts DEF JournalFits, Pending, CompletePends
  <2>4. KeeperSound' /\ Leases' /\ Runs' /\ Completes' /\ Releases' /\ AnswersSound' /\ Ends'
    BY <1>0, <1>1, <2>2
    DEF KeeperSound, Leases, Runs, Completes, Releases, AnswersSound, Ends, Over
  <2>5. Installs'
    BY <1>0, <1>1, <1>2, <2>2, <2>3 DEF Installs, Replays, Executes
  <2>6. ProcessKept
    BY <1>0, <1>1, <2>2, <2>4, <2>5, NodeFacts DEF ProcessKept, ProcessFits
  <2> QED
    BY <1>0, <2>6, LeftStep
<1>3. CASE entry.op.kind # "complete"
  <2>1. main' = [At("confirm") EXCEPT !.round = 1]
    BY <1>3 DEF Authorized
  <2>2. /\ main' \in MainRow /\ main'.at = "confirm" /\ main'.answer = NoAnswer /\ main'.round # 0
    <3>1. At("confirm") \in MainRow /\ At("confirm").at = "confirm" /\ At("confirm").answer = NoAnswer
      BY Fields DEF Labels
    <3> QED
      BY <2>1, <3>1 DEF MainRow
  <2>4. KeeperSound' /\ Installs' /\ Runs' /\ Completes' /\ Releases' /\ AnswersSound'
    BY <1>0, <1>1, <2>2 DEF KeeperSound, Installs, Runs, Completes, Releases, AnswersSound
  <2>5. Leases' /\ Ends'
    BY <1>0, <1>1, <1>3, <2>2 DEF Leases, Replays, HasLease, Lost, Over, Ends
  <2>6. ProcessKept
    BY <1>0, <1>1, <2>2, <2>4, <2>5, NodeFacts DEF ProcessKept, ProcessFits
  <2> QED
    BY <1>0, <2>6, LeftStep
<1> QED
  BY <1>2, <1>3

\* The journaled lease of a pending completion has expired.
LEMMA CompletionExpiredStep ==
    ASSUME NodeInv, CompletionExpired
    PROVE  NodeInv'
<1>0. /\ main.at = "authorize" /\ entry.op.kind = "complete" /\ Save(Retain(entry)) /\ GoIdle
      /\ UNCHANGED External /\ keeper' = keeper /\ capsule' = capsule /\ host' = host
      /\ UNCHANGED faults
  BY DEF CompletionExpired
<1>1. ProcessKept
  BY <1>0, NodeFacts, FaultOK, IdleOK DEF GoIdle
<1> QED
  BY <1>0, <1>1, RetainStep

\* A step inside the rounds of prepareExecutableLease.
LEMMA RoundStep ==
    ASSUME NodeInv, main.at \in {"confirm", "confirmed"}, UNCHANGED <<External, entry, refused>>,
           UNCHANGED <<keeper, capsule, host>>, faults' \in 0..MaxFaults,
           NEW l \in {"renew", "confirm", "start"}, NEW n \in Nat \ {0}, NEW b \in BOOLEAN,
           main' = [main EXCEPT !.at = l, !.round = n, !.reclaim = b]
    PROVE  NodeInv'
<1>0. keeper' = keeper /\ host' = host /\ capsule' = capsule /\ entry' = entry
  OBVIOUS
<1>1. /\ entry.known /\ keeper = "off" /\ ~Over(entry) /\ main.answer = NoAnswer
      /\ entry.op.kind = "none" /\ HasLease(entry)
  BY <1>0, NodeFacts DEF ProcessFits, Ends, Quiet, Leases
<1>2. main' \in MainRow /\ main'.at = l /\ main'.answer = NoAnswer /\ main'.round # 0
  BY <1>1, NodeFacts DEF MainRow, Labels
<1>3. KeeperSound' /\ Installs' /\ Runs' /\ Completes' /\ Releases' /\ AnswersSound'
  BY <1>0, <1>1, <1>2 DEF KeeperSound, Installs, Runs, Completes, Releases, AnswersSound
<1>4. Leases' /\ Ends'
  BY <1>0, <1>1, <1>2 DEF Leases, HasLease, Lost, Over, Ends
<1>5. ProcessKept
  BY <1>0, <1>1, <1>2, <1>3, <1>4, NodeFacts DEF ProcessKept, ProcessFits
<1> QED
  BY <1>0, <1>5, LeftStep

\* A fresh renewal follows.
LEMMA ConfirmStep ==
    ASSUME NodeInv, Confirm
    PROVE  NodeInv'
<1>1. /\ main.at = "confirm" /\ main' = [main EXCEPT !.at = "renew", !.reclaim = FALSE]
      /\ UNCHANGED <<External, entry, refused>> /\ UNCHANGED <<keeper, capsule, host>>
      /\ UNCHANGED faults
  BY DEF Confirm
<1>2. main.round \in Nat \ {0} /\ faults' \in 0..MaxFaults
  BY <1>1, NodeFacts, FaultOK DEF MainRow, ProcessFits, Leases
<1>3. PICK n \in Nat \ {0} : n = main.round
  BY <1>2
<1>4. main' = [main EXCEPT !.at = "renew", !.round = n, !.reclaim = FALSE]
  BY <1>1, <1>3, NodeFacts DEF MainRow
<1> QED
  BY <1>1, <1>2, <1>4, RoundStep

\* The window is too short: another round.
LEMMA ShortWindowStep ==
    ASSUME NodeInv, ShortWindow
    PROVE  NodeInv'
<1>1. /\ main.at = "confirmed" /\ main' = [main EXCEPT !.at = "confirm", !.round = main.round + 1]
      /\ UNCHANGED <<External, entry, refused>> /\ UNCHANGED <<keeper, capsule, host>>
      /\ Fault
  BY DEF ShortWindow
<1>2. main.round + 1 \in Nat \ {0} /\ faults' \in 0..MaxFaults /\ main.reclaim \in BOOLEAN
  BY <1>1, NodeFacts, FaultOK DEF MainRow
<1>3. PICK n \in Nat \ {0} : n = main.round + 1
  BY <1>2
<1>5. PICK b \in BOOLEAN : b = main.reclaim
  BY <1>2
<1>4. main' = [main EXCEPT !.at = "confirm", !.round = n, !.reclaim = b]
  BY <1>1, <1>3, <1>5, NodeFacts DEF MainRow
<1> QED
  BY <1>1, <1>2, <1>4, RoundStep

\* The lease is confirmed.
LEMMA ConfirmedStep ==
    ASSUME NodeInv, Confirmed
    PROVE  NodeInv'
<1>0. /\ main.at = "confirmed" /\ UNCHANGED <<External, entry, refused>> /\ entry' = entry
      /\ capsule' = capsule /\ host' = host /\ UNCHANGED faults
  BY DEF Confirmed
<1>1. /\ entry.known /\ keeper = "off" /\ ~Over(entry) /\ main.answer = NoAnswer
      /\ entry.op.kind = "none" /\ HasLease(entry) /\ faults' \in 0..MaxFaults
      /\ entry \in EntryRow /\ GrantsOf(entry)
  BY <1>0, NodeFacts, FaultOK DEF ProcessFits, Ends, Quiet, Leases, JournalFits
<1>2. CASE entry.status = "executing"
  <2>1. /\ keeper' = IF entry.result = 0 THEN "waiting" ELSE "off"
        /\ main' = At(IF Port THEN "install" ELSE IF entry.result = 0 THEN "input" ELSE "complete")
    BY <1>2 DEF Confirmed
  <2>2. /\ main' \in MainRow /\ main'.answer = NoAnswer
        /\ Port => main'.at = "install"
        /\ ~Port => /\ entry.predecessor = 0
                    /\ entry.result = 0 => main'.at = "input"
                    /\ entry.result # 0 => main'.at = "complete"
    BY <1>1, <2>1, Fields, NodeBounds DEF Labels, GrantsOf
  <2>3. main'.at \in {"install", "input", "complete"} /\ keeper' \in {"waiting", "off"}
    BY <2>1, <2>2, NodeBounds
  <2>4. KeeperSound' /\ Leases' /\ Releases' /\ AnswersSound' /\ Ends'
    BY <1>0, <1>1, <2>1, <2>2, <2>3, NodeBounds
    DEF KeeperSound, Leases, Releases, AnswersSound, Ends, Leasing, Over
  <2>5. Installs'
    BY <1>0, <1>1, <1>2, <2>1, <2>2, <2>3, NodeBounds
    DEF Installs, Leasing, Executes, HasLease, Lost, Over
  <2>6. Runs' /\ Completes'
    BY <1>0, <1>1, <1>2, <2>1, <2>2, <2>3, NodeBounds
    DEF Runs, Completes, Leasing, Executes, HasLease, Lost, Over
  <2>7. ProcessKept
    BY <1>1, <2>2, <2>3, <2>4, <2>5, <2>6 DEF ProcessKept, ProcessFits, KeeperSteps
  <2> QED
    BY <1>0, <2>7, LeftStep
<1>3. CASE entry.status # "executing"
  <2>1. main' = [main EXCEPT !.at = "start", !.round = main.round + 1] /\ keeper' = keeper
    BY <1>3 DEF Confirmed
  <2>2. main.round + 1 \in Nat \ {0} /\ main.reclaim \in BOOLEAN
    BY NodeFacts DEF MainRow
  <2>3. PICK n \in Nat \ {0} : n = main.round + 1
    BY <2>2
  <2>4. PICK b \in BOOLEAN : b = main.reclaim
    BY <2>2
  <2>5. main' = [main EXCEPT !.at = "start", !.round = n, !.reclaim = b]
    BY <2>1, <2>3, <2>4, NodeFacts DEF MainRow
  <2> QED
    BY <1>0, <1>1, <2>1, <2>5, RoundStep
<1> QED
  BY <1>2, <1>3

\* Too many rounds, or a dead row.
LEMMA AbandonStep ==
    ASSUME NodeInv, Abandon
    PROVE  NodeInv'
<1>0. /\ main.at \in {"abandon", "confirm"} /\ GiveUp /\ UNCHANGED External /\ keeper' = keeper
      /\ capsule' = capsule /\ UNCHANGED faults
  BY DEF Abandon
<1>1. /\ entry.known /\ keeper = "off" /\ entry.op.kind = "none" /\ faults' \in 0..MaxFaults
      /\ entry.phase # "acknowledged"
  BY <1>0, NodeFacts, FaultOK DEF ProcessFits, Ends, Quiet, Leases, HasLease, Over, TerminalPhases
<1>2. Free(entry)
  BY <1>1, NothingPends DEF Leasing
<1> QED
  BY <1>0, <1>1, <1>2, GiveUpStep

-----------------------------------------------------------------------------
(* Runtime authority *)

\* Where the authority is installed, there is a lease under which the turn runs
\* or a completion to replay.
LEMMA InstallFacts ==
    ASSUME NodeInv, main.at \in {"install", "checkpoint", "attach"}
    PROVE  /\ Executes(entry) /\ Port /\ entry.known /\ ~Over(entry) /\ main.answer = NoAnswer
           /\ \/ Replays /\ keeper = "off"
              \/ /\ entry.op.kind \in Leasing /\ HasLease(entry)
                 /\ keeper = "off" => entry.result # 0 /\ entry.op.kind = "none"
           /\ entry.token # 0 /\ entry.token \in Tokens
           /\ keeper # "off" => ~Replays
           /\ keeper = "waiting" => entry.op.kind = "none"
           /\ keeper \in {"intended", "renewed"} => entry.op.kind = "renew"
<1>1. /\ Executes(entry) /\ Port /\ entry.known /\ ~Over(entry) /\ main.answer = NoAnswer
      /\ \/ Replays
         \/ /\ entry.op.kind \in Leasing /\ HasLease(entry)
            /\ keeper = "off" => entry.result # 0 /\ entry.op.kind = "none"
      /\ keeper # "off" => entry.op.kind \in Leasing
      /\ keeper = "waiting" => entry.op.kind = "none"
      /\ keeper \in {"intended", "renewed"} => entry.op.kind = "renew"
  BY NodeFacts DEF ProcessFits, Installs, Ends, Quiet, KeeperSound
<1>2. Replays => entry.op.kind \notin Leasing /\ entry.token # 0
  BY NodeFacts DEF Replays, Leasing, JournalFits, Pending, CompletePends
<1>3. HasLease(entry) => entry.token # 0
  BY DEF HasLease
<1>4. entry.token \in Tokens
  BY NodeFacts DEF EntryRow
<1> QED
  BY <1>1, <1>2, <1>3, <1>4

\* The process stays where the authority is installed.
LEMMA InstallingOK ==
    ASSUME NodeInv, main.at \in {"install", "checkpoint"}, entry'.known, ~Over(entry)',
           SameFence(entry, entry'), entry'.op = entry.op, entry'.phase = entry.phase,
           entry'.result = entry.result, keeper' = keeper, UNCHANGED faults,
           NEW l \in {"checkpoint", "attach"}, Go(l),
           l = "checkpoint" => entry'.predecessor \notin capsule',
           l = "attach" => entry'.grant = entry'.token /\ entry'.predecessor = 0
    PROVE  ProcessKept
<1>1. main' \in MainRow /\ main'.at = l /\ main'.answer = NoAnswer /\ main'.replay = main.replay
  BY NodeFacts, GoOK DEF Labels
<1>2. KeeperSound'
  BY <1>1, InstallFacts, NodeFacts DEF KeeperSound, ProcessFits
<1>3. Leases' /\ Runs' /\ Completes' /\ Releases' /\ AnswersSound' /\ Ends'
  BY <1>1 DEF Leases, Runs, Completes, Releases, AnswersSound, Ends
<1>4. HasLease(entry) => HasLease(entry')
  BY DEF HasLease, Lost, Over, SameFence
<1>5. Installs'
  BY <1>1, <1>4, InstallFacts DEF Installs, Replays, Executes, SameFence, HasLease, Lost, Over
<1> QED
  BY <1>1, <1>2, <1>3, <1>5, NodeFacts, FaultOK DEF ProcessKept, ProcessFits

\* The predecessor's retirement is proven.
LEMMA RevokePredecessorStep ==
    ASSUME NodeInv, RevokePredecessor
    PROVE  NodeInv'
<1>0. /\ main.at = "install" /\ capsule' = capsule \ {entry.predecessor} /\ Go("checkpoint")
      /\ UNCHANGED <<External, entry, refused>> /\ entry' = entry /\ keeper' = keeper
      /\ host' = host /\ UNCHANGED faults
  BY DEF RevokePredecessor
<1>1. entry.known /\ ~Over(entry)'
  BY <1>0, InstallFacts DEF Over
<1>2. ProcessKept
  BY <1>0, <1>1, InstallingOK DEF SameFence
<1> QED
  BY <1>0, <1>2, LeftStep

\* The grant is journaled.
LEMMA CheckpointGrantStep ==
    ASSUME NodeInv, CheckpointGrant
    PROVE  NodeInv'
<1> DEFINE e == [entry EXCEPT !.grant = entry.token, !.predecessor = 0]
<1>0. /\ main.at = "checkpoint" /\ Save(e) /\ Go("attach") /\ UNCHANGED External
      /\ keeper' = keeper /\ host' = host /\ capsule' = capsule /\ UNCHANGED faults
  BY DEF CheckpointGrant
<1>1. entry.known /\ entry.token # 0 /\ Port /\ entry.predecessor \notin capsule /\ ~Over(entry)
  BY <1>0, InstallFacts, NodeFacts DEF ProcessFits, Installs
<1>2. /\ Fit(e) /\ e.grant = entry.token /\ e.predecessor = 0 /\ e.phase = entry.phase
      /\ SameWork(entry, e) /\ SameFence(entry, e) /\ e.op = entry.op
  BY <1>1, NodeFacts, GrantOK
<1> HIDE DEF e
<1>3. PICK f \in EntryRow : f = e
  BY <1>2 DEF Fit
<1>4. Save(f) /\ Fit(f)
  BY <1>0, <1>2, <1>3
<1>5. entry' = f
  BY <1>4, NodeFacts, Saved DEF Fit, SavesSound
<1>6. /\ entry'.known /\ ~Over(entry)' /\ SameFence(entry, entry') /\ entry'.op = entry.op
      /\ entry'.phase = entry.phase /\ entry'.result = entry.result
      /\ entry'.grant = entry'.token /\ entry'.predecessor = 0
  BY <1>1, <1>2, <1>3, <1>5 DEF SameWork, SameFence, Over
<1>7. ProcessKept
  BY <1>0, <1>6, InstallingOK
<1> QED
  BY <1>0, <1>4, <1>7, SaveStep

\* The grant of the journaled fence is journaled before the Capsule has it.
LEMMA AttachedOK ==
    ASSUME NodeInv, main.at = "attach", capsule' \in {capsule, capsule \cup {entry.token}},
           entry'.grant = entry.grant, entry'.predecessor = entry.predecessor
    PROVE  GrantsOf(entry)' /\ capsule' \subseteq Tokens
<1>1. entry.grant = entry.token /\ entry.predecessor = 0
  BY NodeFacts DEF ProcessFits, Installs
<1> QED
  BY <1>1, InstallFacts, NodeFacts DEF GrantsOf, JournalFits

\* The Capsule installs it.
LEMMA AttachStep ==
    ASSUME NodeInv, Attach
    PROVE  NodeInv'
<1> DEFINE l == CASE entry.op.kind = "complete" -> "publish"
                  [] entry.op.kind # "complete" /\ Turn -> "input"
                  [] OTHER -> "complete"
<1>0. /\ main.at = "attach" /\ capsule' = capsule \cup {entry.token}
      /\ main' = [main EXCEPT !.at = l, !.authority = entry.token]
      /\ UNCHANGED <<External, entry, refused>> /\ entry' = entry /\ keeper' = keeper
      /\ host' = host /\ UNCHANGED faults
  BY DEF Attach
<1>1. GrantsOf(entry)' /\ capsule' \subseteq Tokens
  BY <1>0, AttachedOK
<1>2. entry.predecessor = 0
  BY <1>0, NodeFacts DEF ProcessFits, Installs
<1>3. /\ entry.op.kind = "complete" => l = "publish"
      /\ entry.op.kind # "complete" /\ keeper # "off" => l = "input"
      /\ entry.op.kind # "complete" /\ keeper = "off" => l = "complete"
  BY DEF Turn
<1> HIDE DEF l
<1>4. /\ main' \in MainRow /\ main'.at = l /\ main'.answer = NoAnswer /\ main'.replay = main.replay
      /\ l \in {"publish", "input", "complete"}
  BY <1>0, <1>3, InstallFacts, NodeFacts DEF MainRow, Labels
<1>5. KeeperSound' /\ Leases' /\ Installs' /\ Releases' /\ AnswersSound' /\ Ends'
  BY <1>0, <1>3, <1>4, InstallFacts
  DEF KeeperSound, Leases, Installs, Releases, AnswersSound, Ends, Leasing, Replays, Over
<1>6. Runs'
  BY <1>0, <1>2, <1>3, <1>4, InstallFacts
  DEF Runs, Executes, HasLease, Lost, Over, Replays
<1>7. Completes'
  BY <1>0, <1>2, <1>3, <1>4, InstallFacts
  DEF Completes, Executes, HasLease, Lost, Over, Replays, Leasing
<1>8. ProcessKept
  BY <1>0, <1>4, <1>5, <1>6, <1>7, NodeFacts, FaultOK DEF ProcessKept, ProcessFits
<1> QED
  BY <1>0, <1>1, <1>8, LeftStep

\* The Capsule cannot be reached.
LEMMA InstallFailsStep ==
    ASSUME NodeInv, InstallFails
    PROVE  NodeInv'
<1>0. /\ main.at \in {"install", "attach"} /\ keeper = "off" /\ keeper' = keeper /\ Fault
      /\ UNCHANGED External
  BY DEF InstallFails, Turn
<1>1. faults' \in 0..MaxFaults
  BY <1>0, FaultOK
<1>2. CASE main.at = "install"
  <2>1. GoIdle /\ UNCHANGED <<entry, refused>> /\ host' = host /\ capsule' = capsule
    BY <1>2 DEF InstallFails
  <2>2. ProcessKept
    BY <1>0, <1>1, <2>1, IdleOK DEF GoIdle
  <2> QED
    BY <1>0, <2>1, <2>2, LeftStep
<1>3. CASE main.at = "attach" /\ entry.op.kind = "complete"
  <2>1. /\ Save(Retain(entry)) /\ GoIdle /\ host' = host
        /\ capsule' \in {capsule, capsule \cup {entry.token}}
    BY <1>3 DEF InstallFails
  <2>2. ProcessKept
    BY <1>0, <1>1, <2>1, IdleOK DEF GoIdle
  <2>3. entry' = entry
    BY <1>3, <2>1, NodeFacts, RetainOK DEF Save
  <2>4. GrantsOf(entry)' /\ capsule' \subseteq Tokens
    BY <1>3, <2>1, <2>3, AttachedOK
  <2> QED
    BY <1>0, <1>3, <2>1, <2>2, <2>4, RetainStep
<1>4. CASE main.at = "attach" /\ entry.op.kind # "complete"
  <2>1. GiveUp /\ capsule' \in {capsule, capsule \cup {entry.token}}
    BY <1>4 DEF InstallFails
  <2>2. entry.op.kind = "none" /\ entry.known /\ entry.phase # "acknowledged"
    BY <1>0, <1>4, InstallFacts DEF Replays, Over, TerminalPhases
  <2>3. Free(entry)
    BY <2>2, NothingPends DEF Leasing
  <2>4. entry'.grant = entry.grant /\ entry'.predecessor = entry.predecessor
    BY <2>1, NodeFacts DEF GiveUp, Save, MarkAuthorityLost, EntryRow
  <2>5. GrantsOf(entry)' /\ capsule' \subseteq Tokens
    BY <1>4, <2>1, <2>4, AttachedOK
  <2> QED
    BY <1>0, <1>1, <2>1, <2>2, <2>3, <2>5, GiveUpStep
<1> QED
  BY <1>0, <1>2, <1>3, <1>4

\* The Capsule proves the grant retired.
LEMMA RetireStep ==
    ASSUME NodeInv, Retire
    PROVE  NodeInv'
<1>0. /\ main.at = "retire" /\ main' = [main EXCEPT !.at = "clear"]
      /\ IF Granted(entry) THEN capsule' = capsule \ {entry.grant, entry.predecessor}
         ELSE capsule' = capsule
      /\ UNCHANGED <<External, entry, refused>> /\ entry' = entry /\ keeper' = keeper
      /\ host' = host /\ UNCHANGED faults /\ receipts' = receipts /\ relay' = relay
  BY DEF Retire, External
<1>1. capsule' = {}
  BY <1>0, NodeFacts DEF Granted, JournalFits, GrantsOf
<1>2. main' \in MainRow /\ main'.at = "clear" /\ main'.answer = main.answer
  BY <1>0, NodeFacts DEF MainRow, Labels
<1>3. ProcessFits /\ keeper = "off" /\ entry.known
  BY <1>0, NodeFacts DEF ProcessFits, Ends, Quiet
<1>4. KeeperSound' /\ Leases' /\ Installs' /\ Runs' /\ Completes'
  BY <1>0, <1>2, <1>3 DEF KeeperSound, Leases, Installs, Runs, Completes
<1>5. Releases'
  BY <1>0, <1>1, <1>2, <1>3 DEF ProcessFits, Releases, Accepted, Over
<1>6. Ends'
  BY <1>0, <1>2, <1>3 DEF Ends
<1>7. AnswersSound'
  <2>1. Receipt(entry.op, main.answer)' = Receipt(entry.op, main.answer) /\ Stored(entry.op)' = Stored(entry.op)
        /\ (Accepted' <=> Accepted)
    BY <1>0, <1>2 DEF Receipt, Stored, Accepted
  <2> QED
    BY <1>0, <1>2, <1>3, <2>1 DEF ProcessFits, AnswersSound
<1>8. ProcessKept
  BY <1>0, <1>2, <1>4, <1>5, <1>6, <1>7, NodeFacts, FaultOK DEF ProcessKept, ProcessFits
<1> QED
  BY <1>0, <1>1, <1>8, LeftStep

\* Or it stays journaled.
LEMMA RetireFailsStep ==
    ASSUME NodeInv, RetireFails
    PROVE  NodeInv'
<1>1. /\ main.at = "retire" /\ Fault /\ GoIdle /\ UNCHANGED <<External, entry, refused>>
      /\ keeper' = keeper /\ capsule' = capsule /\ host' = host
  BY DEF RetireFails
<1>2. ProcessKept
  BY <1>1, NodeFacts, FaultOK, IdleOK DEF GoIdle
<1> QED
  BY <1>1, <1>2, LeftStep

\* The proven grant is cleared.
LEMMA ClearGrantStep ==
    ASSUME NodeInv, ClearGrant
    PROVE  NodeInv'
<1> DEFINE e == [entry EXCEPT !.grant = 0, !.predecessor = 0]
<1>0. /\ main.at = "clear" /\ Save(e)
      /\ main' = IF main.answer # NoAnswer THEN [main EXCEPT !.at = "claim"]
                 ELSE IF ~Terminal(entry) /\ entry.op.kind = "release" THEN At("publish_release")
                 ELSE At("idle")
      /\ UNCHANGED External /\ keeper' = keeper /\ capsule' = capsule
      /\ host' = host /\ UNCHANGED faults /\ receipts' = receipts /\ relay' = relay
  BY DEF ClearGrant, External
<1>1. /\ entry.known /\ keeper = "off" /\ capsule = {} /\ ProcessFits
      /\ \/ main.answer = NoAnswer /\ (Over(entry) \/ entry.op.kind = "release")
         \/ entry.op.kind = "claim" /\ Accepted /\ main.answer.status # "leased"
  BY <1>0, NodeFacts DEF ProcessFits, Ends, Quiet, Releases
<1>2. /\ Fit(e) /\ e.grant = 0 /\ e.predecessor = 0 /\ e.phase = entry.phase
      /\ SameWork(entry, e) /\ SameFence(entry, e) /\ e.op = entry.op
  BY <1>1, NodeFacts, ClearOK
<1> HIDE DEF e
<1>3. PICK f \in EntryRow : f = e
  BY <1>2 DEF Fit
<1>4. Save(f) /\ Fit(f)
  BY <1>0, <1>2, <1>3
<1>5. entry' = f
  BY <1>4, NodeFacts, Saved DEF Fit, SavesSound
<1>6. /\ entry'.known /\ entry'.op = entry.op /\ entry'.phase = entry.phase
      /\ entry'.grant = 0 /\ entry'.predecessor = 0 /\ entry'.token = entry.token
      /\ (Over(entry)' <=> Over(entry))
  BY <1>1, <1>2, <1>3, <1>5 DEF SameWork, SameFence, Over
<1>7. CASE main.answer # NoAnswer
  <2>1. main' = [main EXCEPT !.at = "claim"] /\ entry.op.kind = "claim" /\ Accepted
    BY <1>0, <1>1, <1>7
  <2>2. main' \in MainRow /\ main'.at = "claim" /\ main'.answer = main.answer
    BY <2>1, NodeFacts DEF MainRow, Labels
  <2>3. ~Over(entry)
    BY <2>1, NodeFacts DEF JournalFits, Pending
  <2>4. KeeperSound' /\ Installs' /\ Runs' /\ Completes' /\ Releases'
    BY <1>0, <1>1, <2>2 DEF KeeperSound, Installs, Runs, Completes, Releases
  <2>5. Leases' /\ Ends'
    BY <1>6, <2>1, <2>2, <2>3 DEF Leases, Ends
  <2>6. AnswersSound'
    <3>1. Receipt(entry.op, main.answer)' = Receipt(entry.op, main.answer) /\ Accepted'
      BY <1>6, <2>1, <2>2 DEF Receipt, Accepted
    <3> QED
      BY <1>0, <1>1, <1>6, <1>7, <2>1, <2>2, <3>1 DEF ProcessFits, AnswersSound
  <2>7. ProcessKept
    BY <1>0, <2>2, <2>4, <2>5, <2>6, NodeFacts, FaultOK DEF ProcessKept, ProcessFits
  <2> QED
    BY <1>0, <1>4, <2>7, SaveStep
<1>8. CASE main.answer = NoAnswer /\ ~Terminal(entry) /\ entry.op.kind = "release"
  <2>1. main' \in MainRow /\ main'.at = "publish_release" /\ main'.answer = NoAnswer
    BY <1>0, <1>8, Fields DEF Labels
  <2>2. ~Over(entry)
    BY <1>8, NodeFacts DEF JournalFits, Pending
  <2>3. KeeperSound' /\ Installs' /\ Runs' /\ Completes' /\ Leases' /\ AnswersSound'
    BY <1>0, <1>1, <2>1 DEF KeeperSound, Installs, Runs, Completes, Leases, AnswersSound
  <2>4. Releases' /\ Ends'
    BY <1>6, <1>8, <2>1, <2>2 DEF Releases, Ends
  <2>5. ProcessKept
    BY <1>0, <2>1, <2>3, <2>4, NodeFacts, FaultOK DEF ProcessKept, ProcessFits
  <2> QED
    BY <1>0, <1>4, <2>5, SaveStep
<1>9. CASE main.answer = NoAnswer /\ ~(~Terminal(entry) /\ entry.op.kind = "release")
  <2>1. main' = At("idle")
    BY <1>0, <1>9
  <2>2. ProcessKept
    BY <1>0, <1>1, <2>1, NodeFacts, FaultOK, IdleOK
  <2> QED
    BY <1>0, <1>4, <2>2, SaveStep
<1> QED
  BY <1>7, <1>8, <1>9

-----------------------------------------------------------------------------
(* The host turn *)

\* While a turn is prepared or runs, there is a lease and a keeper.
LEMMA TurnFacts ==
    ASSUME NodeInv, main.at \in {"input", "lookup", "stream", "settle"}
    PROVE  /\ entry.known /\ ~Over(entry) /\ main.answer = NoAnswer
           /\ entry.op.kind \in Leasing /\ HasLease(entry) /\ Executes(entry)
           /\ entry.predecessor = 0 /\ keeper # "off"
           /\ main.at \in {"lookup", "stream", "settle"} => entry.input # 0
           /\ main.at \in {"stream", "settle"} => host[entry.attempt].state # "none"
           /\ main.at = "settle" => entry.events \in Outcomes
BY NodeFacts DEF ProcessFits, Runs, Ends, Quiet

\* The turn goes on.
LEMMA TurningOK ==
    ASSUME NodeInv, main.at \in {"input", "lookup", "stream"}, entry'.known, HasLease(entry'),
           SameFence(entry, entry'), entry'.op = entry.op, entry'.predecessor = entry.predecessor,
           keeper' = keeper, UNCHANGED faults,
           main' \in MainRow, main'.answer = NoAnswer, main'.at \in {"lookup", "stream", "settle"},
           entry'.input # 0,
           main'.at \in {"stream", "settle"} => host'[entry'.attempt].state # "none",
           main'.at = "settle" => entry'.events \in Outcomes
    PROVE  ProcessKept
<1>1. KeeperSound'
  BY NodeFacts DEF KeeperSound, ProcessFits
<1>2. Leases' /\ Installs' /\ Completes' /\ Releases' /\ AnswersSound' /\ Ends'
  BY DEF Leases, Installs, Completes, Releases, AnswersSound, Ends, HasLease, Over
<1>3. Runs'
  BY TurnFacts DEF Runs, Executes, SameFence, HasLease, Lost, Over
<1> QED
  BY <1>1, <1>2, <1>3, NodeFacts, FaultOK DEF ProcessKept, ProcessFits

\* The input is journaled.
LEMMA CheckpointInputStep ==
    ASSUME NodeInv, CheckpointInput
    PROVE  NodeInv'
<1>0. /\ main.at = "input" /\ Save([entry EXCEPT !.input = IF entry.input = 0 THEN version ELSE entry.input])
      /\ Go("lookup") /\ UNCHANGED External /\ keeper' = keeper /\ host' = host /\ capsule' = capsule
      /\ UNCHANGED faults
  BY DEF CheckpointInput
<1>1. PICK v \in 1..MaxInputs : v = version
  BY NodeFacts DEF NodeShape, ProcessShape
<1> DEFINE e == [entry EXCEPT !.input = IF entry.input = 0 THEN v ELSE entry.input]
<1>2. /\ Fit(e) /\ e.input # 0 /\ e.known /\ e.attempt = entry.attempt
      /\ SameFence(entry, e) /\ SameGrants(entry, e) /\ SameIntent(entry, e)
  BY <1>0, NodeFacts, TurnFacts, InputOK
<1>3. Save(e)
  BY <1>0, <1>1
<1> HIDE DEF e
<1>4. PICK f \in EntryRow : f = e
  BY <1>2 DEF Fit
<1>5. Save(f) /\ Fit(f)
  BY <1>2, <1>3, <1>4
<1>6. entry' = f
  BY <1>5, NodeFacts, Saved DEF Fit, SavesSound
<1>7. main' \in MainRow /\ main'.at = "lookup" /\ main'.answer = NoAnswer
  BY <1>0, NodeFacts, GoOK DEF Labels
<1>8. /\ entry'.known /\ HasLease(entry') /\ SameFence(entry, entry') /\ entry'.op = entry.op
      /\ entry'.predecessor = entry.predecessor /\ entry'.input # 0
  BY <1>0, <1>2, <1>4, <1>6, TurnFacts DEF SameFence, SameGrants, SameIntent, HasLease, Lost, Over
<1>9. ProcessKept
  BY <1>0, <1>7, <1>8, TurningOK
<1> QED
  BY <1>0, <1>5, <1>9, SaveStep

\* The turn of an attempt the host does not know is started.
LEMMA StartedTurn ==
    ASSUME NEW e \in EntryRow, TurnsOf(e), host \in [Attempts -> TurnRow], e.input # 0,
           host[e.attempt].state = "none",
           host' = [host EXCEPT ![e.attempt] = [state |-> "running", input |-> e.input,
                                                starts |-> host[e.attempt].starts + 1]]
    PROVE  /\ host' \in [Attempts -> TurnRow]
           /\ host'[e.attempt].state = "running" /\ host'[e.attempt].starts = 1
           /\ host'[e.attempt].input = e.input
           /\ \A a \in Attempts : a # e.attempt => host'[a] = host[a]
<1>1. e.attempt \in Attempts /\ e.input \in 0..MaxInputs
  BY DEF EntryRow
<1>2. host[e.attempt].starts = 0
  BY <1>1 DEF TurnsOf
<1>3. PICK t : t = [state |-> "running", input |-> e.input, starts |-> 1]
  OBVIOUS
<1>4. t \in TurnRow /\ t.state = "running" /\ t.starts = 1 /\ t.input = e.input
  BY <1>1, <1>3 DEF TurnRow
<1>5. host' = [host EXCEPT ![e.attempt] = t]
  BY <1>2, <1>3
<1> QED
  BY <1>1, <1>4, <1>5

\* lookupTurn, startTurn and recoverTurn.
LEMMA StartTurnStep ==
    ASSUME NodeInv, StartTurn
    PROVE  NodeInv'
<1>0. /\ main.at = "lookup" /\ Go("stream") /\ UNCHANGED <<External, entry, refused>>
      /\ keeper' = keeper /\ capsule' = capsule /\ UNCHANGED faults /\ entry' = entry
      /\ refused' = refused
      /\ relay' = relay /\ receipts' = receipts /\ mission' = mission /\ version' = version
  BY DEF StartTurn, External
<1>1. PICK e \in EntryRow : e = entry
  BY NodeFacts
<1>2. e.input # 0 /\ e.known /\ HasLease(e) /\ TurnsOf(e) /\ e.attempt \in Attempts
  BY <1>0, <1>1, NodeFacts, TurnFacts DEF JournalFits, EntryRow
<1>3. main' \in MainRow /\ main'.at = "stream" /\ main'.answer = NoAnswer
  BY <1>0, NodeFacts, GoOK DEF Labels
<1>4. host'[e.attempt].state # "none" => ProcessKept
  BY <1>0, <1>1, <1>2, <1>3, TurningOK DEF SameFence, HasLease, Lost, Over
<1>5. CASE host[e.attempt].state # "none"
  <2>1. host' = host
    BY <1>1, <1>5 DEF StartTurn
  <2> QED
    BY <1>0, <1>4, <1>5, <2>1, LeftStep
<1>6. CASE host[e.attempt].state = "none"
  <2>1. host' = [host EXCEPT ![e.attempt] = [state |-> "running", input |-> e.input,
                                             starts |-> host[e.attempt].starts + 1]]
    BY <1>1, <1>6 DEF StartTurn
  <2>2. /\ host' \in [Attempts -> TurnRow]
        /\ host'[e.attempt].state = "running" /\ host'[e.attempt].starts = 1
        /\ host'[e.attempt].input = e.input
        /\ \A a \in Attempts : a # e.attempt => host'[a] = host[a]
    BY <1>2, <1>6, <2>1, NodeFacts, StartedTurn
  <2>3. ProcessKept
    BY <1>4, <2>2
  <2>4. TurnsOf(entry)'
    <3>0. entry' = e
      BY <1>0, <1>1
    <3>1. e.events \notin Outcomes /\ e.result = 0
      BY <1>2, <1>6 DEF TurnsOf, Outcomes
    <3>2. ASSUME NEW a \in Attempts
          PROVE  /\ host'[a].state = "none" <=> host'[a].starts = 0
                 /\ host'[a].starts <= 1
                 /\ host'[a].starts = 1 => host'[a].input # 0
                 /\ a > e.attempt => host'[a].state = "none"
                 /\ host'[a].state = "running" => a = e.attempt
      <4>1. CASE a = e.attempt
        BY <1>2, <2>2, <4>1 DEF Attempts
      <4>2. CASE a # e.attempt
        BY <1>2, <2>2, <4>2 DEF TurnsOf
      <4> QED
        BY <4>1, <4>2
    <3> QED
      BY <2>2, <3>0, <3>1, <3>2 DEF TurnsOf
  <2>5. Pending(entry)' /\ Fenced(entry)'
    BY <1>0, <1>1, NodeFacts, FencedAfter DEF JournalFits
  <2>6. GrantsOf(entry)' /\ UnseenOf(entry)'
    BY <1>0, <1>1, <1>2, NodeFacts DEF JournalFits, GrantsOf, UnseenOf
  <2>7. CompletionOf(entry)'
    BY <1>0, <1>1, <1>6, NodeFacts DEF JournalFits, CompletionOf
  <2>8. RelayShape' /\ RelaySound' /\ JournalShape' /\ SavesSound'
    BY <1>0, NodeFacts
    DEF RelayShape, RelaySound, ReceiptsSound, RowSound, Kept, NodeShape, JournalShape, SavesSound,
        Acceptable, PredecessorValid
  <2>9. ProcessShape'
    BY <1>0, <2>2, <2>3, NodeFacts DEF NodeShape, ProcessShape, ProcessKept
  <2> QED
    BY <2>3, <2>4, <2>5, <2>6, <2>7, <2>8, <2>9 DEF NodeInv, NodeShape, JournalFits, ProcessKept
<1> QED
  BY <1>5, <1>6

\* An event of the turn, or its result, is journaled.
LEMMA EventSaved ==
    ASSUME NodeInv, main.at \in {"stream", "settle"}, NEW f \in EntryRow, ~Over(f), ~Lost(f),
           f.input = entry.input, f.known = entry.known, f.attempt = entry.attempt,
           f.history = entry.history, f.op = entry.op,
           SameFence(entry, f), SameGrants(entry, f), SameKeys(entry, f),
           \/ entry.events = "none" /\ f.events = "accepted" /\ f.result = entry.result
           \/ /\ f.events \in Outcomes /\ entry.events = "accepted"
              /\ host[entry.attempt].state = f.events /\ f.result = entry.result
           \/ entry.events = "completed" /\ f.events = "completed" /\ f.result = entry.attempt,
           Save(f)
    PROVE  Fit(f) /\ entry' = f /\ HasLease(f) /\ f.known
<1>1. /\ entry.known /\ entry.op.kind \in Leasing /\ HasLease(entry) /\ entry.input # 0
      /\ entry \in EntryRow /\ Fit(entry) /\ RelayShape
  BY NodeFacts, TurnFacts
<1>2. Fit(f) /\ HasLease(f)
  BY <1>1, EventsOK
<1>3. entry' = f
  BY <1>2, NodeFacts, Saved DEF Fit, SavesSound
<1> QED
  BY <1>1, <1>2, <1>3

\* consumeHostEvents.
LEMMA HostEventStep ==
    ASSUME NodeInv, HostEvent
    PROVE  NodeInv'
<1>0. /\ main.at = "stream" /\ UNCHANGED External /\ keeper' = keeper /\ host' = host
      /\ capsule' = capsule /\ UNCHANGED faults
      /\ entry \in EntryRow
  BY NodeFacts DEF HostEvent
<1>1. CASE /\ entry.events = "none"
           /\ Save([entry EXCEPT !.events = "accepted", !.phase = "host_accepted"])
           /\ main' = main
  <2>1. PICK f : f = [entry EXCEPT !.events = "accepted", !.phase = "host_accepted"]
    OBVIOUS
  <2>2. /\ f \in EntryRow /\ f.events = "accepted" /\ f.result = entry.result /\ f.input = entry.input
        /\ f.known = entry.known /\ f.attempt = entry.attempt /\ f.history = entry.history
        /\ f.op = entry.op /\ f.phase = "host_accepted"
        /\ SameFence(entry, f) /\ SameGrants(entry, f) /\ SameKeys(entry, f)
    BY <1>0, <1>1, <2>1 DEF EntryRow, Phases, Outcomes, SameFence, SameGrants, SameKeys
  <2>3. ~Over(f) /\ ~Lost(f) /\ Save(f)
    BY <1>1, <2>1, <2>2 DEF Over, Lost, TerminalPhases
  <2>4. Fit(f) /\ entry' = f /\ HasLease(f) /\ f.known
    BY <1>0, <1>1, <2>2, <2>3, EventSaved
  <2>5. ProcessKept
    BY <1>0, <1>1, <2>2, <2>4, TurnFacts, NodeFacts, TurningOK DEF SameGrants
  <2> QED
    BY <1>0, <2>2, <2>3, <2>4, <2>5, SaveStep
<1>2. CASE /\ entry.events = "accepted" /\ host[entry.attempt].state \in Outcomes
           /\ Save([entry EXCEPT !.events = host[entry.attempt].state, !.phase = "host_terminal"])
           /\ Go("settle")
  <2>1. PICK f : f = [entry EXCEPT !.events = host[entry.attempt].state, !.phase = "host_terminal"]
    OBVIOUS
  <2>2. /\ f \in EntryRow /\ f.events = host[entry.attempt].state /\ f.result = entry.result /\ f.input = entry.input
        /\ f.known = entry.known /\ f.attempt = entry.attempt /\ f.history = entry.history
        /\ f.op = entry.op /\ f.phase = "host_terminal"
        /\ SameFence(entry, f) /\ SameGrants(entry, f) /\ SameKeys(entry, f)
    BY <1>0, <1>2, <2>1 DEF EntryRow, Phases, Outcomes, SameFence, SameGrants, SameKeys
  <2>3. ~Over(f) /\ ~Lost(f) /\ Save(f)
    BY <1>2, <2>1, <2>2 DEF Over, Lost, TerminalPhases
  <2>4. Fit(f) /\ entry' = f /\ HasLease(f) /\ f.known
    BY <1>0, <1>2, <2>2, <2>3, EventSaved
  <2>5. main' \in MainRow /\ main'.at = "settle" /\ main'.answer = NoAnswer
    BY <1>2, NodeFacts, GoOK DEF Labels
  <2>6. ProcessKept
    BY <1>0, <1>2, <2>2, <2>4, <2>5, TurnFacts, NodeFacts, TurningOK DEF SameGrants
  <2> QED
    BY <1>0, <2>2, <2>3, <2>4, <2>6, SaveStep
<1>3. CASE entry.events \in Outcomes /\ Go("settle") /\ entry' = entry /\ refused' = refused
  <2>1. main' \in MainRow /\ main'.at = "settle" /\ main'.answer = NoAnswer
    BY <1>3, NodeFacts, GoOK DEF Labels
  <2>2. ProcessKept
    BY <1>0, <1>3, <2>1, TurnFacts, TurningOK DEF SameFence, HasLease, Lost, Over
  <2> QED
    BY <1>0, <1>3, <2>2, LeftStep
<1> QED
  BY <1>1, <1>2, <1>3 DEF HostEvent

\* The turn has ended: its result is saved, or it will be released.
LEMMA SettleStep ==
    ASSUME NodeInv, Settle
    PROVE  NodeInv'
<1>0. /\ main.at = "settle" /\ keeper = "waiting" /\ keeper' = "off" /\ UNCHANGED External
      /\ host' = host /\ UNCHANGED faults
  BY DEF Settle
<1>1. /\ entry.known /\ ~Over(entry) /\ entry.op.kind = "none" /\ HasLease(entry) /\ Executes(entry)
      /\ entry.predecessor = 0 /\ entry.events \in Outcomes /\ entry \in EntryRow
  BY <1>0, NodeFacts, TurnFacts DEF ProcessFits, KeeperSound
<1>2. CASE entry.events = "completed"
  <2>0. /\ Save([entry EXCEPT !.result = entry.attempt, !.phase = "host_terminal"])
        /\ Go("complete") /\ capsule' = capsule
    BY <1>2 DEF Settle
  <2>1. PICK f : f = [entry EXCEPT !.result = entry.attempt, !.phase = "host_terminal"]
    OBVIOUS
  <2>2. /\ f \in EntryRow /\ f.events = "completed" /\ f.result = entry.attempt /\ f.input = entry.input
        /\ f.known = entry.known /\ f.attempt = entry.attempt /\ f.history = entry.history
        /\ f.op = entry.op /\ f.phase = "host_terminal"
        /\ SameFence(entry, f) /\ SameGrants(entry, f) /\ SameKeys(entry, f)
    BY <1>1, <1>2, <2>1, NodeBounds DEF EntryRow, Phases, SameFence, SameGrants, SameKeys
  <2>3. ~Over(f) /\ ~Lost(f) /\ Save(f)
    BY <2>0, <2>1, <2>2 DEF Over, Lost, TerminalPhases
  <2>4. Fit(f) /\ entry' = f /\ HasLease(f) /\ f.known
    BY <1>0, <1>2, <2>2, <2>3, EventSaved
  <2>5. main' \in MainRow /\ main'.at = "complete" /\ main'.answer = NoAnswer
    BY <2>0, NodeFacts, GoOK DEF Labels
  <2>6. KeeperSound' /\ Leases' /\ Installs' /\ Runs' /\ Releases' /\ AnswersSound' /\ Ends'
    BY <1>0, <2>2, <2>3, <2>4, <2>5
    DEF KeeperSound, Leases, Installs, Runs, Releases, AnswersSound, Ends, Over
  <2>7. f.result # 0 /\ f.op.kind = "none" /\ Executes(f) /\ f.predecessor = 0
    BY <1>1, <2>2 DEF EntryRow, Attempts, Executes, SameFence, SameGrants
  <2>8. Completes'
    BY <2>4, <2>5, <2>7 DEF Completes, Executes, HasLease, Lost, Over
  <2>9. ProcessKept
    BY <1>0, <2>5, <2>6, <2>8, NodeFacts, FaultOK DEF ProcessKept, ProcessFits, KeeperSteps
  <2> QED
    BY <1>0, <2>0, <2>2, <2>3, <2>4, <2>9, SaveStep
<1>3. CASE entry.events # "completed"
  <2>0. /\ TryRevoke /\ Go(IF entry.events = "denied" THEN "release_denied" ELSE "release_transient")
        /\ entry' = entry /\ refused' = refused
    BY <1>3 DEF Settle
  <2>1. PICK l \in {"release_denied", "release_transient"} :
              /\ Go(l)
              /\ l = "release_transient" => entry.events \in {"transient", "cancelled"}
    BY <1>1, <1>3, <2>0 DEF Outcomes
  <2>2. main' \in MainRow /\ main'.at = l /\ main'.answer = NoAnswer
    BY <2>1, NodeFacts, GoOK DEF Labels
  <2>3. KeeperSound' /\ Leases' /\ Installs' /\ Runs' /\ Completes' /\ AnswersSound'
    BY <1>0, <2>2 DEF KeeperSound, Leases, Installs, Runs, Completes, AnswersSound
  <2>4. Releases' /\ Ends'
    BY <1>1, <2>0, <2>1, <2>2 DEF Releases, Ends, Leasing, HasLease, Lost, Over
  <2>5. ProcessKept
    BY <1>0, <2>2, <2>3, <2>4, NodeFacts, FaultOK DEF ProcessKept, ProcessFits, KeeperSteps
  <2> QED
    BY <1>0, <2>0, <2>5, LeftStep DEF TryRevoke
<1> QED
  BY <1>2, <1>3

\* What holds of a turn, from the installation of its authority to its end.
LEMMA InTurnFacts ==
    ASSUME NodeInv, InTurn
    PROVE  /\ entry.known /\ ~Over(entry) /\ HasLease(entry) /\ Free(entry)
           /\ entry.op.kind \in Leasing
<1>1. keeper # "off" /\ main.at \in {"install", "attach", "input", "lookup", "stream", "settle"}
  BY DEF InTurn, Turn
<1>2. entry.op.kind \in Leasing
  BY <1>1, NodeFacts DEF ProcessFits, KeeperSound
<1>3. CASE main.at \in {"install", "attach"}
  BY <1>1, <1>2, <1>3, InstallFacts, NothingPends
<1>4. CASE main.at \notin {"install", "attach"}
  BY <1>1, <1>2, <1>4, TurnFacts, NothingPends
<1> QED
  BY <1>2, <1>3, <1>4

\* The lease is lost while the turn is prepared or runs.
LEMMA TurnLosesAuthorityStep ==
    ASSUME NodeInv, TurnLosesAuthority
    PROVE  NodeInv'
<1>1. /\ InTurn /\ Save(MarkLeaseLost(entry)) /\ keeper' = "off" /\ GoIdle /\ UNCHANGED External
      /\ host' = host \/ TryCancel
      /\ capsule' \subseteq capsule /\ (Fault \/ UNCHANGED faults)
  BY DEF TurnLosesAuthority, TryRevoke
<1>2. ProcessKept
  BY <1>1, NodeFacts, FaultOK, IdleOK DEF GoIdle
<1> QED
  BY <1>1, <1>2, InTurnFacts, LostStep

\* Any other failure of the turn.
LEMMA TurnFailsStep ==
    ASSUME NodeInv, TurnFails
    PROVE  NodeInv'
<1>1. /\ InTurn /\ keeper' = "off" /\ UNCHANGED <<External, entry, refused>> /\ host' = host
      /\ entry' = entry
      /\ capsule' \subseteq capsule /\ (Fault \/ UNCHANGED faults)
      /\ main' = CASE entry.events = "denied" -> At("release_denied")
                   [] entry.events \in {"transient", "cancelled"} -> At("release_transient")
                   [] OTHER -> At("idle")
  BY DEF TurnFails, TryRevoke
<1>2. faults' \in 0..MaxFaults
  BY <1>1, FaultOK
<1>3. CASE entry.events \notin {"denied", "transient", "cancelled"}
  <2>1. main' = At("idle")
    BY <1>1, <1>3
  <2>2. ProcessKept
    BY <1>1, <1>2, <2>1, IdleOK
  <2> QED
    BY <1>1, <2>2, LeftStep
<1>4. CASE entry.events \in {"denied", "transient", "cancelled"}
  <2>1. PICK l \in {"release_denied", "release_transient"} :
              /\ main' = At(l)
              /\ l = "release_transient" => entry.events \in {"transient", "cancelled"}
    BY <1>1, <1>4
  <2>2. main' \in MainRow /\ main'.at = l /\ main'.answer = NoAnswer
    BY <2>1, Fields DEF Labels
  <2>3. KeeperSound' /\ Leases' /\ Installs' /\ Runs' /\ Completes' /\ AnswersSound'
    BY <1>1, <2>2 DEF KeeperSound, Leases, Installs, Runs, Completes, AnswersSound
  <2>4. Releases' /\ Ends'
    BY <1>1, <2>1, <2>2, InTurnFacts DEF Releases, Ends, Leasing, HasLease, Lost, Over
  <2>5. ProcessKept
    BY <1>1, <1>2, <2>2, <2>3, <2>4 DEF ProcessKept, ProcessFits, KeeperSteps
  <2> QED
    BY <1>1, <2>5, LeftStep
<1> QED
  BY <1>3, <1>4

\* A shutdown during a turn.
LEMMA ShutdownStep ==
    ASSUME NodeInv, Shutdown
    PROVE  NodeInv'
<1>1. /\ UNCHANGED <<External, entry, refused>> /\ TryCancel /\ capsule' \subseteq capsule
      /\ Fault /\ main' = At("down") /\ keeper' = "off"
  BY DEF Shutdown, TryRevoke
<1>2. ProcessKept
  BY <1>1, FaultOK, IdleOK
<1> QED
  BY <1>1, <1>2, LeftStep

\* The process dies.
LEMMA CrashStep ==
    ASSUME NodeInv, Crash
    PROVE  NodeInv'
<1>1. /\ UNCHANGED <<External, entry, refused>> /\ host' = host /\ capsule' = capsule
      /\ Fault /\ main' = At("down") /\ keeper' = "off"
  BY DEF Crash
<1>2. ProcessKept
  BY <1>1, FaultOK, IdleOK
<1> QED
  BY <1>1, <1>2, LeftStep

\* And is started again.
LEMMA RestartStep ==
    ASSUME NodeInv, Restart
    PROVE  NodeInv'
<1>1. /\ UNCHANGED <<External, entry, refused>> /\ host' = host /\ capsule' = capsule
      /\ UNCHANGED faults /\ main' = At("idle") /\ keeper' = keeper /\ main.at = "down"
  BY DEF Restart, GoIdle
<1>2. ProcessKept
  BY <1>1, NodeFacts, FaultOK, IdleOK
<1> QED
  BY <1>1, <1>2, LeftStep

-----------------------------------------------------------------------------
(* The lease keeper *)

\* The keeper takes a step while process() stays where it is.
LEMMA KeeperOK ==
    ASSUME NodeInv, keeper # "off", main' = main, entry'.known, HasLease(entry'),
           SameFence(entry, entry'), SameWork(entry, entry'), SameGrants(entry, entry'),
           entry'.op.kind \in Leasing, keeper' \in KeeperSteps \ {"off"},
           keeper' = "waiting" => entry'.op.kind = "none",
           keeper' \in {"intended", "renewed"} => entry'.op.kind = "renew",
           capsule' \subseteq capsule, faults' \in 0..MaxFaults,
           \A a \in Attempts : host[a].state # "none" => host'[a].state # "none"
    PROVE  ProcessKept
<1>0. /\ main.at \in {"install", "checkpoint", "attach", "input", "lookup", "stream", "settle"}
      /\ ProcessFits /\ entry.attempt \in Attempts /\ entry \in EntryRow
      /\ main.answer = NoAnswer /\ main \in MainRow
  BY NodeFacts DEF ProcessFits, KeeperSound, EntryRow
<1>1. KeeperSound'
  BY <1>0 DEF KeeperSound, KeeperSteps
<1>2. Leases' /\ Completes' /\ Releases' /\ AnswersSound' /\ Ends'
  BY <1>0 DEF Leases, Completes, Releases, AnswersSound, Ends, HasLease, Over
<1>3. Installs'
  BY <1>0 DEF ProcessFits, Installs, Executes, HasLease, Lost, Over, SameFence, SameGrants
<1>4. Runs'
  BY <1>0 DEF ProcessFits, Runs, Executes, HasLease, Lost, Over, SameFence, SameGrants, SameWork
<1> QED
  BY <1>0, <1>1, <1>2, <1>3, <1>4 DEF ProcessKept, ProcessFits

\* The keeper runs beside a turn that has a lease.
LEMMA KeeperFacts ==
    ASSUME NodeInv, keeper # "off"
    PROVE  /\ entry.known /\ ~Over(entry) /\ HasLease(entry) /\ entry.op.kind \in Leasing
           /\ keeper = "waiting" => entry.op.kind = "none"
           /\ keeper \in {"intended", "renewed"} => entry.op.kind = "renew"
<1>1. /\ main.at \in {"install", "checkpoint", "attach", "input", "lookup", "stream", "settle"}
      /\ entry.op.kind \in Leasing
      /\ keeper = "waiting" => entry.op.kind = "none"
      /\ keeper \in {"intended", "renewed"} => entry.op.kind = "renew"
  BY NodeFacts DEF ProcessFits, KeeperSound
<1>2. CASE main.at \in {"install", "checkpoint", "attach"}
  BY <1>1, <1>2, InstallFacts
<1>3. CASE main.at \notin {"install", "checkpoint", "attach"}
  BY <1>1, <1>3, TurnFacts
<1> QED
  BY <1>1, <1>2, <1>3

\* A renewal is journaled before it is asked for.
LEMMA KeeperIntendsStep ==
    ASSUME NodeInv, KeeperIntends
    PROVE  NodeInv'
<1>0. /\ keeper = "waiting" /\ Save(RenewIntent(entry)) /\ keeper' = "intended"
      /\ UNCHANGED External /\ main' = main /\ capsule' = capsule /\ host' = host /\ UNCHANGED faults
  BY DEF KeeperIntends
<1>1. Fit(RenewIntent(entry))
  BY <1>0, KeeperFacts, NodeFacts, RenewIntentOK
<1>2. PICK f \in EntryRow : f = RenewIntent(entry)
  BY <1>1 DEF Fit
<1>3. /\ f.op.kind = "renew" /\ f.phase = entry.phase /\ SameWork(entry, f) /\ SameFence(entry, f)
      /\ SameGrants(entry, f)
  BY <1>2, NodeFacts DEF RenewIntent, Intent, EntryRow, SameWork, SameFence, SameGrants
<1>4. Save(f) /\ Fit(f)
  BY <1>0, <1>1, <1>2
<1>5. entry' = f
  BY <1>4, NodeFacts, Saved DEF Fit, SavesSound
<1>6. entry'.known /\ HasLease(entry')
  BY <1>0, <1>3, <1>5, KeeperFacts DEF SameWork, SameFence, HasLease, Lost, Over
<1>7. ProcessKept
  BY <1>0, <1>3, <1>5, <1>6, NodeFacts, FaultOK, KeeperOK DEF Leasing, KeeperSteps
<1> QED
  BY <1>0, <1>4, <1>7, SaveStep

\* The renewal is asked for.
LEMMA KeeperAsksStep ==
    ASSUME NodeInv, KeeperAsks
    PROVE  NodeInv'
<1>0. /\ keeper = "intended" /\ UNCHANGED <<version, entry, refused>> /\ main' = main
      /\ version' = version /\ entry' = entry /\ refused' = refused
  BY DEF KeeperAsks
<1>1. /\ entry.known /\ HasLease(entry) /\ entry.op.kind = "renew"
      /\ SameFence(entry, entry') /\ SameWork(entry, entry') /\ SameGrants(entry, entry')
      /\ entry.op.kind \in Leasing /\ entry'.known /\ HasLease(entry')
  BY <1>0, KeeperFacts DEF SameFence, SameWork, SameGrants, Leasing
<1>2. /\ host' = host \/ TryCancel
      /\ capsule' \subseteq capsule /\ (Fault \/ UNCHANGED faults)
      /\ keeper' \in {"renewed", "lost", "error"}
      /\ Commit(entry.op) \/ UNCHANGED <<relay, receipts, mission>>
  BY DEF KeeperAsks, Served, Failed, KeeperAborts, TryRevoke
<1>3. faults' \in 0..MaxFaults
  BY <1>2, FaultOK
<1>4. JournalKept => ProcessKept
  BY <1>0, <1>1, <1>2, <1>3, KeeperOK DEF JournalKept, KeeperSteps
<1>5. CASE Commit(entry.op)
  BY <1>0, <1>1, <1>2, <1>4, <1>5, RequestStep
<1>6. CASE UNCHANGED <<relay, receipts, mission>>
  BY <1>0, <1>2, <1>4, <1>6, LeftStep DEF External
<1> QED
  BY <1>2, <1>5, <1>6

\* The renewal is journaled and forwarded.
LEMMA KeeperSavesStep ==
    ASSUME NodeInv, KeeperSaves
    PROVE  NodeInv'
<1>0. /\ keeper = "renewed" /\ Save([entry EXCEPT !.op = NoIntent])
      /\ UNCHANGED External /\ main' = main
      /\ host' = host \/ TryCancel
      /\ capsule' \subseteq capsule /\ (Fault \/ UNCHANGED faults)
      /\ keeper' \in {"waiting", "error"}
  BY DEF KeeperSaves, KeeperAborts, TryRevoke
<1> DEFINE e == [entry EXCEPT !.op = NoIntent]
<1>1. Fit(e)
  BY <1>0, KeeperFacts, NodeFacts, RenewedOK
<1>2. PICK f \in EntryRow : f = e
  BY <1>1 DEF Fit
<1>3. /\ f.op = NoIntent /\ f.phase = entry.phase /\ SameWork(entry, f) /\ SameFence(entry, f)
      /\ SameGrants(entry, f)
  BY <1>2, NodeFacts DEF EntryRow, SameWork, SameFence, SameGrants
<1>4. Save(f) /\ Fit(f)
  BY <1>0, <1>1, <1>2
<1> HIDE DEF e
<1>5. entry' = f
  BY <1>4, NodeFacts, Saved DEF Fit, SavesSound
<1>6. entry'.known /\ HasLease(entry') /\ entry'.op.kind = "none" /\ f.attempt = entry.attempt
  BY <1>0, <1>3, <1>5, KeeperFacts, Fields DEF SameWork, SameFence, HasLease, Lost, Over
<1>7. faults' \in 0..MaxFaults
  BY <1>0, FaultOK
<1>8. JournalKept => ProcessKept
  BY <1>0, <1>3, <1>5, <1>6, <1>7, KeeperOK DEF JournalKept, Leasing, KeeperSteps
<1> QED
  BY <1>0, <1>4, <1>6, <1>8, SaveStep

-----------------------------------------------------------------------------
(* complete and release *)

\* The completion's intent is journaled.
LEMMA CompleteStep ==
    ASSUME NodeInv, Complete
    PROVE  NodeInv'
<1>0. /\ main.at = "complete" /\ Save(CompleteIntent(entry)) /\ Go("publish") /\ UNCHANGED External
      /\ keeper' = keeper /\ capsule' = capsule /\ host' = host /\ UNCHANGED faults /\ relay' = relay
  BY DEF Complete, External
<1>1. /\ entry.known /\ ~Over(entry) /\ entry.op.kind = "none" /\ entry.result # 0
      /\ Executes(entry) /\ HasLease(entry) /\ entry.predecessor = 0 /\ keeper = "off"
  BY <1>0, NodeFacts DEF ProcessFits, Completes, Ends, Quiet
<1>2. Fit(CompleteIntent(entry))
  BY <1>1, NodeFacts, CompleteIntentOK
<1>3. PICK f \in EntryRow : f = CompleteIntent(entry)
  BY <1>2 DEF Fit
<1>4. /\ f.op.kind = "complete" /\ f.phase = "complete_intent" /\ f.predecessor = 0 /\ f.known
  BY <1>1, <1>3, NodeFacts DEF CompleteIntent, Intent, EntryRow
<1>5. Save(f) /\ Fit(f)
  BY <1>0, <1>2, <1>3
<1>6. entry' = f
  BY <1>5, NodeFacts, Saved DEF Fit, SavesSound
<1>7. main' \in MainRow /\ main'.at = "publish" /\ main'.answer = NoAnswer
  BY <1>0, NodeFacts, GoOK DEF Labels
<1>8. relay.status # "acknowledged"
  BY <1>1, NothingPends DEF Leasing, Free, Over, TerminalPhases
<1>9. KeeperSound' /\ Leases' /\ Installs' /\ Runs' /\ Releases' /\ AnswersSound'
  BY <1>0, <1>1, <1>7 DEF KeeperSound, Leases, Installs, Runs, Releases, AnswersSound
<1>10. Completes' /\ Ends'
  BY <1>0, <1>4, <1>6, <1>7, <1>8 DEF Completes, Ends, Over, TerminalPhases
<1>11. ProcessKept
  BY <1>0, <1>7, <1>9, <1>10, NodeFacts, FaultOK DEF ProcessKept, ProcessFits
<1> QED
  BY <1>0, <1>5, <1>11, SaveStep

\* publishCompletion.
LEMMA PublishStep ==
    ASSUME NodeInv, Publish
    PROVE  NodeInv'
<1>1. entry.op.kind = "complete" /\ entry.known
  BY NodeFacts DEF Publish, ProcessFits, Completes, Ends, Quiet
<1> QED
  BY <1>1, SendStep DEF Publish

\* The session ends before the request, or while it is out.
LEMMA PublishDeniedStep ==
    ASSUME NodeInv, PublishDenied
    PROVE  NodeInv'
<1>0. /\ main.at = "publish" /\ main.answer = NoAnswer /\ Fault /\ GoIdle
      /\ version' = version /\ keeper' = keeper /\ host' = host /\ capsule' \subseteq capsule
  BY DEF PublishDenied, TryRevoke
<1>1. /\ entry.op.kind = "complete" /\ entry.known /\ ~Over(entry) /\ keeper = "off"
      /\ ~main.replay => relay.status # "acknowledged"
  BY <1>0, NodeFacts DEF ProcessFits, Completes, Ends, Quiet
<1>2. ProcessKept
  BY <1>0, <1>1, FaultOK, IdleOK DEF GoIdle
<1>3. CASE UNCHANGED <<relay, receipts, mission>> /\ Save(Retain(entry))
  BY <1>0, <1>1, <1>2, <1>3, RetainStep DEF External
<1>4. CASE UNCHANGED <<relay, receipts, mission>> /\ Save(MarkLeaseLost(entry)) /\ ~main.replay
  <2>1. Free(entry)
    BY <1>1, <1>4, NodeFacts, Droppable
  <2> QED
    BY <1>0, <1>1, <1>2, <1>4, <2>1, LostStep DEF External
<1>5. CASE Commit(entry.op) /\ Save(Retain(entry))
  <2>1. Retain(entry) = entry
    BY <1>1, NodeFacts, RetainOK
  <2>2. entry' = entry
    BY <1>5, <2>1 DEF Save
  <2>3. Acceptable(entry) /\ refused \in BOOLEAN
    BY NodeFacts DEF SavesSound, NodeShape, JournalShape
  <2>4. refused' = refused
    BY <1>5, <2>1, <2>3 DEF Save
  <2> QED
    BY <1>0, <1>1, <1>2, <1>5, <2>2, <2>4, RequestStep
<1> QED
  BY <1>3, <1>4, <1>5 DEF PublishDenied, Denied

\* The Relay's acknowledgement is journaled.
LEMMA SaveCompletionStep ==
    ASSUME NodeInv, SaveCompletion
    PROVE  NodeInv'
<1> DEFINE e == [Answered(entry, main.answer) EXCEPT !.phase = "acknowledged"]
<1>0. /\ main.at = "publish" /\ Accepted /\ Save(e) /\ main' = At("retire")
      /\ UNCHANGED External /\ keeper' = keeper /\ capsule' = capsule /\ host' = host
      /\ UNCHANGED faults
  BY DEF SaveCompletion
<1>1. /\ entry.known /\ entry.op.kind = "complete" /\ entry.predecessor = 0 /\ keeper = "off"
      /\ Receipt(entry.op, main.answer) \in receipts /\ main.answer \in AnswerRow
  BY <1>0, NodeFacts, AcceptedOK DEF ProcessFits, Completes, Ends, Quiet
<1>2. main.answer.status = "acknowledged" /\ main.answer.status \in Closed
  <2>1. PICK r \in receipts : r.kind = "complete" /\ r.status = main.answer.status
    BY <1>1 DEF Receipt
  <2>2. r.status = "acknowledged"
    BY <2>1, NodeFacts DEF RelaySound, ReceiptsSound
  <2> QED
    BY <2>1, <2>2 DEF Closed
<1>3. Fit(e)
  BY <1>1, <1>2, NodeFacts, ClosedOK
<1>4. e.phase = "acknowledged" /\ e.known
  BY <1>1, NodeFacts DEF Answered, EntryRow
<1> HIDE DEF e
<1>5. PICK f \in EntryRow : f = e
  BY <1>3 DEF Fit
<1>6. Save(f) /\ Fit(f) /\ f.phase = "acknowledged" /\ f.known
  BY <1>0, <1>3, <1>4, <1>5
<1>7. entry' = f
  BY <1>6, NodeFacts, Saved DEF Fit, SavesSound
<1>8. main' \in MainRow /\ main'.at = "retire" /\ main'.answer = NoAnswer
  BY <1>0, Fields DEF Labels
<1>9. KeeperSound' /\ Leases' /\ Installs' /\ Runs' /\ Completes' /\ AnswersSound'
  BY <1>0, <1>1, <1>8 DEF KeeperSound, Leases, Installs, Runs, Completes, AnswersSound
<1>10. Releases' /\ Ends'
  BY <1>6, <1>7, <1>8 DEF Releases, Ends, Over, TerminalPhases
<1>11. ProcessKept
  BY <1>0, <1>8, <1>9, <1>10, NodeFacts, FaultOK DEF ProcessKept, ProcessFits
<1> QED
  BY <1>0, <1>6, <1>11, SaveStep

\* The completion is rejected.
LEMMA CompletionRejectedStep ==
    ASSUME NodeInv, CompletionRejected
    PROVE  NodeInv'
<1>0. /\ main.at = "publish" /\ main.answer = Refusal /\ Save(MarkLeaseLost(entry))
      /\ capsule' \subseteq capsule /\ main' \in {At("dispatch"), At("idle")}
      /\ UNCHANGED External /\ keeper' = keeper /\ host' = host /\ UNCHANGED faults
  BY DEF CompletionRejected, TryRevoke, GoIdle
<1>1. /\ entry.known /\ entry.op.kind = "complete" /\ ~Over(entry) /\ keeper = "off"
      /\ main.answer # NoAnswer /\ ~Accepted
  BY <1>0, NodeFacts, Fields DEF ProcessFits, Completes, Ends, Quiet, Accepted
<1>2. Free(entry)
  BY <1>0, <1>1, RefusedOK
<1>3. entry'.known => ProcessKept
  <2>1. /\ main' \in MainRow /\ main'.at \in {"idle", "dispatch"} /\ main'.answer = NoAnswer
    BY <1>0, Fields DEF Labels
  <2> QED
    BY <1>0, <1>1, <2>1, NodeFacts, FaultOK, RestOK
<1> QED
  BY <1>0, <1>1, <1>2, <1>3, LostStep

\* release().
LEMMA ReleaseStep ==
    ASSUME NodeInv, Release
    PROVE  NodeInv'
<1>0. /\ main.at \in {"release_denied", "release_transient"} /\ UNCHANGED External
      /\ keeper' = keeper /\ capsule' = capsule /\ host' = host /\ UNCHANGED faults
  BY DEF Release
<1>1. /\ entry.known /\ entry.op.kind \in Leasing /\ HasLease(entry) /\ keeper = "off"
      /\ main.at = "release_transient" => entry.events \in {"transient", "cancelled"}
  BY <1>0, NodeFacts DEF ProcessFits, Releases, Ends, Quiet
<1>2. Leased(entry)
  BY <1>1, NodeFacts DEF Leased, HasLease, JournalFits, Fenced, LeaseOf
<1>3. PICK c \in {"denied", "transient"} :
            /\ c = IF main.at = "release_denied" THEN "denied" ELSE "transient"
            /\ c = "transient" => entry.events \in {"transient", "cancelled"}
  BY <1>0, <1>1
<1>4. Save(ReleaseEntry(entry, c)) /\ main' = At("retire")
  BY <1>2, <1>3 DEF Release, ReleaseEntry
<1> DEFINE e == ReleaseEntry(entry, c)
<1>5. Fit(e) /\ e.op.kind = "release" /\ e.phase = "release_intent" /\ e.known
  BY <1>1, <1>3, NodeFacts, ReleaseIntentOK
<1> HIDE DEF e
<1>6. PICK f \in EntryRow : f = e
  BY <1>5 DEF Fit
<1>7. Save(f) /\ Fit(f) /\ f.op.kind = "release" /\ f.known
  BY <1>4, <1>5, <1>6 DEF e
<1>8. entry' = f
  BY <1>7, NodeFacts, Saved DEF Fit, SavesSound
<1>9. main' \in MainRow /\ main'.at = "retire" /\ main'.answer = NoAnswer
  BY <1>4, Fields DEF Labels
<1>10. KeeperSound' /\ Leases' /\ Installs' /\ Runs' /\ Completes' /\ AnswersSound'
  BY <1>0, <1>1, <1>9 DEF KeeperSound, Leases, Installs, Runs, Completes, AnswersSound
<1>11. Releases' /\ Ends'
  BY <1>7, <1>8, <1>9 DEF Releases, Ends
<1>12. ProcessKept
  BY <1>0, <1>9, <1>10, <1>11, NodeFacts, FaultOK DEF ProcessKept, ProcessFits
<1> QED
  BY <1>0, <1>7, <1>12, SaveStep

\* publishRelease.
LEMMA PublishReleaseStep ==
    ASSUME NodeInv, PublishRelease
    PROVE  NodeInv'
<1>1. entry.op.kind = "release" /\ entry.known
  BY NodeFacts DEF PublishRelease, ProcessFits, Releases, Ends, Quiet
<1> QED
  BY <1>1, SendStep DEF PublishRelease

\* The release's answer is journaled.
LEMMA SaveReleaseStep ==
    ASSUME NodeInv, SaveRelease
    PROVE  NodeInv'
<1>0. /\ main.at = "publish_release" /\ main.answer # NoAnswer /\ main' = At("idle")
      /\ UNCHANGED External /\ keeper' = keeper /\ capsule' = capsule /\ host' = host
      /\ UNCHANGED faults
  BY DEF SaveRelease, GoIdle
<1>1. /\ entry.known /\ entry.op.kind = "release" /\ entry.grant = 0 /\ entry.predecessor = 0
      /\ keeper = "off" /\ ~Over(entry)
  BY <1>0, NodeFacts DEF ProcessFits, Releases, Ends, Quiet
<1>2. ProcessKept
  BY <1>0, <1>1, NodeFacts, FaultOK, IdleOK
<1>3. CASE main.answer = Refusal
  <2>0. main.answer.status # "stored"
    BY <1>3 DEF Refusal, Answer
  <2>1. Save(MarkLeaseLost(entry))
    BY <1>3, <2>0 DEF SaveRelease
  <2>2. ~Accepted
    BY <1>3, Fields DEF Accepted
  <2>3. Free(entry)
    BY <1>0, <1>1, <2>2, RefusedOK
  <2> QED
    BY <1>0, <1>1, <1>2, <2>1, <2>3, LostStep
<1>4. CASE main.answer # Refusal
  <2>1. Accepted
    BY <1>0, <1>1, <1>4, RefusedOK
  <2>2. Receipt(entry.op, main.answer) \in receipts /\ main.answer \in AnswerRow
    BY <1>0, <2>1, AcceptedOK
  <2>3. main.answer.status \in {"stored", "dead_lettered"}
    <3>1. PICK r \in receipts : r.kind = "release" /\ r.status = main.answer.status
      BY <1>1, <2>2 DEF Receipt
    <3> QED
      BY <3>1, NodeFacts DEF RelaySound, ReceiptsSound
  <2> DEFINE next == [Answered(Archive(entry), main.answer) EXCEPT !.phase = "ingested"]
             dead == [Answered(entry, main.answer) EXCEPT !.phase = "dead_lettered"]
  <2>4. CASE main.answer.status = "stored"
    <3>1. Save(next)
      BY <1>4, <2>4 DEF SaveRelease
    <3>2. Fit(next)
      BY <1>1, <2>2, <2>4, NodeFacts, NextAttemptOK
    <3> HIDE DEF next
    <3>3. PICK f \in EntryRow : f = next
      BY <3>2 DEF Fit
    <3> QED
      BY <1>0, <1>2, <3>1, <3>2, <3>3, SaveStep
  <2>5. CASE main.answer.status # "stored"
    <3>1. Save(dead)
      BY <1>4, <2>5 DEF SaveRelease
    <3>2. relay.status # "acknowledged"
      BY <1>1, NodeFacts DEF JournalFits, CompletionOf, Over, TerminalPhases
    <3>3. Fit(dead)
      BY <1>1, <2>2, <2>3, <2>5, <3>2, NodeFacts, ClosedOK DEF Closed
    <3> HIDE DEF dead
    <3>4. PICK f \in EntryRow : f = dead
      BY <3>3 DEF Fit
    <3> QED
      BY <1>0, <1>2, <3>1, <3>3, <3>4, SaveStep
  <2> QED
    BY <2>4, <2>5
<1> QED
  BY <1>3, <1>4

-----------------------------------------------------------------------------
(* The surroundings *)

\* What happens at the Relay without a request: a lapse, the end of a backoff,
\* the end of the Mission.
LEMMA RowStep ==
    ASSUME NodeInv, relay' \in RelayRow, relay'.token = relay.token, relay'.result = relay.result,
           \/ relay'.status = relay.status
           \/ relay.status \notin Closed /\ relay'.status = "cancelled",
           mission' \in BOOLEAN,
           UNCHANGED <<receipts, version, entry, main, keeper, capsule, host, faults, refused>>
    PROVE  NodeInv'
<1>0. /\ receipts' = receipts /\ version' = version /\ entry' = entry /\ main' = main /\ keeper' = keeper
      /\ capsule' = capsule /\ host' = host /\ faults' = faults /\ refused' = refused
      /\ \A s \in Held : relay'.status = s => relay.status = s
      /\ \A s \in {"stored", "acknowledged"} : relay'.status = s => relay.status = s
      /\ relay.status = "acknowledged" => relay'.status = "acknowledged"
      /\ relay.status = "cancelled" => relay'.status = "cancelled"
  BY DEF Held, Closed
<1>1. NodeShape'
  BY <1>0, NodeFacts DEF NodeShape, JournalShape, RelayShape, ProcessShape
<1>2. RelaySound'
  <2>1. ReceiptsSound'
    BY <1>0, NodeFacts DEF RelaySound, ReceiptsSound, Kept, Held
  <2>2. RowSound'
    BY <1>0, NodeFacts DEF RelaySound, RowSound, Kept, Held
  <2> QED
    BY <2>1, <2>2 DEF RelaySound
<1>3. SavesSound'
  BY <1>0, NodeFacts DEF SavesSound, Acceptable, PredecessorValid
<1>4. Pending(entry)'
  BY <1>0, NodeFacts
  DEF JournalFits, Pending, ClaimPends, StartPends, RenewPends, CompletePends, ReleasePends, Kept,
      HasLease, Lost, Over, Held, Closed
<1>5. Fenced(entry)'
  <2>1. KeysOf(entry)' /\ LeaseOf(entry)'
    BY <1>0, NodeFacts DEF JournalFits, Fenced, KeysOf, LeaseOf, Kept, Over, Held
  <2>2. SameLease(entry)' /\ GivenBack(entry)' /\ NotReleased(entry)'
    BY <1>0, NodeFacts
    DEF JournalFits, Fenced, SameLease, Granting, GivenBack, NotReleased, Kept, HasLease, Lost, Over,
        Held
  <2> QED
    BY <2>1, <2>2 DEF Fenced
<1>6. TurnsOf(entry)' /\ GrantsOf(entry)' /\ CompletionOf(entry)' /\ UnseenOf(entry)'
  BY <1>0, NodeFacts DEF JournalFits, TurnsOf, GrantsOf, CompletionOf, UnseenOf, Kept, Closed
<1>7. ProcessFits'
  <2>1. KeeperSound' /\ Leases' /\ Installs' /\ Runs'
    BY <1>0, NodeFacts
    DEF ProcessFits, KeeperSound, Leases, Installs, Runs, Replays, Executes, HasLease, Lost, Over
  <2>2. Completes' /\ Releases' /\ Ends'
    BY <1>0, NodeFacts
    DEF ProcessFits, Completes, Releases, Ends, Executes, HasLease, Lost, Over, Accepted
  <2>3. AnswersSound'
    BY <1>0, NodeFacts DEF ProcessFits, AnswersSound, Accepted, Receipt, Stored
  <2> QED
    BY <2>1, <2>2, <2>3 DEF ProcessFits
<1> QED
  BY <1>1, <1>2, <1>3, <1>4, <1>5, <1>6, <1>7 DEF NodeInv, JournalFits

\* Lapse, BackoffEnds and MissionEnds.
LEMMA RowSteps ==
    ASSUME NodeInv, Lapse \/ BackoffEnds \/ MissionEnds
    PROVE  NodeInv'
<1>0. relay \in RelayRow /\ mission \in BOOLEAN /\ "cancelled" \in Statuses
  BY NodeFacts DEF RelayShape, Statuses, Closed
<1>1. UNCHANGED <<receipts, version, entry, main, keeper, capsule, host, faults, refused>>
  BY DEF Lapse, BackoffEnds, MissionEnds
<1>2. CASE Lapse \/ BackoffEnds
  <2>1. /\ relay' \in RelayRow /\ relay'.token = relay.token /\ relay'.result = relay.result
        /\ relay'.status = relay.status /\ mission' \in BOOLEAN
    BY <1>0, <1>2 DEF Lapse, BackoffEnds, RelayRow
  <2> QED
    BY <1>1, <2>1, RowStep
<1>3. CASE MissionEnds
  <2>1. /\ relay' = IF relay.status \in Closed THEN relay ELSE Row("cancelled")
        /\ mission' \in BOOLEAN
    BY <1>3 DEF MissionEnds
  <2>2. /\ Row("cancelled") \in RelayRow /\ Row("cancelled").status = "cancelled"
        /\ Row("cancelled").token = relay.token /\ Row("cancelled").result = relay.result
    BY <1>0 DEF Row, RelayRow
  <2>3. /\ relay' \in RelayRow /\ relay'.token = relay.token /\ relay'.result = relay.result
        /\ \/ relay'.status = relay.status
           \/ relay.status \notin Closed /\ relay'.status = "cancelled"
    BY <1>0, <2>1, <2>2
  <2> QED
    BY <1>1, <2>1, <2>3, RowStep
<1> QED
  BY <1>2, <1>3

\* A step that only the host and the Mission take.
LEMMA HostStep ==
    ASSUME NodeInv, UNCHANGED <<relay, receipts, mission, entry, main, keeper, capsule, faults, refused>>,
           version' \in 1..MaxInputs, host' \in [Attempts -> TurnRow], TurnsOf(entry)',
           \A a \in Attempts : /\ host'[a].state = "none" <=> host[a].state = "none"
                               /\ host[a].state = "completed" => host'[a].state = "completed"
    PROVE  NodeInv'
<1>0. /\ receipts' = receipts /\ relay' = relay /\ entry' = entry /\ main' = main /\ keeper' = keeper
      /\ capsule' = capsule /\ mission' = mission /\ faults' = faults /\ refused' = refused
      /\ UNCHANGED <<relay, receipts>>
  OBVIOUS
<1>1. NodeShape'
  BY <1>0, NodeFacts DEF NodeShape, JournalShape, RelayShape, ProcessShape
<1>2. RelaySound' /\ SavesSound'
  BY <1>0, NodeFacts
  DEF RelaySound, ReceiptsSound, RowSound, Kept, SavesSound, Acceptable, PredecessorValid
<1>3. PICK f \in EntryRow : f = entry
  BY NodeFacts
<1>4. Pending(entry)' /\ Fenced(entry)'
  BY <1>0, <1>3, NodeFacts, FencedAfter DEF JournalFits
<1>5. GrantsOf(entry)' /\ CompletionOf(entry)' /\ UnseenOf(entry)'
  <2>1. entry.attempt \in Attempts
    BY NodeFacts DEF EntryRow
  <2> QED
    BY <1>0, <2>1, NodeFacts DEF JournalFits, GrantsOf, CompletionOf, UnseenOf, Kept
<1>6. ProcessFits'
  <2>0. entry.attempt \in Attempts
    BY NodeFacts DEF EntryRow
  <2>1. KeeperSound' /\ Leases' /\ Installs'
    BY <1>0, NodeFacts
    DEF ProcessFits, KeeperSound, Leases, Installs, Replays, Executes, HasLease, Lost, Over
  <2>2. Runs'
    BY <1>0, <2>0, NodeFacts DEF ProcessFits, Runs, Executes, HasLease, Lost, Over
  <2>3. Completes' /\ Releases' /\ Ends'
    BY <1>0, NodeFacts
    DEF ProcessFits, Completes, Releases, Ends, Executes, HasLease, Lost, Over, Accepted
  <2>4. AnswersSound'
    BY <1>0, NodeFacts DEF ProcessFits, AnswersSound, Accepted, Receipt, Stored
  <2> QED
    BY <2>1, <2>2, <2>3, <2>4 DEF ProcessFits
<1> QED
  BY <1>1, <1>2, <1>4, <1>5, <1>6 DEF NodeInv, JournalFits

\* MissionMoves and HostFinishes.
LEMMA HostSteps ==
    ASSUME NodeInv, MissionMoves \/ HostFinishes
    PROVE  NodeInv'
<1>0. /\ TurnsOf(entry) /\ host \in [Attempts -> TurnRow] /\ version \in 1..MaxInputs
      /\ entry.attempt \in Attempts
  BY NodeFacts DEF JournalFits, NodeShape, ProcessShape, EntryRow
<1>1. CASE MissionMoves
  <2>1. /\ UNCHANGED <<relay, receipts, mission, entry, main, keeper, capsule, faults, refused>>
        /\ version' \in 1..MaxInputs /\ host' = host /\ entry' = entry
    BY <1>0, <1>1, NodeBounds DEF MissionMoves
  <2>2. TurnsOf(entry)'
    BY <1>0, <2>1 DEF TurnsOf
  <2> QED
    BY <1>0, <2>1, <2>2, HostStep
<1>2. CASE HostFinishes
  <2>1. /\ UNCHANGED <<relay, receipts, mission, entry, main, keeper, capsule, faults, refused>>
        /\ version' = version /\ entry' = entry
    BY <1>2 DEF HostFinishes, External
  <2>2. PICK b \in Attempts, outcome \in Outcomes \ {"cancelled"} :
              host[b].state = "running" /\ host' = [host EXCEPT ![b].state = outcome]
    BY <1>2 DEF HostFinishes
  <2>3. [host[b] EXCEPT !.state = outcome] \in TurnRow
    BY <1>0, <2>2 DEF TurnRow
  <2>4. /\ host' \in [Attempts -> TurnRow]
        /\ \A a \in Attempts : a # b => host'[a] = host[a]
        /\ host'[b].state = outcome /\ host'[b].starts = host[b].starts
        /\ host'[b].input = host[b].input
    BY <1>0, <2>2, <2>3 DEF TurnRow
  <2>5. outcome \notin {"none", "running"} /\ outcome \in Outcomes
    BY <2>2 DEF Outcomes
  <2>6. b = entry.attempt /\ entry.events \notin Outcomes /\ entry.result = 0
    BY <1>0, <2>2 DEF TurnsOf, Outcomes
  <2>7. TurnsOf(entry)'
    <3>1. ASSUME NEW a \in Attempts
          PROVE  /\ host'[a].state = "none" <=> host'[a].starts = 0
                 /\ host'[a].starts <= 1
                 /\ host'[a].starts = 1 => host'[a].input # 0
                 /\ a > entry.attempt => host'[a].state = "none"
                 /\ host'[a].state = "running" => a = entry.attempt
      <4>1. CASE a = b
        BY <1>0, <2>2, <2>4, <2>5, <2>6, <4>1 DEF TurnsOf, Attempts
      <4>2. CASE a # b
        BY <1>0, <2>4, <4>2 DEF TurnsOf
      <4> QED
        BY <4>1, <4>2
    <3>2. host'[entry.attempt].starts = 1 => host'[entry.attempt].input = entry.input
      BY <1>0, <2>4, <2>6 DEF TurnsOf
    <3> QED
      BY <2>1, <2>6, <3>1, <3>2 DEF TurnsOf
  <2>8. \A a \in Attempts : /\ host'[a].state = "none" <=> host[a].state = "none"
                            /\ host[a].state = "completed" => host'[a].state = "completed"
    BY <2>2, <2>4, <2>5
  <2> QED
    BY <1>0, <2>1, <2>4, <2>7, <2>8, HostStep
<1> QED
  BY <1>1, <1>2

-----------------------------------------------------------------------------
(* The theorems *)

\* At the start the delivery is stored at the Relay and the Node has not seen it.
LEMMA NodeInit == Init => NodeInv
<1> SUFFICES ASSUME Init PROVE NodeInv
  OBVIOUS
<1>1. /\ entry = NewEntry /\ entry \in EntryRow /\ ~entry.known /\ entry.status = "stored"
      /\ entry.token = 0 /\ entry.phase = "ingested" /\ entry.op = NoIntent /\ entry.attempt = 1
      /\ entry.events = "none" /\ entry.result = 0 /\ entry.grant = 0 /\ entry.predecessor = 0
      /\ entry.history = {} /\ entry.op.kind = "none" /\ entry.claims = 0 /\ entry.renews = 0
      /\ entry.input = 0
  <2>1. entry = NewEntry
    BY DEF Init
  <2>2. 1 \in Attempts /\ 0 \in Tokens /\ 0 \in 0..MaxInputs
    BY NodeBounds DEF Attempts
  <2> QED
    BY <2>1, <2>2, Fields DEF NewEntry, EntryRow, Statuses, Phases
<1>2. /\ relay \in RelayRow /\ relay.status = "stored" /\ relay.token = 0 /\ receipts = {}
      /\ mission = TRUE
  BY NodeBounds DEF Init, RelayRow, Statuses
<1>3. /\ main = At("idle") /\ keeper = "off" /\ capsule = {} /\ refused = FALSE
      /\ main \in MainRow /\ main.at = "idle" /\ main.answer = NoAnswer
  BY Fields DEF Init, Labels
<1>4. /\ host \in [Attempts -> TurnRow]
      /\ \A a \in Attempts : host[a].state = "none" /\ host[a].starts = 0
  BY NodeBounds DEF Init, TurnRow
<1>5. version \in 1..MaxInputs /\ faults \in 0..MaxFaults
  BY NodeBounds DEF Init
<1>6. NodeShape
  BY <1>1, <1>2, <1>3, <1>4, <1>5 DEF NodeShape, JournalShape, RelayShape, ProcessShape, KeeperSteps
<1>7. RelaySound
  BY <1>2 DEF RelaySound, ReceiptsSound, RowSound, Held
<1>8. SavesSound
  BY <1>1, <1>3 DEF SavesSound, Acceptable, PredecessorValid
<1>9. Pending(entry) /\ Fenced(entry)
  BY <1>1, <1>2
  DEF Pending, ClaimPends, StartPends, RenewPends, CompletePends, ReleasePends, Over, TerminalPhases,
      Fenced, KeysOf, LeaseOf, SameLease, GivenBack, NotReleased, HasLease, Held, Closed
<1>10. TurnsOf(entry) /\ GrantsOf(entry)
  BY <1>1, <1>3, <1>4, NodeBounds DEF TurnsOf, GrantsOf, Attempts, Outcomes
<1>11. CompletionOf(entry) /\ UnseenOf(entry)
  BY <1>1, <1>2, <1>4 DEF CompletionOf, UnseenOf
<1>12. ProcessFits
  <2>1. KeeperSound /\ Leases /\ Installs /\ Runs /\ Completes /\ Releases
    BY <1>3 DEF KeeperSound, Leases, Installs, Runs, Completes, Releases
  <2>2. Ends /\ AnswersSound
    BY <1>3 DEF Ends, AnswersSound, Quiet
  <2> QED
    BY <2>1, <2>2 DEF ProcessFits
<1> QED
  BY <1>6, <1>7, <1>8, <1>9, <1>10, <1>11, <1>12 DEF NodeInv, JournalFits

\* Every step keeps the invariant.
LEMMA NodeStep == NodeInv /\ [Next]_vars => NodeInv'
<1> SUFFICES ASSUME NodeInv, [Next]_vars PROVE NodeInv'
  OBVIOUS
<1>1. CASE UNCHANGED vars
  <2>1. UNCHANGED <<External, entry, refused>> /\ host' = host /\ capsule' = capsule
        /\ main' = main /\ keeper' = keeper /\ faults' = faults
        /\ relay' \in RelayRow /\ mission' \in BOOLEAN /\ relay' = relay
        /\ UNCHANGED <<receipts, version, entry, main, keeper, capsule, host, faults, refused>>
    BY <1>1, NodeFacts DEF vars, External, RelayShape
  <2> QED
    BY <2>1, RowStep
<1>2. CASE ProcessStep
  <2>1. Cycle \/ Dispatch \/ Intend \/ Ask \/ SaveClaim \/ ClaimRefused \/ SaveStart => NodeInv'
    BY CycleStep, DispatchStep, IntendStep, AskStep, SaveClaimStep, ClaimRefusedStep, SaveStartStep
  <2>2. SaveRenewal \/ LeaseRefused \/ AuthorizeEnded \/ Authorized \/ CompletionExpired \/ Confirm
          \/ Confirmed \/ Abandon => NodeInv'
    BY SaveRenewalStep, LeaseRefusedStep, AuthorizeEndedStep, AuthorizedStep, CompletionExpiredStep,
       ConfirmStep, ConfirmedStep, AbandonStep
  <2>3. RevokePredecessor \/ CheckpointGrant \/ Attach \/ Retire \/ ClearGrant => NodeInv'
    BY RevokePredecessorStep, CheckpointGrantStep, AttachStep, RetireStep, ClearGrantStep
  <2>4. CheckpointInput \/ StartTurn \/ HostEvent \/ Settle \/ TurnLosesAuthority \/ TurnFails
          => NodeInv'
    BY CheckpointInputStep, StartTurnStep, HostEventStep, SettleStep, TurnLosesAuthorityStep,
       TurnFailsStep
  <2>5. Complete \/ Publish \/ SaveCompletion \/ CompletionRejected \/ Release \/ PublishRelease
          \/ SaveRelease \/ Restart => NodeInv'
    BY CompleteStep, PublishStep, SaveCompletionStep, CompletionRejectedStep, ReleaseStep,
       PublishReleaseStep, SaveReleaseStep, RestartStep
  <2> QED
    BY <1>2, <2>1, <2>2, <2>3, <2>4, <2>5 DEF ProcessStep
<1>3. CASE KeeperStep \/ KeeperIntends
  BY <1>3, KeeperAsksStep, KeeperSavesStep, KeeperIntendsStep DEF KeeperStep
<1>4. CASE Faulty
  BY <1>4, AuthorizeDeniedStep, ShortWindowStep, InstallFailsStep, RetireFailsStep, PublishDeniedStep,
     CrashStep, ShutdownStep DEF Faulty
<1>5. CASE Environment
  BY <1>5, RowSteps, HostSteps DEF Environment
<1> QED
  BY <1>1, <1>2, <1>3, <1>4, <1>5 DEF Next

\* The invariant holds in every reachable state.
LEMMA NodeAlways == Spec => []NodeInv
<1> QED
  BY NodeInit, NodeStep, PTL DEF Spec

\* What the invariant says of the turns: each attempt is started once, with the
\* journaled input, and none runs beside another.
LEMMA TurnsFollow == NodeInv => TurnsExclusive
<1> SUFFICES ASSUME NodeInv PROVE TurnsExclusive
  OBVIOUS
<1>1. TurnsOf(entry)
  BY DEF NodeInv, JournalFits
<1>2. StartedOnce /\ NoOverlap
  BY <1>1 DEF TurnsOf, StartedOnce, NoOverlap
<1> QED
  BY <1>2 DEF TurnsExclusive

\* A set that holds nothing but one value has at most one element.
LEMMA AtMostOne ==
    ASSUME NEW S, NEW x, S \subseteq {x}
    PROVE  Cardinality(S) <= 1
<1>1. S = {} \/ S = {x}
  OBVIOUS
<1>2. Cardinality({}) = 0 /\ Cardinality({x}) = 1
  BY FS_EmptySet, FS_Singleton
<1> QED
  BY <1>1, <1>2

\* What it says of the journal's saves, fence and grants.
LEMMA JournalFollows == NodeInv => JournalSound
<1> SUFFICES ASSUME NodeInv PROVE JournalSound
  OBVIOUS
<1>1. SavesSound /\ Fenced(entry) /\ GrantsOf(entry)
  BY DEF NodeInv, JournalFits
<1>2. SavesAccepted
  BY <1>1 DEF SavesSound, SavesAccepted
<1>3. FenceTrue
  BY <1>1 DEF Fenced, LeaseOf, Kept, FenceTrue
<1>4. GrantsTracked
  <2>1. entry.grant = 0 \/ entry.predecessor = 0
    BY <1>1 DEF SavesSound, Acceptable, PredecessorValid
  <2>2. \E x : capsule \subseteq {x}
    BY <1>1, <2>1 DEF GrantsOf
  <2>3. Cardinality(capsule) <= 1
    BY <2>2, AtMostOne
  <2> QED
    BY <1>1, <2>3 DEF GrantsOf, GrantsTracked
<1> QED
  BY <1>2, <1>3, <1>4 DEF JournalSound

\* What it says of an acknowledged row.
LEMMA CompletionFollows == NodeInv => CompletionRemembered
<1> SUFFICES ASSUME NodeInv PROVE CompletionRemembered
  OBVIOUS
<1>1. CompletionOf(entry)
  BY DEF NodeInv, JournalFits
<1> QED
  BY <1>1 DEF CompletionOf, CompletionRemembered

\* TurnsExclusive: whatever crashes, lost answers and cancellations happen, the
\* host starts an attempt's turn at most once, with the input the journal holds,
\* and no two attempts run at once (delivery-processor.ts:404, :965).
THEOREM TurnsAreExclusive == Spec => []TurnsExclusive
<1> QED
  BY NodeAlways, TurnsFollow, PTL

\* JournalSound: no save is refused, the journaled lease is never ahead of the
\* Relay's and what it calls executing was started, and the Capsule holds at most
\* one grant, which is journaled (journal.ts:258).
THEOREM JournalIsSound == Spec => []JournalSound
<1> QED
  BY NodeAlways, JournalFollows, PTL

\* CompletionRemembered: an acknowledged row is remembered by its exact intent or
\* by its acknowledgement, with the result of the attempt the host completed
\* (delivery-processor.ts:897).
THEOREM CompletionsAreRemembered == Spec => []CompletionRemembered
<1> QED
  BY NodeAlways, CompletionFollows, PTL
-----------------------------------------------------------------------------
(* The rounds of prepareExecutableLease, and the types *)

LastLabels == {"start", "claim", "retire", "clear", "confirm", "abandon"}

\* The last round ends in one more start or reclaim, then the delivery is
\* abandoned: it confirms nothing any more.
RoundsEnd ==
    /\ main.round <= Rounds + 1
    /\ main.round > Rounds =>
          /\ main.at \in LastLabels
          /\ main.at \in {"claim", "retire", "clear"} => ~main.reclaim

\* A step that keeps the round, or leaves the loop, before the last round.
RoundKept == main'.round = 0 \/ (main'.round = main.round /\ main.at \notin LastLabels)

\* How the locals of a pass may change: Go and the end of a pass.
LEMMA Going ==
    ASSUME main \in MainRow
    PROVE  /\ \A l : /\ Go(l) => main'.round = main.round /\ main'.at = l /\ main'.reclaim = main.reclaim
                     /\ At(l).round = 0 /\ At(l).at = l
           /\ GoIdle => main'.round = 0
           /\ GiveUp => main'.round = 0
           /\ \A a : [main EXCEPT !.answer = a].round = main.round
           /\ \A l : [main EXCEPT !.at = l].round = main.round
<1>1. \A l : Go(l) => main'.round = main.round /\ main'.at = l /\ main'.reclaim = main.reclaim
  BY DEF Go, MainRow
<1>2. \A l : At(l).round = 0 /\ At(l).at = l
  BY DEF At
<1>3. GoIdle => main'.round = 0
  BY <1>2 DEF GoIdle
<1>4. GiveUp => main'.round = 0
  BY <1>3 DEF GiveUp
<1>5. /\ \A a : [main EXCEPT !.answer = a].round = main.round
      /\ \A l : [main EXCEPT !.at = l].round = main.round
  BY DEF MainRow
<1> QED
  BY <1>1, <1>2, <1>3, <1>4, <1>5

\* The steps of a pass before its last round, and the ends of a pass.
LEMMA KeptSteps ==
    ASSUME main \in MainRow
    PROVE  /\ Cycle \/ Dispatch \/ AuthorizeEnded \/ CompletionExpired \/ Abandon => RoundKept
           /\ RevokePredecessor \/ CheckpointGrant \/ CheckpointInput \/ StartTurn \/ HostEvent => RoundKept
           /\ Settle \/ Complete \/ Publish \/ PublishRelease => RoundKept
           /\ Attach \/ InstallFails \/ RetireFails \/ PublishDenied => RoundKept
           /\ TurnLosesAuthority \/ TurnFails \/ SaveRelease \/ Restart => RoundKept
           /\ AuthorizeDenied \/ SaveCompletion \/ CompletionRejected \/ Release => RoundKept
           /\ Crash \/ Shutdown \/ SaveRenewal => RoundKept
<1>1. Cycle \/ AuthorizeEnded \/ CompletionExpired \/ Abandon => RoundKept
  BY Going DEF Cycle, AuthorizeEnded, CompletionExpired, Abandon, RoundKept, LastLabels
<1>2. Dispatch => RoundKept
  BY DEF Dispatch, At, RoundKept
<1>3. RevokePredecessor \/ CheckpointGrant \/ CheckpointInput \/ StartTurn => RoundKept
  BY Going DEF RevokePredecessor, CheckpointGrant, CheckpointInput, StartTurn, RoundKept, LastLabels
<1>4. HostEvent => RoundKept
  BY Going DEF HostEvent, RoundKept, LastLabels
<1>5. Settle \/ Complete \/ Publish \/ PublishRelease => RoundKept
  BY Going DEF Settle, Complete, Publish, PublishRelease, RoundKept, LastLabels
<1>6. Attach => RoundKept
  BY DEF Attach, MainRow, RoundKept, LastLabels
<1>7. InstallFails \/ RetireFails \/ PublishDenied => RoundKept
  BY Going DEF InstallFails, RetireFails, PublishDenied, RoundKept
<1>8. TurnLosesAuthority \/ SaveRelease \/ Restart => RoundKept
  BY Going DEF TurnLosesAuthority, SaveRelease, Restart, RoundKept
<1>9. TurnFails => RoundKept
  BY DEF TurnFails, At, RoundKept
<1>10. AuthorizeDenied \/ SaveCompletion \/ CompletionRejected \/ Release => RoundKept
  BY Going DEF AuthorizeDenied, SaveCompletion, CompletionRejected, Release, RoundKept
<1>11. Crash \/ Shutdown \/ SaveRenewal => RoundKept
  BY Going DEF Crash, Shutdown, SaveRenewal, RoundKept, LastLabels
<1> QED
  BY <1>1, <1>2, <1>3, <1>4, <1>5, <1>6, <1>7, <1>8, <1>9, <1>10, <1>11

\* The steps of prepareExecutableLease.
LEMMA LoopSteps ==
    ASSUME main \in MainRow, main' \in MainRow, RoundsEnd
    PROVE  /\ Intend \/ Ask \/ SaveClaim \/ ClaimRefused \/ SaveStart \/ LeaseRefused => RoundsEnd'
           /\ Authorized \/ Confirm \/ Confirmed \/ ShortWindow => RoundsEnd'
           /\ Retire \/ ClearGrant => RoundsEnd'
<1> USE NodeBounds
<1>1. Intend => RoundsEnd'
  BY DEF Intend, RoundsEnd
<1>2. Ask => RoundsEnd'
  BY DEF Ask, GoIdle, At, RoundsEnd, MainRow
<1>3. SaveClaim => RoundsEnd'
  <2> SUFFICES ASSUME SaveClaim PROVE RoundsEnd'
    OBVIOUS
  <2>1. /\ main.at = "claim"
        /\ Go(ClaimDone) \/ main' = [main EXCEPT !.at = "retire"] \/ GoIdle \/ Go("abandon")
    BY DEF SaveClaim
  <2>2. CASE Go(ClaimDone)
    BY <2>1, <2>2, Going DEF ClaimDone, RoundsEnd, MainRow, LastLabels
  <2>3. CASE main' = [main EXCEPT !.at = "retire"]
    BY <2>1, <2>3 DEF RoundsEnd, MainRow, LastLabels
  <2>4. CASE GoIdle \/ Go("abandon")
    BY <2>1, <2>4, Going DEF RoundsEnd, MainRow, LastLabels
  <2> QED
    BY <2>1, <2>2, <2>3, <2>4
<1>4. ClaimRefused => RoundsEnd'
  BY DEF ClaimRefused, GiveUp, GoIdle, At, RoundsEnd, MainRow
<1>5. SaveStart => RoundsEnd'
  BY DEF SaveStart, Go, StartDone, RoundsEnd, MainRow, LastLabels
<1>6. LeaseRefused => RoundsEnd'
  <2> SUFFICES ASSUME LeaseRefused PROVE RoundsEnd'
    OBVIOUS
  <2>1. /\ main.at \in {"start", "renew"}
        /\ \/ GiveUp \/ GoIdle
           \/ main' = [main EXCEPT !.at = "claim", !.answer = NoAnswer, !.reclaim = (main.at = "renew")]
    BY DEF LeaseRefused
  <2>2. CASE GiveUp \/ GoIdle
    BY <2>2, Going DEF RoundsEnd
  <2>3. CASE main' = [main EXCEPT !.at = "claim", !.answer = NoAnswer, !.reclaim = (main.at = "renew")]
    <3>1. main'.at = "claim" /\ main'.round = main.round /\ main'.reclaim = (main.at = "renew")
      BY <2>3 DEF MainRow
    <3> QED
      BY <2>1, <3>1 DEF RoundsEnd, LastLabels
  <2> QED
    BY <2>1, <2>2, <2>3
<1>7. Authorized => RoundsEnd'
  <2>1. [At("confirm") EXCEPT !.round = 1].at = "confirm" /\ [At("confirm") EXCEPT !.round = 1].round = 1
    BY DEF At
  <2>2. main.at = "authorize" /\ Go("install") => RoundsEnd'
    BY Going DEF RoundsEnd, LastLabels
  <2>3. main' = [At("confirm") EXCEPT !.round = 1] => RoundsEnd'
    BY <2>1 DEF RoundsEnd, LastLabels
  <2> QED
    BY <2>2, <2>3 DEF Authorized
<1>8. Confirm => RoundsEnd'
  BY DEF Confirm, RoundsEnd, MainRow
<1>9. Confirmed => RoundsEnd'
  <2> SUFFICES ASSUME Confirmed PROVE RoundsEnd'
    OBVIOUS
  <2>1. /\ main.at = "confirmed"
        /\ (\E l : main' = At(l)) \/ main' = [main EXCEPT !.at = "start", !.round = @ + 1]
    BY DEF Confirmed
  <2>2. CASE \E l : main' = At(l)
    BY <2>2, Going DEF RoundsEnd
  <2>3. CASE main' = [main EXCEPT !.at = "start", !.round = @ + 1]
    BY <2>1, <2>3 DEF RoundsEnd, MainRow, LastLabels
  <2> QED
    BY <2>1, <2>2, <2>3
<1>10. ShortWindow => RoundsEnd'
  BY DEF ShortWindow, RoundsEnd, MainRow, LastLabels
<1>11. Retire => RoundsEnd'
  BY DEF Retire, RoundsEnd, MainRow, LastLabels
<1>12. ClearGrant => RoundsEnd'
  BY DEF ClearGrant, At, RoundsEnd, MainRow, LastLabels
<1> QED
  BY <1>1, <1>2, <1>3, <1>4, <1>5, <1>6, <1>7, <1>8, <1>9, <1>10, <1>11, <1>12

\* No step exceeds the rounds.
LEMMA RoundsStep == NodeInv /\ NodeInv' /\ RoundsEnd /\ [Next]_vars => RoundsEnd'
<1> SUFFICES ASSUME NodeInv, NodeInv', RoundsEnd, [Next]_vars PROVE RoundsEnd'
  OBVIOUS
<1>0. main \in MainRow /\ main' \in MainRow
  BY DEF NodeInv, NodeShape, ProcessShape
<1>1. CASE RoundKept
  BY <1>0, <1>1, NodeBounds DEF RoundKept, RoundsEnd, MainRow
<1>2. CASE UNCHANGED main
  BY <1>2 DEF RoundsEnd
<1>3. CASE ProcessStep
  BY <1>0, <1>1, <1>3, KeptSteps, LoopSteps DEF ProcessStep
<1>4. CASE KeeperStep \/ KeeperIntends
  BY <1>2, <1>4 DEF KeeperStep, KeeperAsks, KeeperSaves, KeeperIntends
<1>5. CASE Faulty
  BY <1>0, <1>1, <1>5, KeptSteps, LoopSteps DEF Faulty
<1>6. CASE Environment
  BY <1>2, <1>6 DEF Environment, Lapse, BackoffEnds, MissionEnds, MissionMoves, HostFinishes
<1>7. CASE UNCHANGED vars
  BY <1>2, <1>7 DEF vars
<1> QED
  BY <1>3, <1>4, <1>5, <1>6, <1>7 DEF Next

\* TypeOK: the journal, the Relay's row and the locals of process() keep their
\* types, and prepareExecutableLease never confirms a lease more often than its
\* rounds allow (delivery-processor.ts:705).
THEOREM ProcessorTypes == Spec => []TypeOK
<1>1. Init => RoundsEnd
  BY NodeBounds DEF Init, At, RoundsEnd
<1>2. NodeInv /\ RoundsEnd => TypeOK
  <2> SUFFICES ASSUME NodeInv, RoundsEnd PROVE TypeOK
    OBVIOUS
  <2>1. NodeShape
    BY DEF NodeInv
  <2>2. /\ relay \in [status : {"stored"} \cup Held \cup Closed, token : Tokens,
                      lapsed : BOOLEAN, due : BOOLEAN, result : Tokens]
        /\ mission \in BOOLEAN /\ version \in 1..MaxInputs
    BY <2>1 DEF NodeShape, RelayShape, ProcessShape, RelayRow, Statuses
  <2>3. /\ entry.status \in {"stored"} \cup Held \cup Closed /\ entry.phase \in Phases
        /\ entry.op.kind \in Kinds /\ entry.attempt \in Attempts /\ entry.input \in 0..MaxInputs
        /\ entry.events \in {"none", "accepted"} \cup Outcomes /\ entry.history \subseteq Attempts
        /\ {entry.token, entry.grant, entry.predecessor} \subseteq Tokens
    BY <2>1 DEF NodeShape, JournalShape, EntryRow, OpRow, Statuses
  <2>4. main.at \in Labels /\ main.round \in 0..Rounds + 1 /\ main.authority \in Tokens
    BY <2>1, NodeBounds DEF NodeShape, ProcessShape, MainRow, RoundsEnd
  <2>5. /\ keeper \in {"off", "waiting", "intended", "renewed", "lost", "error"}
        /\ capsule \subseteq Tokens /\ faults \in 0..MaxFaults /\ refused \in BOOLEAN
        /\ host \in [Attempts -> [state : {"none", "running"} \cup Outcomes,
                                  input : 0..MaxInputs, starts : Nat]]
    BY <2>1 DEF NodeShape, ProcessShape, JournalShape, TurnRow, KeeperSteps
  <2> QED
    BY <2>2, <2>3, <2>4, <2>5 DEF TypeOK
<1> QED
  BY <1>1, <1>2, NodeAlways, RoundsStep, PTL DEF Spec
=============================================================================
