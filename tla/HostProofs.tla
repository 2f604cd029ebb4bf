------------------------------ MODULE HostProofs ------------------------------
(***************************************************************************)
(* What is proved about the side of the Node that runs a host: the         *)
(* provider's processes and the events of a turn.                          *)
(*                                                                         *)
(* ProviderTeardown.  The state file and the lock tell the truth about the *)
(* provider's process group, and a quiescent record is final, for any      *)
(* number of generations, deaths and reboots.  The three processes of one  *)
(* generation at most hold the lock (OneHolder), so the file has one       *)
(* writer group at a time; whoever is about to write it belongs to the     *)
(* generation on record (Writers); a provider needs the record and not the *)
(* lock, because it may outlive all holders; and a record of another boot  *)
(* is of processes that are gone.                                          *)
(*                                                                         *)
(* HostEventStream.  The Node's journal is faithful (JournalFaithful).     *)
(* The folds of the model are first shown to be what they are by name:     *)
(* FoldExists gives the one function a recursion over the subsets of a     *)
(* finite set defines, LastPosition the element the fold takes next, and   *)
(* ReplayAppend, TextAppend and BytesOf what follows for one event more.   *)
(* StreamInv then says what is on the wire: of one history the events from *)
(* where the Node has read to where the Capsule has published, each within *)
(* the grant at its place (Reads), whatever is journaled of the other; and *)
(* what the journal is: the start of one of the two histories, accepted by *)
(* the reducer event by event (Kept), within the grant.                    *)
(***************************************************************************)
EXTENDS ProviderTeardown, HostEventStream, FiniteSetTheorems, WellFoundedInduction, TLAPS

\* The processes of one generation share the lock.
OneHolder == \A g, h \in Gens : LockHeld(g) /\ LockHeld(h) => g = h

\* The order in which a generation's processes come: no reaper before its
\* supervisor, no record before the supervisor is armed, and a start that
\* was reported as unrecorded has left no process.
Started ==
    \A g \in Gens :
        /\ own[g] \in {"idle", "locked"} => sup[g] = "none"
        /\ sup[g] \in {"none", "spawned"} => reap[g] = "none"
        /\ sup[g] \in {"none", "spawned", "arming", "armed"} => ~Current(g)
        /\ allow[g] => sup[g] = "gone" /\ reap[g] = "dead"

\* An owner waits and releases over a dead group, and releases only when
\* the reaper has gone too.
Ended ==
    \A g \in Gens :
        /\ own[g] \in {"waiting", "released"} => ~GroupAlive(g)
        /\ own[g] = "released" => ~ReapUp(g)

Unfinished(g) == Current(g) /\ file.phase # "quiescent" /\ file.boot = boot

\* A generation with a process that may still write the file, or with a
\* provider, is the one on record, and its record is open and of this boot.
Writers ==
    \A g \in Gens :
        /\ prov[g] => Unfinished(g)
        /\ sup[g] \in {"begun", "probed", "provided", "marking"} => Unfinished(g)
        /\ hb[g] => SupUp(g) /\ Current(g)
        /\ reap[g] \in {"none", "spawned", "armed"} => rq[g] = "none"
        /\ rq[g] = "held" => ReapUp(g) /\ Current(g)
        /\ Current(g) /\ (SupUp(g) \/ ReapUp(g)) => Unfinished(g)

IInv == TypeOK /\ OneHolder /\ Started /\ Ended /\ Writers

LEMMA Constants == MaxGens \in Nat /\ MaxBoots \in Nat /\ MaxBoots >= 1 /\ MaxFaults \in Nat
BY TeardownAssumption

\* No process and no record at the start.
LEMMA InitIInv == Init => IInv
<1> SUFFICES ASSUME Init PROVE IInv
  OBVIOUS
<1>1. TypeOK
  BY Constants DEF Init, TypeOK, Gens, Phases
<1>2. OneHolder /\ Started /\ Ended /\ Writers
  BY DEF Init, OneHolder, Started, Ended, Writers, LockHeld, OwnerUp, SupUp, ReapUp,
         GroupAlive, Current, Gens
<1> QED BY <1>1, <1>2 DEF IInv

\* What the steps need of the types: the variables are functions on Gens and
\* the file is a record.
Shape ==
    /\ DOMAIN own = Gens /\ DOMAIN sup = Gens /\ DOMAIN prov = Gens /\ DOMAIN reap = Gens
    /\ DOMAIN allow = Gens /\ DOMAIN hb = Gens /\ DOMAIN rq = Gens
    /\ DOMAIN file = {"gen", "phase", "boot"}

LEMMA TypesShape == TypeOK => Shape
BY DEF TypeOK, Shape

-----------------------------------------------------------------------------
(* Types *)

LEMMA OwnerTypes ==
    ASSUME TypeOK, NEW g \in Gens, OwnerNext(g)
    PROVE  TypeOK'
<1> USE Constants DEF TypeOK, Gens, Phases
<1>1. CASE OpenGeneration(g) BY <1>1 DEF OpenGeneration
<1>2. CASE PrepareFails(g) BY <1>2 DEF PrepareFails
<1>3. CASE SpawnSupervisor(g) BY <1>3 DEF SpawnSupervisor
<1>4. CASE OwnerStops(g) BY <1>4 DEF OwnerStops
<1>5. CASE OwnerKills(g) BY <1>5 DEF OwnerKills
<1>6. CASE OwnerSeesAbsence(g) BY <1>6 DEF OwnerSeesAbsence
<1>7. CASE OwnerReleases(g) BY <1>7 DEF OwnerReleases
<1>8. CASE OwnerFailsClosed(g) BY <1>8 DEF OwnerFailsClosed
<1> QED BY <1>1, <1>2, <1>3, <1>4, <1>5, <1>6, <1>7, <1>8 DEF OwnerNext

LEMMA SupTypes ==
    ASSUME TypeOK, NEW g \in Gens, SupNext(g)
    PROVE  TypeOK'
<1> USE Constants DEF TypeOK, Gens, Phases
<1>1. CASE Initialize(g)
  <2>1. CASE Exit(g) /\ UNCHANGED <<own, prov, reap, allow, sig, rq, expired, file, boot, faults>>
    BY <2>1 DEF Exit
  <2>2. CASE sup' = [sup EXCEPT ![g] = "arming"] /\ reap' = [reap EXCEPT ![g] = "spawned"]
        /\ UNCHANGED <<own, prov, inbox, halt, allow, sig, hb, rq, expired, file, boot, faults>>
    BY <2>2
  <2> QED BY <1>1, <2>1, <2>2 DEF Initialize
<1>2. CASE ArmingFails(g)
  <2>1. OwnerConnected(g) \in BOOLEAN
    BY DEF OwnerConnected, OwnerUp
  <2> QED BY <1>2, <2>1 DEF ArmingFails, Exit
<1>3. CASE Armed(g) BY <1>3 DEF Armed
<1>4. CASE Reconcile(g) BY <1>4 DEF Reconcile, gvars
<1>5. CASE Begin(g) BY <1>5 DEF Begin
<1>6. CASE InitializeFails(g) BY <1>6 DEF InitializeFails, Latch
<1>7. CASE Probe(g) BY <1>7 DEF Probe
<1>8. CASE StartProvider(g) BY <1>8 DEF StartProvider
<1>9. CASE MarkRead(g) BY <1>9 DEF MarkRead
<1>10. CASE MarkWrite(g) BY <1>10 DEF MarkWrite
<1>11. CASE HeartbeatRead(g) BY <1>11 DEF HeartbeatRead
<1>12. CASE HeartbeatWrite(g) BY <1>12 DEF HeartbeatWrite
<1>13. CASE SupStops(g)
  <2>1. CASE Exit(g) /\ UNCHANGED <<own, prov, reap, allow, sig, rq, expired, file, boot, faults>>
    BY <2>1 DEF Exit
  <2>2. CASE halt' = [halt EXCEPT ![g] = TRUE]
        /\ UNCHANGED <<own, sup, prov, reap, inbox, allow, sig, hb, rq, expired, file, boot, faults>>
    BY <2>2
  <2> QED BY <1>13, <2>1, <2>2 DEF SupStops, Latch
<1>14. CASE SupExits(g) BY <1>14 DEF SupExits, Exit
<1> QED BY <1>1, <1>2, <1>3, <1>4, <1>5, <1>6, <1>7, <1>8, <1>9, <1>10, <1>11, <1>12, <1>13, <1>14 DEF SupNext

LEMMA ReaperTypes ==
    ASSUME TypeOK, NEW g \in Gens, ReaperNext(g)
    PROVE  TypeOK'
<1> USE Constants DEF TypeOK, Gens, Phases
<1>1. CASE ReaperArms(g) BY <1>1 DEF ReaperArms
<1>2. CASE Reap(g) BY <1>2 DEF Reap
<1>3. CASE RequestRead(g) BY <1>3 DEF RequestRead
<1>4. CASE RequestWrite(g) BY <1>4 DEF RequestWrite
<1>5. CASE ReapKills(g) BY <1>5 DEF ReapKills
<1>6. CASE Finalize(g)
  <2>1. file' = [file EXCEPT !.phase = "quiescent"] \/ file' = file
    BY <1>6, Zenon DEF Finalize
  <2>2. \E r \in {"done", "failclosed"} : reap' = [reap EXCEPT ![g] = r]
    BY <1>6, Zenon DEF Finalize
  <2>3. UNCHANGED <<own, sup, prov, inbox, halt, allow, sig, hb, rq, expired, boot, faults>>
    BY <1>6, Zenon DEF Finalize
  <2> QED BY <2>1, <2>2, <2>3
<1> QED BY <1>1, <1>2, <1>3, <1>4, <1>5, <1>6 DEF ReaperNext

LEMMA HostTypes ==
    ASSUME TypeOK, NEW g \in Gens, HostNext(g)
    PROVE  TypeOK'
<1> USE Constants DEF TypeOK, Gens, Phases
<1>1. CASE GroupDies(g) BY <1>1 DEF GroupDies, Exit
<1>2. CASE DeadlinePasses(g) BY <1>2 DEF DeadlinePasses
<1>3. CASE OwnerDies(g) BY <1>3 DEF OwnerDies, Fault
<1>4. CASE SupDies(g) BY <1>4 DEF SupDies, Exit, Fault
<1>5. CASE ProviderDies(g) BY <1>5 DEF ProviderDies
<1>6. CASE ReaperDies(g) BY <1>6 DEF ReaperDies, Fault
<1> QED BY <1>1, <1>2, <1>3, <1>4, <1>5, <1>6 DEF HostNext

-----------------------------------------------------------------------------
(* Steps *)

\* An owner never leaves its states, and moves the lock only when it opens
\* and releases.
LEMMA OwnerStep ==
    ASSUME IInv, NEW g \in Gens, OwnerNext(g)
    PROVE  IInv'
<1>0. TypeOK' /\ Shape
  BY OwnerTypes, TypesShape DEF IInv
<1> USE <1>0 DEF IInv, Shape, OneHolder, Started, Ended, Writers, LockHeld, OwnerUp,
                 SupUp, ReapUp, GroupAlive, Unfinished, Current
<1>1. CASE OpenGeneration(g) BY <1>1 DEF OpenGeneration, LockFree
<1>2. CASE PrepareFails(g) BY <1>2 DEF PrepareFails
<1>3. CASE SpawnSupervisor(g) BY <1>3 DEF SpawnSupervisor
<1>4. CASE OwnerStops(g) BY <1>4 DEF OwnerStops
<1>5. CASE OwnerKills(g) BY <1>5 DEF OwnerKills
<1>6. CASE OwnerSeesAbsence(g) BY <1>6 DEF OwnerSeesAbsence
<1>7. CASE OwnerReleases(g) BY <1>7 DEF OwnerReleases, Proven
<1>8. CASE OwnerFailsClosed(g) BY <1>8 DEF OwnerFailsClosed, Proven
<1> QED BY <1>1, <1>2, <1>3, <1>4, <1>5, <1>6, <1>7, <1>8 DEF OwnerNext

\* The supervisor writes the file while its generation has the lock.
LEMMA SupStep ==
    ASSUME IInv, NEW g \in Gens, SupNext(g)
    PROVE  IInv'
<1>0. TypeOK' /\ Shape
  BY SupTypes, TypesShape DEF IInv
<1> USE <1>0 DEF IInv, Shape, OneHolder, Started, Ended, Writers, LockHeld, OwnerUp,
                 SupUp, ReapUp, GroupAlive, Unfinished, Current
<1>1. CASE Initialize(g) BY <1>1 DEF Initialize, Running, Exit, OwnerConnected
<1>2. CASE ArmingFails(g) BY <1>2 DEF ArmingFails, Running, Exit, OwnerConnected
<1>3. CASE Armed(g) BY <1>3 DEF Armed, Running, OwnerConnected
<1>4. CASE Reconcile(g) BY <1>4 DEF Reconcile, Running, gvars
<1>5. CASE Begin(g) BY <1>5 DEF Begin, Running
<1>6. CASE InitializeFails(g) BY <1>6 DEF InitializeFails, Running, Latch, Authority
<1>7. CASE Probe(g) BY <1>7 DEF Probe, Running, Authority
<1>8. CASE StartProvider(g) BY <1>8 DEF StartProvider, Running, Authority
<1>9. CASE MarkRead(g) BY <1>9 DEF MarkRead, Running, Authority
<1>10. CASE MarkWrite(g) BY <1>10 DEF MarkWrite, Running, Authority
<1>11. CASE HeartbeatRead(g) BY <1>11 DEF HeartbeatRead, Running
<1>12. CASE HeartbeatWrite(g) BY <1>12 DEF HeartbeatWrite
<1>13. CASE SupStops(g) BY <1>13 DEF SupStops, Exit, Latch
<1>14. CASE SupExits(g) BY <1>14 DEF SupExits, Exit
<1> QED BY <1>1, <1>2, <1>3, <1>4, <1>5, <1>6, <1>7, <1>8, <1>9, <1>10, <1>11, <1>12, <1>13, <1>14 DEF SupNext

\* The reaper writes the file as long as it is its generation's.
LEMMA ReaperStep ==
    ASSUME IInv, NEW g \in Gens, ReaperNext(g)
    PROVE  IInv'
<1>0. TypeOK' /\ Shape
  BY ReaperTypes, TypesShape DEF IInv
<1> USE <1>0 DEF IInv, Shape, OneHolder, Started, Ended, Writers, LockHeld, OwnerUp,
                 SupUp, ReapUp, GroupAlive, Unfinished, Current
<1>1. CASE ReaperArms(g) BY <1>1 DEF ReaperArms
<1>2. CASE Reap(g) BY <1>2 DEF Reap
<1>3. CASE RequestRead(g) BY <1>3 DEF RequestRead
<1>4. CASE RequestWrite(g) BY <1>4 DEF RequestWrite
<1>5. CASE ReapKills(g) BY <1>5 DEF ReapKills
<1>6. CASE Finalize(g) BY <1>6 DEF Finalize
<1> QED BY <1>1, <1>2, <1>3, <1>4, <1>5, <1>6 DEF ReaperNext

\* Deaths take processes away, and with them their pending writes.
LEMMA HostStep ==
    ASSUME IInv, NEW g \in Gens, HostNext(g)
    PROVE  IInv'
<1>0. TypeOK' /\ Shape
  BY HostTypes, TypesShape DEF IInv
<1> USE <1>0 DEF IInv, Shape, OneHolder, Started, Ended, Writers, LockHeld, OwnerUp,
                 SupUp, ReapUp, GroupAlive, Unfinished, Current
<1>1. CASE GroupDies(g) BY <1>1 DEF GroupDies, Exit
<1>2. CASE DeadlinePasses(g) BY <1>2 DEF DeadlinePasses
<1>3. CASE OwnerDies(g) BY <1>3 DEF OwnerDies, Fault
<1>4. CASE SupDies(g) BY <1>4 DEF SupDies, Fault, Exit
<1>5. CASE ProviderDies(g) BY <1>5 DEF ProviderDies
<1>6. CASE ReaperDies(g) BY <1>6 DEF ReaperDies, Fault
<1> QED BY <1>1, <1>2, <1>3, <1>4, <1>5, <1>6 DEF HostNext

\* A reboot ends every process; what is on record stays.
LEMMA RebootStep == IInv /\ Reboot => IInv'
<1> SUFFICES ASSUME IInv, Reboot PROVE IInv'
  OBVIOUS
<1>1. TypeOK'
  BY Constants DEF IInv, TypeOK, Reboot, Gens, Phases, OwnerUp, SupUp, ReapUp
<1>2. \A g \in Gens : /\ ~OwnerUp(g)' /\ ~SupUp(g)' /\ ~ReapUp(g)' /\ ~prov'[g]
                      /\ ~hb'[g] /\ rq'[g] = "none" /\ ~allow'[g]
  BY DEF Reboot, OwnerUp, SupUp, ReapUp
<1>3. OneHolder' /\ Ended'
  BY <1>2 DEF OneHolder, Ended, LockHeld, GroupAlive, OwnerUp
<1>4. Started'
  BY <1>2 DEF IInv, TypeOK, Started, Reboot, Current, OwnerUp, SupUp, ReapUp
<1>5. Writers'
  BY <1>2 DEF Writers, SupUp
<1> QED BY <1>1, <1>3, <1>4, <1>5 DEF IInv

LEMMA NextIInv == IInv /\ [Next]_vars => IInv'
<1> SUFFICES ASSUME IInv, [Next]_vars PROVE IInv'
  OBVIOUS
<1>1. CASE UNCHANGED vars
  BY <1>1 DEF vars, IInv, TypeOK, OneHolder, Started, Ended, Writers, Unfinished, Current,
              LockHeld, OwnerUp, SupUp, ReapUp, GroupAlive
<1>2. ASSUME NEW g \in Gens, OwnerNext(g) \/ SupNext(g) \/ ReaperNext(g) \/ HostNext(g)
      PROVE  IInv'
  BY <1>2, OwnerStep, SupStep, ReaperStep, HostStep
<1>3. CASE Reboot
  BY <1>3, RebootStep
<1> QED BY <1>1, <1>2, <1>3 DEF Next

\* IInv holds in every reachable state.
LEMMA Invariance == Spec => []IInv
BY InitIInv, NextIInv, PTL DEF Spec

-----------------------------------------------------------------------------
\* Never two providers, a live one on record, no quiescent record and no
\* released lock over a live group, for any number of generations, deaths and
\* boots (performOpen, begin, finalize).
THEOREM RecordsAreTrue == Spec => []GroupsOnRecord
<1>1. IInv => OneProvider /\ Recorded
  BY DEF IInv, TypeOK, Writers, Unfinished, Current, OneProvider, Recorded
<1>2. IInv => QuiescentGone
  BY DEF IInv, Writers, Unfinished, QuiescentGone, GroupAlive
<1>3. IInv => ReleasedGone
  BY DEF IInv, Ended, ReleasedGone
<1>4. IInv => GroupsOnRecord
  BY <1>1, <1>2, <1>3 DEF GroupsOnRecord
<1> QED BY <1>4, Invariance, PTL

\* No late write of a supervisor or a reaper takes a quiescent record back:
\* whoever could write it is of the generation on record, and that one's is
\* open.
LEMMA QuiescentStays ==
    ASSUME IInv, [Next]_vars, file.phase = "quiescent", file'.gen = file.gen
    PROVE  file'.phase = "quiescent"
<1> USE DEF IInv, TypeOK, Started, Writers, Unfinished, Current, SupUp, ReapUp
<1>1. CASE UNCHANGED file
  BY <1>1
<1>2. ASSUME NEW g \in Gens, SupNext(g), file' # file
      PROVE  file'.phase = "quiescent"
  <2>1. \/ Reconcile(g) \/ Begin(g) \/ MarkWrite(g) \/ HeartbeatWrite(g)
    BY <1>2 DEF SupNext, Initialize, ArmingFails, Armed, InitializeFails, Probe, StartProvider,
                MarkRead, HeartbeatRead, SupStops, SupExits
  <2>2. CASE Reconcile(g) BY <2>2 DEF Reconcile
  <2>3. CASE Begin(g) BY <2>3 DEF Begin, Running
  <2>4. CASE MarkWrite(g) BY <2>4 DEF MarkWrite, Running
  <2>5. CASE HeartbeatWrite(g) BY <2>5 DEF HeartbeatWrite
  <2> QED BY <2>1, <2>2, <2>3, <2>4, <2>5
<1>3. ASSUME NEW g \in Gens, ReaperNext(g), file' # file
      PROVE  file'.phase = "quiescent"
  <2>1. RequestWrite(g) \/ Finalize(g)
    BY <1>3 DEF ReaperNext, ReaperArms, Reap, RequestRead, ReapKills
  <2>2. CASE RequestWrite(g) BY <2>2 DEF RequestWrite
  <2>3. CASE Finalize(g) BY <2>3 DEF Finalize
  <2> QED BY <2>1, <2>2, <2>3
<1>4. ASSUME NEW g \in Gens, OwnerNext(g) \/ HostNext(g)
      PROVE  UNCHANGED file
  BY <1>4 DEF OwnerNext, HostNext, OpenGeneration, PrepareFails, SpawnSupervisor, OwnerStops,
              OwnerKills, OwnerSeesAbsence, OwnerReleases, OwnerFailsClosed, GroupDies,
              DeadlinePasses, OwnerDies, SupDies, ProviderDies, ReaperDies
<1>5. Reboot \/ UNCHANGED vars => UNCHANGED file
  BY DEF Reboot, vars
<1> QED BY <1>1, <1>2, <1>3, <1>4, <1>5 DEF Next

\* A quiescent record stays quiescent until the next generation begins
\* (recordHeartbeat, markRunning, requestStop read before they write).
THEOREM QuiescenceIsFinal == Spec => QuiescentFinal
<1>1. IInv /\ [Next]_vars =>
        [file.phase = "quiescent" /\ file'.gen = file.gen => file'.phase = "quiescent"]_vars
  BY QuiescentStays
<1> QED BY <1>1, Invariance, PTL DEF Spec, QuiescentFinal

\* The process states and the state file keep their types.
THEOREM TeardownTypeOK == Spec => []TypeOK
<1>1. IInv => TypeOK
  BY DEF IInv
<1> QED BY <1>1, Invariance, PTL


-----------------------------------------------------------------------------
(* Folds of finite sets *)

\* A set of naturals has a least element.
LEMMA LeastNatural ==
    ASSUME NEW S \in SUBSET Nat, S # {}
    PROVE  \E m \in S : \A n \in S : m <= n
<1>1. \E m \in S : \A n \in S : ~ (<<n, m>> \in OpToRel(<, Nat))
  BY WFMin, NatLessThanWellFounded, Zenon
<1>2. \A m, n \in Nat : n < m => <<n, m>> \in OpToRel(<, Nat)
  BY DEF OpToRel
<1>3. PICK m \in S : \A n \in S : ~ (<<n, m>> \in OpToRel(<, Nat))
  BY <1>1
<1>4. \A n \in S : ~(n < m)
  BY <1>2, <1>3
<1> QED
  BY <1>4

\* The proper subsets of a set are smaller.
LEMMA Smaller ==
    ASSUME NEW S, IsFiniteSet(S), NEW s \in SUBSET S
    PROVE  /\ IsFiniteSet(s) /\ Cardinality(s) \in Nat /\ Cardinality(s) <= Cardinality(S)
           /\ \A u \in SUBSET s : u # s => Cardinality(u) < Cardinality(s)
<1>1. IsFiniteSet(s) /\ Cardinality(s) <= Cardinality(S)
  BY FS_Subset
<1>2. Cardinality(s) \in Nat
  BY <1>1, FS_CardinalityType
<1>3. ASSUME NEW u \in SUBSET s, u # s PROVE Cardinality(u) < Cardinality(s)
  <2>1. IsFiniteSet(u) /\ Cardinality(u) <= Cardinality(s) /\ (Cardinality(u) = Cardinality(s) => u = s)
    BY <1>1, FS_Subset
  <2>2. Cardinality(u) \in Nat
    BY <2>1, FS_CardinalityType
  <2> QED
    BY <1>2, <1>3, <2>1, <2>2
<1> QED
  BY <1>1, <1>2, <1>3

\* Induction over the subsets of a finite set.
LEMMA SubsetInduction ==
    ASSUME NEW S, IsFiniteSet(S), NEW T,
           \A s \in SUBSET S : (\A u \in SUBSET s : u # s => u \in T) => s \in T
    PROVE  SUBSET S \subseteq T
<1> DEFINE Missing == {Cardinality(s) : s \in {u \in SUBSET S : u \notin T}}
<1> SUFFICES ASSUME Missing # {} PROVE FALSE OBVIOUS
<1>1. Missing \in SUBSET Nat BY Smaller
<1>2. PICK m \in Missing : \A n \in Missing : m <= n BY <1>1, LeastNatural
<1>3. PICK s \in SUBSET S : s \notin T /\ m = Cardinality(s) BY <1>2
<1>4. PICK u \in SUBSET s : u # s /\ u \notin T BY <1>3
<1>5. Cardinality(u) \in Missing BY <1>4
<1>6. Cardinality(u) < m BY <1>3, <1>4, Smaller
<1> QED BY <1>1, <1>2, <1>5, <1>6

\* A rule gives a set its value from those of its proper subsets.
FoldRules(S, V) ==
    {r \in [[SUBSET S -> V] -> [SUBSET S -> V]] :
        \A f, g \in [SUBSET S -> V], s \in SUBSET S :
            (\A u \in SUBSET s : u # s => f[u] = g[u]) => r[f][s] = r[g][s]}

\* Some values of the sets follow the rule.
Solved(S, V, r) == \E f \in [SUBSET S -> V] : \A s \in SUBSET S : f[s] = r[f][s]

\* Every rule has a solution.  A fold is one: the rule is its body.
LEMMA FoldExists ==
    ASSUME NEW S, IsFiniteSet(S), NEW V, V # {}, NEW Rule \in FoldRules(S, V)
    PROVE  Solved(S, V, Rule)
<1> DEFINE F == [SUBSET S -> V]
           Right(f, n) == \A s \in SUBSET S : Cardinality(s) < n => f[s] = Rule[f][s]
           Wrong == {n \in Nat : ~ \E f \in F : Right(f, n)}
<1>0. /\ Rule \in [F -> F]
      /\ \A f, g \in F, s \in SUBSET S :
            (\A u \in SUBSET s : u # s => f[u] = g[u]) => Rule[f][s] = Rule[g][s]
  BY DEF FoldRules
<1>1. 0 \notin Wrong
  <2>1. PICK v \in V : TRUE
    OBVIOUS
  <2>2. [s \in SUBSET S |-> v] \in F
    OBVIOUS
  <2>3. \A s \in SUBSET S : ~(Cardinality(s) < 0)
    <3> TAKE s \in SUBSET S
    <3>1. Cardinality(s) \in Nat BY Smaller
    <3> QED BY <3>1
  <2>4. \A f \in F : Right(f, 0)
    BY <2>3
  <2> QED
    BY <2>2, <2>4
<1>2. \A n \in Nat : n \notin Wrong => n + 1 \notin Wrong
  <2> TAKE n \in Nat
  <2> HAVE n \notin Wrong
  <2>1. PICK f \in F : Right(f, n)
    OBVIOUS
  <2>2. Rule[f] \in F
    BY <1>0
  <2>3. ASSUME NEW s \in SUBSET S, Cardinality(s) < n + 1
        PROVE  Rule[f][s] = Rule[Rule[f]][s]
    <3>1. ASSUME NEW u \in SUBSET s, u # s PROVE f[u] = Rule[f][u]
      <4>1. Cardinality(u) < Cardinality(s) /\ Cardinality(s) \in Nat /\ u \in SUBSET S
        BY <3>1, Smaller
      <4>2. Cardinality(u) \in Nat
        BY <4>1, Smaller
      <4>3. Cardinality(u) < n
        BY <2>3, <4>1, <4>2
      <4> QED
        BY <2>1, <4>1, <4>3
    <3> QED
      BY <1>0, <2>2, <3>1
  <2>4. Right(Rule[f], n + 1)
    BY <2>3
  <2> HIDE DEF Right
  <2> QED
    BY <2>2, <2>4
<1> HIDE DEF Wrong
<1>3. \A n \in Nat : n \notin Wrong
  <2> SUFFICES ASSUME Wrong # {} PROVE FALSE
    OBVIOUS
  <2>1. Wrong \in SUBSET Nat
    BY DEF Wrong
  <2>2. PICK m \in Wrong : \A n \in Wrong : m <= n
    BY <2>1, LeastNatural
  <2>3. m \in Nat /\ m # 0
    BY <1>1, <2>1, <2>2
  <2>4. m - 1 \in Nat /\ (m - 1) + 1 = m /\ ~(m <= m - 1)
    BY <2>3
  <2> QED
    BY <1>2, <2>2, <2>4
<1>4. Cardinality(S) \in Nat /\ Cardinality(S) + 1 \in Nat
  BY FS_CardinalityType
<1>5. PICK f \in F : Right(f, Cardinality(S) + 1)
  <2> HIDE DEF Right
  <2>1. Cardinality(S) + 1 \notin Wrong
    BY <1>3, <1>4
  <2> QED
    BY <1>4, <2>1 DEF Wrong
<1>6. ASSUME NEW s \in SUBSET S PROVE f[s] = Rule[f][s]
  <2>1. Cardinality(s) \in Nat /\ Cardinality(s) <= Cardinality(S)
    BY Smaller
  <2>2. Cardinality(s) < Cardinality(S) + 1
    BY <1>4, <2>1
  <2> QED
    BY <1>5, <2>2
<1> QED
  BY <1>6 DEF Solved

-----------------------------------------------------------------------------
(* What the folds of HostEventStream do *)

Scopes == {"ours", "other"}
Turns == [id : 0..2, scope : Scopes]
EventRow == [seq : Nat, turn : [id : 1..2, scope : Scopes], kind : Kinds, text : Nat,
             arts : SUBSET Artifacts, usage : Usages]
StreamRow == [phase : {"awaiting", "active", "terminal"}, last : Nat, out : Nat,
              arts : SUBSET Artifacts, usage : Usages, turn : Turns]

\* The reducer keeps its type.
LEMMA StreamTypes ==
    /\ \A x \in Turns : NewStream(x) \in StreamRow
    /\ \A st \in StreamRow, e \in EventRow : Applied(st, e) \in StreamRow
<1>1. NoUsage \in Usages
  BY DEF NoUsage, Usages
<1>2. \A x \in Turns : NewStream(x) \in StreamRow
  BY <1>1 DEF NewStream, StreamRow
<1>3. ASSUME NEW st \in StreamRow, NEW e \in EventRow PROVE Applied(st, e) \in StreamRow
  <2>1. /\ st.out \in Nat /\ st.arts \in SUBSET Artifacts /\ st.usage \in Usages /\ st.turn \in Turns
        /\ e.seq \in Nat /\ e.text \in Nat /\ e.arts \in SUBSET Artifacts /\ e.usage \in Usages
        /\ e.turn \in Turns
    BY DEF StreamRow, EventRow, Turns
  <2>2. st.out + e.text \in Nat /\ st.arts \cup e.arts \in SUBSET Artifacts
    BY <2>1
  <2> QED
    BY <2>1, <2>2 DEF Applied, StreamRow
<1> QED
  BY <1>2, <1>3

\* The greatest number of a set of positions.
LEMMA MaxOf ==
    ASSUME NEW n \in Nat, NEW u \in SUBSET (1..n), u # {}
    PROVE  Max(u) \in u /\ \A y \in u : y <= Max(u)
<1>0. PICK k \in u : TRUE
  OBVIOUS
<1>1. {n - z : z \in u} \in SUBSET Nat /\ {n - z : z \in u} # {}
  <2>1. n - k \in {n - z : z \in u}
    BY <1>0
  <2> QED
    BY <2>1
<1>2. PICK m \in {n - z : z \in u} : \A v \in {n - z : z \in u} : m <= v
  BY <1>1, LeastNatural
<1>3. PICK x \in u : m = n - x
  BY <1>2
<1>4. \A y \in u : n - x <= n - y
  BY <1>2, <1>3
<1>5. \A y \in u : x >= y
  BY <1>4
<1>6. Max(u) \in u /\ \A y \in u : Max(u) >= y
  BY <1>5 DEF Max
<1> QED
  BY <1>6

ReplayStep(x, s, f, u) ==
    IF u = {} THEN NewStream(x) ELSE Applied(f[u \ {Max(u)}], s[Max(u)])
Replays(x, s) == CHOOSE f : f = [u \in SUBSET (DOMAIN s) |-> ReplayStep(x, s, f, u)]

\* Replay is the value of its fold at the whole sequence.
LEMMA ReplayFold ==
    ASSUME NEW x \in Turns, NEW s \in Seq(EventRow)
    PROVE  /\ Replay(x, s) = Replays(x, s)[DOMAIN s]
           /\ Replays(x, s) \in [SUBSET (DOMAIN s) -> StreamRow]
           /\ \A u \in SUBSET (DOMAIN s) : Replays(x, s)[u] = ReplayStep(x, s, Replays(x, s), u)
<1> DEFINE S == DOMAIN s
           F == [SUBSET S -> StreamRow]
           Rule == [f \in F |-> [u \in SUBSET S |-> ReplayStep(x, s, f, u)]]
<1>1. Replay(x, s) = Replays(x, s)[DOMAIN s]
  BY Zenon DEF Replay, FoldLeft, MapThenFoldSet, Replays, ReplayStep
<1>2. S = 1..Len(s) /\ Len(s) \in Nat /\ IsFiniteSet(S)
  BY FS_Interval
<1>3. \A u \in SUBSET S : u # {} => Max(u) \in u
  BY <1>2, MaxOf
<1>4. ASSUME NEW f \in F, NEW u \in SUBSET S PROVE ReplayStep(x, s, f, u) \in StreamRow
  <2>1. CASE u = {}
    BY <2>1, StreamTypes DEF ReplayStep
  <2>2. CASE u # {}
    <3>1. Max(u) \in S /\ u \ {Max(u)} \in SUBSET S
      BY <1>3, <2>2
    <3>2. f[u \ {Max(u)}] \in StreamRow /\ s[Max(u)] \in EventRow
      BY <1>2, <3>1
    <3> QED
      BY <2>2, <3>2, StreamTypes DEF ReplayStep
  <2> QED
    BY <2>1, <2>2
<1>5. Rule \in [F -> F]
  BY <1>4
<1>6. ASSUME NEW f \in F, NEW g \in F, NEW u \in SUBSET S,
             \A w \in SUBSET u : w # u => f[w] = g[w]
      PROVE  Rule[f][u] = Rule[g][u]
  <2>1. ReplayStep(x, s, f, u) = ReplayStep(x, s, g, u)
    BY <1>3, <1>6 DEF ReplayStep
  <2> QED
    BY <2>1
<1>7. StreamRow # {}
  BY <1>4, StreamTypes
<1>8. PICK f \in F : \A u \in SUBSET S : f[u] = Rule[f][u]
  <2>1. Rule \in FoldRules(S, StreamRow)
    BY <1>5, <1>6 DEF FoldRules
  <2>2. IsFiniteSet(S)
    BY <1>2
  <2>3. Solved(S, StreamRow, Rule)
    <3> HIDE DEF Rule, S
    <3> QED
      BY <1>7, <2>1, <2>2, FoldExists
  <2> HIDE DEF Rule, S
  <2> QED
    BY <2>3 DEF Solved
<1>9. f = [u \in SUBSET S |-> ReplayStep(x, s, f, u)]
  BY <1>8
<1>10. Replays(x, s) = [u \in SUBSET S |-> ReplayStep(x, s, Replays(x, s), u)]
  BY <1>9, Zenon DEF Replays
<1>11. \A u \in SUBSET S : Replays(x, s)[u] = ReplayStep(x, s, Replays(x, s), u)
  BY <1>10, Zenon
<1> DEFINE T == {u \in SUBSET S : Replays(x, s)[u] \in StreamRow}
<1>12. ASSUME NEW u \in SUBSET S, \A w \in SUBSET u : w # u => w \in T
       PROVE  u \in T
  <2>1. CASE u = {}
    BY <1>11, <2>1, StreamTypes DEF ReplayStep
  <2>2. CASE u # {}
    <3>1. Max(u) \in u /\ Max(u) \in S /\ u \ {Max(u)} \in SUBSET u /\ u \ {Max(u)} # u
      BY <1>3, <2>2
    <3>2. Replays(x, s)[u \ {Max(u)}] \in StreamRow /\ s[Max(u)] \in EventRow
      BY <1>2, <1>12, <3>1
    <3>3. ReplayStep(x, s, Replays(x, s), u) \in StreamRow
      BY <2>2, <3>2, StreamTypes DEF ReplayStep
    <3> QED
      BY <1>11, <3>3
  <2> QED
    BY <2>1, <2>2
<1>13. SUBSET S \subseteq T
  <2>1. IsFiniteSet(S)
    BY <1>2
  <2>2. \A u \in SUBSET S : (\A w \in SUBSET u : w # u => w \in T) => u \in T
    BY <1>12
  <2> HIDE DEF T, S
  <2> QED
    BY <2>1, <2>2, SubsetInduction
<1> QED
  BY <1>1, <1>10, <1>11, <1>13

\* The last position is the greatest.
LEMMA LastPosition ==
    ASSUME NEW n \in Nat
    PROVE  /\ Max(1..(n + 1)) = n + 1 /\ (1..(n + 1)) \ {n + 1} = 1..n /\ 1..(n + 1) # {}
           /\ 1..n \in SUBSET (1..(n + 1)) /\ IsFiniteSet(1..n)
<1>1. n + 1 \in Nat /\ 1..(n + 1) # {} /\ n + 1 \in 1..(n + 1)
  OBVIOUS
<1>2. Max(1..(n + 1)) \in 1..(n + 1) /\ \A y \in 1..(n + 1) : y <= Max(1..(n + 1))
  BY <1>1, MaxOf
<1>3. Max(1..(n + 1)) = n + 1
  <2> DEFINE m == Max(1..(n + 1))
  <2>1. m \in 1..(n + 1) /\ n + 1 <= m
    BY <1>1, <1>2
  <2> HIDE DEF m
  <2>2. m = n + 1
    BY <2>1
  <2> QED
    BY <2>2 DEF m
<1>4. IsFiniteSet(1..n)
  BY FS_Interval
<1>5. (1..(n + 1)) \ {n + 1} = 1..n
  OBVIOUS
<1> QED
  BY <1>1, <1>3, <1>4, <1>5

\* An event more is one step more of the reducer.
LEMMA ReplayAppend ==
    ASSUME NEW x \in Turns
    PROVE  /\ Replay(x, <<>>) = NewStream(x)
           /\ \A s \in Seq(EventRow) : Replay(x, s) \in StreamRow
           /\ \A s \in Seq(EventRow), e \in EventRow :
                 Replay(x, Append(s, e)) = Applied(Replay(x, s), e)
<1>1. Replay(x, <<>>) = NewStream(x)
  <2>1. <<>> \in Seq(EventRow) /\ DOMAIN <<>> = {}
    OBVIOUS
  <2>2. Replay(x, <<>>) = Replays(x, <<>>)[DOMAIN <<>>]
        /\ Replays(x, <<>>)[DOMAIN <<>>] = ReplayStep(x, <<>>, Replays(x, <<>>), DOMAIN <<>>)
    BY <2>1, ReplayFold, Zenon
  <2> QED
    BY <2>1, <2>2 DEF ReplayStep
<1>2. \A s \in Seq(EventRow) : Replay(x, s) \in StreamRow
  <2> TAKE s \in Seq(EventRow)
  <2>1. Replay(x, s) = Replays(x, s)[DOMAIN s] /\ DOMAIN s \in SUBSET DOMAIN s
    BY ReplayFold
  <2>2. Replays(x, s) \in [SUBSET DOMAIN s -> StreamRow]
    BY ReplayFold
  <2>3. Replays(x, s)[DOMAIN s] \in StreamRow
    BY <2>1, <2>2, Zenon
  <2> QED
    BY <2>1, <2>3
<1>3. ASSUME NEW s \in Seq(EventRow), NEW e \in EventRow
      PROVE  Replay(x, Append(s, e)) = Applied(Replay(x, s), e)
  <2> DEFINE n == Len(s)
             t == Append(s, e)
             F == Replays(x, s)
             G == Replays(x, t)
             T == {u \in SUBSET (1..n) : F[u] = G[u]}
  <2>1. /\ n \in Nat /\ DOMAIN s = 1..n /\ t \in Seq(EventRow) /\ DOMAIN t = 1..(n + 1)
        /\ t[n + 1] = e /\ \A i \in 1..n : t[i] = s[i]
    OBVIOUS
  <2>2. /\ Replay(x, s) = F[1..n] /\ Replay(x, t) = G[1..(n + 1)]
        /\ \A u \in SUBSET (1..n) : F[u] = ReplayStep(x, s, F, u)
        /\ \A u \in SUBSET (1..(n + 1)) : G[u] = ReplayStep(x, t, G, u)
    <3>1. Replay(x, s) = F[DOMAIN s] /\ \A u \in SUBSET (DOMAIN s) : F[u] = ReplayStep(x, s, F, u)
      BY ReplayFold
    <3>2. Replay(x, t) = G[DOMAIN t] /\ \A u \in SUBSET (DOMAIN t) : G[u] = ReplayStep(x, t, G, u)
      BY <2>1, ReplayFold
    <3> HIDE DEF F, G, t, n
    <3> QED
      BY <2>1, <3>1, <3>2, Zenon
  <2> HIDE DEF F, G, t
  <2>3. ASSUME NEW u \in SUBSET (1..n), \A w \in SUBSET u : w # u => w \in T
        PROVE  u \in T
    <3>1. u \in SUBSET (1..(n + 1))
      BY <2>1, LastPosition
    <3>2. CASE u = {}
      BY <2>2, <3>1, <3>2 DEF ReplayStep
    <3>3. CASE u # {}
      <4>1. Max(u) \in u /\ u \ {Max(u)} \in SUBSET u /\ u \ {Max(u)} # u
        BY <2>1, <3>3, MaxOf
      <4>2. F[u \ {Max(u)}] = G[u \ {Max(u)}] /\ s[Max(u)] = t[Max(u)]
        BY <2>1, <2>3, <4>1
      <4>3. ReplayStep(x, s, F, u) = ReplayStep(x, t, G, u)
        BY <3>3, <4>2 DEF ReplayStep
      <4> QED
        BY <2>2, <3>1, <4>3
    <3> QED
      BY <3>2, <3>3
  <2>4. SUBSET (1..n) \subseteq T
    <3> DEFINE N == 1..n
    <3>1. IsFiniteSet(N)
      BY <2>1, LastPosition
    <3>2. \A u \in SUBSET N : (\A w \in SUBSET u : w # u => w \in T) => u \in T
      BY <2>3
    <3>3. SUBSET N \subseteq T
      <4> HIDE DEF T, N
      <4> QED
        BY <3>1, <3>2, SubsetInduction
    <3> QED
      BY <3>3
  <2>5. F[1..n] = G[1..n]
    BY <2>4
  <2>6. G[1..(n + 1)] = Applied(G[1..n], e)
    <3> HIDE DEF n
    <3>1. G[1..(n + 1)] = ReplayStep(x, t, G, 1..(n + 1))
      BY <2>2
    <3>2. ReplayStep(x, t, G, 1..(n + 1)) = Applied(G[1..n], t[n + 1])
      BY <2>1, LastPosition DEF ReplayStep
    <3> QED
      BY <2>1, <3>1, <3>2
  <2> QED
    BY <2>2, <2>5, <2>6 DEF t
<1> QED
  BY <1>1, <1>2, <1>3

TextStep(s, f, u) == IF u = {} THEN 0 ELSE f[u \ {Max(u)}] + s[Max(u)].text
Texts(s) == CHOOSE f : f = [u \in SUBSET (DOMAIN s) |-> TextStep(s, f, u)]

\* The same for the text of a history.
LEMMA TextFold ==
    ASSUME NEW s \in Seq(EventRow)
    PROVE  /\ TextOf(s) = Texts(s)[DOMAIN s]
           /\ \A u \in SUBSET (DOMAIN s) : Texts(s)[u] = TextStep(s, Texts(s), u)
<1> DEFINE S == DOMAIN s
           F == [SUBSET S -> Nat]
           Rule == [f \in F |-> [u \in SUBSET S |-> TextStep(s, f, u)]]
<1>1. TextOf(s) = Texts(s)[DOMAIN s]
  BY Zenon DEF TextOf, FoldLeft, MapThenFoldSet, Texts, TextStep
<1>2. S = 1..Len(s) /\ Len(s) \in Nat /\ IsFiniteSet(S)
  BY FS_Interval
<1>3. \A u \in SUBSET S : u # {} => Max(u) \in u
  BY <1>2, MaxOf
<1>4. ASSUME NEW f \in F, NEW u \in SUBSET S PROVE TextStep(s, f, u) \in Nat
  <2>1. CASE u = {}
    BY <2>1 DEF TextStep
  <2>2. CASE u # {}
    <3>1. Max(u) \in S /\ u \ {Max(u)} \in SUBSET S
      BY <1>3, <2>2
    <3>2. f[u \ {Max(u)}] \in Nat /\ s[Max(u)] \in EventRow
      BY <1>2, <3>1
    <3>3. s[Max(u)].text \in Nat
      BY <3>2 DEF EventRow
    <3> QED
      BY <2>2, <3>2, <3>3 DEF TextStep
  <2> QED
    BY <2>1, <2>2
<1>5. Rule \in [F -> F]
  BY <1>4
<1>6. ASSUME NEW f \in F, NEW g \in F, NEW u \in SUBSET S,
             \A w \in SUBSET u : w # u => f[w] = g[w]
      PROVE  Rule[f][u] = Rule[g][u]
  <2>1. TextStep(s, f, u) = TextStep(s, g, u)
    BY <1>3, <1>6 DEF TextStep
  <2> QED
    BY <2>1
<1>7. PICK f \in F : \A u \in SUBSET S : f[u] = Rule[f][u]
  <2>1. Rule \in FoldRules(S, Nat)
    BY <1>5, <1>6 DEF FoldRules
  <2>2. IsFiniteSet(S) /\ Nat # {}
    BY <1>2
  <2>3. Solved(S, Nat, Rule)
    <3> HIDE DEF Rule, S
    <3> QED
      BY <2>1, <2>2, FoldExists
  <2> HIDE DEF Rule, S
  <2> QED
    BY <2>3 DEF Solved
<1>8. f = [u \in SUBSET S |-> TextStep(s, f, u)]
  BY <1>7
<1>9. Texts(s) = [u \in SUBSET S |-> TextStep(s, Texts(s), u)]
  BY <1>8, Zenon DEF Texts
<1>10. \A u \in SUBSET S : Texts(s)[u] = TextStep(s, Texts(s), u)
  BY <1>9, Zenon
<1> QED
  BY <1>1, <1>10

\* An event more adds its text.
LEMMA TextAppend ==
    /\ TextOf(<<>>) = 0
    /\ \A s \in Seq(EventRow), e \in EventRow : TextOf(Append(s, e)) = TextOf(s) + e.text
<1>1. TextOf(<<>>) = 0
  <2>1. <<>> \in Seq(EventRow) /\ DOMAIN <<>> = {}
    OBVIOUS
  <2>2. TextOf(<<>>) = Texts(<<>>)[DOMAIN <<>>]
        /\ Texts(<<>>)[DOMAIN <<>>] = TextStep(<<>>, Texts(<<>>), DOMAIN <<>>)
    BY <2>1, TextFold, Zenon
  <2> QED
    BY <2>1, <2>2 DEF TextStep
<1>2. ASSUME NEW s \in Seq(EventRow), NEW e \in EventRow
      PROVE  TextOf(Append(s, e)) = TextOf(s) + e.text
  <2> DEFINE n == Len(s)
             t == Append(s, e)
             F == Texts(s)
             G == Texts(t)
             T == {u \in SUBSET (1..n) : F[u] = G[u]}
  <2>1. /\ n \in Nat /\ DOMAIN s = 1..n /\ t \in Seq(EventRow) /\ DOMAIN t = 1..(n + 1)
        /\ t[n + 1] = e /\ \A i \in 1..n : t[i] = s[i]
    OBVIOUS
  <2>2. /\ TextOf(s) = F[1..n] /\ TextOf(t) = G[1..(n + 1)]
        /\ \A u \in SUBSET (1..n) : F[u] = TextStep(s, F, u)
        /\ \A u \in SUBSET (1..(n + 1)) : G[u] = TextStep(t, G, u)
    <3>1. TextOf(s) = F[DOMAIN s] /\ \A u \in SUBSET (DOMAIN s) : F[u] = TextStep(s, F, u)
      BY TextFold
    <3>2. TextOf(t) = G[DOMAIN t] /\ \A u \in SUBSET (DOMAIN t) : G[u] = TextStep(t, G, u)
      BY <2>1, TextFold
    <3> HIDE DEF F, G, t, n
    <3> QED
      BY <2>1, <3>1, <3>2, Zenon
  <2> HIDE DEF F, G, t
  <2>3. ASSUME NEW u \in SUBSET (1..n), \A w \in SUBSET u : w # u => w \in T
        PROVE  u \in T
    <3>1. u \in SUBSET (1..(n + 1))
      BY <2>1, LastPosition
    <3>2. CASE u = {}
      BY <2>2, <3>1, <3>2 DEF TextStep
    <3>3. CASE u # {}
      <4>1. Max(u) \in u /\ u \ {Max(u)} \in SUBSET u /\ u \ {Max(u)} # u
        BY <2>1, <3>3, MaxOf
      <4>2. F[u \ {Max(u)}] = G[u \ {Max(u)}] /\ s[Max(u)] = t[Max(u)]
        BY <2>1, <2>3, <4>1
      <4>3. TextStep(s, F, u) = TextStep(t, G, u)
        BY <3>3, <4>2 DEF TextStep
      <4> QED
        BY <2>2, <3>1, <4>3
    <3> QED
      BY <3>2, <3>3
  <2>4. SUBSET (1..n) \subseteq T
    <3> DEFINE N == 1..n
    <3>1. IsFiniteSet(N)
      BY <2>1, LastPosition
    <3>2. \A u \in SUBSET N : (\A w \in SUBSET u : w # u => w \in T) => u \in T
      BY <2>3
    <3>3. SUBSET N \subseteq T
      <4> HIDE DEF T, N
      <4> QED
        BY <3>1, <3>2, SubsetInduction
    <3> QED
      BY <3>3
  <2>5. F[1..n] = G[1..n]
    BY <2>4
  <2>6. G[1..(n + 1)] = G[1..n] + e.text
    <3> HIDE DEF n
    <3>1. G[1..(n + 1)] = TextStep(t, G, 1..(n + 1))
      BY <2>2
    <3>2. TextStep(t, G, 1..(n + 1)) = G[1..n] + t[n + 1].text
      BY <2>1, LastPosition DEF TextStep
    <3> QED
      BY <2>1, <3>1, <3>2
  <2> QED
    BY <2>2, <2>5, <2>6 DEF t
<1> QED
  BY <1>1, <1>2

ByteStep(f, u) ==
    IF u = {} THEN 0 ELSE LET x == CHOOSE x \in u : TRUE IN Size[x] + f[u \ {x}]

\* A set of artifacts has a number of bytes, none if it is empty.
LEMMA BytesOf ==
    /\ Bytes({}) = 0
    /\ \A A \in SUBSET Artifacts : Bytes(A) \in Nat
<1>1. ASSUME NEW A \in SUBSET Artifacts
      PROVE  Bytes(A) \in Nat /\ (A = {} => Bytes(A) = 0)
  <2> DEFINE F == [SUBSET A -> Nat]
             Rule == [f \in F |-> [u \in SUBSET A |-> ByteStep(f, u)]]
             B == CHOOSE f : f = [u \in SUBSET A |-> ByteStep(f, u)]
             T == {u \in SUBSET A : B[u] \in Nat}
  <2>1. Bytes(A) = B[A]
    BY Zenon DEF Bytes, SumFunctionOnSet, FoldFunctionOnSet, MapThenFoldSet, ByteStep
  <2>2. IsFiniteSet(A)
    BY FS_Subset, StreamAssumption
  <2>3. ASSUME NEW f, NEW u \in SUBSET A, \A w \in SUBSET u : w # u => f[w] \in Nat
        PROVE  ByteStep(f, u) \in Nat
    <3>1. CASE u = {}
      BY <3>1 DEF ByteStep
    <3>2. CASE u # {}
      <4> DEFINE x == CHOOSE x \in u : TRUE
      <4>1. x \in u
        BY <3>2
      <4>2. ByteStep(f, u) = Size[x] + f[u \ {x}]
        BY <3>2 DEF ByteStep
      <4> HIDE DEF x
      <4>3. Size[x] \in Nat /\ f[u \ {x}] \in Nat
        BY <2>3, <4>1, StreamAssumption
      <4> QED
        BY <4>2, <4>3
    <3> QED
      BY <3>1, <3>2
  <2>4. Rule \in [F -> F]
    BY <2>3
  <2>5. ASSUME NEW f \in F, NEW g \in F, NEW u \in SUBSET A,
               \A w \in SUBSET u : w # u => f[w] = g[w]
        PROVE  Rule[f][u] = Rule[g][u]
    <3>1. ByteStep(f, u) = ByteStep(g, u)
      BY <2>5 DEF ByteStep
    <3> QED
      BY <3>1
  <2>6. PICK f \in F : \A u \in SUBSET A : f[u] = Rule[f][u]
    <3>1. Rule \in FoldRules(A, Nat) /\ Nat # {}
      BY <2>4, <2>5 DEF FoldRules
    <3>2. Solved(A, Nat, Rule)
      <4> HIDE DEF Rule
      <4> QED
        BY <2>2, <3>1, FoldExists
    <3> HIDE DEF Rule
    <3> QED
      BY <3>2 DEF Solved
  <2>7. f = [u \in SUBSET A |-> ByteStep(f, u)]
    BY <2>6
  <2>8. B = [u \in SUBSET A |-> ByteStep(B, u)]
    BY <2>7, Zenon
  <2> HIDE DEF B
  <2>9. \A u \in SUBSET A : B[u] = ByteStep(B, u)
    BY <2>8, Zenon
  <2>10. \A u \in SUBSET A : (\A w \in SUBSET u : w # u => w \in T) => u \in T
    BY <2>3, <2>9
  <2>11. SUBSET A \subseteq T
    <3> HIDE DEF T
    <3> QED
      BY <2>2, <2>10, SubsetInduction
  <2>12. A = {} => B[A] = 0
    BY <2>9 DEF ByteStep
  <2> QED
    BY <2>1, <2>11, <2>12
<1> QED
  BY <1>1

-----------------------------------------------------------------------------
(* A journal that grows by what the reducer accepts *)

ExpectedOf(s) == IF s = <<>> THEN AnyOurs ELSE s[1].turn
StateOf(s) == Replay(ExpectedOf(s), s)

\* The reducer's state tells what the events were.
Tells(s) ==
    /\ StateOf(s).last = Len(s)
    /\ StateOf(s).phase = "awaiting" <=> s = <<>>
    /\ s # <<>> => StateOf(s).turn = s[1].turn /\ s[1].turn.scope = "ours"
    /\ \A i \in 1..Len(s) : Ends(s[i]) => StateOf(s).phase = "terminal"
    /\ StateOf(s).usage.has # "null" => \E j \in 1..Len(s) : s[j].kind = "usage"
    /\ \A j \in 1..Len(s) : s[j].kind = "usage" /\ s[j].usage.has = "available" =>
          /\ StateOf(s).usage.has = "available"
          /\ StateOf(s).usage.in >= s[j].usage.in
          /\ StateOf(s).usage.out >= s[j].usage.out

\* WellFormed of any journal.
Formed(s) ==
    \A i \in 1..Len(s) :
        /\ (i = 1) <=> (s[i].kind = "accepted")
        /\ s[i].turn = s[1].turn /\ s[i].turn.scope = "ours"
        /\ Ends(s[i]) => i = Len(s) /\ \E j \in 1..i : s[j].kind = "usage"
        /\ \A j \in 1..i - 1 :
              s[i].kind = "usage" /\ s[j].kind = "usage" /\ s[j].usage.has = "available" =>
                  s[i].usage.in >= s[j].usage.in /\ s[i].usage.out >= s[j].usage.out

Kept(s) == Valid(ExpectedOf(s), s, NodePolicy) /\ Tells(s) /\ Formed(s)

\* The turn a journal is about is a turn.
LEMMA ExpectedTypes ==
    ASSUME NEW s \in Seq(EventRow)
    PROVE  ExpectedOf(s) \in Turns /\ StateOf(s) \in StreamRow
<1>1. ExpectedOf(s) \in Turns
  <2>1. CASE s = <<>>
    BY <2>1 DEF ExpectedOf, AnyOurs, Turns, Scopes
  <2>2. CASE s # <<>>
    <3>1. s[1] \in EventRow
      BY <2>2
    <3> QED
      BY <2>2, <3>1 DEF ExpectedOf, EventRow, Turns
  <2> QED
    BY <2>1, <2>2
<1> QED
  BY <1>1, ReplayAppend DEF StateOf

\* A journal of one more event is replayed to one more step.
LEMMA StateAppend ==
    ASSUME NEW s \in Seq(EventRow), NEW e \in EventRow,
           s = <<>> => SameTurn(NewStream(AnyOurs), e)
    PROVE  /\ StateOf(Append(s, e)) = Applied(StateOf(s), e)
           /\ s # <<>> => ExpectedOf(Append(s, e)) = ExpectedOf(s)
<1>0. Append(s, e) \in Seq(EventRow) /\ Append(s, e) # <<>>
  OBVIOUS
<1>1. CASE s = <<>>
  <2>1. Append(s, e)[1] = e
    BY <1>1
  <2>2. ExpectedOf(s) = AnyOurs /\ ExpectedOf(Append(s, e)) = e.turn
    BY <1>0, <1>1, <2>1 DEF ExpectedOf
  <2>3. AnyOurs \in Turns /\ e.turn \in Turns
    BY DEF AnyOurs, Turns, EventRow, Scopes
  <2>4. /\ StateOf(Append(s, e)) = Applied(NewStream(e.turn), e)
        /\ StateOf(s) = NewStream(AnyOurs)
    BY <1>1, <2>2, <2>3, ReplayAppend DEF StateOf
  <2>5. Applied(NewStream(e.turn), e) = Applied(NewStream(AnyOurs), e)
    BY DEF Applied, NewStream
  <2> QED
    BY <1>1, <2>4, <2>5
<1>2. CASE s # <<>>
  <2>1. Append(s, e)[1] = s[1]
    BY <1>2
  <2>2. ExpectedOf(Append(s, e)) = ExpectedOf(s)
    BY <1>0, <1>2, <2>1 DEF ExpectedOf
  <2> QED
    BY <2>2, ExpectedTypes, ReplayAppend DEF StateOf
<1> QED
  BY <1>1, <1>2

\* What the reducer checks of an event it accepts.
LEMMA Admits ==
    ASSUME NEW st \in StreamRow, NEW e \in EventRow, NEW pol, ~Rejects(st, e, pol)
    PROVE  /\ e.seq = st.last + 1
           /\ st.phase = "awaiting" <=> e.kind = "accepted"
           /\ st.phase # "terminal"
           /\ SameTurn(st, e)
           /\ e.kind = "usage" /\ st.usage.has = "available" =>
                e.usage.has = "available" /\ e.usage.in >= st.usage.in /\ e.usage.out >= st.usage.out
           /\ Ends(e) => st.usage.has # "null"
<1>1. /\ e.seq = st.last + 1
      /\ st.phase = "awaiting" <=> e.kind = "accepted"
      /\ st.phase # "terminal" /\ SameTurn(st, e)
      /\ Ends(e) => st.usage.has # "null"
      /\ e.kind = "usage" => ~UsageRefused(st, e.usage, pol)
  BY DEF Rejects
<1>2. st.usage \in Usages /\ e.usage \in Usages
  BY DEF StreamRow, EventRow
<1>3. e.kind = "usage" /\ st.usage.has = "available" =>
          e.usage.has = "available" /\ e.usage.in >= st.usage.in /\ e.usage.out >= st.usage.out
  BY <1>1, <1>2 DEF UsageRefused, Usages
<1> QED
  BY <1>1, <1>3

\* Nothing has been journaled of a turn yet.
LEMMA KeptNothing == Kept(<<>>) /\ StateOf(<<>>) = NewStream(AnyOurs)
<1>1. AnyOurs \in Turns /\ ExpectedOf(<<>>) = AnyOurs
  BY DEF AnyOurs, Turns, Scopes, ExpectedOf
<1>2. StateOf(<<>>) = NewStream(AnyOurs)
  BY <1>1, ReplayAppend DEF StateOf
<1>3. Valid(ExpectedOf(<<>>), <<>>, NodePolicy)
  BY DEF Valid
<1> QED
  BY <1>2, <1>3 DEF Kept, Tells, Formed, NewStream, NoUsage

\* What WithinGrant says of the journal, of any events.
Granted(s) ==
    /\ TextOf(s) <= Limits.output
    /\ Cardinality(ArtifactsOf(s)) <= Limits.artifacts
    /\ Bytes(ArtifactsOf(s)) <= Limits.artifactBytes
    /\ ArtifactsOf(s) \cap Forbidden = {}
    /\ \A i \in DOMAIN s : s[i].kind = "usage" /\ s[i].usage.has = "available" =>
          s[i].usage.in + s[i].usage.out <= Limits.tokens

-----------------------------------------------------------------------------
(* The invariant *)

StreamShape ==
    /\ log \in Seq(EventRow) /\ before \in Seq(EventRow) /\ journal \in Seq(EventRow)
    /\ wire \in Seq(EventRow \cup {End, Error})
    /\ cap \in [on : BOOLEAN, st : StreamRow, pos : 0..MaxLog]
    /\ node \in [pc : {"off", "reading", "done"}, st : StreamRow]
    /\ Len(log) <= MaxLog /\ Len(before) <= MaxLog
    /\ revoked \in BOOLEAN /\ breaks \in 0..MaxBreaks

\* Of history h the first k events are read and in journal j, the events to p
\* have left the Capsule, in order and within the grant, those after k are the
\* frames on the wire w, and nothing but a last word follows them.
Reads(h, j, w, k, p) ==
    /\ k \in Nat /\ p \in Nat /\ k <= p /\ k <= Len(j) /\ p <= Len(h)
    /\ \A i \in 1..k : j[i] = h[i]
    /\ \A i \in 1..p : h[i].seq = i
    /\ \A m \in 0..p : Granted(SubSeq(h, 1, m))
    /\ Len(w) >= p - k
    /\ \A i \in 1..Len(w) : IF i <= p - k THEN w[i] = h[k + i] ELSE w[i] \in {End, Error}

NotRead == node.pc # "reading" => wire = <<>> /\ ~cap.on

Reading ==
    node.pc = "reading" =>
        \E h \in {log, before}, k \in 0..Len(journal), p \in 0..MaxLog :
            /\ Reads(h, journal, wire, k, p)
            /\ cap.on => h = log /\ p = cap.pos /\ Len(wire) = p - k

\* The Capsule's stream has accounted for what it has published.
Shown ==
    cap.on => /\ cap.pos <= Len(log) /\ cap.st.last = cap.pos
              /\ cap.st.out = TextOf(SubSeq(log, 1, cap.pos))
              /\ cap.st.arts = ArtifactsOf(SubSeq(log, 1, cap.pos))

Starts(j, h) == Len(j) <= Len(h) /\ \A i \in 1..Len(j) : j[i] = h[i]

JournalInv == /\ Starts(journal, log) \/ Starts(journal, before)
              /\ Kept(journal) /\ Granted(journal)
              /\ node.pc # "off" => node.st = StateOf(journal)

StreamInv == StreamShape /\ NotRead /\ Reading /\ Shown /\ JournalInv

\* A journal and an event more, place by place.
LEMMA Longer ==
    ASSUME NEW S, NEW s \in Seq(S), NEW e \in S
    PROVE  /\ Append(s, e) \in Seq(S) /\ Append(s, e) # <<>>
           /\ Len(Append(s, e)) = Len(s) + 1 /\ Len(s) \in Nat
           /\ Append(s, e)[Len(s) + 1] = e
           /\ \A i \in 1..Len(s) : Append(s, e)[i] = s[i]
           /\ \A m \in 0..Len(s) : SubSeq(Append(s, e), 1, m) = SubSeq(s, 1, m)
           /\ SubSeq(s, 1, Len(s)) = s
<1> DEFINE a == Append(s, e)
<1>1. /\ a \in Seq(S) /\ a # <<>> /\ Len(a) = Len(s) + 1 /\ Len(s) \in Nat /\ a[Len(s) + 1] = e
      /\ \A i \in 1..Len(s) : a[i] = s[i]
  OBVIOUS
<1>2. ASSUME NEW m \in 0..Len(s) PROVE SubSeq(a, 1, m) = SubSeq(s, 1, m)
  <2>1. /\ Len(SubSeq(a, 1, m)) = m /\ Len(SubSeq(s, 1, m)) = m
        /\ SubSeq(a, 1, m) \in Seq(S) /\ SubSeq(s, 1, m) \in Seq(S)
        /\ \A i \in 1..m : SubSeq(a, 1, m)[i] = a[i] /\ SubSeq(s, 1, m)[i] = s[i]
    BY <1>1
  <2> QED
    BY <1>1, <2>1
<1>3. SubSeq(s, 1, Len(s)) = s
  OBVIOUS
<1> QED
  BY <1>1, <1>2, <1>3

\* What is journaled next is about the journal's turn.
LEMMA NextTurn ==
    ASSUME NEW s \in Seq(EventRow), NEW e \in EventRow, Kept(s), ~Rejects(StateOf(s), e, NodePolicy)
    PROVE  /\ e.turn.scope = "ours"
           /\ s = <<>> => SameTurn(NewStream(AnyOurs), e)
           /\ s # <<>> => e.turn = s[1].turn
<1>1. SameTurn(StateOf(s), e)
  BY ExpectedTypes, Admits
<1>2. CASE s = <<>>
  <2>1. SameTurn(NewStream(AnyOurs), e)
    BY <1>1, <1>2, KeptNothing
  <2> QED
    BY <1>2, <2>1 DEF SameTurn, NewStream, AnyOurs
<1>3. CASE s # <<>>
  <2>1. s[1] \in EventRow /\ StateOf(s).turn = s[1].turn /\ s[1].turn.scope = "ours"
    BY <1>3 DEF Kept, Tells
  <2>2. e.turn.scope = "ours" /\ s[1].turn.id \in {0, e.turn.id}
    BY <1>1, <2>1 DEF SameTurn
  <2>3. e.turn \in [id : 1..2, scope : Scopes] /\ s[1].turn \in [id : 1..2, scope : Scopes]
    BY <2>1 DEF EventRow
  <2> QED
    BY <1>3, <2>1, <2>2, <2>3
<1> QED
  BY <1>2, <1>3

\* The rules of a journal, of one event more: it can be replayed.
LEMMA ValidAppend ==
    ASSUME NEW s \in Seq(EventRow), NEW e \in EventRow, Kept(s), ~Rejects(StateOf(s), e, NodePolicy)
    PROVE  Valid(ExpectedOf(Append(s, e)), Append(s, e), NodePolicy)
<1> DEFINE a == Append(s, e)
           x == ExpectedOf(a)
<1>1. /\ a # <<>> /\ DOMAIN a = 1..(Len(s) + 1) /\ Len(s) \in Nat /\ a[Len(s) + 1] = e
      /\ \A i \in 1..Len(s) : a[i] = s[i]
      /\ \A m \in 0..Len(s) : SubSeq(a, 1, m) = SubSeq(s, 1, m)
      /\ SubSeq(s, 1, Len(s)) = s
  BY Longer
<1>2. ASSUME NEW i \in 1..Len(s)
      PROVE  ~Rejects(Replay(x, SubSeq(a, 1, i - 1)), a[i], NodePolicy)
  <2>1. i \in DOMAIN s /\ i - 1 \in 0..Len(s) /\ s # <<>>
    OBVIOUS
  <2>2. x = ExpectedOf(s)
    BY <2>1, StateAppend
  <2>3. ~Rejects(Replay(x, SubSeq(s, 1, i - 1)), s[i], NodePolicy)
    BY <2>1, <2>2 DEF Kept, Valid
  <2> QED
    BY <1>1, <2>1, <2>3
<1>3. ~Rejects(Replay(x, s), e, NodePolicy)
  <2>1. CASE s # <<>>
    <3>1. Replay(x, s) = StateOf(s)
      BY <2>1, StateAppend DEF StateOf
    <3> QED
      BY <3>1
  <2>2. CASE s = <<>>
    <3>1. x = e.turn /\ e.turn \in Turns
      BY <1>1, <2>2 DEF ExpectedOf, EventRow, Turns
    <3>2. Replay(x, s) = NewStream(e.turn) /\ StateOf(s) = NewStream(AnyOurs)
      BY <2>2, <3>1, ReplayAppend, KeptNothing
    <3>3. SameTurn(NewStream(e.turn), e)
      BY DEF SameTurn, NewStream
    <3>4. ~Rejects(NewStream(AnyOurs), e, NodePolicy)
      BY <3>2
    <3>5. ~Rejects(NewStream(e.turn), e, NodePolicy)
      BY <3>3, <3>4 DEF Rejects, NewStream, UsageRefused
    <3> QED
      BY <3>2, <3>5
  <2> QED
    BY <2>1, <2>2
<1>4. ASSUME NEW i \in DOMAIN a
      PROVE  ~Rejects(Replay(x, SubSeq(a, 1, i - 1)), a[i], NodePolicy)
  <2>1. CASE i \in 1..Len(s)
    BY <1>2, <2>1
  <2>2. CASE i = Len(s) + 1
    <3>1. SubSeq(a, 1, i - 1) = s /\ a[i] = e
      BY <1>1, <2>2
    <3> QED
      BY <1>3, <3>1
  <2> QED
    BY <1>1, <2>1, <2>2
<1> QED
  BY <1>4 DEF Valid

\* The reducer's state tells of the new event as of the others.
LEMMA TellsAppend ==
    ASSUME NEW s \in Seq(EventRow), NEW e \in EventRow, Kept(s), ~Rejects(StateOf(s), e, NodePolicy)
    PROVE  Tells(Append(s, e))
<1> DEFINE a == Append(s, e)
           st == StateOf(s)
<1>1. /\ a # <<>> /\ Len(a) = Len(s) + 1 /\ Len(s) \in Nat /\ a[Len(s) + 1] = e
      /\ \A i \in 1..Len(s) : a[i] = s[i]
  BY Longer
<1>2. Tells(s) /\ st \in StreamRow
  BY ExpectedTypes DEF Kept
<1>3. StateOf(a) = Applied(st, e)
  BY NextTurn, StateAppend
<1>4. /\ e.seq = st.last + 1
      /\ st.phase # "terminal"
      /\ e.kind = "usage" /\ st.usage.has = "available" =>
           e.usage.has = "available" /\ e.usage.in >= st.usage.in /\ e.usage.out >= st.usage.out
  BY <1>2, Admits
<1>5. StateOf(a).last = Len(a)
  BY <1>1, <1>2, <1>3, <1>4 DEF Tells, Applied
<1>6. (StateOf(a).phase = "awaiting") <=> (a = <<>>)
  BY <1>1, <1>3 DEF Applied
<1>7. StateOf(a).turn = a[1].turn /\ a[1].turn.scope = "ours"
  <2>1. CASE s = <<>>
    <3>1. st.phase = "awaiting" /\ a[1] = e
      BY <1>1, <1>2, <2>1 DEF Tells
    <3> QED
      BY <1>3, <3>1, NextTurn DEF Applied
  <2>2. CASE s # <<>>
    <3>1. st.phase # "awaiting" /\ a[1] = s[1] /\ st.turn = s[1].turn /\ s[1].turn.scope = "ours"
      BY <1>1, <1>2, <2>2 DEF Tells
    <3> QED
      BY <1>3, <3>1 DEF Applied
  <2> QED
    BY <2>1, <2>2
<1>8. ASSUME NEW i \in 1..Len(a), Ends(a[i]) PROVE StateOf(a).phase = "terminal"
  <2>1. i \notin 1..Len(s)
    BY <1>1, <1>2, <1>4, <1>8 DEF Tells
  <2>2. a[i] = e
    BY <1>1, <2>1
  <2> QED
    BY <1>3, <1>8, <2>2 DEF Applied
<1>9. ASSUME StateOf(a).usage.has # "null" PROVE \E j \in 1..Len(a) : a[j].kind = "usage"
  <2>1. CASE e.kind = "usage"
    BY <1>1, <2>1
  <2>2. CASE e.kind # "usage"
    <3>1. st.usage.has # "null"
      BY <1>3, <1>9, <2>2 DEF Applied
    <3>2. PICK j \in 1..Len(s) : s[j].kind = "usage"
      BY <1>2, <3>1 DEF Tells
    <3> QED
      BY <1>1, <3>2
  <2> QED
    BY <2>1, <2>2
<1>10. ASSUME NEW j \in 1..Len(a), a[j].kind = "usage", a[j].usage.has = "available"
       PROVE  /\ StateOf(a).usage.has = "available"
              /\ StateOf(a).usage.in >= a[j].usage.in
              /\ StateOf(a).usage.out >= a[j].usage.out
  <2>0. e.usage \in Usages /\ st.usage \in Usages
    BY <1>2 DEF EventRow, StreamRow
  <2>1. CASE j \in 1..Len(s)
    <3>1. /\ st.usage.has = "available"
          /\ st.usage.in >= a[j].usage.in /\ st.usage.out >= a[j].usage.out
          /\ a[j].usage \in Usages
      <4>1. a[j] = s[j] /\ s[j] \in EventRow
        BY <1>1, <2>1
      <4>2. s[j].usage \in Usages
        BY <4>1 DEF EventRow
      <4> QED
        BY <1>2, <1>10, <2>1, <4>1, <4>2 DEF Tells
    <3>2. CASE e.kind = "usage"
      <4>1. StateOf(a).usage = e.usage
        BY <1>3, <3>2 DEF Applied
      <4> QED
        BY <1>4, <2>0, <3>1, <3>2, <4>1 DEF Usages
    <3>3. CASE e.kind # "usage"
      <4>1. StateOf(a).usage = st.usage
        BY <1>3, <3>3 DEF Applied
      <4> QED
        BY <3>1, <4>1
    <3> QED
      BY <3>2, <3>3
  <2>2. CASE j \notin 1..Len(s)
    <3>1. a[j] = e
      BY <1>1, <2>2
    <3>2. StateOf(a).usage = e.usage
      BY <1>3, <1>10, <3>1 DEF Applied
    <3> QED
      BY <1>10, <2>0, <3>1, <3>2 DEF Usages
  <2> QED
    BY <2>1, <2>2
<1> HIDE DEF a
<1> QED
  BY <1>5, <1>6, <1>7, <1>8, <1>9, <1>10 DEF Tells, a

\* A well-formed journal is well-formed with the new event.
LEMMA FormedAppend ==
    ASSUME NEW s \in Seq(EventRow), NEW e \in EventRow, Kept(s), ~Rejects(StateOf(s), e, NodePolicy)
    PROVE  Formed(Append(s, e))
<1> DEFINE a == Append(s, e)
           st == StateOf(s)
<1>1. /\ a # <<>> /\ Len(a) = Len(s) + 1 /\ Len(s) \in Nat /\ a[Len(s) + 1] = e
      /\ \A i \in 1..Len(s) : a[i] = s[i]
  BY Longer
<1>2. Tells(s) /\ Formed(s) /\ st \in StreamRow
  BY ExpectedTypes DEF Kept
<1>3. /\ (st.phase = "awaiting") <=> (e.kind = "accepted")
      /\ st.phase # "terminal"
      /\ e.kind = "usage" /\ st.usage.has = "available" =>
           e.usage.has = "available" /\ e.usage.in >= st.usage.in /\ e.usage.out >= st.usage.out
      /\ Ends(e) => st.usage.has # "null"
  BY <1>2, Admits
<1>4. (s = <<>>) <=> (e.kind = "accepted")
  BY <1>2, <1>3 DEF Tells
<1>5. ASSUME NEW i \in 1..Len(a)
      PROVE  /\ (i = 1) <=> (a[i].kind = "accepted")
             /\ a[i].turn = a[1].turn /\ a[i].turn.scope = "ours"
             /\ Ends(a[i]) => i = Len(a) /\ \E j \in 1..i : a[j].kind = "usage"
             /\ \A j \in 1..i - 1 :
                   a[i].kind = "usage" /\ a[j].kind = "usage" /\ a[j].usage.has = "available" =>
                       a[i].usage.in >= a[j].usage.in /\ a[i].usage.out >= a[j].usage.out
  <2>1. CASE i \in 1..Len(s)
    <3>1. /\ a[i] = s[i] /\ a[1] = s[1] /\ \A j \in 1..i - 1 : a[j] = s[j]
      BY <1>1, <2>1
    <3>2. /\ (i = 1) <=> (s[i].kind = "accepted")
          /\ s[i].turn = s[1].turn /\ s[i].turn.scope = "ours"
          /\ \A j \in 1..i - 1 :
                s[i].kind = "usage" /\ s[j].kind = "usage" /\ s[j].usage.has = "available" =>
                    s[i].usage.in >= s[j].usage.in /\ s[i].usage.out >= s[j].usage.out
      BY <1>2, <2>1 DEF Formed
    <3>3. ~Ends(s[i])
      BY <1>2, <1>3, <2>1 DEF Tells
    <3> QED
      BY <3>1, <3>2, <3>3
  <2>2. CASE i = Len(s) + 1
    <3>1. a[i] = e
      BY <1>1, <2>2
    <3>2. (i = 1) <=> (a[i].kind = "accepted")
      <4>1. (i = 1) <=> (s = <<>>)
        BY <1>1, <2>2
      <4> QED
        BY <1>4, <3>1, <4>1
    <3>3. a[i].turn = a[1].turn /\ a[i].turn.scope = "ours"
      <4>1. CASE s = <<>>
        <5>1. a[1] = e
          BY <1>1, <4>1
        <5> QED
          BY <3>1, <5>1, NextTurn
      <4>2. CASE s # <<>>
        <5>1. a[1] = s[1] /\ e.turn = s[1].turn /\ e.turn.scope = "ours"
          BY <1>1, <4>2, NextTurn
        <5> QED
          BY <3>1, <5>1
      <4> QED
        BY <4>1, <4>2
    <3>4. ASSUME Ends(a[i]) PROVE i = Len(a) /\ \E j \in 1..i : a[j].kind = "usage"
      <4>1. st.usage.has # "null"
        BY <1>3, <3>1, <3>4
      <4>2. PICK j \in 1..Len(s) : s[j].kind = "usage"
        BY <1>2, <4>1 DEF Tells
      <4> QED
        BY <1>1, <2>2, <4>2
    <3>5. ASSUME NEW j \in 1..i - 1,
                 a[i].kind = "usage", a[j].kind = "usage", a[j].usage.has = "available"
          PROVE  a[i].usage.in >= a[j].usage.in /\ a[i].usage.out >= a[j].usage.out
      <4>1. j \in 1..Len(s) /\ a[j] = s[j] /\ s[j] \in EventRow
        BY <1>1, <2>2
      <4>2. /\ st.usage.has = "available"
            /\ st.usage.in >= s[j].usage.in /\ st.usage.out >= s[j].usage.out
        BY <1>2, <3>5, <4>1 DEF Tells
      <4>3. e.usage.in >= st.usage.in /\ e.usage.out >= st.usage.out
        BY <1>3, <3>1, <3>5, <4>2
      <4>4. e.usage \in Usages /\ st.usage \in Usages /\ s[j].usage \in Usages
        BY <1>2, <4>1 DEF EventRow, StreamRow
      <4>5. \A u \in Usages : u.in \in Nat /\ u.out \in Nat
        BY DEF Usages
      <4>6. e.usage.in >= s[j].usage.in /\ e.usage.out >= s[j].usage.out
        BY <4>2, <4>3, <4>4, <4>5
      <4> QED
        BY <3>1, <4>1, <4>6
    <3> QED
      BY <3>2, <3>3, <3>4, <3>5
  <2> QED
    BY <1>1, <2>1, <2>2
<1> HIDE DEF a
<1> QED
  BY <1>5 DEF Formed, a

\* A journal keeps its rules when it takes what the reducer accepts.
LEMMA KeptAppend ==
    ASSUME NEW s \in Seq(EventRow), NEW e \in EventRow, Kept(s), ~Rejects(StateOf(s), e, NodePolicy)
    PROVE  /\ Kept(Append(s, e))
           /\ StateOf(Append(s, e)) = Applied(StateOf(s), e)
<1>1. Kept(Append(s, e))
  BY ValidAppend, TellsAppend, FormedAppend DEF Kept
<1>2. StateOf(Append(s, e)) = Applied(StateOf(s), e)
  BY NextTurn, StateAppend
<1> QED
  BY <1>1, <1>2

-----------------------------------------------------------------------------
(* Events within the grant *)

\* The artifacts of a sequence of events.
LEMMA ArtifactsAppend ==
    /\ ArtifactsOf(<<>>) = {}
    /\ \A s \in Seq(EventRow) : ArtifactsOf(s) \in SUBSET Artifacts
    /\ \A s \in Seq(EventRow), e \in EventRow : ArtifactsOf(Append(s, e)) = ArtifactsOf(s) \cup e.arts
<1>1. ArtifactsOf(<<>>) = {}
  BY DEF ArtifactsOf
<1>2. ASSUME NEW s \in Seq(EventRow) PROVE ArtifactsOf(s) \in SUBSET Artifacts
  <2>1. \A i \in DOMAIN s : s[i].arts \in SUBSET Artifacts
    <3>1. \A i \in DOMAIN s : s[i] \in EventRow
      OBVIOUS
    <3> QED
      BY <3>1 DEF EventRow
  <2> QED
    BY <2>1 DEF ArtifactsOf
<1>3. ASSUME NEW s \in Seq(EventRow), NEW e \in EventRow
      PROVE  ArtifactsOf(Append(s, e)) = ArtifactsOf(s) \cup e.arts
  <2> DEFINE a == Append(s, e)
             n == Len(s)
  <2>1. /\ n \in Nat /\ DOMAIN a = 1..(n + 1) /\ DOMAIN s = 1..n /\ a[n + 1] = e
        /\ \A i \in 1..n : a[i] = s[i]
    BY Longer
  <2>2. 1..(n + 1) = 1..n \cup {n + 1}
    BY <2>1
  <2>3. ArtifactsOf(a) = UNION {a[i].arts : i \in 1..n \cup {n + 1}}
    BY <2>1, <2>2 DEF ArtifactsOf
  <2>4. ArtifactsOf(s) = UNION {s[i].arts : i \in 1..n}
    BY <2>1 DEF ArtifactsOf
  <2>5. \A i \in 1..n : a[i].arts = s[i].arts
    BY <2>1
  <2>6. a[n + 1].arts = e.arts
    BY <2>1
  <2> HIDE DEF a, n
  <2>7. ASSUME NEW v PROVE v \in ArtifactsOf(a) <=> v \in ArtifactsOf(s) \cup e.arts
    BY <2>3, <2>4, <2>5, <2>6
  <2>8. ArtifactsOf(a) = ArtifactsOf(s) \cup e.arts
    BY <2>7
  <2> QED
    BY <2>8 DEF a
<1> QED
  BY <1>1, <1>2, <1>3

\* Nothing is within every grant.
LEMMA GrantedNothing == Granted(<<>>) /\ TextOf(<<>>) = 0 /\ ArtifactsOf(<<>>) = {}
<1>1. TextOf(<<>>) = 0 /\ ArtifactsOf(<<>>) = {}
  BY TextAppend, ArtifactsAppend
<1>2. Cardinality({}) = 0 /\ Bytes({}) = 0
  BY FS_EmptySet, BytesOf
<1>3. /\ Limits.output \in Nat /\ Limits.artifacts \in Nat /\ Limits.artifactBytes \in Nat
  BY StreamAssumption
<1>4. DOMAIN <<>> = {}
  OBVIOUS
<1>5. \A i \in DOMAIN <<>> : FALSE
  BY <1>4
<1>6. Granted(<<>>)
  <2>1. /\ TextOf(<<>>) <= Limits.output
        /\ Cardinality(ArtifactsOf(<<>>)) <= Limits.artifacts
        /\ Bytes(ArtifactsOf(<<>>)) <= Limits.artifactBytes
        /\ ArtifactsOf(<<>>) \cap Forbidden = {}
    <3>1. TextOf(<<>>) <= Limits.output
      BY <1>1, <1>3
    <3>2. Cardinality(ArtifactsOf(<<>>)) = 0 /\ Bytes(ArtifactsOf(<<>>)) = 0
      BY <1>1, <1>2, Zenon
    <3>3. ArtifactsOf(<<>>) \cap Forbidden = {}
      BY <1>1, Zenon
    <3> QED
      BY <1>3, <3>1, <3>2, <3>3
  <2> QED
    BY <1>5, <2>1, Zenon DEF Granted
<1> QED
  BY <1>1, <1>6

\* An event that is not denied, measured with what has been published, keeps
\* what is published within the grant.
LEMMA GrantedAppend ==
    ASSUME NEW s \in Seq(EventRow), NEW e \in EventRow, NEW st \in StreamRow,
           Granted(s), st.out = TextOf(s), st.arts = ArtifactsOf(s), ~Denied(Applied(st, e), e)
    PROVE  /\ Granted(Append(s, e))
           /\ Applied(st, e).out = TextOf(Append(s, e))
           /\ Applied(st, e).arts = ArtifactsOf(Append(s, e))
<1> DEFINE a == Append(s, e)
           t == Applied(st, e)
<1>1. /\ DOMAIN a = 1..(Len(s) + 1) /\ DOMAIN s = 1..Len(s) /\ Len(s) \in Nat /\ a[Len(s) + 1] = e
      /\ \A i \in 1..Len(s) : a[i] = s[i]
  BY Longer
<1>2. TextOf(a) = TextOf(s) + e.text /\ ArtifactsOf(a) = ArtifactsOf(s) \cup e.arts
  BY TextAppend, ArtifactsAppend
<1>3. t.out = TextOf(a) /\ t.arts = ArtifactsOf(a)
  BY <1>2 DEF Applied
<1>4. /\ e.text \in Nat /\ st.out \in Nat /\ t.out \in Nat /\ t.arts \in SUBSET Artifacts
      /\ e.arts \in SUBSET Artifacts /\ e.usage \in Usages
  BY StreamTypes DEF StreamRow, EventRow
<1>5. Cardinality(t.arts) \in Nat /\ Bytes(t.arts) \in Nat
  <2>1. IsFiniteSet(t.arts)
    BY <1>4, StreamAssumption, FS_Subset
  <2> QED
    BY <1>4, <2>1, FS_CardinalityType, BytesOf
<1>6. /\ Limits.output \in Nat /\ Limits.artifacts \in Nat /\ Limits.artifactBytes \in Nat
      /\ Limits.tokens \in Nat
  BY StreamAssumption
<1>7. /\ ~(e.text > 0 /\ t.out > Limits.output)
      /\ ~(e.kind = "usage" /\ e.usage.has = "available" /\ e.usage.in + e.usage.out > Limits.tokens)
      /\ e.arts # {} => /\ ~(Cardinality(t.arts) > Limits.artifacts)
                        /\ ~(Bytes(t.arts) > Limits.artifactBytes)
                        /\ e.arts \cap Forbidden = {}
  BY DEF Denied
<1> HIDE DEF a, t
<1>8. TextOf(a) <= Limits.output
  <2>1. CASE e.text > 0
    BY <1>3, <1>4, <1>6, <1>7, <2>1
  <2>2. CASE e.text = 0
    BY <1>2, <1>4, <2>2 DEF Granted
  <2> QED
    BY <1>4, <2>1, <2>2
<1>9. /\ Cardinality(ArtifactsOf(a)) <= Limits.artifacts
      /\ Bytes(ArtifactsOf(a)) <= Limits.artifactBytes
      /\ ArtifactsOf(a) \cap Forbidden = {}
  <2>1. CASE e.arts # {}
    <3>1. Cardinality(t.arts) <= Limits.artifacts /\ Bytes(t.arts) <= Limits.artifactBytes
      BY <1>5, <1>6, <1>7, <2>1
    <3> QED
      BY <1>2, <1>3, <1>7, <2>1, <3>1 DEF Granted
  <2>2. CASE e.arts = {}
    <3>1. ArtifactsOf(a) = ArtifactsOf(s)
      BY <1>2, <2>2
    <3> QED
      BY <3>1 DEF Granted
  <2> QED
    BY <2>1, <2>2
<1>10. ASSUME NEW i \in DOMAIN a, a[i].kind = "usage", a[i].usage.has = "available"
       PROVE  a[i].usage.in + a[i].usage.out <= Limits.tokens
  <2>1. CASE i \in 1..Len(s)
    BY <1>1, <1>10, <2>1 DEF Granted
  <2>2. CASE i = Len(s) + 1
    <3>1. a[i] = e
      BY <1>1, <2>2
    <3> QED
      BY <1>4, <1>6, <1>7, <1>10, <3>1 DEF Usages
  <2> QED
    BY <1>1, <2>1, <2>2
<1>11. Granted(a)
  BY <1>8, <1>9, <1>10 DEF Granted
<1> QED
  BY <1>3, <1>11 DEF a, t

-----------------------------------------------------------------------------
(* What is read of a history, step by step *)

Frames == EventRow \cup {End, Error}

\* A new connection has read nothing.
LEMMA ReadsNothing ==
    ASSUME NEW h \in Seq(EventRow), NEW j \in Seq(EventRow)
    PROVE  Reads(h, j, <<>>, 0, 0)
<1>1. SubSeq(h, 1, 0) = <<>>
  OBVIOUS
<1>2. \A m \in 0..0 : Granted(SubSeq(h, 1, m))
  <2>1. \A m \in 0..0 : m = 0
    OBVIOUS
  <2>2. Granted(SubSeq(h, 1, 0))
    BY <1>1, GrantedNothing
  <2> QED
    BY <2>1, <2>2
<1>3. Len(<<>>) = 0 /\ Len(h) \in Nat /\ Len(j) \in Nat
  OBVIOUS
<1> QED
  BY <1>2, <1>3 DEF Reads

\* Later events of the runtime are not on the wire.
LEMMA ReadsGrows ==
    ASSUME NEW h \in Seq(EventRow), NEW e \in EventRow, NEW j, NEW w, NEW k, NEW p,
           Reads(h, j, w, k, p), Len(w) \in Nat
    PROVE  Reads(Append(h, e), j, w, k, p)
<1> DEFINE a == Append(h, e)
<1>1. /\ Len(a) = Len(h) + 1 /\ Len(h) \in Nat /\ \A i \in 1..Len(h) : a[i] = h[i]
      /\ \A m \in 0..Len(h) : SubSeq(a, 1, m) = SubSeq(h, 1, m)
  BY Longer
<1> HIDE DEF a
<1>2. /\ k \in Nat /\ p \in Nat /\ k <= p /\ k <= Len(j) /\ p <= Len(h) /\ Len(w) >= p - k
      /\ \A i \in 1..k : j[i] = h[i]
      /\ \A i \in 1..p : h[i].seq = i
      /\ \A m \in 0..p : Granted(SubSeq(h, 1, m))
      /\ \A i \in 1..Len(w) : IF i <= p - k THEN w[i] = h[k + i] ELSE w[i] \in {End, Error}
  BY DEF Reads
<1>3. p <= Len(a) /\ \A i \in 1..k : j[i] = a[i]
  <2>1. \A i \in 1..k : i \in 1..Len(h)
    BY <1>1, <1>2
  <2>2. \A i \in 1..k : j[i] = a[i]
    BY <1>1, <1>2, <2>1
  <2> QED
    BY <1>1, <1>2, <2>2
<1>4. ASSUME NEW i \in 1..p PROVE a[i].seq = i
  <2>1. i \in 1..Len(h)
    BY <1>1, <1>2
  <2>2. a[i] = h[i]
    BY <1>1, <2>1
  <2> QED
    BY <1>2, <2>2
<1>5. ASSUME NEW m \in 0..p PROVE Granted(SubSeq(a, 1, m))
  <2>1. m \in 0..Len(h)
    BY <1>1, <1>2
  <2>2. SubSeq(a, 1, m) = SubSeq(h, 1, m) /\ Granted(SubSeq(h, 1, m))
    BY <1>1, <1>2, <2>1
  <2> QED
    BY <2>2
<1>6. \A i \in 1..Len(w) : IF i <= p - k THEN w[i] = a[k + i] ELSE w[i] \in {End, Error}
  <2>1. \A i \in 1..Len(w) : i <= p - k => k + i \in 1..Len(h)
    BY <1>1, <1>2
  <2> QED
    BY <1>1, <1>2, <2>1
<1>7. Reads(a, j, w, k, p)
  BY <1>2, <1>3, <1>4, <1>5, <1>6 DEF Reads
<1> QED
  BY <1>7 DEF a

\* Nor does a longer journal change what has been read.
LEMMA ReadsJournal ==
    ASSUME NEW h, NEW j \in Seq(EventRow), NEW e \in EventRow, NEW w, NEW k, NEW p,
           Reads(h, j, w, k, p)
    PROVE  Reads(h, Append(j, e), w, k, p)
<1> DEFINE a == Append(j, e)
<1>1. Len(a) = Len(j) + 1 /\ Len(j) \in Nat /\ \A i \in 1..Len(j) : a[i] = j[i]
  BY Longer
<1>2. k \in Nat /\ k <= Len(j) /\ \A i \in 1..k : j[i] = h[i]
  BY DEF Reads
<1> HIDE DEF a
<1>3. k <= Len(a) /\ \A i \in 1..k : a[i] = h[i]
  BY <1>1, <1>2
<1>4. Reads(h, a, w, k, p)
  BY <1>3 DEF Reads
<1> QED
  BY <1>4 DEF a

\* A last word follows everything that is on the wire.
LEMMA ReadsLast ==
    ASSUME NEW h, NEW j, NEW w \in Seq(Frames), NEW k, NEW p, NEW x \in {End, Error},
           Reads(h, j, w, k, p)
    PROVE  Reads(h, j, Append(w, x), k, p)
<1> DEFINE a == Append(w, x)
<1>0. x \in Frames
  BY DEF Frames
<1>1. /\ Len(a) = Len(w) + 1 /\ Len(w) \in Nat /\ a[Len(w) + 1] = x
      /\ \A i \in 1..Len(w) : a[i] = w[i]
  BY <1>0
<1>2. /\ k \in Nat /\ p \in Nat /\ Len(w) >= p - k
      /\ \A i \in 1..Len(w) : IF i <= p - k THEN w[i] = h[k + i] ELSE w[i] \in {End, Error}
  BY DEF Reads
<1> HIDE DEF a
<1>3. ASSUME NEW i \in 1..Len(a)
      PROVE  IF i <= p - k THEN a[i] = h[k + i] ELSE a[i] \in {End, Error}
  <2>1. CASE i \in 1..Len(w)
    BY <1>1, <1>2, <2>1
  <2>2. CASE i \notin 1..Len(w)
    <3>1. i = Len(w) + 1
      BY <1>1, <2>2
    <3> QED
      BY <1>1, <1>2, <3>1
  <2> QED
    BY <2>1, <2>2
<1>4. Len(a) >= p - k
  BY <1>1, <1>2
<1>5. Reads(h, j, a, k, p)
  BY <1>3, <1>4 DEF Reads
<1> QED
  BY <1>5 DEF a

\* A broken connection loses the last frames.
LEMMA ReadsCut ==
    ASSUME NEW h \in Seq(EventRow), NEW j, NEW w \in Seq(Frames), NEW k, NEW p, NEW n \in 0..Len(w),
           Reads(h, j, w, k, p), Len(w) = p - k
    PROVE  Reads(h, j, Append(SubSeq(w, 1, n), Error), k, k + n)
<1> DEFINE c == SubSeq(w, 1, n)
<1>1. /\ c \in Seq(Frames) /\ Len(c) = n /\ n \in Nat /\ n <= Len(w) /\ Len(w) \in Nat
      /\ \A i \in 1..n : c[i] = w[i]
  OBVIOUS
<1>2. /\ k \in Nat /\ p \in Nat /\ k <= p /\ k <= Len(j) /\ p <= Len(h)
      /\ \A i \in 1..k : j[i] = h[i]
      /\ \A i \in 1..p : h[i].seq = i
      /\ \A m \in 0..p : Granted(SubSeq(h, 1, m))
      /\ \A i \in 1..Len(w) : IF i <= p - k THEN w[i] = h[k + i] ELSE w[i] \in {End, Error}
  BY DEF Reads
<1> HIDE DEF c
<1>3. k + n \in Nat /\ k <= k + n /\ k + n <= p /\ k + n - k = n
  BY <1>1, <1>2
<1>4. k + n <= Len(h)
  <2>1. Len(h) \in Nat
    OBVIOUS
  <2> QED
    BY <1>2, <1>3, <2>1
<1>5. \A i \in 1..k + n : h[i].seq = i
  BY <1>2, <1>3
<1>6. \A m \in 0..k + n : Granted(SubSeq(h, 1, m))
  BY <1>2, <1>3
<1>7. ASSUME NEW i \in 1..n PROVE c[i] = h[k + i]
  <2>1. i \in 1..Len(w) /\ i <= p - k
    BY <1>1
  <2> QED
    BY <1>1, <1>2, <2>1
<1>8. Reads(h, j, c, k, k + n)
  BY <1>1, <1>2, <1>3, <1>4, <1>5, <1>6, <1>7 DEF Reads
<1>9. Error \in {End, Error}
  OBVIOUS
<1> QED
  BY <1>1, <1>8, <1>9, ReadsLast DEF c

\* The next frame is the next event of the history, or the last word.
LEMMA ReadsHead ==
    ASSUME NEW h \in Seq(EventRow), NEW j \in Seq(EventRow), NEW w \in Seq(Frames), NEW k, NEW p,
           Reads(h, j, w, k, p), w # <<>>
    PROVE  /\ Head(w).kind \in {"end", "error"} => Len(w) # p - k
           /\ Head(w).kind \notin {"end", "error"} =>
                /\ k + 1 <= p /\ p <= Len(h) /\ Head(w) = h[k + 1] /\ Head(w) \in EventRow
                /\ Head(w).seq = k + 1
                /\ Granted(SubSeq(h, 1, k + 1))
                /\ k + 1 <= Len(j) /\ j[k + 1] = Head(w) => Reads(h, j, Tail(w), k + 1, p)
<1> DEFINE f == Head(w)
<1>1. f = w[1] /\ Len(w) \in Nat /\ Len(w) >= 1
  OBVIOUS
<1>2. /\ k \in Nat /\ p \in Nat /\ k <= p /\ k <= Len(j) /\ p <= Len(h) /\ Len(w) >= p - k
      /\ \A i \in 1..k : j[i] = h[i]
      /\ \A i \in 1..p : h[i].seq = i
      /\ \A m \in 0..p : Granted(SubSeq(h, 1, m))
      /\ \A i \in 1..Len(w) : IF i <= p - k THEN w[i] = h[k + i] ELSE w[i] \in {End, Error}
  BY DEF Reads
<1>3. Len(h) \in Nat /\ Len(j) \in Nat
  OBVIOUS
<1>4. CASE 1 <= p - k
  <2>1. f = h[k + 1] /\ k + 1 \in 1..Len(h) /\ k + 1 \in 1..p
    BY <1>1, <1>2, <1>3, <1>4
  <2>2. f \in EventRow /\ f.seq = k + 1 /\ Granted(SubSeq(h, 1, k + 1))
    BY <1>2, <2>1
  <2>3. f.kind \notin {"end", "error"}
    BY <2>2 DEF EventRow, Kinds
  <2>4. ASSUME k + 1 <= Len(j), j[k + 1] = f PROVE Reads(h, j, Tail(w), k + 1, p)
    <3> DEFINE c == Tail(w)
    <3>1. Len(c) = Len(w) - 1 /\ \A i \in 1..Len(c) : c[i] = w[i + 1]
      BY <1>1
    <3> HIDE DEF c
    <3>2. \A i \in 1..k + 1 : j[i] = h[i]
      BY <1>2, <2>1, <2>4
    <3>3. k + 1 \in Nat /\ k + 1 <= p /\ Len(c) >= p - (k + 1)
      BY <1>1, <1>2, <1>4, <3>1
    <3>4. ASSUME NEW i \in 1..Len(c)
          PROVE  IF i <= p - (k + 1) THEN c[i] = h[(k + 1) + i] ELSE c[i] \in {End, Error}
      <4>0. c[i] = w[i + 1]
        BY <3>1
      <4>1. i + 1 \in 1..Len(w) /\ c[i] = w[i + 1] /\ k + (i + 1) = (k + 1) + i
        <5>1. i \in Nat /\ 1 <= i /\ i <= Len(w) - 1
          BY <1>1, <3>1
        <5>2. i + 1 \in 1..Len(w)
          BY <1>1, <5>1
        <5>3. k + (i + 1) = (k + 1) + i
          BY <1>2, <5>1
        <5> QED
          BY <4>0, <5>2, <5>3
      <4>2. (i + 1 <= p - k) <=> (i <= p - (k + 1))
        BY <1>2
      <4> QED
        BY <1>2, <4>1, <4>2
    <3>5. Reads(h, j, c, k + 1, p)
      BY <1>2, <2>4, <3>2, <3>3, <3>4 DEF Reads
    <3> QED
      BY <3>5 DEF c
  <2> QED
    BY <1>2, <1>4, <2>1, <2>2, <2>3, <2>4
<1>5. CASE ~(1 <= p - k)
  <2>1. f \in {End, Error} /\ Len(w) # p - k
    BY <1>1, <1>2, <1>5
  <2>2. f.kind \in {"end", "error"}
    BY <2>1 DEF End, Error
  <2> QED
    BY <2>1, <2>2
<1> QED
  BY <1>4, <1>5

\* The next event of the history leaves the Capsule.
LEMMA ReadsNext ==
    ASSUME NEW h \in Seq(EventRow), NEW j, NEW w \in Seq(Frames), NEW k, NEW p,
           Reads(h, j, w, k, p), Len(w) = p - k,
           p < Len(h), h[p + 1].seq = p + 1, Granted(SubSeq(h, 1, p + 1))
    PROVE  Reads(h, j, Append(w, h[p + 1]), k, p + 1)
<1> DEFINE a == Append(w, h[p + 1])
<1>1. /\ k \in Nat /\ p \in Nat /\ k <= p /\ k <= Len(j) /\ p <= Len(h)
      /\ \A i \in 1..k : j[i] = h[i]
      /\ \A i \in 1..p : h[i].seq = i
      /\ \A m \in 0..p : Granted(SubSeq(h, 1, m))
      /\ \A i \in 1..Len(w) : IF i <= p - k THEN w[i] = h[k + i] ELSE w[i] \in {End, Error}
  BY DEF Reads
<1>2. Len(h) \in Nat /\ p + 1 \in 1..Len(h)
  BY <1>1
<1>3. h[p + 1] \in Frames
  BY <1>2 DEF Frames
<1>4. /\ Len(a) = Len(w) + 1 /\ Len(w) \in Nat /\ a[Len(w) + 1] = h[p + 1]
      /\ \A i \in 1..Len(w) : a[i] = w[i]
  BY <1>3
<1> HIDE DEF a
<1>5. \A i \in 1..p + 1 : h[i].seq = i
  BY <1>1
<1>6. \A m \in 0..p + 1 : Granted(SubSeq(h, 1, m))
  <2>1. \A m \in 0..p + 1 : m \in 0..p \/ m = p + 1
    BY <1>1
  <2> QED
    BY <1>1, <2>1
<1>7. ASSUME NEW i \in 1..Len(a)
      PROVE  IF i <= (p + 1) - k THEN a[i] = h[k + i] ELSE a[i] \in {End, Error}
  <2>1. i <= (p + 1) - k
    BY <1>1, <1>4
  <2>2. CASE i \in 1..Len(w)
    BY <1>1, <1>4, <2>1, <2>2
  <2>3. CASE i = Len(w) + 1
    <3>1. k + i = p + 1
      BY <1>1, <2>3
    <3> QED
      BY <1>4, <2>1, <2>3, <3>1
  <2> QED
    BY <1>4, <2>2, <2>3
<1>8. p + 1 \in Nat /\ k <= p + 1 /\ p + 1 <= Len(h) /\ Len(a) >= (p + 1) - k
  BY <1>1, <1>2, <1>4
<1>9. Reads(h, j, a, k, p + 1)
  BY <1>1, <1>5, <1>6, <1>7, <1>8 DEF Reads
<1> QED
  BY <1>9 DEF a

-----------------------------------------------------------------------------
(* The invariant is kept *)

\* The values that states are made of.
LEMMA RowTypes ==
    /\ AnyOurs \in Turns
    /\ NewStream(AnyOurs) \in StreamRow
    /\ Idle \in [on : BOOLEAN, st : StreamRow, pos : 0..MaxLog] /\ ~Idle.on
    /\ NotReading \in [pc : {"off", "reading", "done"}, st : StreamRow] /\ NotReading.pc = "off"
    /\ \A n \in Nat : Odd(n) \cup Proper(n) \in SUBSET EventRow
<1>1. AnyOurs \in Turns
  BY DEF AnyOurs, Turns, Scopes
<1>2. NewStream(AnyOurs) \in StreamRow
  BY <1>1, StreamTypes
<1>3. MaxLog \in Nat
  BY StreamAssumption
<1>4. Idle \in [on : BOOLEAN, st : StreamRow, pos : 0..MaxLog] /\ ~Idle.on
  <2>1. 0 \in 0..MaxLog
    BY <1>3
  <2> QED
    BY <1>2, <2>1 DEF Idle
<1>5. NotReading \in [pc : {"off", "reading", "done"}, st : StreamRow] /\ NotReading.pc = "off"
  BY <1>2 DEF NotReading
<1>6. ASSUME NEW n \in Nat PROVE Odd(n) \cup Proper(n) \in SUBSET EventRow
  <2>1. ASSUME NEW m \in Nat, NEW x \in [id : 1..2, scope : Scopes], NEW q \in Payloads
        PROVE  Event(m, x, q) \in EventRow
    <3>1. q \in [kind : Kinds, text : Nat, arts : SUBSET Artifacts, usage : Usages]
      BY StreamAssumption
    <3> QED
      BY <3>1 DEF Event, EventRow
  <2>2. /\ Ours \in [id : 1..2, scope : Scopes]
        /\ [Ours EXCEPT !.id = 2] \in [id : 1..2, scope : Scopes]
        /\ [Ours EXCEPT !.scope = "other"] \in [id : 1..2, scope : Scopes]
    BY DEF Ours, Scopes
  <2>3. n + 1 \in Nat
    OBVIOUS
  <2>4. Proper(n) \in SUBSET EventRow
    BY <2>1, <2>2 DEF Proper
  <2>5. Odd(n) \in SUBSET EventRow
    BY <2>1, <2>2, <2>3 DEF Odd
  <2> QED
    BY <2>4, <2>5
<1> QED
  BY <1>1, <1>2, <1>4, <1>5, <1>6

\* The empty state.
LEMMA StreamStarts == StreamInit => StreamInv
<1> SUFFICES ASSUME StreamInit PROVE StreamInv
  OBVIOUS
<1> USE DEF StreamInit
<1>1. /\ log = <<>> /\ before = <<>> /\ wire = <<>> /\ journal = <<>>
      /\ <<>> \in Seq(EventRow) /\ <<>> \in Seq(EventRow \cup {End, Error}) /\ Len(<<>>) = 0
  OBVIOUS
<1>2. StreamShape
  <2>1. Len(log) <= MaxLog /\ Len(before) <= MaxLog /\ breaks \in 0..MaxBreaks
    BY <1>1, StreamAssumption
  <2>2. /\ cap \in [on : BOOLEAN, st : StreamRow, pos : 0..MaxLog]
        /\ node \in [pc : {"off", "reading", "done"}, st : StreamRow]
    BY RowTypes
  <2> QED
    BY <1>1, <2>1, <2>2 DEF StreamShape
<1>3. NotRead /\ Reading /\ Shown
  <2>1. ~cap.on /\ node.pc = "off"
    BY RowTypes
  <2> QED
    BY <1>1, <2>1 DEF NotRead, Reading, Shown
<1>4. JournalInv
  <2>1. Starts(journal, log)
    BY <1>1 DEF Starts
  <2>2. Kept(journal) /\ Granted(journal)
    BY <1>1, KeptNothing, GrantedNothing
  <2>3. node.pc = "off"
    BY RowTypes
  <2> QED
    BY <2>1, <2>2, <2>3 DEF JournalInv
<1> QED
  BY <1>2, <1>3, <1>4 DEF StreamInv

\* The runtime's next event is on no wire and in no journal.
LEMMA EmitsKeeps ==
    ASSUME StreamInv, RuntimeEmits
    PROVE  StreamInv'
<1>1. PICK e \in EventRow : log' = Append(log, e)
  <2>1. Len(log) + 1 \in Nat
    BY DEF StreamInv, StreamShape
  <2>2. Odd(Len(log) + 1) \cup Proper(Len(log) + 1) \in SUBSET EventRow
    BY <2>1, RowTypes
  <2> QED
    BY <2>2 DEF RuntimeEmits
<1>2. /\ before' = before /\ cap' = cap /\ wire' = wire /\ journal' = journal /\ node' = node
      /\ revoked' = revoked /\ breaks' = breaks
      /\ log \in Seq(EventRow) /\ Len(wire) \in Nat /\ Len(log) < MaxLog
  BY DEF RuntimeEmits, StreamInv, StreamShape
<1>3. /\ log' \in Seq(EventRow) /\ Len(log') = Len(log) + 1 /\ Len(log) \in Nat
      /\ \A i \in 1..Len(log) : log'[i] = log[i]
      /\ \A m \in 0..Len(log) : SubSeq(log', 1, m) = SubSeq(log, 1, m)
  BY <1>1, <1>2, Longer
<1>4. StreamShape'
  <2>1. Len(log') <= MaxLog
    BY <1>2, <1>3, StreamAssumption
  <2> QED
    BY <1>2, <1>3, <2>1 DEF StreamInv, StreamShape
<1>5. NotRead'
  BY <1>2 DEF StreamInv, NotRead
<1>6. Reading'
  <2>1. ASSUME node.pc = "reading"
        PROVE  \E h \in {log', before}, k \in 0..Len(journal), p \in 0..MaxLog :
                   /\ Reads(h, journal, wire, k, p)
                   /\ cap.on => h = log' /\ p = cap.pos /\ Len(wire) = p - k
    <3>1. PICK h \in {log, before}, k \in 0..Len(journal), p \in 0..MaxLog :
             /\ Reads(h, journal, wire, k, p)
             /\ cap.on => h = log /\ p = cap.pos /\ Len(wire) = p - k
      BY <2>1 DEF StreamInv, Reading
    <3>2. CASE h = log
      <4>1. Reads(log', journal, wire, k, p)
        BY <1>1, <1>2, <3>1, <3>2, ReadsGrows
      <4> QED
        BY <3>1, <4>1
    <3>3. CASE h # log
      BY <3>1, <3>3
    <3> QED
      BY <3>2, <3>3
  <2> QED
    BY <1>2, <2>1 DEF Reading
<1>7. Shown'
  <2>1. ASSUME cap.on
        PROVE  /\ cap.pos <= Len(log') /\ cap.pos \in 0..Len(log)
               /\ SubSeq(log', 1, cap.pos) = SubSeq(log, 1, cap.pos)
    <3>1. cap.pos \in Nat /\ cap.pos <= Len(log)
      BY <2>1 DEF StreamInv, Shown, StreamShape
    <3> QED
      BY <1>3, <3>1
  <2> QED
    BY <1>2, <2>1 DEF StreamInv, Shown
<1>8. JournalInv'
  <2>1. Starts(journal, log) => Starts(journal, log')
    <3>1. Len(journal) \in Nat
      BY DEF StreamInv, StreamShape
    <3> QED
      BY <1>3, <3>1 DEF Starts
  <2> QED
    BY <1>2, <2>1 DEF StreamInv, JournalInv
<1> QED
  BY <1>4, <1>5, <1>6, <1>7, <1>8 DEF StreamInv

\* A connection starts with the journal replayed and nothing read.
LEMMA ConnectKeeps ==
    ASSUME StreamInv, Connect
    PROVE  StreamInv'
<1> DEFINE x == IF log = <<>> THEN AnyOurs ELSE log[1].turn
<1>1. /\ log' = log /\ before' = before /\ journal' = journal /\ revoked' = revoked /\ breaks' = breaks
      /\ wire' = <<>> /\ node' = [pc |-> "reading", st |-> StateOf(journal)]
      /\ cap' = [on |-> TRUE, pos |-> 0, st |-> NewStream(x)]
  BY Zenon DEF Connect, StateOf, ExpectedOf, Expected
<1>2. log \in Seq(EventRow) /\ journal \in Seq(EventRow) /\ MaxLog \in Nat
  BY StreamAssumption DEF StreamInv, StreamShape
<1>3. x \in Turns
  <2>1. CASE log = <<>>
    BY <2>1, RowTypes
  <2>2. CASE log # <<>>
    <3>1. log[1] \in EventRow
      BY <1>2, <2>2
    <3> QED
      BY <2>2, <3>1 DEF EventRow, Turns
  <2> QED
    BY <2>1, <2>2
<1> HIDE DEF x
<1>4. StreamShape'
  <2>1. StateOf(journal) \in StreamRow
    BY <1>2, ExpectedTypes
  <2>2. /\ cap' \in [on : BOOLEAN, st : StreamRow, pos : 0..MaxLog]
        /\ node' \in [pc : {"off", "reading", "done"}, st : StreamRow]
        /\ wire' \in Seq(EventRow \cup {End, Error})
    BY <1>1, <1>2, <1>3, <2>1, StreamTypes
  <2> QED
    BY <1>1, <2>2 DEF StreamInv, StreamShape
<1>5. NotRead'
  BY <1>1 DEF NotRead
<1>6. Reading'
  <2>1. Reads(log, journal, <<>>, 0, 0) /\ Len(<<>>) = 0
    BY <1>2, ReadsNothing
  <2>2. 0 \in 0..Len(journal) /\ 0 \in 0..MaxLog
    BY <1>2
  <2>3. cap'.on => 0 = cap'.pos /\ Len(wire') = 0 - 0
    BY <1>1, <2>1
  <2>4. \E h \in {log', before'}, k \in 0..Len(journal'), p \in 0..MaxLog :
            /\ Reads(h, journal', wire', k, p)
            /\ cap'.on => h = log' /\ p = cap'.pos /\ Len(wire') = p - k
    BY <1>1, <2>1, <2>2, <2>3
  <2> QED
    BY <2>4 DEF Reading
<1>7. Shown'
  <2>1. SubSeq(log, 1, 0) = <<>> /\ 0 <= Len(log)
    BY <1>2
  <2>2. cap'.pos = 0 /\ cap'.st.last = 0 /\ cap'.st.out = 0 /\ cap'.st.arts = {}
    BY <1>1 DEF NewStream
  <2>3. TextOf(SubSeq(log, 1, 0)) = 0 /\ ArtifactsOf(SubSeq(log, 1, 0)) = {}
    BY <2>1, GrantedNothing
  <2> QED
    BY <1>1, <2>1, <2>2, <2>3 DEF Shown
<1>8. JournalInv'
  <2>1. node'.st = StateOf(journal)
    BY <1>1
  <2> QED
    BY <1>1, <2>1 DEF StreamInv, JournalInv
<1> QED
  BY <1>4, <1>5, <1>6, <1>7, <1>8 DEF StreamInv

\* The Capsule's word that a stream is over is the last of it.
LEMMA LastWordKeeps ==
    ASSUME StreamInv, NEW x \in {End, Error}, cap.on, cap' = Idle, wire' = Append(wire, x),
           log' = log, before' = before, journal' = journal, node' = node,
           revoked' \in BOOLEAN, breaks' \in 0..MaxBreaks
    PROVE  StreamInv'
<1>1. /\ log \in Seq(EventRow) /\ journal \in Seq(EventRow) /\ wire \in Seq(Frames)
      /\ x \in Frames /\ Append(wire, x) \in Seq(Frames)
  BY DEF StreamInv, StreamShape, Frames
<1>2. cap' \in [on : BOOLEAN, st : StreamRow, pos : 0..MaxLog] /\ ~cap'.on
  BY RowTypes
<1>3. StreamShape'
  BY <1>1, <1>2 DEF StreamInv, StreamShape, Frames
<1>4. node.pc = "reading"
  BY DEF StreamInv, NotRead
<1>5. Reading'
  <2>1. PICK h \in {log, before}, k \in 0..Len(journal), p \in 0..MaxLog :
             Reads(h, journal, wire, k, p)
    BY <1>4 DEF StreamInv, Reading
  <2>2. Reads(h, journal, Append(wire, x), k, p)
    BY <1>1, <2>1, ReadsLast
  <2>3. \E g \in {log', before'}, l \in 0..Len(journal'), q \in 0..MaxLog :
            /\ Reads(g, journal', wire', l, q)
            /\ cap'.on => g = log' /\ q = cap'.pos /\ Len(wire') = q - l
    BY <1>2, <2>1, <2>2
  <2> QED
    BY <2>3 DEF Reading
<1>6. NotRead' /\ Shown'
  BY <1>2, <1>4 DEF NotRead, Shown
<1>7. JournalInv'
  BY DEF StreamInv, JournalInv
<1> QED
  BY <1>3, <1>5, <1>6, <1>7 DEF StreamInv

\* A refused or denied event is the end of its stream; one that leaves the
\* Capsule keeps what has been shown within the grant.
LEMMA ForwardKeeps ==
    ASSUME StreamInv, Forward
    PROVE  StreamInv'
<1> DEFINE e == log[cap.pos + 1]
           st == Applied(cap.st, e)
<1>1. /\ cap.on /\ cap.pos < Len(log)
      /\ log' = log /\ before' = before /\ journal' = journal /\ node' = node /\ breaks' = breaks
  BY DEF Forward
<1>2. /\ log \in Seq(EventRow) /\ journal \in Seq(EventRow) /\ wire \in Seq(Frames)
      /\ cap \in [on : BOOLEAN, st : StreamRow, pos : 0..MaxLog] /\ Len(log) <= MaxLog
      /\ revoked \in BOOLEAN /\ breaks \in 0..MaxBreaks
  BY DEF StreamInv, StreamShape, Frames
<1>3. cap.pos \in Nat /\ Len(log) \in Nat /\ cap.pos + 1 \in 1..Len(log) /\ cap.pos + 1 \in 0..MaxLog
  BY <1>1, <1>2, StreamAssumption
<1>4. e \in EventRow
  BY <1>2, <1>3
<1>5. CASE cap' = Idle /\ wire' = Append(wire, Error) /\ revoked' \in BOOLEAN
  BY <1>1, <1>2, <1>5, LastWordKeeps
<1>6. CASE /\ ~Rejects(cap.st, e, DefaultPolicy) /\ ~Denied(st, e)
           /\ cap' = [cap EXCEPT !.st = st, !.pos = @ + 1]
           /\ wire' = Append(wire, e) /\ revoked' = revoked
  <2>1. st \in StreamRow /\ cap'.on /\ cap'.st = st /\ cap'.pos = cap.pos + 1
        /\ cap' \in [on : BOOLEAN, st : StreamRow, pos : 0..MaxLog]
    <3>1. cap.st \in StreamRow
      BY <1>2
    <3>2. st \in StreamRow
      BY <1>4, <3>1, StreamTypes
    <3> QED
      BY <1>1, <1>2, <1>3, <1>6, <3>2
  <2>2. node.pc = "reading"
    BY <1>1 DEF StreamInv, NotRead
  <2>3. PICK h \in {log, before}, k \in 0..Len(journal), p \in 0..MaxLog :
             Reads(h, journal, wire, k, p) /\ h = log /\ p = cap.pos /\ Len(wire) = p - k
    BY <1>1, <2>2 DEF StreamInv, Reading
  <2>4. e.seq = cap.pos + 1 /\ cap.st \in StreamRow
        /\ cap.st.out = TextOf(SubSeq(log, 1, cap.pos))
        /\ cap.st.arts = ArtifactsOf(SubSeq(log, 1, cap.pos))
    <3>1. cap.st.last = cap.pos /\ cap.st.out = TextOf(SubSeq(log, 1, cap.pos))
          /\ cap.st.arts = ArtifactsOf(SubSeq(log, 1, cap.pos))
      BY <1>1 DEF StreamInv, Shown
    <3>2. cap.st \in StreamRow
      BY <1>2
    <3>3. e.seq = cap.st.last + 1
      BY <1>4, <1>6, <3>2, Admits
    <3> QED
      BY <3>1, <3>2, <3>3
  <2>5. /\ SubSeq(log, 1, cap.pos) \in Seq(EventRow)
        /\ SubSeq(log, 1, cap.pos + 1) = Append(SubSeq(log, 1, cap.pos), e)
    BY <1>2, <1>3
  <2>6. Granted(SubSeq(log, 1, cap.pos))
    BY <2>3 DEF Reads
  <2>7. /\ Granted(SubSeq(log, 1, cap.pos + 1))
        /\ st.out = TextOf(SubSeq(log, 1, cap.pos + 1))
        /\ st.arts = ArtifactsOf(SubSeq(log, 1, cap.pos + 1))
    BY <1>4, <1>6, <2>4, <2>5, <2>6, GrantedAppend
  <2>8. Reads(log, journal, Append(wire, e), k, cap.pos + 1)
    BY <1>1, <1>2, <2>3, <2>4, <2>7, ReadsNext
  <2>9. Append(wire, e) \in Seq(Frames) /\ Len(Append(wire, e)) = Len(wire) + 1 /\ Len(wire) \in Nat
    BY <1>2, <1>4 DEF Frames
  <2> HIDE DEF e, st
  <2>10. StreamShape'
    BY <1>1, <1>6, <2>1, <2>9 DEF StreamInv, StreamShape, Frames
  <2>11. Reading'
    <3>1. Len(wire') = (cap.pos + 1) - k
      BY <1>3, <1>6, <2>3, <2>9
    <3>2. \E g \in {log', before'}, l \in 0..Len(journal'), q \in 0..MaxLog :
              /\ Reads(g, journal', wire', l, q)
              /\ cap'.on => g = log' /\ q = cap'.pos /\ Len(wire') = q - l
      BY <1>1, <1>3, <1>6, <2>1, <2>8, <3>1
    <3> QED
      BY <3>2 DEF Reading
  <2>12. NotRead'
    BY <1>1, <2>2 DEF NotRead
  <2>13. Shown'
    <3>1. cap'.st.last = cap.pos + 1
      BY <2>1, <2>4 DEF st, Applied
    <3> QED
      BY <1>1, <1>3, <2>1, <2>7, <3>1 DEF Shown
  <2>14. JournalInv'
    BY <1>1 DEF StreamInv, JournalInv
  <2> QED
    BY <2>10, <2>11, <2>12, <2>13, <2>14 DEF StreamInv
<1> QED
  BY <1>2, <1>5, <1>6 DEF Forward

\* A connection is over and nothing of it is left.
LEMMA FailsKeeps ==
    ASSUME StreamInv, Fails, log' = log, before' = before,
           revoked' \in BOOLEAN, breaks' \in 0..MaxBreaks
    PROVE  StreamInv'
<1>1. /\ node'.pc = "off" /\ ~cap'.on /\ wire' = <<>> /\ journal' = journal
      /\ cap' \in [on : BOOLEAN, st : StreamRow, pos : 0..MaxLog]
      /\ node' \in [pc : {"off", "reading", "done"}, st : StreamRow]
      /\ wire' \in Seq(EventRow \cup {End, Error})
  BY RowTypes DEF Fails
<1>2. StreamShape'
  BY <1>1 DEF StreamInv, StreamShape
<1>3. NotRead' /\ Reading' /\ Shown'
  BY <1>1 DEF NotRead, Reading, Shown
<1>4. JournalInv'
  BY <1>1 DEF StreamInv, JournalInv
<1> QED
  BY <1>2, <1>3, <1>4 DEF StreamInv

\* Sequences of the same events.
LEMMA SameEvents ==
    ASSUME NEW S, NEW s \in Seq(S), NEW t \in Seq(S), NEW n \in Nat,
           Len(s) = n, Len(t) = n, \A i \in 1..n : s[i] = t[i]
    PROVE  s = t
OBVIOUS

\* The frame is the journaled event: it is read, and nothing else.
LEMMA ReplayedKeeps ==
    ASSUME StreamInv, node.pc = "reading", wire # <<>>,
           Head(wire).kind \notin {"end", "error"},
           Head(wire).seq <= Len(journal), journal[Head(wire).seq] = Head(wire), wire' = Tail(wire),
           log' = log, before' = before, journal' = journal, node' = node, cap' = cap,
           revoked' = revoked, breaks' = breaks
    PROVE  StreamInv'
<1>1. /\ log \in Seq(EventRow) /\ before \in Seq(EventRow) /\ journal \in Seq(EventRow)
      /\ wire \in Seq(Frames)
  BY DEF StreamInv, StreamShape, Frames
<1>2. Tail(wire) \in Seq(Frames) /\ Len(Tail(wire)) = Len(wire) - 1 /\ Len(wire) \in Nat
  BY <1>1
<1>3. PICK h \in {log, before}, k \in 0..Len(journal), p \in 0..MaxLog :
           /\ Reads(h, journal, wire, k, p)
           /\ cap.on => h = log /\ p = cap.pos /\ Len(wire) = p - k
  BY DEF StreamInv, Reading
<1>4. h \in Seq(EventRow) /\ k \in Nat /\ p \in Nat /\ Len(journal) \in Nat
  BY <1>1, <1>3, StreamAssumption
<1>5. Reads(h, journal, Tail(wire), k + 1, p) /\ k + 1 <= Len(journal)
  BY <1>1, <1>3, <1>4, ReadsHead
<1>6. StreamShape'
  BY <1>2 DEF StreamInv, StreamShape, Frames
<1>7. Reading'
  <2>1. k + 1 \in 0..Len(journal) /\ (cap.on => Len(Tail(wire)) = p - (k + 1))
    BY <1>2, <1>3, <1>4, <1>5
  <2>2. \E g \in {log', before'}, l \in 0..Len(journal'), q \in 0..MaxLog :
            /\ Reads(g, journal', wire', l, q)
            /\ cap'.on => g = log' /\ q = cap'.pos /\ Len(wire') = q - l
    BY <1>3, <1>5, <2>1
  <2> QED
    BY <2>2 DEF Reading
<1>8. NotRead' /\ Shown'
  BY DEF StreamInv, NotRead, Shown
<1>9. JournalInv'
  BY DEF StreamInv, JournalInv
<1> QED
  BY <1>6, <1>7, <1>8, <1>9 DEF StreamInv

\* The frame is the history's next event after the whole journal: the journal
\* takes it, and is the start of the history that is being read.
LEMMA JournalsKeeps ==
    ASSUME StreamInv, node.pc = "reading", wire # <<>>,
           Head(wire).kind \notin {"end", "error"},
           Head(wire).seq > Len(journal), ~Rejects(node.st, Head(wire), NodePolicy),
           journal' = Append(journal, Head(wire)),
           node' = [node EXCEPT !.st = Applied(@, Head(wire))],
           wire' = Tail(wire), log' = log, before' = before, cap' = cap,
           revoked' = revoked, breaks' = breaks
    PROVE  StreamInv'
<1> DEFINE e == Head(wire)
           n == Len(journal)
<1>1. /\ log \in Seq(EventRow) /\ before \in Seq(EventRow) /\ journal \in Seq(EventRow)
      /\ wire \in Seq(Frames)
      /\ node \in [pc : {"off", "reading", "done"}, st : StreamRow]
  BY DEF StreamInv, StreamShape, Frames
<1>2. Tail(wire) \in Seq(Frames) /\ Len(Tail(wire)) = Len(wire) - 1 /\ Len(wire) \in Nat
  BY <1>1
<1>3. PICK h \in {log, before}, k \in 0..Len(journal), p \in 0..MaxLog :
           /\ Reads(h, journal, wire, k, p)
           /\ cap.on => h = log /\ p = cap.pos /\ Len(wire) = p - k
  BY DEF StreamInv, Reading
<1>4. h \in Seq(EventRow) /\ k \in Nat /\ p \in Nat /\ n \in Nat /\ Len(h) \in Nat
  BY <1>1, <1>3, StreamAssumption
<1>5. /\ k + 1 <= p /\ p <= Len(h) /\ e = h[k + 1] /\ e \in EventRow /\ e.seq = k + 1
      /\ Granted(SubSeq(h, 1, k + 1))
  BY <1>1, <1>3, <1>4, ReadsHead
<1>6. k = n
  BY <1>3, <1>4, <1>5
<1>7. /\ journal' \in Seq(EventRow) /\ Len(journal') = n + 1 /\ journal'[n + 1] = e
      /\ \A i \in 1..n : journal'[i] = journal[i]
  BY <1>1, <1>5, Longer
<1>8. \A i \in 1..n + 1 : journal'[i] = h[i]
  <2>1. \A i \in 1..n : journal[i] = h[i]
    BY <1>3, <1>6 DEF Reads
  <2>2. \A i \in 1..n + 1 : i \in 1..n \/ i = n + 1
    BY <1>4
  <2> QED
    BY <1>5, <1>6, <1>7, <2>1, <2>2
<1>9. journal' = SubSeq(h, 1, n + 1)
  <2>1. /\ SubSeq(h, 1, n + 1) \in Seq(EventRow) /\ Len(SubSeq(h, 1, n + 1)) = n + 1
        /\ \A i \in 1..n + 1 : SubSeq(h, 1, n + 1)[i] = h[i]
    BY <1>4, <1>5, <1>6
  <2>2. \A i \in 1..n + 1 : journal'[i] = SubSeq(h, 1, n + 1)[i]
    BY <1>8, <2>1
  <2> QED
    BY <1>7, <2>1, <2>2, SameEvents
<1>10. node.st = StateOf(journal) /\ Kept(journal)
  BY DEF StreamInv, JournalInv
<1>11. Kept(journal') /\ StateOf(journal') = Applied(node.st, e)
  BY <1>1, <1>5, <1>10, KeptAppend
<1>12. /\ node' \in [pc : {"off", "reading", "done"}, st : StreamRow] /\ node'.pc = "reading"
       /\ node'.st = Applied(node.st, e)
  <2>1. Applied(node.st, e) \in StreamRow
    BY <1>1, <1>5, StreamTypes
  <2> QED
    BY <1>1, <2>1
<1>13. Reads(h, journal', Tail(wire), k + 1, p)
  <2>1. Reads(h, journal', wire, k, p)
    BY <1>1, <1>3, <1>5, ReadsJournal
  <2>2. k + 1 <= Len(journal') /\ journal'[k + 1] = Head(wire)
    BY <1>4, <1>6, <1>7
  <2> QED
    BY <1>1, <1>4, <1>7, <2>1, <2>2, ReadsHead
<1> HIDE DEF e, n
<1>14. StreamShape'
  BY <1>2, <1>7, <1>12 DEF StreamInv, StreamShape, Frames
<1>15. Reading'
  <2>1. k + 1 \in 0..Len(journal') /\ (cap.on => Len(Tail(wire)) = p - (k + 1))
    BY <1>2, <1>3, <1>4, <1>6, <1>7
  <2>2. \E g \in {log', before'}, l \in 0..Len(journal'), q \in 0..MaxLog :
            /\ Reads(g, journal', wire', l, q)
            /\ cap'.on => g = log' /\ q = cap'.pos /\ Len(wire') = q - l
    BY <1>3, <1>13, <2>1
  <2> QED
    BY <2>2 DEF Reading
<1>16. NotRead' /\ Shown'
  BY <1>12 DEF StreamInv, NotRead, Shown
<1>17. JournalInv'
  <2>1. Starts(journal', h)
    BY <1>4, <1>5, <1>6, <1>7, <1>8 DEF Starts
  <2>2. Starts(journal', log') \/ Starts(journal', before')
    BY <1>3, <2>1
  <2>3. Granted(journal')
    BY <1>5, <1>6, <1>9
  <2> QED
    BY <1>11, <1>12, <2>2, <2>3 DEF JournalInv
<1> QED
  BY <1>14, <1>15, <1>16, <1>17 DEF StreamInv

\* Whatever the Node reads.
LEMMA ReceiveKeeps ==
    ASSUME StreamInv, Receive
    PROVE  StreamInv'
<1> DEFINE f == Head(wire)
<1>1. /\ node.pc = "reading" /\ wire # <<>>
      /\ log' = log /\ before' = before /\ revoked' = revoked /\ breaks' = breaks
  BY DEF Receive
<1>2. revoked' \in BOOLEAN /\ breaks' \in 0..MaxBreaks
  BY <1>1 DEF StreamInv, StreamShape
<1>3. CASE Fails
  BY <1>1, <1>2, <1>3, FailsKeeps
<1>4. CASE f.kind \notin {"end", "error"} /\ Replayed(f)
  <2>1. CASE journal[f.seq] = f
    BY <1>1, <1>4, <2>1, ReplayedKeeps DEF Replayed
  <2>2. CASE journal[f.seq] # f
    BY <1>3, <1>4, <2>2 DEF Replayed
  <2> QED
    BY <2>1, <2>2
<1>5. CASE f.kind \notin {"end", "error"} /\ Journals(f)
  <2>1. CASE Rejects(node.st, f, NodePolicy)
    BY <1>3, <1>5, <2>1 DEF Journals
  <2>2. CASE ~Rejects(node.st, f, NodePolicy)
    BY <1>1, <1>5, <2>2, JournalsKeeps DEF Journals
  <2> QED
    BY <2>1, <2>2
<1>6. CASE f.kind = "end" /\ node' = [node EXCEPT !.pc = "done"] /\ wire' = <<>>
           /\ journal' = journal /\ cap' = cap
  <2>1. /\ log \in Seq(EventRow) /\ before \in Seq(EventRow) /\ journal \in Seq(EventRow)
        /\ wire \in Seq(Frames)
        /\ node \in [pc : {"off", "reading", "done"}, st : StreamRow]
    BY DEF StreamInv, StreamShape, Frames
  <2>2. ~cap.on
    <3>1. PICK h \in {log, before}, k \in 0..Len(journal), p \in 0..MaxLog :
               /\ Reads(h, journal, wire, k, p)
               /\ cap.on => h = log /\ p = cap.pos /\ Len(wire) = p - k
      BY <1>1 DEF StreamInv, Reading
    <3>2. h \in Seq(EventRow)
      BY <2>1, <3>1
    <3> QED
      BY <1>1, <1>6, <2>1, <3>1, <3>2, ReadsHead
  <2>3. /\ node' \in [pc : {"off", "reading", "done"}, st : StreamRow]
        /\ node'.pc = "done" /\ node'.st = node.st /\ wire' \in Seq(EventRow \cup {End, Error})
    <3>1. node'.pc = "done" /\ node'.st = node.st
      BY <1>6, <2>1
    <3>2. node' \in [pc : {"off", "reading", "done"}, st : StreamRow]
      BY <1>6, <2>1
    <3>3. wire' \in Seq(EventRow \cup {End, Error})
      BY <1>6
    <3> QED
      BY <3>1, <3>2, <3>3
  <2>4. StreamShape'
    BY <1>1, <1>6, <2>3 DEF StreamInv, StreamShape
  <2>5. NotRead' /\ Reading' /\ Shown'
    BY <1>6, <2>2, <2>3 DEF NotRead, Reading, Shown
  <2>6. JournalInv'
    BY <1>1, <1>6, <2>3 DEF StreamInv, JournalInv
  <2> QED
    BY <2>4, <2>5, <2>6 DEF StreamInv
<1> QED
  <2>1. \/ f.kind \notin {"end", "error"} /\ (Replayed(f) \/ Journals(f))
        \/ f.kind = "error" /\ Fails
        \/ f.kind = "end" /\ node' = [node EXCEPT !.pc = "done"] /\ wire' = <<>>
           /\ journal' = journal /\ cap' = cap
        \/ Fails
    BY Zenon DEF Receive
  <2> QED
    BY <1>3, <1>4, <1>5, <1>6, <2>1

\* What is cut off a history that was being read is lost with the connection.
LEMMA BreakKeeps ==
    ASSUME StreamInv, Break
    PROVE  StreamInv'
<1>1. /\ cap.on /\ cap' = Idle /\ breaks' = breaks + 1 /\ breaks < MaxBreaks
      /\ log' = log /\ before' = before /\ journal' = journal /\ node' = node /\ revoked' = revoked
  BY DEF Break
<1>2. PICK n \in 0..Len(wire) : wire' = Append(SubSeq(wire, 1, n), Error)
  BY DEF Break
<1>3. /\ log \in Seq(EventRow) /\ journal \in Seq(EventRow) /\ wire \in Seq(Frames)
      /\ Len(wire) \in Nat /\ Error \in Frames /\ breaks \in 0..MaxBreaks /\ MaxBreaks \in Nat
  BY StreamAssumption DEF StreamInv, StreamShape, Frames
<1>4. node.pc = "reading"
  BY <1>1 DEF StreamInv, NotRead
<1>5. PICK h \in {log, before}, k \in 0..Len(journal), p \in 0..MaxLog :
           Reads(h, journal, wire, k, p) /\ h = log /\ p = cap.pos /\ Len(wire) = p - k
  BY <1>1, <1>4 DEF StreamInv, Reading
<1>6. Reads(log, journal, wire', k, k + n)
  BY <1>2, <1>3, <1>5, ReadsCut
<1>7. k + n \in 0..MaxLog
  BY <1>2, <1>3, <1>5, StreamAssumption
<1>8. wire' \in Seq(Frames)
  BY <1>2, <1>3
<1>9. breaks' \in 0..MaxBreaks /\ ~cap'.on /\ cap' \in [on : BOOLEAN, st : StreamRow, pos : 0..MaxLog]
  BY <1>1, <1>3, RowTypes
<1>10. StreamShape'
  BY <1>1, <1>8, <1>9 DEF StreamInv, StreamShape, Frames
<1>11. Reading'
  <2>1. \E g \in {log', before'}, l \in 0..Len(journal'), q \in 0..MaxLog :
            /\ Reads(g, journal', wire', l, q)
            /\ cap'.on => g = log' /\ q = cap'.pos /\ Len(wire') = q - l
    BY <1>1, <1>5, <1>6, <1>7, <1>9
  <2> QED
    BY <2>1 DEF Reading
<1>12. NotRead' /\ Shown'
  BY <1>1, <1>4, <1>9 DEF NotRead, Shown
<1>13. JournalInv'
  BY <1>1 DEF StreamInv, JournalInv
<1> QED
  BY <1>10, <1>11, <1>12, <1>13 DEF StreamInv

\* The runtime comes back with less: what the Node has read and journaled is of
\* the history before.
LEMMA LosesKeeps ==
    ASSUME StreamInv, RuntimeLoses
    PROVE  StreamInv'
<1>1. /\ before = <<>> /\ before' = log /\ cap' = Idle /\ breaks' = breaks + 1 /\ breaks < MaxBreaks
      /\ journal' = journal /\ node' = node /\ revoked' = revoked
  BY DEF RuntimeLoses
<1>2. PICK m \in 1..Len(log) - 1 : log' = SubSeq(log, 1, m)
  BY DEF RuntimeLoses
<1>3. PICK n \in 0..Len(wire) :
         wire' = IF cap.on THEN Append(SubSeq(wire, 1, n), Error) ELSE wire
  BY DEF RuntimeLoses
<1>4. /\ log \in Seq(EventRow) /\ journal \in Seq(EventRow) /\ wire \in Seq(Frames)
      /\ Len(wire) \in Nat /\ Error \in Frames /\ breaks \in 0..MaxBreaks /\ MaxBreaks \in Nat
      /\ Len(log) <= MaxLog /\ Len(log) \in Nat /\ Len(journal) \in Nat /\ MaxLog \in Nat
  BY StreamAssumption DEF StreamInv, StreamShape, Frames
<1>5. log' \in Seq(EventRow) /\ Len(log') <= MaxLog
  BY <1>2, <1>4
<1>6. wire' \in Seq(Frames)
  BY <1>3, <1>4
<1>7. breaks' \in 0..MaxBreaks /\ ~cap'.on /\ cap' \in [on : BOOLEAN, st : StreamRow, pos : 0..MaxLog]
  BY <1>1, <1>4, RowTypes
<1>8. StreamShape'
  BY <1>1, <1>4, <1>5, <1>6, <1>7 DEF StreamInv, StreamShape, Frames
<1>9. ASSUME node.pc = "reading"
      PROVE  \E k \in 0..Len(journal), p \in 0..MaxLog : Reads(log, journal, wire', k, p)
  <2>1. PICK h \in {log, before}, k \in 0..Len(journal), p \in 0..MaxLog :
           /\ Reads(h, journal, wire, k, p)
           /\ cap.on => h = log /\ p = cap.pos /\ Len(wire) = p - k
    BY <1>9 DEF StreamInv, Reading
  <2>2. CASE cap.on
    <3>1. Reads(log, journal, wire', k, k + n)
      BY <1>3, <1>4, <2>1, <2>2, ReadsCut
    <3>2. k + n \in 0..MaxLog
      BY <1>3, <1>4, <2>1, <2>2
    <3> QED
      BY <3>1, <3>2
  <2>3. CASE ~cap.on /\ h = log
    BY <1>3, <2>1, <2>3
  <2>4. CASE ~cap.on /\ h = <<>>
    <3>1. Len(h) = 0
      BY <2>4
    <3>2. /\ k \in Nat /\ p \in Nat /\ k <= p /\ p <= 0
          /\ \A i \in 1..Len(wire) : IF i <= p - k THEN wire[i] = h[k + i] ELSE wire[i] \in {End, Error}
      BY <2>1, <3>1 DEF Reads
    <3>3. k = 0 /\ p = 0 /\ \A i \in 1..Len(wire) : ~(i <= 0 - 0) /\ wire[i] \in {End, Error}
      BY <1>4, <3>2
    <3>4. Reads(log, journal, <<>>, 0, 0)
      BY <1>4, ReadsNothing
    <3>5. Reads(log, journal, wire, 0, 0)
      BY <1>4, <3>3, <3>4 DEF Reads
    <3> QED
      BY <1>3, <1>4, <2>4, <3>5
  <2> QED
    BY <1>1, <2>1, <2>2, <2>3, <2>4
<1>10. Reading'
  <2>1. node'.pc = "reading" =>
          \E g \in {log', before'}, l \in 0..Len(journal'), q \in 0..MaxLog :
              /\ Reads(g, journal', wire', l, q)
              /\ cap'.on => g = log' /\ q = cap'.pos /\ Len(wire') = q - l
    BY <1>1, <1>7, <1>9
  <2> QED
    BY <2>1 DEF Reading
<1>11. NotRead' /\ Shown'
  <2>1. node.pc # "reading" => wire' = <<>>
    BY <1>3 DEF StreamInv, NotRead
  <2> QED
    BY <1>1, <1>7, <2>1 DEF NotRead, Shown
<1>12. JournalInv'
  <2>1. Starts(journal, log)
    <3>1. Starts(journal, log) \/ Starts(journal, <<>>)
      BY <1>1 DEF StreamInv, JournalInv
    <3>2. Starts(journal, <<>>) => Starts(journal, log)
      <4>1. Starts(journal, <<>>) => Len(journal) <= 0
        BY DEF Starts
      <4> QED
        BY <1>4, <4>1 DEF Starts
    <3> QED
      BY <3>1, <3>2
  <2>2. Starts(journal', before')
    BY <1>1, <2>1
  <2> QED
    BY <1>1, <2>2 DEF StreamInv, JournalInv
<1> QED
  BY <1>8, <1>10, <1>11, <1>12 DEF StreamInv

\* Every step keeps the invariant.
LEMMA StreamKeeps == StreamInv /\ [StreamNext]_streamVars => StreamInv'
<1> SUFFICES ASSUME StreamInv, [StreamNext]_streamVars PROVE StreamInv'
  OBVIOUS
<1>1. CASE RuntimeEmits
  BY <1>1, EmitsKeeps
<1>2. CASE Connect
  BY <1>2, ConnectKeeps
<1>3. CASE Forward
  BY <1>3, ForwardKeeps
<1>4. CASE EndStream
  <2>1. revoked \in BOOLEAN /\ breaks \in 0..MaxBreaks
    BY DEF StreamInv, StreamShape
  <2> QED
    BY <1>4, <2>1, LastWordKeeps DEF EndStream
<1>5. CASE Receive
  BY <1>5, ReceiveKeeps
<1>6. CASE EndsEarly
  <2>1. revoked \in BOOLEAN /\ breaks \in 0..MaxBreaks
    BY DEF StreamInv, StreamShape
  <2>2. breaks' \in 0..MaxBreaks
    BY <1>6, <2>1, StreamAssumption DEF EndsEarly
  <2> QED
    BY <1>6, <2>1, <2>2, LastWordKeeps DEF EndsEarly
<1>7. CASE Break
  BY <1>7, BreakKeeps
<1>8. CASE NodeDies
  <2>1. revoked \in BOOLEAN /\ breaks \in 0..MaxBreaks
    BY DEF StreamInv, StreamShape
  <2>2. breaks' \in 0..MaxBreaks
    BY <1>8, <2>1, StreamAssumption DEF NodeDies
  <2> QED
    BY <1>8, <2>1, <2>2, FailsKeeps DEF NodeDies
<1>9. CASE RuntimeLoses
  BY <1>9, LosesKeeps
<1>10. CASE UNCHANGED streamVars
  <2>1. StreamShape' /\ NotRead' /\ Reading'
    BY <1>10 DEF StreamInv, streamVars, StreamShape, NotRead, Reading
  <2>2. Shown' /\ JournalInv'
    BY <1>10 DEF StreamInv, streamVars, Shown, JournalInv
  <2> QED
    BY <2>1, <2>2 DEF StreamInv
<1> QED
  BY <1>1, <1>2, <1>3, <1>4, <1>5, <1>6, <1>7, <1>8, <1>9, <1>10 DEF StreamNext

\* What the invariant says of the journal.
LEMMA StreamFaithful == StreamInv => JournalFaithful
<1> SUFFICES ASSUME StreamInv PROVE JournalFaithful
  OBVIOUS
<1>1. /\ log \in Seq(EventRow) /\ before \in Seq(EventRow) /\ journal \in Seq(EventRow)
      /\ Len(journal) \in Nat /\ DOMAIN journal = 1..Len(journal)
  BY DEF StreamInv, StreamShape
<1>2. /\ Starts(journal, log) \/ Starts(journal, before)
      /\ Valid(ExpectedOf(journal), journal, NodePolicy) /\ Formed(journal) /\ Granted(journal)
      /\ node.pc # "off" => node.st = StateOf(journal)
  BY DEF StreamInv, JournalInv, Kept
<1>3. Expected = ExpectedOf(journal)
  BY DEF Expected, ExpectedOf
<1>4. JournalReplays
  BY <1>2, <1>3 DEF JournalReplays, StateOf
<1>5. ASSUME NEW h \in Seq(EventRow), Starts(journal, h) PROVE IsPrefix(journal, h)
  <2> DEFINE n == Len(journal)
  <2>1. n \in Nat /\ n <= Len(h) /\ Len(h) \in Nat /\ \A i \in 1..n : journal[i] = h[i]
    BY <1>1, <1>5 DEF Starts
  <2>2. /\ SubSeq(journal, 1, n) \in Seq(EventRow) /\ Len(SubSeq(journal, 1, n)) = n
        /\ \A i \in 1..n : SubSeq(journal, 1, n)[i] = journal[i]
    BY <1>1
  <2>3. /\ SubSeq(h, 1, n) \in Seq(EventRow) /\ Len(SubSeq(h, 1, n)) = n
        /\ \A i \in 1..n : SubSeq(h, 1, n)[i] = h[i]
    BY <2>1
  <2>4. SubSeq(journal, 1, n) = SubSeq(h, 1, n)
    <3>1. \A i \in 1..n : SubSeq(journal, 1, n)[i] = SubSeq(h, 1, n)[i]
      BY <2>1, <2>2, <2>3
    <3> QED
      BY <2>1, <2>2, <2>3, <3>1, SameEvents
  <2> QED
    BY <2>1, <2>4 DEF IsPrefix
<1>6. OneHistory
  BY <1>1, <1>2, <1>5 DEF OneHistory
<1>7. WithinGrant
  BY <1>2 DEF Granted, WithinGrant
<1>8. WellFormed
  BY <1>1, <1>2 DEF Formed, WellFormed
<1> QED
  BY <1>4, <1>6, <1>7, <1>8 DEF JournalFaithful

\* HostEventStream's types.
THEOREM StreamTypesHold == StreamSpec => []StreamTypeOK
<1>1. StreamInv => StreamTypeOK
  <2> SUFFICES ASSUME StreamInv PROVE StreamTypeOK
    OBVIOUS
  <2>1. StreamShape
    BY DEF StreamInv
  <2>2. cap.st \in StreamRow
    BY <2>1 DEF StreamShape
  <2> QED
    BY <2>1, <2>2 DEF StreamTypeOK, StreamShape, StreamRow
<1> QED
  BY <1>1, StreamStarts, StreamKeeps, PTL DEF StreamSpec

\* Whatever the runtime emits and loses and wherever connections and processes
\* end, the Node's journal can be replayed to the state the Node was in, is the
\* start of one history of the runtime, stays within the grant and is
\* well formed (delivery-processor.ts:1068, capsule-authority.ts:138).
THEOREM JournalStaysFaithful == StreamSpec => []JournalFaithful
BY StreamStarts, StreamKeeps, StreamFaithful, PTL DEF StreamSpec

=============================================================================
