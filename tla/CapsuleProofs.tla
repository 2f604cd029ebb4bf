----------------------------- MODULE CapsuleProofs -----------------------------
(***************************************************************************)
(* Proofs about the persistent Capsule, for any number of processes,       *)
(* grants, inputs and faults.  One inductive invariant, CapsuleInv, carries *)
(* the three theorems: who may be at the socket path (Owner), what a call  *)
(* inside the Mission's transition may rely on (Transitions), what exists  *)
(* before the launch descriptor (Unlaunched), and that neither a monitor   *)
(* nor a delayed installation is for a retired grant (Silent).             *)
(***************************************************************************)
EXTENDS Capsule, CodexCapsule, FiniteSetTheorems, TLAPS

\* The types of a process, of an adapter call and of a request.
ProcRow ==
    [at : {"none", "started", "checked", "linked", "ready", "closing", "draining", "dead"},
     grant : 0..MaxGrants, key : 0..MaxTurns, live : BOOLEAN, retire : BOOLEAN,
     mem : Stores, write : [next : Stores, started : 0..MaxTurns, busy : BOOLEAN],
     timers : SUBSET Keys]

CallRow ==
    [op : Ops \cup {"none"},
     at : {"idle", "enter", "probe", "remove", "sync", "resync", "send", "shutdown", "retire"},
     input : 0..MaxInputs, tried : BOOLEAN, stale : 0..MaxProcs]

RequestRow ==
    [kind : Uses \cup {"install", "revoke", "lookup", "shutdown", "renew", "start"},
     grant : 0..MaxGrants, key : 0..MaxTurns, input : 0..MaxInputs]

\* The types, as far as the proofs need them.
ProcShape ==
    /\ path \in 0..MaxProcs
    /\ launched \in 0..MaxProcs
    /\ proc \in [Procs -> ProcRow]
    /\ disk \in Stores
    /\ orphans \subseteq [proc : Procs, request : RequestRow]
    /\ faults \in 0..MaxFaults

NodeShape ==
    /\ descriptor \in BOOLEAN
    /\ registry \in [Keys -> 0..MaxInputs]
    /\ grant \in [id : 0..MaxGrants, key : 0..MaxTurns, held : BOOLEAN]
    /\ grant.id # 0 => grant.key \in Keys
    /\ cache \in [grant : 0..MaxGrants, key : 0..MaxTurns,
                  status : {"none", "installing", "active", "revoking", "revoked"}]
    /\ revoked \subseteq Grants
    /\ lock \in Callers \cup {"free"}
    /\ call \in [Callers -> CallRow]

Shape == ProcShape /\ NodeShape

\* Whoever is about to remove a socket found it dead, and the dead stay dead.
Owner ==
    /\ Ownership
    /\ \A p \in Procs : proc[p].at = "none" <=> p > launched
    /\ \A c \in Callers : call[c].at = "remove" =>
          call[c].stale \in Procs /\ proc[call[c].stale].at = "dead"

\* The calls that may give a process the grant.
Authorizing == Guarded \cup {"install", "renew"}

\* A call inside the Mission's transition.
Inside(row) ==
    \/ row.at \in {"probe", "remove", "sync", "resync", "shutdown", "retire"}
    \/ row.at = "send" /\ row.op \notin Guarded

\* What holds of the call of caller c, in any of its steps.
RowFits(c, row) ==
    /\ Inside(row) => lock = c
    /\ Inside(row) /\ row.op \in Authorizing => grant.id \notin Retired
    /\ Inside(row) /\ row.op \in Guarded \cup {"renew"} => Active
    /\ row.at \in {"sync", "resync"} => row.op \in Guarded \cup {"renew"}
    /\ row.at \in {"shutdown", "retire"} => row.op = "revoke"
    /\ row.op = "revoke" /\ Inside(row) => cache.status = "none" \/ cache.grant = grant.id
    /\ row # NoCall => grant.id # 0
    /\ row # NoCall /\ row.op # "lookup" /\ grant.id \in Retired => grant.id \in revoked

Transitions == \A c \in Callers : RowFits(c, call[c])

\* Before the launch descriptor exists nothing has been launched.
Unlaunched ==
    ~descriptor =>
        /\ launched = 0 /\ cache.status = "none"
        /\ \A k \in Keys : registry[k] = 0
        /\ \A c \in Callers : call[c].at \in {"idle", "enter"} /\ call[c].op # "lookup"

\* No monitor, and no delayed installation, is for a retired grant; a request
\* without a sender is at a process that serves.
Silent ==
    /\ cache.status = "active" => cache.grant \notin Retired
    /\ cache.status = "revoked" => cache.grant \in Retired
    /\ \A p \in Procs : proc[p].grant # 0 => proc[p].at = "ready" /\ proc[p].grant \notin Retired
    /\ \A o \in orphans :
          /\ proc[o.proc].at = "ready"
          /\ o.request.kind = "install" => o.request.grant \notin Retired

CapsuleInv == Shape /\ Owner /\ Transitions /\ Unlaunched /\ Silent

-----------------------------------------------------------------------------
(* The store and the authority of a process *)

\* The bounds are naturals, and no caller is called "free".
LEMMA Constants ==
    /\ MaxProcs \in Nat \ {0} /\ MaxGrants \in Nat \ {0} /\ MaxTurns \in Nat \ {0}
    /\ MaxInputs \in Nat \ {0}
    /\ MaxFaults \in Nat /\ "free" \notin Callers
BY CapsuleAssumption

\* What is retired depends on the grant and on revokedGrantIds only.
LEMMA RetiredStays == ASSUME UNCHANGED <<grant, revoked>> PROVE Retired' = Retired
BY DEF Retired

\* A returned revocation retires the grant.
LEMMA RetiredGrows ==
    ASSUME grant' = grant, revoked' = revoked \cup {grant.id}
    PROVE  Retired' = Retired \cup {grant.id}
BY DEF Retired

\* The store of a Capsule that never ran, and no write in progress.
LEMMA EmptyStoreOK == EmptyStore \in Stores /\ NoWrite \in
    [next : Stores, started : 0..MaxTurns, busy : BOOLEAN]
<1>1. NoTurn \in [input : 0..MaxInputs, state : TurnStates]
  BY Constants DEF NoTurn, TurnStates
<1>2. EmptyStore \in Stores
  BY <1>1 DEF EmptyStore, Stores
<1>3. 0 \in 0..MaxTurns
  BY Constants
<1> QED
  BY <1>2, <1>3 DEF NoWrite

\* A process that has not started, or has ended, admits no grant.
LEMMA NewProcOK ==
    ASSUME NEW a \in {"none", "dead"}
    PROVE  /\ [NewProc EXCEPT !.at = a] \in ProcRow
           /\ [NewProc EXCEPT !.at = a].at = a /\ [NewProc EXCEPT !.at = a].grant = 0
<1>1. 0 \in 0..MaxGrants /\ 0 \in 0..MaxTurns
  BY Constants
<1>2. NewProc \in ProcRow /\ NewProc.grant = 0
  BY <1>1, EmptyStoreOK DEF NewProc, ProcRow
<1> QED
  BY <1>2 DEF ProcRow

\* Updates of the store.
LEMMA StoreUpdates ==
    ASSUME NEW m \in Stores, NEW k, NEW t \in [input : 0..MaxInputs, state : TurnStates],
           NEW s \in TurnStates
    PROVE  /\ [m EXCEPT !.session = TRUE] \in Stores
           /\ [m EXCEPT !.turns[k] = t] \in Stores
           /\ [m EXCEPT !.turns[k].state = s] \in Stores
<1>1. m.turns \in [Keys -> [input : 0..MaxInputs, state : TurnStates]] /\ m.session \in BOOLEAN
  BY DEF Stores
<1>2. [m EXCEPT !.session = TRUE] \in Stores
  BY DEF Stores
<1>3. [m.turns EXCEPT ![k] = t] \in [Keys -> [input : 0..MaxInputs, state : TurnStates]]
  BY <1>1
<1>4. [m.turns EXCEPT ![k].state = s] \in [Keys -> [input : 0..MaxInputs, state : TurnStates]]
  <2>1. k \in Keys => [m.turns[k] EXCEPT !.state = s] \in [input : 0..MaxInputs, state : TurnStates]
    BY <1>1
  <2> QED
    BY <1>1, <2>1
<1>5. \A f \in [Keys -> [input : 0..MaxInputs, state : TurnStates]] :
         [m EXCEPT !.turns = f] \in Stores
  BY DEF Stores
<1>6. /\ [m EXCEPT !.turns[k] = t] = [m EXCEPT !.turns = [m.turns EXCEPT ![k] = t]]
      /\ [m EXCEPT !.turns[k].state = s] = [m EXCEPT !.turns = [m.turns EXCEPT ![k].state = s]]
  OBVIOUS
<1> QED
  BY <1>2, <1>3, <1>4, <1>5, <1>6

\* A row with the same place in life and the same grant.
Same(q, new) == new \in ProcRow /\ new.at = q.at /\ new.grant = q.grant

\* mutate() begins a write and nothing else.
LEMMA WriteOK ==
    ASSUME NEW q \in ProcRow, NEW m \in Stores, NEW k \in 0..MaxTurns
    PROVE  Same(q, Write(q, m, k))
<1>1. [next |-> m, started |-> k, busy |-> TRUE] \in
        [next : Stores, started : 0..MaxTurns, busy : BOOLEAN]
  OBVIOUS
<1> QED
  BY <1>1 DEF Same, Write, ProcRow

\* revoke() of the monitor keeps its grant: the process is only told to retire.
LEMMA AbortOK ==
    ASSUME NEW q \in ProcRow
    PROVE  Same(q, Abort(q))
BY DEF Same, Abort, ProcRow

\* What the monitor guards changes the store, never the authority.
LEMMA GuardOK ==
    ASSUME NEW q \in ProcRow, NEW r \in RequestRow,
           r.kind \in Uses \cup {"renew", "start"}
    PROVE  Same(q, Guard(q, r)[2])
<1>0. /\ q.mem \in Stores /\ q.timers \in SUBSET Keys /\ 0 \in 0..MaxTurns
      /\ r.key \in 0..MaxTurns /\ r.input \in 0..MaxInputs
  BY Constants DEF ProcRow, RequestRow
<1>1. Same(q, q)
  BY DEF Same
<1>2. Same(q, Session(q)[2])
  <2>1. [q.mem EXCEPT !.session = TRUE] \in Stores
    BY <1>0 DEF Stores
  <2>2. Same(q, Write(q, [q.mem EXCEPT !.session = TRUE], 0))
    BY <1>0, <2>1, WriteOK
  <2> QED
    BY <1>1, <2>2 DEF Session
<1>3. Same(q, Start(q, r)[2])
  <2> DEFINE m == [q.mem EXCEPT !.turns[r.key] = [input |-> r.input, state |-> "running"]]
  <2>1. [input |-> r.input, state |-> "running"] \in [input : 0..MaxInputs, state : TurnStates]
    BY <1>0 DEF TurnStates
  <2>2. m \in Stores
    BY <1>0, <2>1, StoreUpdates DEF TurnStates
  <2>3. Same(q, Write(q, m, r.key))
    BY <1>0, <2>2, WriteOK
  <2>4. Start(q, r)[2] = q \/ Start(q, r)[2] = Write(q, m, r.key)
    BY DEF Start
  <2> HIDE DEF m
  <2> QED
    BY <1>1, <2>3, <2>4
<1>4. Same(q, Recover(q, r)[2])
  BY <1>1 DEF Recover
<1>5. Same(q, Cancel(q, r)[2])
  <2> DEFINE m == [q.mem EXCEPT !.turns[r.key].state = "cancelled"]
             w == Write(q, m, 0)
  <2>1. m \in Stores
    <3>1. NoTurn \in [input : 0..MaxInputs, state : TurnStates]
      BY Constants DEF NoTurn, TurnStates
    <3> QED
      BY <1>0, <3>1, StoreUpdates DEF TurnStates
  <2>2. Same(q, w)
    BY <1>0, <2>1, WriteOK
  <2>3. Cancel(q, r)[2] = q \/ Cancel(q, r)[2] = [w EXCEPT !.timers = @ \ {r.key}]
    BY DEF Cancel
  <2> HIDE DEF w
  <2>4. Same(q, [w EXCEPT !.timers = @ \ {r.key}])
    BY <2>2 DEF Same, ProcRow
  <2> QED
    BY <1>1, <2>3, <2>4
<1>6. Guard(q, r)[2] \in {q, Session(q)[2], Start(q, r)[2], Recover(q, r)[2], Cancel(q, r)[2]}
  BY DEF Guard, Uses
<1> QED
  BY <1>1, <1>2, <1>3, <1>4, <1>5, <1>6

\* Serving a request leaves the process where it is in its life; only an
\* installation gives it a grant, and only one that has none.
LEMMA DispatchOK ==
    ASSUME NEW q \in ProcRow, NEW r \in RequestRow
    PROVE  LET new == Dispatch(q, r)[2] IN
           /\ new \in ProcRow /\ new.at = q.at
           /\ \/ new.grant = q.grant
              \/ r.kind = "install" /\ q.grant = 0 /\ new.grant = r.grant
<1>0. Same(q, q) /\ r.grant \in 0..MaxGrants /\ r.key \in 0..MaxTurns
  BY DEF Same, RequestRow
<1>1. CASE r.kind = "install"
  <2>1. Dispatch(q, r)[2] = Install(q, r)[2]
    BY <1>1 DEF Dispatch
  <2>2. CASE q.grant = 0
    <3> DEFINE new == [q EXCEPT !.grant = r.grant, !.key = r.key, !.live = TRUE]
    <3>1. Install(q, r)[2] = new
      BY <2>2 DEF Install
    <3>2. new \in ProcRow /\ new.at = q.at /\ new.grant = r.grant
      BY <1>0 DEF ProcRow
    <3> HIDE DEF new
    <3> QED
      BY <1>1, <2>1, <2>2, <3>1, <3>2
  <2>3. CASE q.grant # 0
    <3>1. Install(q, r)[2] \in {q, Abort(q)}
      BY <2>3 DEF Install
    <3> QED
      BY <1>0, <2>1, <3>1, AbortOK DEF Same
  <2> QED
    BY <2>2, <2>3
<1>2. CASE r.kind = "revoke"
  <2>1. Dispatch(q, r)[2] \in {q, Abort(q)}
    BY <1>2 DEF Dispatch, Revoke
  <2> QED
    BY <1>0, <2>1, AbortOK DEF Same
<1>3. CASE r.kind \in {"lookup", "shutdown"}
  <2>1. Dispatch(q, r)[2] \in {q, [q EXCEPT !.retire = TRUE]}
    BY <1>3 DEF Dispatch
  <2>2. Same(q, [q EXCEPT !.retire = TRUE])
    BY DEF Same, ProcRow
  <2> QED
    BY <1>0, <2>1, <2>2 DEF Same
<1>4. CASE r.kind \in Uses \cup {"renew", "start"}
  <2>1. Dispatch(q, r)[2] = Guard(q, r)[2]
    BY <1>4 DEF Dispatch, Uses
  <2> QED
    BY <1>4, <2>1, GuardOK DEF Same
<1> QED
  BY <1>1, <1>2, <1>3, <1>4 DEF RequestRow

-----------------------------------------------------------------------------
(* The life of a process *)

\* A step of one process that keeps the ownership of the path: it keeps the rest.
LEMMA ProcKeeps ==
    ASSUME CapsuleInv, NEW p \in Procs, NEW q \in ProcRow,
           proc' = [proc EXCEPT ![p] = q], ProcStep,
           path' \in 0..MaxProcs, disk' \in Stores, faults' \in 0..MaxFaults,
           proc[p].at \notin {"none", "dead"}, q.at # "none",
           q.grant # 0 => q.at = "ready" /\ q.grant = proc[p].grant,
           Ownership'
    PROVE  CapsuleInv'
<1>1. /\ UNCHANGED <<launched, descriptor, registry, grant, cache, revoked, lock, call, Retired>>
      /\ orphans' \subseteq orphans /\ \A o \in orphans' : proc'[o.proc].at = "ready"
      /\ proc \in [Procs -> ProcRow]
  BY RetiredStays DEF ProcStep, CapsuleInv, Shape, ProcShape
<1>2. proc'[p] = q /\ \A d \in Procs : d # p => proc'[d] = proc[d]
  BY <1>1
<1>3. Shape'
  <2>1. proc' \in [Procs -> ProcRow]
    BY <1>1
  <2> QED
    BY <1>1, <2>1 DEF CapsuleInv, Shape, ProcShape, NodeShape
<1>4. Owner'
  BY <1>1, <1>2 DEF CapsuleInv, Owner
<1>5. Transitions'
  BY <1>1 DEF CapsuleInv, Transitions, RowFits, Active
<1>6. Unlaunched'
  BY <1>1 DEF CapsuleInv, Unlaunched
<1>7. Silent'
  <2>1. \A d \in Procs : proc'[d].grant # 0 => proc'[d].at = "ready" /\ proc'[d].grant \notin Retired
    BY <1>2 DEF CapsuleInv, Silent
  <2>2. \A o \in orphans' : o.request.kind = "install" => o.request.grant \notin Retired
    BY <1>1 DEF CapsuleInv, Silent
  <2> QED
    BY <1>1, <2>1, <2>2 DEF CapsuleInv, Silent
<1> QED
  BY <1>3, <1>4, <1>5, <1>6, <1>7 DEF CapsuleInv

\* The ownership is kept when the path is and the process does not enter.
LEMMA PathKept ==
    ASSUME CapsuleInv, NEW p \in Procs, NEW q,
           proc' = [proc EXCEPT ![p] = q], path' = path,
           q.at \in {"linked", "ready"} => proc[p].at \in {"linked", "ready"}
    PROVE  Ownership'
<1>1. proc'[p] = q /\ \A d \in Procs : d # p => proc'[d] = proc[d]
  BY DEF CapsuleInv, Shape, ProcShape
<1> QED
  BY <1>1 DEF CapsuleInv, Owner, Ownership

\* Publication, opening, writes, completions, closing and death of a process.
LEMMA ProcessSteps ==
    ASSUME CapsuleInv, NEW p \in Procs
    PROVE  /\ ProcessStep(p) => CapsuleInv'
           /\ Expire(p) \/ Die(p) => CapsuleInv'
           /\ \A k \in Keys : Complete(p, k) => CapsuleInv'
<1>0. /\ proc \in [Procs -> ProcRow] /\ proc[p] \in ProcRow
      /\ path \in 0..MaxProcs /\ disk \in Stores /\ faults \in 0..MaxFaults
      /\ proc[p].mem \in Stores /\ proc[p].timers \in SUBSET Keys
      /\ proc[p].write.next \in Stores /\ proc[p].write.started \in 0..MaxTurns
      /\ proc[p].grant # 0 => proc[p].at = "ready"
  <2>1. proc \in [Procs -> ProcRow] /\ proc[p] \in ProcRow
    BY DEF CapsuleInv, Shape, ProcShape
  <2> QED
    BY <2>1 DEF CapsuleInv, Shape, ProcShape, ProcRow, Silent
<1>1. ASSUME CheckPath(p) PROVE CapsuleInv'
  <2> DEFINE q == [proc[p] EXCEPT !.at = IF path = 0 THEN "checked" ELSE "dead"]
  <2>1. /\ proc' = [proc EXCEPT ![p] = q] /\ path' = path /\ disk' = disk /\ faults' = faults
        /\ proc[p].at = "started" /\ ProcStep
    BY <1>0, <1>1 DEF CheckPath
  <2>2. q \in ProcRow /\ q.at \in {"checked", "dead"} /\ q.grant = proc[p].grant
    BY <1>0 DEF ProcRow
  <2> HIDE DEF q
  <2>3. Ownership'
    BY <2>1, <2>2, PathKept
  <2> QED
    BY <1>0, <2>1, <2>2, <2>3, ProcKeeps
<1>2. ASSUME LinkPath(p) PROVE CapsuleInv'
  <2> DEFINE q == [proc[p] EXCEPT !.at = IF path = 0 THEN "linked" ELSE "dead"]
  <2>1. /\ proc' = [proc EXCEPT ![p] = q] /\ path' = (IF path = 0 THEN p ELSE path)
        /\ disk' = disk /\ faults' = faults /\ proc[p].at = "checked" /\ ProcStep
    BY <1>0, <1>2 DEF LinkPath
  <2>2. /\ q \in ProcRow /\ q.at = (IF path = 0 THEN "linked" ELSE "dead")
        /\ q.grant = proc[p].grant
    BY <1>0 DEF ProcRow
  <2> HIDE DEF q
  <2>3. Ownership'
    <3>1. proc'[p] = q /\ \A d \in Procs : d # p => proc'[d] = proc[d]
      BY <1>0, <2>1
    <3>2. 0 \notin Procs
      BY Constants DEF Procs
    <3> QED
      BY <2>1, <2>2, <3>1, <3>2 DEF CapsuleInv, Owner, Ownership
  <2>4. path' \in 0..MaxProcs
    BY <1>0, <2>1, Constants DEF Procs
  <2> QED
    BY <1>0, <2>1, <2>2, <2>3, <2>4, ProcKeeps
<1>3. ASSUME Open(p) PROVE CapsuleInv'
  <2> DEFINE t == {k \in Keys : disk.turns[k].state = "running"}
             q == [proc[p] EXCEPT !.at = "ready", !.mem = disk, !.timers = t]
  <2>1. /\ proc' = [proc EXCEPT ![p] = q] /\ path' = path /\ disk' = disk /\ faults' = faults
        /\ proc[p].at = "linked" /\ ProcStep
    BY <1>0, <1>3 DEF Open
  <2>2. q \in ProcRow /\ q.at = "ready" /\ q.grant = proc[p].grant
    <3>1. t \in SUBSET Keys
      OBVIOUS
    <3> HIDE DEF t
    <3> QED
      BY <1>0, <3>1 DEF ProcRow
  <2> HIDE DEF q
  <2>3. Ownership'
    BY <2>1, <2>2, PathKept
  <2> QED
    BY <1>0, <2>1, <2>2, <2>3, ProcKeeps
<1>4. ASSUME Commit(p) PROVE CapsuleInv'
  <2> DEFINE t == proc[p].timers \cup ({proc[p].write.started} \ {0})
             q == [proc[p] EXCEPT !.mem = proc[p].write.next, !.write = NoWrite, !.timers = t]
  <2>1. /\ proc' = [proc EXCEPT ![p] = q] /\ path' = path /\ disk' = proc[p].write.next
        /\ faults' = faults /\ Alive(p) /\ ProcStep
    BY <1>0, <1>4 DEF Commit
  <2>2. q \in ProcRow /\ q.at = proc[p].at /\ q.grant = proc[p].grant
    <3>1. t \in SUBSET Keys
      BY <1>0, Constants DEF Keys
    <3> HIDE DEF t
    <3> QED
      BY <1>0, <3>1, EmptyStoreOK DEF ProcRow
  <2> HIDE DEF q
  <2>3. Ownership'
    BY <2>1, <2>2, PathKept
  <2> QED
    BY <1>0, <2>1, <2>2, <2>3, ProcKeeps DEF Alive
<1>5. ASSUME NEW k \in Keys, Complete(p, k) PROVE CapsuleInv'
  <2> DEFINE b == [proc[p] EXCEPT !.timers = @ \ {k}]
             m == [b.mem EXCEPT !.turns[k].state = "completed"]
             q == IF b.mem.turns[k].state = "running" THEN Write(b, m, 0) ELSE b
  <2>1. /\ proc' = [proc EXCEPT ![p] = q] /\ path' = path /\ disk' = disk /\ faults' = faults
        /\ Alive(p) /\ ProcStep
    BY <1>0, <1>5 DEF Complete
  <2>2. Same(proc[p], b)
    BY <1>0 DEF Same, ProcRow
  <2> HIDE DEF b
  <2>3. m \in Stores
    <3>1. NoTurn \in [input : 0..MaxInputs, state : TurnStates]
      BY Constants DEF NoTurn, TurnStates
    <3>2. b.mem \in Stores
      BY <2>2 DEF Same, ProcRow
    <3> QED
      BY <3>1, <3>2, StoreUpdates DEF TurnStates
  <2> HIDE DEF m
  <2>4. Same(b, Write(b, m, 0))
    BY <2>2, <2>3, WriteOK, Constants DEF Same
  <2>5. q \in ProcRow /\ q.at = proc[p].at /\ q.grant = proc[p].grant
    BY <2>2, <2>4 DEF Same
  <2> HIDE DEF q
  <2>6. Ownership'
    BY <2>1, <2>5, PathKept
  <2> QED
    BY <1>0, <2>1, <2>5, <2>6, ProcKeeps DEF Alive
<1>6. ASSUME Expire(p) PROVE CapsuleInv'
  <2>1. /\ proc' = [proc EXCEPT ![p] = Abort(proc[p])] /\ path' = path /\ disk' = disk
        /\ faults' = faults /\ proc[p].at = "ready" /\ ProcStep
    BY <1>6 DEF Expire, Serving
  <2>2. /\ Abort(proc[p]) \in ProcRow /\ Abort(proc[p]).at = proc[p].at
        /\ Abort(proc[p]).grant = proc[p].grant
    BY <1>0, AbortOK DEF Same
  <2>3. Ownership'
    BY <2>1, <2>2, PathKept
  <2> QED
    BY <1>0, <2>1, <2>2, <2>3, ProcKeeps
<1>7. ASSUME BeginClose(p) PROVE CapsuleInv'
  <2> DEFINE q == [proc[p] EXCEPT !.at = "closing", !.live = FALSE, !.grant = 0, !.key = 0,
                                  !.retire = FALSE]
  <2>1. /\ proc' = [proc EXCEPT ![p] = q] /\ path' = path /\ disk' = disk /\ faults' = faults
        /\ proc[p].at = "ready" /\ ProcStep
    BY <1>0, <1>7 DEF BeginClose, Serving
  <2>2. q \in ProcRow /\ q.at = "closing" /\ q.grant = 0
    <3>1. 0 \in 0..MaxGrants /\ 0 \in 0..MaxTurns
      BY Constants
    <3> QED
      BY <1>0, <3>1 DEF ProcRow
  <2> HIDE DEF q
  <2>3. Ownership'
    BY <2>1, <2>2, PathKept
  <2> QED
    BY <1>0, <2>1, <2>2, <2>3, ProcKeeps
<1>8. ASSUME Unpublish(p) PROVE CapsuleInv'
  <2> DEFINE q == [proc[p] EXCEPT !.at = "draining", !.timers = {}]
  <2>1. /\ proc' = [proc EXCEPT ![p] = q] /\ path' = (IF path = p THEN 0 ELSE path)
        /\ disk' = disk /\ faults' = faults /\ proc[p].at = "closing" /\ ProcStep
    BY <1>0, <1>8 DEF Unpublish
  <2>2. q \in ProcRow /\ q.at = "draining" /\ q.grant = proc[p].grant
    BY <1>0 DEF ProcRow
  <2> HIDE DEF q
  <2>3. Ownership'
    <3>1. proc'[p] = q /\ \A d \in Procs : d # p => proc'[d] = proc[d]
      BY <1>0, <2>1
    <3> QED
      BY <2>1, <2>2, <3>1 DEF CapsuleInv, Owner, Ownership
  <2>4. path' \in 0..MaxProcs
    BY <1>0, <2>1, Constants
  <2> QED
    BY <1>0, <2>1, <2>2, <2>3, <2>4, ProcKeeps
<1>9. ASSUME Drained(p) \/ Die(p) PROVE CapsuleInv'
  <2> DEFINE q == [NewProc EXCEPT !.at = "dead"]
  <2>1. /\ proc' = [proc EXCEPT ![p] = q] /\ path' = path /\ disk' = disk
        /\ proc[p].at \notin {"none", "dead"} /\ ProcStep
    BY <1>9 DEF Drained, Die, Alive
  <2>2. faults' \in 0..MaxFaults
    BY <1>0, <1>9, Constants DEF Drained, Die
  <2>3. q \in ProcRow /\ q.at = "dead" /\ q.grant = 0
    BY NewProcOK
  <2> HIDE DEF q
  <2>4. Ownership'
    BY <2>1, <2>3, PathKept
  <2> QED
    BY <1>0, <2>1, <2>2, <2>3, <2>4, ProcKeeps
<1> QED
  BY <1>1, <1>2, <1>3, <1>4, <1>5, <1>6, <1>7, <1>8, <1>9 DEF ProcessStep

-----------------------------------------------------------------------------
(* The adapter *)

\* A request and its answer: the process stays where it is in its life, and
\* neither it nor the request left behind is for a retired grant.
LEMMA ExchangeOK ==
    ASSUME CapsuleInv, NEW r \in RequestRow, NEW reply, Exchange(r, reply),
           r.kind = "install" => r.grant \notin Retired
    PROVE  /\ proc' \in [Procs -> ProcRow]
           /\ orphans' \subseteq [proc : Procs, request : RequestRow]
           /\ faults' \in 0..MaxFaults
           /\ \A p \in Procs :
                 /\ proc'[p].at = proc[p].at
                 /\ proc'[p].grant # 0 => proc'[p].at = "ready" /\ proc'[p].grant \notin Retired
           /\ \A o \in orphans' :
                 /\ proc[o.proc].at = "ready"
                 /\ o.request.kind = "install" => o.request.grant \notin Retired
<1>0. /\ proc \in [Procs -> ProcRow] /\ faults \in 0..MaxFaults
      /\ orphans \subseteq [proc : Procs, request : RequestRow]
      /\ path \in 0..MaxProcs
  BY DEF CapsuleInv, Shape, ProcShape
<1>1. /\ \A p \in Procs : proc[p].grant # 0 => proc[p].at = "ready" /\ proc[p].grant \notin Retired
      /\ \A o \in orphans :
            /\ proc[o.proc].at = "ready"
            /\ o.request.kind = "install" => o.request.grant \notin Retired
  BY DEF CapsuleInv, Silent
<1>2. Reach = "ready" => path \in Procs /\ proc[path].at = "ready"
  BY <1>0, Constants DEF Reach, Serving, Procs
<1>3. CASE UNCHANGED <<proc, orphans, faults>>
  BY <1>0, <1>1, <1>3
<1>4. CASE /\ Reach = "ready"
           /\ proc' = [proc EXCEPT ![path] = Dispatch(proc[path], r)[2]]
           /\ UNCHANGED <<orphans, faults>>
  <2> DEFINE new == Dispatch(proc[path], r)[2]
  <2>1. path \in Procs /\ proc[path].at = "ready" /\ proc[path] \in ProcRow
    BY <1>0, <1>2, <1>4
  <2>2. /\ new \in ProcRow /\ new.at = "ready"
        /\ \/ new.grant = proc[path].grant
           \/ r.kind = "install" /\ new.grant = r.grant
    BY <2>1, DispatchOK
  <2>3. proc' = [proc EXCEPT ![path] = new]
    BY <1>4
  <2> HIDE DEF new
  <2>4. proc'[path] = new /\ \A d \in Procs : d # path => proc'[d] = proc[d]
    BY <1>0, <2>1, <2>3
  <2>5. proc' \in [Procs -> ProcRow]
    BY <1>0, <2>2, <2>3
  <2>6. \A p \in Procs :
           /\ proc'[p].at = proc[p].at
           /\ proc'[p].grant # 0 => proc'[p].at = "ready" /\ proc'[p].grant \notin Retired
    BY <1>1, <2>1, <2>2, <2>4
  <2> QED
    BY <1>0, <1>1, <1>4, <2>5, <2>6
<1>5. CASE /\ Reach = "ready" /\ faults < MaxFaults /\ faults' = faults + 1 /\ proc' = proc
           /\ orphans' = IF r.kind \in Lasting THEN orphans \cup {[proc |-> path, request |-> r]}
                         ELSE orphans
  <2>1. path \in Procs /\ proc[path].at = "ready"
    BY <1>2, <1>5
  <2>2. faults' \in 0..MaxFaults
    BY <1>0, <1>5, Constants
  <2> DEFINE o == [proc |-> path, request |-> r]
  <2>3. o \in [proc : Procs, request : RequestRow] /\ o.proc = path /\ o.request = r
    BY <2>1
  <2>4. orphans' \subseteq orphans \cup {o}
    BY <1>5
  <2> HIDE DEF o
  <2> QED
    BY <1>0, <1>1, <1>5, <2>1, <2>2, <2>3, <2>4
<1> QED
  BY <1>3, <1>4, <1>5 DEF Exchange

\* Only one call is inside the transition: the others are not disturbed.
LEMMA OthersFit ==
    ASSUME CapsuleInv, NEW c \in Callers, NEW row \in CallRow,
           call' = [call EXCEPT ![c] = row], grant' = grant,
           lock \in {c, "free"} \/ UNCHANGED <<lock, cache, Retired>>,
           revoked \subseteq revoked',
           grant.id \in Retired' => grant.id \in Retired \/ grant.id \in revoked',
           RowFits(c, row)'
    PROVE  Transitions'
<1>1. call \in [Callers -> CallRow]
  BY DEF CapsuleInv, Shape, NodeShape
<1>2. ASSUME NEW d \in Callers PROVE RowFits(d, call[d])'
  <2>1. CASE d = c
    <3>1. call'[d] = row
      BY <1>1, <2>1
    <3> QED
      BY <2>1, <3>1 DEF RowFits, Active
  <2>2. CASE d # c
    <3>1. call'[d] = call[d]
      BY <1>1, <2>2
    <3>2. RowFits(d, call[d])
      BY DEF CapsuleInv, Transitions
    <3>3. CASE lock \in {c, "free"}
      <4>1. ~Inside(call[d])
        BY <2>2, <3>2, <3>3, Constants DEF RowFits
      <4> QED
        BY <3>1, <3>2, <4>1 DEF RowFits, Inside
    <3>4. CASE UNCHANGED <<lock, cache, Retired>>
      BY <3>1, <3>2, <3>4 DEF RowFits, Inside, Active
    <3> QED
      BY <3>3, <3>4
  <2> QED
    BY <2>1, <2>2
<1> QED
  BY <1>2 DEF Transitions

\* A step of a call that exchanges a request.
LEMMA TalkKeeps ==
    ASSUME CapsuleInv, NEW c \in Callers, NEW row \in CallRow,
           call' = [call EXCEPT ![c] = row], row.at # "remove", descriptor,
           NEW r \in RequestRow, NEW reply, Exchange(r, reply),
           r.kind = "install" => r.grant \notin Retired,
           UNCHANGED <<path, launched, disk, descriptor, registry, grant, revoked, Retired>>,
           cache' \in [grant : 0..MaxGrants, key : 0..MaxTurns,
                       status : {"none", "installing", "active", "revoking", "revoked"}],
           cache'.status = "active" => cache'.grant \notin Retired,
           cache'.status = "revoked" => cache'.grant \in Retired,
           lock' \in Callers \cup {"free"}, Transitions'
    PROVE  CapsuleInv'
<1>1. /\ proc' \in [Procs -> ProcRow]
      /\ orphans' \subseteq [proc : Procs, request : RequestRow]
      /\ faults' \in 0..MaxFaults
      /\ \A p \in Procs :
            /\ proc'[p].at = proc[p].at
            /\ proc'[p].grant # 0 => proc'[p].at = "ready" /\ proc'[p].grant \notin Retired
      /\ \A o \in orphans' :
            /\ proc[o.proc].at = "ready"
            /\ o.request.kind = "install" => o.request.grant \notin Retired
  BY ExchangeOK
<1>2. call \in [Callers -> CallRow]
  BY DEF CapsuleInv, Shape, NodeShape
<1>3. call' \in [Callers -> CallRow] /\ call'[c] = row
      /\ \A d \in Callers : d # c => call'[d] = call[d]
  BY <1>2
<1>4. Shape'
  BY <1>1, <1>3 DEF CapsuleInv, Shape, ProcShape, NodeShape
<1>5. Owner'
  <2>1. Ownership' /\ \A p \in Procs : proc'[p].at = "none" <=> p > launched'
    BY <1>1 DEF CapsuleInv, Owner, Ownership
  <2>2. \A d \in Callers : call'[d].at = "remove" =>
           call'[d].stale \in Procs /\ proc'[call'[d].stale].at = "dead"
    BY <1>1, <1>3 DEF CapsuleInv, Owner
  <2> QED
    BY <2>1, <2>2 DEF Owner
<1>6. Unlaunched'
  BY DEF Unlaunched
<1>7. Silent'
  <2>1. \A o \in orphans' : proc'[o.proc].at = proc[o.proc].at
    BY <1>1
  <2> QED
    BY <1>1, <2>1 DEF CapsuleInv, Silent
<1> QED
  BY <1>4, <1>5, <1>6, <1>7 DEF CapsuleInv

\* A caller that has returned claims nothing.
LEMMA NoCallFits ==
    ASSUME NEW c \in Callers
    PROVE  NoCall \in CallRow /\ NoCall.at = "idle" /\ RowFits(c, NoCall)'
<1>1. NoCall \in CallRow
  BY Constants DEF NoCall, CallRow
<1>2. NoCall.at = "idle"
  BY DEF NoCall
<1> QED
  BY <1>1, <1>2 DEF RowFits, Inside

\* The call of a caller, moved on to its next step.
LEMMA RowMoves ==
    ASSUME CapsuleInv, NEW c \in Callers
    PROVE  /\ call[c] \in CallRow /\ RowFits(c, call[c])
           /\ call[c].at # "idle" => call[c] # NoCall
           /\ call[c].at \notin {"idle", "enter"} => descriptor
           /\ call[c].input \in 0..MaxInputs
<1>1. call[c] \in CallRow /\ call \in [Callers -> CallRow]
  BY DEF CapsuleInv, Shape, NodeShape
<1>2. RowFits(c, call[c])
  BY DEF CapsuleInv, Transitions
<1>3. call[c].at # "idle" => call[c] # NoCall
  BY DEF NoCall
<1>4. call[c].at \notin {"idle", "enter"} => descriptor
  BY DEF CapsuleInv, Unlaunched
<1>5. call[c].input \in 0..MaxInputs
  BY <1>1 DEF CallRow
<1> QED
  BY <1>1, <1>2, <1>3, <1>4, <1>5

\* A call moved to its next step keeps its operation.
LEMMA RowAt ==
    ASSUME CapsuleInv, NEW c \in Callers,
           NEW a \in {"enter", "probe", "sync", "resync", "send", "shutdown", "retire"},
           NEW row, row = [call[c] EXCEPT !.at = a]
    PROVE  row \in CallRow /\ row.at = a /\ row.op = call[c].op
<1>1. call[c] \in CallRow
  BY DEF CapsuleInv, Shape, NodeShape
<1> QED
  BY <1>1 DEF CallRow

\* A call that stays in its transition, or leaves it, while nothing else moves.
LEMMA StayFits ==
    ASSUME NEW c \in Callers, RowFits(c, call[c]), Inside(call[c]), call[c] # NoCall,
           NEW row, row.op = call[c].op, Inside(row) => lock' = c,
           row.at \in {"sync", "resync"} => row.op \in Guarded \cup {"renew"},
           row.at \in {"shutdown", "retire"} => row.op = "revoke",
           UNCHANGED <<grant, cache, revoked, Retired>>
    PROVE  RowFits(c, row)'
BY DEF RowFits, Active

\* The requests the adapter sends, for its own grant or the cached one.
LEMMA RequestOK ==
    ASSUME CapsuleInv,
           NEW kind \in Uses \cup {"install", "revoke", "lookup", "shutdown", "renew", "start"},
           NEW i \in 0..MaxInputs
    PROVE  /\ Request(kind, grant.id, grant.key, i) \in RequestRow
           /\ Request(kind, grant.id, grant.key, i).kind = kind
           /\ Request(kind, grant.id, grant.key, i).grant = grant.id
           /\ Request(kind, cache.grant, cache.key, i) \in RequestRow
           /\ Request(kind, cache.grant, cache.key, i).kind = kind
           /\ Request(kind, cache.grant, cache.key, i).grant = cache.grant
<1>1. /\ grant.id \in 0..MaxGrants /\ grant.key \in 0..MaxTurns
      /\ cache.grant \in 0..MaxGrants /\ cache.key \in 0..MaxTurns
  BY DEF CapsuleInv, Shape, NodeShape
<1> QED
  BY <1>1 DEF Request, RequestRow

\* A step of a call that exchanges a request and leaves the cache alone.
LEMMA TalkOK ==
    ASSUME CapsuleInv, NEW c \in Callers, call[c].at \notin {"idle", "enter"},
           NEW row \in CallRow, call' = [call EXCEPT ![c] = row], row.at # "remove",
           NEW r \in RequestRow, NEW reply, Exchange(r, reply),
           r.kind = "install" => r.grant \notin Retired,
           UNCHANGED <<path, launched, disk, descriptor, registry, grant, cache, revoked, Retired>>,
           (lock = c /\ lock' \in {c, "free"}) \/ lock' = lock,
           RowFits(c, row)'
    PROVE  CapsuleInv'
<1>1. Transitions'
  BY OthersFit
<1>2. /\ cache \in [grant : 0..MaxGrants, key : 0..MaxTurns,
                    status : {"none", "installing", "active", "revoking", "revoked"}]
      /\ lock \in Callers \cup {"free"}
      /\ cache.status = "active" => cache.grant \notin Retired
      /\ cache.status = "revoked" => cache.grant \in Retired
  BY DEF CapsuleInv, Shape, NodeShape, Silent
<1>3. descriptor
  BY RowMoves
<1> QED
  BY <1>1, <1>2, <1>3, TalkKeeps

\* syncAuthorityWithinTransition.
LEMMA SyncOK ==
    ASSUME CapsuleInv, NEW c \in Callers, Sync(c) \/ Resync(c)
    PROVE  CapsuleInv'
<1>1. /\ call[c].at \in {"sync", "resync"}
      /\ UNCHANGED <<path, launched, disk, descriptor, registry, grant, cache, revoked, Retired>>
  BY RetiredStays DEF Sync, Resync
<1>2. /\ call[c] \in CallRow /\ RowFits(c, call[c]) /\ call[c] # NoCall
      /\ Inside(call[c]) /\ lock = c /\ call[c].op \in Guarded \cup {"renew"}
      /\ Active /\ grant.id \notin Retired
  BY <1>1, RowMoves DEF RowFits, Inside, Authorizing
<1>3. PICK kind \in {"assert", "install"}, reply \in Replies :
        /\ Exchange(Request(kind, cache.grant, cache.key, 0), reply)
        /\ \/ Synced(c)
           \/ To(c, "resync") /\ UNCHANGED lock
           \/ Return(c) /\ Release(c)
  BY DEF Sync, Resync, Replies
<1>4. /\ Request(kind, cache.grant, cache.key, 0) \in RequestRow
      /\ Request(kind, cache.grant, cache.key, 0).grant = grant.id
  BY <1>2, RequestOK, Constants DEF Uses, Active
<1>5. CASE Synced(c) \/ (To(c, "resync") /\ UNCHANGED lock)
  <2>1. PICK a \in {"send", "resync"} :
          /\ call' = [call EXCEPT ![c].at = a]
          /\ a = "send" => lock' = IF call[c].op = "renew" THEN c ELSE "free"
          /\ a = "resync" => lock' = lock
    BY <1>5 DEF Synced, To
  <2>2. PICK row : row = [call[c] EXCEPT !.at = a]
    OBVIOUS
  <2>3. row \in CallRow /\ row.at = a /\ row.op = call[c].op
    BY <2>2, RowAt
  <2>4. call' = [call EXCEPT ![c] = row]
    BY <2>1, <2>2 DEF CapsuleInv, Shape, NodeShape
  <2>5. Inside(row) => lock' = c
    BY <1>2, <2>1, <2>3 DEF Inside, Guarded
  <2>6. RowFits(c, row)'
    BY <1>1, <1>2, <2>3, <2>5, StayFits
  <2>7. lock' \in {c, "free"}
    BY <1>2, <2>1
  <2> QED
    BY <1>1, <1>2, <1>3, <1>4, <2>3, <2>4, <2>6, <2>7, TalkOK
<1>6. CASE Return(c) /\ Release(c)
  BY <1>1, <1>2, <1>3, <1>4, <1>6, NoCallFits, TalkOK DEF Return, Release
<1> QED
  BY <1>3, <1>5, <1>6

\* The calls that end with their request.
LEMMA FinishOK ==
    ASSUME CapsuleInv, NEW c \in Callers, call[c].at = "send",
           NEW r \in RequestRow, r.kind # "install", Finish(c, r)
    PROVE  CapsuleInv'
<1>1. PICK reply \in Replies : Exchange(r, reply)
  BY DEF Finish
<1>2. ((lock = c /\ lock' = "free") \/ lock' = lock) /\ Retired' = Retired
  BY RetiredStays DEF Finish, Release
<1> QED
  BY <1>1, <1>2, NoCallFits, TalkOK DEF Finish, Return

\* renewAuthority, lookupTurn, startTurn and the other guarded requests.
LEMMA SendsOK ==
    ASSUME CapsuleInv, NEW c \in Callers,
           SendRenew(c) \/ SendLookup(c) \/ SendStart(c) \/ SendUse(c)
    PROVE  CapsuleInv'
<1>1. CASE SendRenew(c) \/ SendLookup(c) \/ SendStart(c)
  <2>1. PICK kind \in {"renew", "lookup", "start"} :
          call[c].at = "send" /\ Finish(c, Request(kind, grant.id, grant.key, call[c].input))
    BY <1>1 DEF SendRenew, SendLookup, SendStart, Mine
  <2>2. call[c].input \in 0..MaxInputs
    BY RowMoves
  <2>3. /\ Request(kind, grant.id, grant.key, call[c].input) \in RequestRow
        /\ Request(kind, grant.id, grant.key, call[c].input).kind = kind
    BY <2>2, RequestOK
  <2> QED
    BY <2>1, <2>3, FinishOK
<1>2. CASE SendUse(c)
  <2>1. PICK kind \in Uses, i \in Inputs :
          call[c].at = "send" /\ Finish(c, Request(kind, grant.id, grant.key, i))
    BY <1>2 DEF SendUse
  <2>2. i \in 0..MaxInputs
    BY Constants DEF Inputs
  <2>3. /\ Request(kind, grant.id, grant.key, i) \in RequestRow
        /\ Request(kind, grant.id, grant.key, i).kind = kind
    BY <2>2, RequestOK
  <2> QED
    BY <2>1, <2>3, FinishOK DEF Uses
<1> QED
  BY <1>1, <1>2

\* installAuthority: the grant was not retired when the transition began, and
\* nobody else retires it before it ends.
LEMMA SendInstallOK ==
    ASSUME CapsuleInv, NEW c \in Callers, SendInstall(c)
    PROVE  CapsuleInv'
<1>1. PICK reply \in Replies :
        /\ Exchange(Mine(c, "install"), reply)
        /\ cache' = [grant |-> grant.id, key |-> grant.key,
                     status |-> IF reply = "ok" THEN "active" ELSE "installing"]
  BY DEF SendInstall
<1>2. /\ call[c].at = "send" /\ call[c].op = "install" /\ Return(c) /\ Release(c)
      /\ UNCHANGED <<path, launched, disk, descriptor, registry, grant, revoked, Retired>>
  BY RetiredStays DEF SendInstall
<1>3. lock = c /\ grant.id \notin Retired /\ descriptor
  <2>1. RowFits(c, call[c]) /\ descriptor
    BY <1>2, RowMoves
  <2> QED
    BY <1>2, <2>1 DEF RowFits, Inside, Authorizing, Guarded
<1>4. /\ Mine(c, "install") \in RequestRow /\ Mine(c, "install").grant = grant.id
  <2>1. call[c].input \in 0..MaxInputs
    BY RowMoves
  <2> QED
    BY <2>1, RequestOK DEF Mine
<1>5. Transitions'
  BY <1>2, <1>3, NoCallFits, OthersFit DEF Return
<1>6. /\ cache' \in [grant : 0..MaxGrants, key : 0..MaxTurns,
                     status : {"none", "installing", "active", "revoking", "revoked"}]
      /\ cache'.grant = grant.id /\ cache'.status # "revoked"
  BY <1>1 DEF CapsuleInv, Shape, NodeShape
<1>7. lock' \in Callers \cup {"free"}
  BY <1>2, <1>3 DEF Release
<1> QED
  BY <1>1, <1>2, <1>3, <1>4, <1>5, <1>6, <1>7, NoCallFits, TalkKeeps DEF Return

\* revokeAuthority before the retirement.
LEMMA SendRevokeOK ==
    ASSUME CapsuleInv, NEW c \in Callers, SendRevoke(c) \/ Shutdown(c)
    PROVE  CapsuleInv'
<1>1. /\ call[c].at \in {"send", "shutdown"} /\ (call[c].at = "send" => call[c].op = "revoke")
      /\ UNCHANGED <<path, launched, disk, descriptor, registry, grant, cache, revoked, Retired>>
  BY RetiredStays DEF SendRevoke, Shutdown
<1>2. /\ call[c] \in CallRow /\ RowFits(c, call[c]) /\ call[c] # NoCall
      /\ Inside(call[c]) /\ lock = c /\ call[c].op = "revoke"
  BY <1>1, RowMoves DEF RowFits, Inside, Guarded
<1>3. PICK kind \in {"revoke", "shutdown"}, reply \in Replies :
        /\ Exchange(Mine(c, kind), reply)
        /\ \/ (To(c, "retire") \/ To(c, "shutdown")) /\ UNCHANGED lock
           \/ Return(c) /\ Release(c)
  BY DEF SendRevoke, Shutdown, Replies
<1>4. Mine(c, kind) \in RequestRow /\ Mine(c, kind).kind = kind
  <2>1. call[c].input \in 0..MaxInputs
    BY RowMoves
  <2> QED
    BY <2>1, RequestOK DEF Mine
<1>5. CASE (To(c, "retire") \/ To(c, "shutdown")) /\ UNCHANGED lock
  <2>1. PICK a \in {"retire", "shutdown"} : call' = [call EXCEPT ![c].at = a]
    BY <1>5 DEF To
  <2>2. PICK row : row = [call[c] EXCEPT !.at = a]
    OBVIOUS
  <2>3. row \in CallRow /\ row.at = a /\ row.op = call[c].op
    BY <2>2, RowAt
  <2>4. call' = [call EXCEPT ![c] = row]
    BY <2>1, <2>2 DEF CapsuleInv, Shape, NodeShape
  <2>5. RowFits(c, row)'
    BY <1>1, <1>2, <1>5, <2>3, StayFits
  <2> QED
    BY <1>1, <1>3, <1>4, <1>5, <2>3, <2>4, <2>5, TalkOK
<1>6. CASE Return(c) /\ Release(c)
  BY <1>1, <1>2, <1>3, <1>4, <1>6, NoCallFits, TalkOK DEF Return, Release
<1> QED
  BY <1>3, <1>5, <1>6

\* A step of a call that leaves the processes alone, up to what is retired.
LEMMA CallKeeps ==
    ASSUME CapsuleInv, NEW c \in Callers, NEW row \in CallRow,
           call' = [call EXCEPT ![c] = row], row.at # "remove",
           UNCHANGED <<path, proc, launched, disk, grant, orphans, faults>>,
           descriptor' \in BOOLEAN, registry' \in [Keys -> 0..MaxInputs],
           cache' \in [grant : 0..MaxGrants, key : 0..MaxTurns,
                       status : {"none", "installing", "active", "revoking", "revoked"}],
           revoked' \subseteq Grants,
           lock' \in Callers \cup {"free"}, Transitions', Unlaunched',
           cache'.status = "active" => cache'.grant \notin Retired',
           cache'.status = "revoked" => cache'.grant \in Retired',
           Retired' = Retired \/ \A p \in Procs : proc[p].at # "ready"
    PROVE  CapsuleInv'
<1>1. call \in [Callers -> CallRow]
  BY DEF CapsuleInv, Shape, NodeShape
<1>2. call' \in [Callers -> CallRow] /\ call'[c] = row
      /\ \A d \in Callers : d # c => call'[d] = call[d]
  BY <1>1
<1>3. Shape'
  BY <1>2 DEF CapsuleInv, Shape, ProcShape, NodeShape
<1>4. Owner'
  BY <1>2 DEF CapsuleInv, Owner, Ownership
<1>5. Silent'
  <2>1. \A p \in Procs : proc[p].grant # 0 => proc[p].at = "ready" /\ proc[p].grant \notin Retired'
    BY DEF CapsuleInv, Silent
  <2>2. ASSUME NEW o \in orphans
        PROVE  /\ proc[o.proc].at = "ready"
               /\ o.request.kind = "install" => o.request.grant \notin Retired'
    <3>1. o.proc \in Procs
      BY DEF CapsuleInv, Shape, ProcShape
    <3> QED
      BY <3>1 DEF CapsuleInv, Silent
  <2> QED
    BY <2>1, <2>2 DEF Silent
<1> QED
  BY <1>3, <1>4, <1>5 DEF CapsuleInv

\* The types of the adapter's state.
LEMMA NodeTypes ==
    ASSUME CapsuleInv
    PROVE  /\ descriptor \in BOOLEAN /\ registry \in [Keys -> 0..MaxInputs]
           /\ cache \in [grant : 0..MaxGrants, key : 0..MaxTurns,
                         status : {"none", "installing", "active", "revoking", "revoked"}]
           /\ revoked \subseteq Grants
           /\ lock \in Callers \cup {"free"} /\ call \in [Callers -> CallRow]
           /\ grant.id \in 0..MaxGrants /\ grant.key \in 0..MaxTurns
           /\ grant.id # 0 => grant.id \in Grants /\ grant.key \in Keys
           /\ cache.status = "active" => cache.grant \notin Retired
           /\ cache.status = "revoked" => cache.grant \in Retired
           /\ 0 \notin Retired /\ revoked \subseteq Retired
           /\ grant.held => (grant.id \in Retired => grant.id \in revoked)
<1>1. /\ descriptor \in BOOLEAN /\ registry \in [Keys -> 0..MaxInputs]
      /\ cache \in [grant : 0..MaxGrants, key : 0..MaxTurns,
                    status : {"none", "installing", "active", "revoking", "revoked"}]
      /\ revoked \subseteq Grants
      /\ lock \in Callers \cup {"free"} /\ call \in [Callers -> CallRow]
      /\ grant.id \in 0..MaxGrants /\ grant.key \in 0..MaxTurns
      /\ grant.id # 0 => grant.key \in Keys
  BY DEF CapsuleInv, Shape, NodeShape
<1>2. grant.id # 0 => grant.id \in Grants
  BY <1>1, Constants DEF Grants
<1>3. 0 \notin Retired /\ revoked \subseteq Retired
  BY <1>1, Constants DEF Retired, Grants
<1>4. grant.held => (grant.id \in Retired => grant.id \in revoked)
  BY DEF Retired
<1> QED
  BY <1>1, <1>2, <1>3, <1>4 DEF CapsuleInv, Silent

\* Calls that give up.
LEMMA GiveUpOK ==
    ASSUME CapsuleInv, NEW c \in Callers, Timeout(c) \/ Withdraw(c)
    PROVE  CapsuleInv'
<1>1. /\ call[c].at \notin {"idle", "enter"} /\ call' = [call EXCEPT ![c] = NoCall]
      /\ (lock = c /\ lock' = "free") \/ lock' = lock
      /\ UNCHANGED <<path, proc, launched, disk, descriptor, registry, grant, cache, revoked,
                     Retired, orphans, faults>>
  BY RetiredStays DEF Timeout, Withdraw, Return, Release, AdapterOnly
<1>2. Transitions'
  BY <1>1, NoCallFits, OthersFit
<1>3. descriptor
  BY <1>1, RowMoves
<1>4. Unlaunched'
  BY <1>1, <1>3 DEF Unlaunched
<1> QED
  BY <1>1, <1>2, <1>4, NoCallFits, NodeTypes, CallKeeps

\* Nobody serves when the socket is unreachable.
LEMMA Unreachable ==
    ASSUME CapsuleInv, Reach = "unavailable"
    PROVE  \A p \in Procs : proc[p].at # "ready"
<1>1. 0 \notin Procs
  BY Constants DEF Procs
<1> QED
  BY <1>1 DEF CapsuleInv, Owner, Ownership, Reach, Serving

\* waitForCapsuleRetirement: only an unreachable socket proves it.
LEMMA RetireOK ==
    ASSUME CapsuleInv, NEW c \in Callers, Retire(c)
    PROVE  CapsuleInv'
<1>1. /\ call[c].at = "retire" /\ Reach = "unavailable"
      /\ cache' = IF cache.status = "none" THEN cache ELSE [cache EXCEPT !.status = "revoked"]
      /\ revoked' = revoked \cup {grant.id} /\ Retired' = Retired \cup {grant.id}
      /\ call' = [call EXCEPT ![c] = NoCall] /\ lock' = (IF lock = c THEN "free" ELSE lock)
      /\ UNCHANGED <<path, proc, launched, disk, descriptor, registry, grant, orphans, faults>>
  BY RetiredGrows DEF Retire, Return, Release, AdapterOnly
<1>2. /\ RowFits(c, call[c]) /\ call[c] # NoCall /\ descriptor
  BY <1>1, RowMoves
<1>3. /\ lock = c /\ grant.id # 0
      /\ cache.status = "none" \/ cache.grant = grant.id
  BY <1>1, <1>2 DEF RowFits, Inside
<1>4. Transitions'
  BY <1>1, <1>3, NoCallFits, OthersFit
<1>5. Unlaunched'
  BY <1>1, <1>2 DEF Unlaunched
<1>6. /\ cache' \in [grant : 0..MaxGrants, key : 0..MaxTurns,
                     status : {"none", "installing", "active", "revoking", "revoked"}]
      /\ cache'.status # "active" /\ (cache'.status = "revoked" => cache'.grant = grant.id)
  BY <1>1, <1>3, NodeTypes
<1>7. revoked' \subseteq Grants
  BY <1>1, <1>3, NodeTypes
<1>8. \A p \in Procs : proc[p].at # "ready"
  BY <1>1, Unreachable
<1>9. lock' \in Callers \cup {"free"} /\ descriptor' \in BOOLEAN /\ registry' \in [Keys -> 0..MaxInputs]
  BY <1>1, NodeTypes
<1> QED
  BY <1>1, <1>4, <1>5, <1>6, <1>7, <1>8, <1>9, NoCallFits, CallKeeps

\* The checks under the Mission's lock.
LEMMA EnterOK ==
    ASSUME CapsuleInv, NEW c \in Callers, Enter(c)
    PROVE  CapsuleInv'
<1>1. /\ call[c].at = "enter" /\ lock = "free"
      /\ UNCHANGED <<path, proc, launched, disk, registry, grant, orphans, faults>>
  BY DEF Enter
<1>2. /\ call[c] \in CallRow /\ call[c] # NoCall /\ grant.id # 0
      /\ call[c].op # "lookup" /\ grant.id \in Retired => grant.id \in revoked
  BY <1>1, RowMoves DEF RowFits
<1>3. ASSUME NEW a \in {"probe", "send"}, To(c, a), lock' = c, descriptor' = TRUE,
             UNCHANGED <<revoked, Retired>>,
             a = "send" => call[c].op = "revoke",
             \/ cache' = cache
             \/ /\ cache' = [cache EXCEPT !.status = "revoking"]
                /\ call[c].op = "revoke" /\ cache.grant = grant.id,
             call[c].op \in Authorizing => grant.id \notin Retired,
             call[c].op \in Guarded \cup {"renew"} => Active,
             call[c].op = "revoke" => cache.status = "none" \/ cache.grant = grant.id
      PROVE  CapsuleInv'
  <2>1. PICK row : row = [call[c] EXCEPT !.at = a]
    OBVIOUS
  <2>2. row \in CallRow /\ row.at = a /\ row.op = call[c].op
    BY <2>1, RowAt
  <2>3. call' = [call EXCEPT ![c] = row]
    BY <1>3, <2>1, NodeTypes DEF To
  <2>4. /\ cache' \in [grant : 0..MaxGrants, key : 0..MaxTurns,
                       status : {"none", "installing", "active", "revoking", "revoked"}]
        /\ cache'.grant = cache.grant
        /\ cache'.status = cache.status \/ (cache'.status = "revoking" /\ call[c].op = "revoke")
    BY <1>3, NodeTypes
  <2>5. RowFits(c, row)'
    <3>1. call[c].op \in Guarded \cup {"renew"} => Active'
      <4>1. call[c].op \in Guarded \cup {"renew"} => call[c].op # "revoke"
        BY DEF Guarded
      <4> QED
        BY <1>1, <1>3, <2>4, <4>1 DEF Active
    <3>2. call[c].op = "revoke" => cache'.status = "none" \/ cache'.grant = grant'.id
      BY <1>1, <1>3, <2>4
    <3> QED
      BY <1>1, <1>2, <1>3, <2>2, <3>1, <3>2 DEF RowFits
  <2>6. Transitions'
    BY <1>1, <1>3, <2>2, <2>3, <2>5, OthersFit
  <2>7. Unlaunched'
    BY <1>3 DEF Unlaunched
  <2>8. /\ registry' \in [Keys -> 0..MaxInputs]
        /\ revoked' \subseteq Grants
        /\ cache'.status = "active" => cache'.grant \notin Retired'
        /\ cache'.status = "revoked" => cache'.grant \in Retired'
    BY <1>1, <1>3, <2>4, NodeTypes
  <2> QED
    BY <1>1, <1>3, <2>2, <2>3, <2>4, <2>6, <2>7, <2>8, CallKeeps
<1>4. ASSUME ~descriptor
      PROVE  /\ cache.status = "none" /\ call[c].op # "lookup"
             /\ \A p \in Procs : proc[p].at # "ready"
  <2>1. \A p \in Procs : p > 0
    BY Constants DEF Procs
  <2> QED
    BY <1>4, <2>1 DEF CapsuleInv, Unlaunched, Owner
<1>5. CASE call[c].op = "install" /\ MayInstall /\ descriptor' = TRUE /\ lock' = c
           /\ To(c, "probe") /\ UNCHANGED <<cache, revoked, Retired>>
  <2>1. grant.id \notin Retired
    BY <1>2, <1>5 DEF MayInstall
  <2> QED
    BY <1>3, <1>5, <2>1 DEF Guarded
<1>6. CASE call[c].op \in Guarded \cup {"renew"} /\ Active /\ lock' = c /\ To(c, "probe")
           /\ UNCHANGED <<descriptor, cache, revoked, Retired>>
  <2>1. grant.id \notin Retired /\ descriptor /\ call[c].op # "revoke"
    BY <1>4, <1>6, NodeTypes DEF Active, Guarded
  <2> QED
    BY <1>3, <1>6, <2>1
<1>7. CASE call[c].op = "lookup" /\ lock' = c /\ To(c, "probe")
           /\ UNCHANGED <<descriptor, cache, revoked, Retired>>
  BY <1>3, <1>4, <1>7 DEF Guarded, Authorizing
<1>8. CASE /\ call[c].op = "revoke" /\ AlreadyRetired
           /\ Retired' = Retired \cup {grant.id} /\ revoked' = revoked \cup {grant.id}
           /\ Return(c) /\ UNCHANGED <<descriptor, cache, lock>>
  <2>1. \/ Retired' = Retired
        \/ cache.status = "none" /\ \A p \in Procs : proc[p].at # "ready"
    BY <1>4, <1>8, NodeTypes DEF AlreadyRetired
  <2>2. cache.status \in {"none", "revoked"}
    BY <1>8 DEF AlreadyRetired
  <2>3. revoked' \subseteq Grants
    BY <1>2, <1>8, NodeTypes
  <2>4. Transitions'
    BY <1>1, <1>8, NoCallFits, OthersFit DEF Return
  <2>5. Unlaunched'
    <3>1. \A d \in Callers : call'[d] \in {call[d], NoCall}
      BY <1>8, NodeTypes DEF Return
    <3>2. NoCall.op # "lookup" /\ NoCall.at = "idle"
      BY DEF NoCall
    <3> QED
      BY <1>1, <1>8, <3>1, <3>2 DEF CapsuleInv, Unlaunched
  <2>6. cache'.status # "active" /\ (cache'.status = "revoked" => cache'.grant \in Retired')
    BY <1>8, <2>2, NodeTypes
  <2> QED
    BY <1>1, <1>8, <2>1, <2>3, <2>4, <2>5, <2>6, NoCallFits, NodeTypes, CallKeeps DEF Return
<1>9. CASE /\ call[c].op = "revoke" /\ ~AlreadyRetired
           /\ cache.status = "none" \/ cache.grant = grant.id
           /\ cache' = IF cache.status = "none" THEN cache ELSE [cache EXCEPT !.status = "revoking"]
           /\ lock' = c /\ To(c, "send") /\ UNCHANGED <<descriptor, revoked, Retired>>
  <2>1. descriptor /\ call[c].op \notin Authorizing \cup Guarded \cup {"renew"}
    BY <1>4, <1>9 DEF AlreadyRetired, Authorizing, Guarded
  <2> QED
    BY <1>3, <1>9, <2>1
<1>10. CASE Return(c) /\ UNCHANGED <<descriptor, cache, revoked, Retired, lock>>
  <2>1. Transitions'
    BY <1>1, <1>10, NoCallFits, OthersFit DEF Return
  <2>2. Unlaunched'
    <3>1. \A d \in Callers : call'[d] \in {call[d], NoCall}
      BY <1>10, NodeTypes DEF Return
    <3>2. NoCall.op # "lookup" /\ NoCall.at = "idle"
      BY DEF NoCall
    <3> QED
      BY <1>1, <1>10, <3>1, <3>2 DEF CapsuleInv, Unlaunched
  <2> QED
    BY <1>1, <1>10, <2>1, <2>2, NoCallFits, NodeTypes, CallKeeps DEF Return
<1>11. revoked' = revoked => Retired' = Retired
  BY <1>1, RetiredStays
<1>12. revoked' = revoked \cup {grant.id} => Retired' = Retired \cup {grant.id}
  BY <1>1, RetiredGrows
<1> QED
  BY <1>5, <1>6, <1>7, <1>8, <1>9, <1>10, <1>11, <1>12 DEF Enter

\* The public operations up to their transition.
LEMMA CallOK ==
    ASSUME CapsuleInv, NEW c \in Callers, NEW op \in OpsOf(c), NEW i \in {0} \cup Inputs,
           Call(c, op, i)
    PROVE  CapsuleInv'
<1>1. PICK row : row = [NoCall EXCEPT !.op = op, !.at = "enter", !.input = i]
  OBVIOUS
<1>2. /\ grant.id # 0 /\ (grant.held \/ op = "lookup") /\ (op \in Guarded => Active)
      /\ op = "lookup" => registry[grant.key] # 0
      /\ registry' = IF op = "start" THEN [registry EXCEPT ![grant.key] = i] ELSE registry
      /\ call' = [call EXCEPT ![c] = row]
      /\ UNCHANGED <<path, proc, launched, disk, descriptor, grant, cache, revoked, lock,
                     orphans, Retired, faults>>
  BY <1>1, RetiredStays DEF Call
<1>3. op \in Ops /\ i \in 0..MaxInputs
  BY Constants DEF OpsOf, Ops, Inputs
<1>4. row \in CallRow /\ row.at = "enter" /\ row.op = op
  BY <1>1, <1>3, NoCallFits DEF CallRow
<1>5. RowFits(c, row)'
  BY <1>2, <1>4, NodeTypes DEF RowFits, Inside
<1>6. Transitions'
  BY <1>2, <1>4, <1>5, OthersFit
<1>7. Unlaunched'
  <2>1. CASE descriptor
    BY <1>2, <2>1 DEF Unlaunched
  <2>2. CASE ~descriptor
    <3>1. /\ launched = 0 /\ cache.status = "none" /\ \A k \in Keys : registry[k] = 0
          /\ \A d \in Callers : call[d].at \in {"idle", "enter"} /\ call[d].op # "lookup"
      BY <2>2 DEF CapsuleInv, Unlaunched
    <3>2. op \notin {"start", "lookup"}
      BY <1>2, <3>1, NodeTypes DEF Active, Guarded
    <3>3. \A d \in Callers : call'[d] \in {call[d], row}
      BY <1>2, NodeTypes
    <3> QED
      BY <1>2, <1>4, <3>1, <3>2, <3>3 DEF Unlaunched
  <2> QED
    BY <2>1, <2>2
<1>8. registry' \in [Keys -> 0..MaxInputs]
  BY <1>2, <1>3, NodeTypes
<1> QED
  BY <1>2, <1>4, <1>6, <1>7, <1>8, NodeTypes, CallKeeps

\* The journal's next grant.
LEMMA CheckpointOK ==
    ASSUME CapsuleInv, Checkpoint
    PROVE  CapsuleInv'
<1>1. PICK k \in {grant.key, grant.key + 1} \cap Keys :
        grant' = [id |-> grant.id + 1, key |-> k, held |-> TRUE]
  BY DEF Checkpoint
<1>2. /\ grant.held => grant.id \in revoked
      /\ grant.id < MaxGrants /\ \A c \in Callers : call[c] = NoCall
      /\ UNCHANGED <<path, proc, launched, disk, descriptor, registry, cache, revoked, lock,
                     call, orphans, faults>>
  BY DEF Checkpoint
<1>3. /\ grant' \in [id : 0..MaxGrants, key : 0..MaxTurns, held : BOOLEAN]
      /\ grant'.key \in Keys /\ grant'.id = grant.id + 1 /\ grant'.held
  <2>1. grant.id + 1 \in 0..MaxGrants
    BY <1>2, NodeTypes, Constants
  <2>2. k \in Keys /\ k \in 0..MaxTurns
    BY Constants DEF Keys
  <2> QED
    BY <1>1, <2>1, <2>2
<1>4. Retired' = Retired
  <2>1. grant.id \in Nat
    BY NodeTypes, Constants
  <2>2. {g \in 1..grant'.id : g = grant'.id => ~grant'.held} = 1..grant.id
    BY <1>3, <2>1
  <2>3. revoked \cup {g \in 1..grant.id : g = grant.id => ~grant.held} = revoked \cup 1..grant.id
    BY <1>2, <2>1
  <2> QED
    BY <1>2, <2>2, <2>3 DEF Retired
<1>5. Shape'
  BY <1>2, <1>3 DEF CapsuleInv, Shape, ProcShape, NodeShape
<1>6. Owner' /\ Unlaunched' /\ Silent'
  BY <1>2, <1>4 DEF CapsuleInv, Owner, Ownership, Unlaunched, Silent
<1>7. Transitions'
  BY <1>2, NoCallFits DEF Transitions, RowFits
<1> QED
  BY <1>5, <1>6, <1>7 DEF CapsuleInv

\* retireJournaled: what the journal lets go of was retired already.
LEMMA DiscardOK ==
    ASSUME CapsuleInv, Discard
    PROVE  CapsuleInv'
<1>1. /\ grant.held /\ grant.id \in revoked /\ grant' = [grant EXCEPT !.held = FALSE]
      /\ UNCHANGED <<path, proc, launched, disk, descriptor, registry, cache, revoked, lock,
                     call, orphans, faults>>
  BY DEF Discard
<1>2. /\ grant' \in [id : 0..MaxGrants, key : 0..MaxTurns, held : BOOLEAN]
      /\ grant'.id = grant.id /\ grant'.key = grant.key /\ ~grant'.held
  BY <1>1 DEF CapsuleInv, Shape, NodeShape
<1>3. Retired' = Retired
  BY <1>1, <1>2 DEF Retired
<1>4. Shape'
  BY <1>1, <1>2 DEF CapsuleInv, Shape, ProcShape, NodeShape
<1>5. Owner' /\ Unlaunched' /\ Silent'
  BY <1>1, <1>3 DEF CapsuleInv, Owner, Ownership, Unlaunched, Silent
<1>6. Transitions'
  BY <1>1, <1>2, <1>3 DEF CapsuleInv, Transitions, RowFits, Active
<1> QED
  BY <1>4, <1>5, <1>6 DEF CapsuleInv

\* The Node restarts with its registry, its descriptor and its journaled grant;
\* what it remembered as revoked is no longer retired.
LEMMA RestartNodeOK ==
    ASSUME CapsuleInv, RestartNode
    PROVE  CapsuleInv'
<1>1. /\ faults < MaxFaults /\ faults' = faults + 1 /\ cache' = NoCache /\ revoked' = {}
      /\ lock' = "free" /\ call' = [c \in Callers |-> NoCall]
      /\ UNCHANGED <<path, proc, launched, disk, descriptor, registry, grant, orphans>>
      /\ Retired' \subseteq Retired
  BY DEF RestartNode, Retired
<1>2. faults' \in 0..MaxFaults
  BY <1>1, Constants DEF CapsuleInv, Shape, ProcShape
<1>3. /\ cache' \in [grant : 0..MaxGrants, key : 0..MaxTurns,
                     status : {"none", "installing", "active", "revoking", "revoked"}]
      /\ cache'.status = "none"
  BY <1>1, Constants DEF NoCache
<1>4. call' \in [Callers -> CallRow] /\ \A c \in Callers : call'[c] = NoCall
  BY <1>1, NoCallFits
<1>5. NoCall.at = "idle" /\ NoCall.op # "lookup"
  BY DEF NoCall
<1>6. Shape'
  BY <1>1, <1>2, <1>3, <1>4 DEF CapsuleInv, Shape, ProcShape, NodeShape
<1>7. Owner' /\ Unlaunched' /\ Silent'
  BY <1>1, <1>3, <1>4, <1>5 DEF CapsuleInv, Owner, Ownership, Unlaunched, Silent
<1>8. Transitions'
  BY <1>4, NoCallFits DEF Transitions, RowFits
<1> QED
  BY <1>6, <1>7, <1>8 DEF CapsuleInv

\* startOrAwaitCapsule: a launch, a stale socket found, or a process that serves.
LEMMA ProbeOK ==
    ASSUME CapsuleInv, NEW c \in Callers, Probe(c)
    PROVE  CapsuleInv'
<1>1. /\ call[c].at = "probe"
      /\ UNCHANGED <<path, cache, revoked, lock, Retired, faults, disk, descriptor, registry,
                     grant, orphans>>
  BY RetiredStays DEF Probe, AdapterOnly
<1>2. /\ call[c] \in CallRow /\ RowFits(c, call[c]) /\ call[c] # NoCall /\ descriptor
      /\ Inside(call[c]) /\ lock = c
  BY <1>1, RowMoves DEF RowFits, Inside
<1>3. ASSUME NEW row \in CallRow, call' = [call EXCEPT ![c] = row], row.op = call[c].op,
             row.at \in {"sync", "send", "probe", "remove"},
             row.at = "sync" => row.op \in Guarded \cup {"renew"}
      PROVE  Transitions'
  <2>1. RowFits(c, row)'
    BY <1>1, <1>2, <1>3, StayFits
  <2> QED
    BY <1>1, <1>2, <1>3, <2>1, OthersFit
<1>4. Unlaunched'
  BY <1>1, <1>2 DEF Unlaunched
<1>5. CASE call' = [call EXCEPT ![c].at = AfterReady(c), ![c].tried = FALSE]
           /\ UNCHANGED <<proc, launched>>
  <2>1. PICK row : row = [call[c] EXCEPT !.at = AfterReady(c), !.tried = FALSE]
    OBVIOUS
  <2>2. /\ AfterReady(c) \in {"sync", "send"}
        /\ AfterReady(c) = "sync" => call[c].op \in Guarded \cup {"renew"}
    BY DEF AfterReady
  <2>3. row \in CallRow /\ row.at = AfterReady(c) /\ row.op = call[c].op
    BY <1>2, <2>1, <2>2 DEF CallRow
  <2>4. call' = [call EXCEPT ![c] = row]
    BY <1>5, <2>1, NodeTypes
  <2>5. Transitions'
    BY <1>3, <2>2, <2>3, <2>4
  <2>6. row.at # "remove"
    BY <2>2, <2>3
  <2>7. /\ UNCHANGED <<path, proc, launched, disk, grant, orphans, faults>>
        /\ descriptor' \in BOOLEAN /\ registry' \in [Keys -> 0..MaxInputs]
        /\ cache' \in [grant : 0..MaxGrants, key : 0..MaxTurns,
                       status : {"none", "installing", "active", "revoking", "revoked"}]
        /\ revoked' \subseteq Grants
        /\ lock' \in Callers \cup {"free"} /\ Retired' = Retired
        /\ cache'.status = "active" => cache'.grant \notin Retired'
        /\ cache'.status = "revoked" => cache'.grant \in Retired'
    BY <1>1, <1>5, NodeTypes
  <2> QED
    BY <1>4, <2>3, <2>4, <2>5, <2>6, <2>7, CallKeeps
<1>6. CASE /\ path = 0 /\ launched < MaxProcs
           /\ launched' = launched + 1
           /\ proc' = [proc EXCEPT ![launched + 1].at = "started"]
           /\ call' = [call EXCEPT ![c].tried = TRUE]
  <2>1. PICK row : row = [call[c] EXCEPT !.tried = TRUE]
    OBVIOUS
  <2>2. row \in CallRow /\ row.at = "probe" /\ row.op = call[c].op
    BY <1>1, <1>2, <2>1 DEF CallRow
  <2>3. call' = [call EXCEPT ![c] = row]
    BY <1>6, <2>1, NodeTypes
  <2>4. Transitions'
    BY <1>3, <2>2, <2>3
  <2>5. /\ call' \in [Callers -> CallRow] /\ call'[c] = row
        /\ \A d \in Callers : d # c => call'[d] = call[d]
    BY <2>2, <2>3, NodeTypes
  <2>6. launched \in 0..MaxProcs /\ proc \in [Procs -> ProcRow]
    BY DEF CapsuleInv, Shape, ProcShape
  <2>7. PICK n : n = launched + 1
    OBVIOUS
  <2>8. n \in Procs /\ launched' \in 0..MaxProcs /\ n > launched
    BY <1>6, <2>6, <2>7, Constants DEF Procs
  <2>9. PICK q : q = [proc[n] EXCEPT !.at = "started"]
    OBVIOUS
  <2>10. proc[n] \in ProcRow /\ proc[n].at = "none" /\ proc[n].grant = 0
    BY <2>6, <2>8 DEF CapsuleInv, Owner, Silent
  <2>11. q \in ProcRow /\ q.at = "started" /\ q.grant = 0
    BY <2>9, <2>10 DEF ProcRow
  <2>12. proc' = [proc EXCEPT ![n] = q]
    BY <1>6, <2>6, <2>7, <2>9
  <2>13. /\ proc' \in [Procs -> ProcRow] /\ proc'[n] = q
         /\ \A d \in Procs : d # n => proc'[d] = proc[d]
    BY <2>6, <2>8, <2>11, <2>12
  <2>14. Shape'
    BY <1>1, <2>5, <2>8, <2>13 DEF CapsuleInv, Shape, ProcShape, NodeShape
  <2>15. Owner'
    <3>1. Ownership'
      BY <1>1, <2>11, <2>13 DEF CapsuleInv, Owner, Ownership
    <3>2. \A d \in Procs : proc'[d].at = "none" <=> d > launched'
      <4>1. \A d \in Procs : d > launched' <=> d > launched /\ d # n
        BY <1>6, <2>6, <2>7 DEF Procs
      <4> QED
        BY <2>11, <2>13, <4>1 DEF CapsuleInv, Owner
    <3>3. \A d \in Callers : call'[d].at = "remove" =>
             call'[d].stale \in Procs /\ proc'[call'[d].stale].at = "dead"
      BY <2>2, <2>5, <2>10, <2>13 DEF CapsuleInv, Owner
    <3> QED
      BY <3>1, <3>2, <3>3 DEF Owner
  <2>16. Silent'
    <3>1. \A o \in orphans : o.proc \in Procs /\ proc'[o.proc] = proc[o.proc]
      BY <2>10, <2>13 DEF CapsuleInv, Shape, ProcShape, Silent
    <3>2. \A d \in Procs : proc'[d].grant # 0 => proc'[d].at = "ready" /\ proc'[d].grant \notin Retired
      BY <2>11, <2>13 DEF CapsuleInv, Silent
    <3> QED
      BY <1>1, <3>1, <3>2 DEF CapsuleInv, Silent
  <2> QED
    BY <1>4, <2>4, <2>14, <2>15, <2>16 DEF CapsuleInv
<1>7. CASE /\ path # 0 /\ Reach = "unavailable"
           /\ call' = [call EXCEPT ![c].at = "remove", ![c].stale = path]
           /\ UNCHANGED <<proc, launched>>
  <2>1. PICK row : row = [call[c] EXCEPT !.at = "remove", !.stale = path]
    OBVIOUS
  <2>2. path \in Procs /\ path \in 0..MaxProcs /\ proc[path].at = "dead"
    BY <1>7, Constants DEF Reach, Serving, CapsuleInv, Shape, ProcShape, Procs
  <2>3. row \in CallRow /\ row.at = "remove" /\ row.op = call[c].op /\ row.stale = path
    BY <1>2, <2>1, <2>2 DEF CallRow
  <2>4. call' = [call EXCEPT ![c] = row]
    BY <1>7, <2>1, NodeTypes
  <2>5. Transitions'
    BY <1>3, <2>3, <2>4
  <2>6. /\ call' \in [Callers -> CallRow] /\ call'[c] = row
        /\ \A d \in Callers : d # c => call'[d] = call[d]
    BY <2>3, <2>4, NodeTypes
  <2>7. Shape'
    BY <1>1, <1>7, <2>6 DEF CapsuleInv, Shape, ProcShape, NodeShape
  <2>8. Owner'
    BY <1>1, <1>7, <2>2, <2>3, <2>6 DEF CapsuleInv, Owner, Ownership
  <2>9. Silent'
    BY <1>1, <1>7 DEF CapsuleInv, Silent
  <2> QED
    BY <1>4, <2>5, <2>7, <2>8, <2>9 DEF CapsuleInv
<1> QED
  BY <1>5, <1>6, <1>7 DEF Probe

\* removeUnchangedSocket: the socket it removes is of a process that is dead.
LEMMA RemoveStaleOK ==
    ASSUME CapsuleInv, NEW c \in Callers, RemoveStale(c)
    PROVE  CapsuleInv'
<1>1. /\ call[c].at = "remove" /\ path' = (IF path = call[c].stale THEN 0 ELSE path)
      /\ call' = [call EXCEPT ![c].at = "probe", ![c].stale = 0]
      /\ UNCHANGED <<proc, launched, cache, revoked, lock, Retired, faults, disk, descriptor,
                     registry, grant, orphans>>
  BY RetiredStays DEF RemoveStale, AdapterOnly
<1>2. /\ call[c] \in CallRow /\ RowFits(c, call[c]) /\ call[c] # NoCall /\ descriptor
      /\ Inside(call[c]) /\ lock = c
  BY <1>1, RowMoves DEF RowFits, Inside
<1>3. PICK row : row = [call[c] EXCEPT !.at = "probe", !.stale = 0]
  OBVIOUS
<1>4. row \in CallRow /\ row.at = "probe" /\ row.op = call[c].op
  <2>1. 0 \in 0..MaxProcs
    BY Constants
  <2> QED
    BY <1>2, <1>3, <2>1 DEF CallRow
<1>5. call' = [call EXCEPT ![c] = row]
  BY <1>1, <1>3, NodeTypes
<1>6. RowFits(c, row)'
  BY <1>1, <1>2, <1>4, StayFits
<1>7. Transitions'
  BY <1>1, <1>2, <1>4, <1>5, <1>6, OthersFit
<1>8. /\ call' \in [Callers -> CallRow] /\ call'[c] = row
      /\ \A d \in Callers : d # c => call'[d] = call[d]
  BY <1>4, <1>5, NodeTypes
<1>9. Shape'
  <2>1. path' \in 0..MaxProcs
    BY <1>1, Constants DEF CapsuleInv, Shape, ProcShape
  <2> QED
    BY <1>1, <1>8, <2>1 DEF CapsuleInv, Shape, ProcShape, NodeShape
<1>10. Owner'
  <2>1. proc[call[c].stale].at = "dead"
    BY <1>1 DEF CapsuleInv, Owner
  <2>2. Ownership'
    BY <1>1, <2>1 DEF CapsuleInv, Owner, Ownership
  <2> QED
    BY <1>1, <1>4, <1>8, <2>2 DEF CapsuleInv, Owner
<1>11. Unlaunched' /\ Silent'
  BY <1>1, <1>2 DEF CapsuleInv, Unlaunched, Silent
<1> QED
  BY <1>7, <1>9, <1>10, <1>11 DEF CapsuleInv

\* A request served after its sender has gone.
LEMMA ServeOrphanOK ==
    ASSUME CapsuleInv, NEW p \in Procs, NEW o \in orphans, ServeOrphan(p, o)
    PROVE  CapsuleInv'
<1>1. /\ o.proc = p /\ orphans' = orphans \ {o}
      /\ UNCHANGED <<path, launched, disk, descriptor, registry, grant, cache, revoked, lock,
                     call, Retired, faults>>
  BY RetiredStays DEF ServeOrphan
<1>2. proc \in [Procs -> ProcRow] /\ orphans \subseteq [proc : Procs, request : RequestRow]
  BY DEF CapsuleInv, Shape, ProcShape
<1>3. /\ \A d \in Procs : proc[d].grant # 0 => proc[d].at = "ready" /\ proc[d].grant \notin Retired
      /\ \A w \in orphans :
            /\ proc[w.proc].at = "ready"
            /\ w.request.kind = "install" => w.request.grant \notin Retired
  BY DEF CapsuleInv, Silent
<1>4. /\ proc' \in [Procs -> ProcRow]
      /\ \A d \in Procs :
            /\ proc'[d].at = proc[d].at
            /\ proc'[d].grant # 0 => proc'[d].at = "ready" /\ proc'[d].grant \notin Retired
  <2> DEFINE new == Dispatch(proc[p], o.request)[2]
  <2>1. o.request \in RequestRow /\ proc[p] \in ProcRow
    BY <1>2
  <2>2. /\ new \in ProcRow /\ new.at = proc[p].at
        /\ \/ new.grant = proc[p].grant
           \/ o.request.kind = "install" /\ new.grant = o.request.grant
    BY <2>1, DispatchOK
  <2>3. proc' = [proc EXCEPT ![p] = new] /\ proc[p].at = "ready"
    BY DEF ServeOrphan, Serving
  <2> HIDE DEF new
  <2>4. proc'[p] = new /\ \A d \in Procs : d # p => proc'[d] = proc[d]
    BY <1>2, <2>3
  <2>5. proc' \in [Procs -> ProcRow]
    BY <1>2, <2>2, <2>3
  <2> QED
    BY <1>1, <1>3, <2>2, <2>3, <2>4, <2>5
<1>5. Shape'
  BY <1>1, <1>2, <1>4 DEF CapsuleInv, Shape, ProcShape, NodeShape
<1>6. Owner'
  BY <1>1, <1>4 DEF CapsuleInv, Owner, Ownership
<1>7. Transitions' /\ Unlaunched'
  BY <1>1 DEF CapsuleInv, Transitions, RowFits, Active, Unlaunched
<1>8. Silent'
  <2>1. \A w \in orphans : proc'[w.proc].at = proc[w.proc].at
    BY <1>2, <1>4
  <2> QED
    BY <1>1, <1>3, <1>4, <2>1 DEF CapsuleInv, Silent
<1> QED
  BY <1>5, <1>6, <1>7, <1>8 DEF CapsuleInv

-----------------------------------------------------------------------------
(* The invariant and the theorems *)

\* Nothing launched, installed or called.
LEMMA CapsuleInit == Init => CapsuleInv
<1> SUFFICES ASSUME Init PROVE CapsuleInv
  OBVIOUS
<1>1. NewProc \in ProcRow /\ NewProc.at = "none" /\ NewProc.grant = 0
  BY Constants, EmptyStoreOK DEF NewProc, ProcRow
<1>2. /\ proc \in [Procs -> ProcRow]
      /\ \A p \in Procs : proc[p].at = "none" /\ proc[p].grant = 0 /\ p > 0
  BY <1>1, Constants DEF Init, Procs
<1>3. /\ call \in [Callers -> CallRow]
      /\ \A c \in Callers : call[c] = NoCall
  <2>1. NoCall \in CallRow
    BY Constants DEF NoCall, CallRow
  <2> QED
    BY <2>1 DEF Init
<1>4. NoCall.at = "idle" /\ NoCall.op = "none"
  BY DEF NoCall
<1>5. Shape
  <2>1. ProcShape
    BY <1>2, EmptyStoreOK, Constants DEF Init, ProcShape
  <2>2. NodeShape
    <3>1. 0 \in 0..MaxGrants /\ 0 \in 0..MaxTurns /\ 0 \in 0..MaxInputs
      BY Constants
    <3>2. grant \in [id : 0..MaxGrants, key : 0..MaxTurns, held : BOOLEAN] /\ grant.id = 0
      BY <3>1 DEF Init, NoGrant
    <3>3. cache \in [grant : 0..MaxGrants, key : 0..MaxTurns,
                     status : {"none", "installing", "active", "revoking", "revoked"}]
      BY <3>1 DEF Init, NoCache
    <3>4. registry \in [Keys -> 0..MaxInputs]
      BY <3>1 DEF Init
    <3>5. descriptor \in BOOLEAN
      BY DEF Init
    <3>6. revoked \subseteq Grants /\ lock \in Callers \cup {"free"}
      BY DEF Init
    <3> QED
      BY <1>3, <3>2, <3>3, <3>4, <3>5, <3>6 DEF NodeShape
  <2> QED
    BY <2>1, <2>2 DEF Shape
<1>6. Owner
  BY <1>2, <1>3, <1>4 DEF Init, Owner, Ownership
<1>7. Transitions
  BY <1>3, <1>4 DEF Transitions, RowFits, Inside
<1>8. Unlaunched
  BY <1>3, <1>4 DEF Init, Unlaunched, NoCache
<1>9. Silent
  BY <1>2 DEF Init, Silent, NoCache
<1> QED
  BY <1>5, <1>6, <1>7, <1>8, <1>9 DEF CapsuleInv

\* One case per action of Next.
LEMMA CapsuleStep ==
    ASSUME CapsuleInv, [Next]_vars
    PROVE  CapsuleInv'
<1>1. CASE UNCHANGED vars
  <2>1. UNCHANGED <<path, proc, launched, disk, descriptor, registry, grant, cache, revoked,
                    lock, call, orphans, Retired, faults>>
    BY <1>1, RetiredStays DEF vars
  <2>2. Shape' /\ Owner'
    BY <2>1 DEF CapsuleInv, Shape, ProcShape, NodeShape, Owner, Ownership
  <2>3. Transitions' /\ Unlaunched' /\ Silent'
    BY <2>1 DEF CapsuleInv, Transitions, RowFits, Active, Unlaunched, Silent
  <2> QED
    BY <2>2, <2>3 DEF CapsuleInv
<1>2. CASE Checkpoint \/ Discard \/ RestartNode
  BY <1>2, CheckpointOK, DiscardOK, RestartNodeOK
<1>3. ASSUME NEW c \in Callers, CallStep(c) \/ Timeout(c) PROVE CapsuleInv'
  BY <1>3, EnterOK, ProbeOK, RemoveStaleOK, SyncOK, SendInstallOK, SendsOK, GiveUpOK,
     SendRevokeOK, RetireOK DEF CallStep
<1>4. ASSUME NEW c \in Callers, NEW op \in OpsOf(c), NEW i \in {0} \cup Inputs, Call(c, op, i)
      PROVE  CapsuleInv'
  BY <1>4, CallOK
<1>5. ASSUME NEW p \in Procs, ProcessStep(p) \/ Expire(p) \/ Die(p) PROVE CapsuleInv'
  BY <1>5, ProcessSteps
<1>6. ASSUME NEW p \in Procs, NEW k \in Keys, Complete(p, k) PROVE CapsuleInv'
  BY <1>6, ProcessSteps
<1>7. ASSUME NEW p \in Procs, NEW o \in orphans, ServeOrphan(p, o) PROVE CapsuleInv'
  BY <1>7, ServeOrphanOK
<1> QED
  BY <1>1, <1>2, <1>3, <1>4, <1>5, <1>6, <1>7 DEF Next

\* The inductive invariant holds of every behaviour.
LEMMA CapsuleInvariant == Spec => []CapsuleInv
<1>1. CapsuleInv /\ [Next]_vars => CapsuleInv'
  BY CapsuleStep
<1> QED
  BY <1>1, CapsuleInit, PTL DEF Spec

\* The socket path belongs to the process that opens the runtime and serves,
\* whatever launches, stale-socket removals and closing predecessors do at once.
THEOREM PathIsOwned == Spec => []Ownership
<1>1. CapsuleInv => Ownership
  BY DEF CapsuleInv, Owner
<1> QED
  BY <1>1, CapsuleInvariant, PTL

\* No serving process has a live monitor of a retired grant: of one that
\* revokeAuthority has returned for in this Node process, or that the journal has
\* let go of, for any number of grants, processes and delayed requests.  A Node
\* restarted with a revoked grant still journaled may install it again; until the
\* grant is revoked anew it is not retired.
THEOREM RevocationIsSilent == Spec => []ProvenSilent
<1>1. CapsuleInv => ProvenSilent
  BY NodeTypes DEF CapsuleInv, Silent, ProvenSilent
<1> QED
  BY <1>1, CapsuleInvariant, PTL

\* The types of the adapter, the processes and the store.
THEOREM CapsuleTypeOK == Spec => []TypeOK
<1>1. CapsuleInv => TypeOK
  <2> SUFFICES ASSUME CapsuleInv PROVE TypeOK
    OBVIOUS
  <2>1. ProcShape /\ NodeShape
    BY DEF CapsuleInv, Shape
  <2>2. \A p \in Procs :
          /\ proc[p].at \in {"none", "started", "checked", "linked", "ready", "closing",
                             "draining", "dead"}
          /\ proc[p].grant \in 0..MaxGrants
          /\ proc[p].mem \in Stores
          /\ proc[p].timers \subseteq Keys
    <3>1. \A p \in Procs : proc[p] \in ProcRow
      BY <2>1 DEF ProcShape
    <3> QED
      BY <3>1 DEF ProcRow
  <2>3. \A c \in Callers :
          call[c].at \in {"idle", "enter", "probe", "remove", "sync", "resync", "send",
                          "shutdown", "retire"}
    <3>1. \A c \in Callers : call[c] \in CallRow
      BY <2>1 DEF NodeShape
    <3> QED
      BY <3>1 DEF CallRow
  <2> QED
    BY <2>1, <2>2, <2>3 DEF TypeOK, ProcShape, NodeShape
<1> QED
  BY <1>1, CapsuleInvariant, PTL

-----------------------------------------------------------------------------
(***************************************************************************)
(* A turn is sent to the provider at most once and what the store says of  *)
(* it is true, single and readable, for any number of turns, of provider   *)
(* generations and of failures in each.                                    *)
(*                                                                         *)
(* The argument: a turn that may not have been sent is durable as such     *)
(* (Sent), so only the claim that moves it sends it.  The driver and the   *)
(* interrupt operation never both hold a result of one turn: an interrupt  *)
(* is read only when its barrier is of an earlier generation, and then no  *)
(* driver of this one is past the interrupt (Drive, Intr).  A turn of an   *)
(* earlier generation does not run any more, so a result recorded without  *)
(* the provider's word contradicts nothing that can still happen           *)
(* (Intr, Truthful).                                                       *)
(***************************************************************************)

-----------------------------------------------------------------------------
(* The inductive invariant *)

Final == {"completed", "failed", "interrupted"}
Outs == {"none", "completed", "failed", "cancelled"}
Phases == {"absent", "prepared", "start_maybe_sent", "accepted", "cancelling", "terminal"}
DriverPc == {"off", "claim", "sending", "started", "reconcile", "inspect", "interrupting",
             "wait", "finalize", "record"}
IntrPc == {"off", "claim", "send", "read", "record"}

TurnRec == [phase : Phases, bound : BOOLEAN,
            cancel : {"none", "requested", "interrupt_maybe_sent"},
            last : Outs, usage : {"none", "reported"}]
ProvRec == [status : {"none", "inProgress"} \cup Final, gen : 0 .. MaxGens, asked : BOOLEAN,
            note : BOOLEAN, used : BOOLEAN]
DriverRec == [pc : DriverPc, out : Outs, usage : BOOLEAN]
IntrRec == [pc : IntrPc, out : Outs, usage : BOOLEAN]

Flags ==
    /\ session \in {"prepared", "start_maybe_sent", "ready"}
    /\ gen \in 0 .. MaxGens /\ open \in BOOLEAN /\ retire \in BOOLEAN
    /\ client \in {"up", "failed"}
    /\ ready \in {"none", "starting", "resuming", "ready"}
    /\ issued \subseteq Turns
    /\ conflict \in BOOLEAN

Types ==
    /\ Flags
    /\ turn \in [Turns -> TurnRec]
    /\ prov \in [Turns -> ProvRec]
    /\ driver \in [Turns -> DriverRec]
    /\ intr \in [Turns -> IntrRec]
    /\ sends \in [Turns -> Nat]

\* What the store checks when it is opened, and that an interrupt barrier is
\* only put on a turn the provider has answered for.
Stored ==
    \A k \in Turns :
        /\ turn[k].phase \in {"absent", "prepared", "start_maybe_sent"} => ~turn[k].bound
        /\ turn[k].phase = "accepted" => turn[k].bound
        /\ turn[k].phase = "cancelling" => turn[k].cancel # "none"
        /\ turn[k].phase \notin {"cancelling", "terminal"} => turn[k].cancel = "none"
        /\ turn[k].cancel = "interrupt_maybe_sent" => turn[k].bound
        /\ turn[k].last = "cancelled" => turn[k].cancel # "none"
        /\ (turn[k].last # "none") <=> Terminal(k)
        /\ turn[k].phase # "absent" => session = "ready"

TurnActive(k) == turn[k].phase \notin {"absent", "terminal"}

OneActive == \A j, k \in Turns : TurnActive(j) /\ TurnActive(k) => j = k

Sess == ready = "ready" => session = "ready"

\* A turn whose phase says so was never sent, and the provider has none.
Sent ==
    \A k \in Turns :
        /\ turn[k].phase \in {"absent", "prepared"} => sends[k] = 0 /\ prov[k].status = "none"
        /\ driver[k].pc = "sending" => prov[k].status = "none"
        /\ sends[k] <= 1

Prov ==
    \A k \in Turns :
        /\ prov[k].gen <= gen
        /\ prov[k].note => prov[k].status \in Final

\* What a driver has read still holds when it uses it.  A driver past the
\* interrupt is of the generation that sent it.
Drive ==
    \A k \in Turns :
        /\ driver[k].pc \in {"sending", "started", "reconcile"} =>
              turn[k].phase \in {"start_maybe_sent", "cancelling"} /\ ~turn[k].bound
        /\ driver[k].pc \in {"inspect", "interrupting", "wait"} => turn[k].bound \/ Terminal(k)
        /\ driver[k].pc \in {"finalize", "record"} =>
              turn[k].bound /\ ~Terminal(k) /\ prov[k].status \in Final
        /\ driver[k].pc = "record" =>
              /\ driver[k].out # "none"
              /\ driver[k].out = "completed" => prov[k].status = "completed"
              /\ driver[k].out = "cancelled" => prov[k].status = "interrupted"
                                                /\ turn[k].cancel # "none"
        /\ driver[k].pc \in {"sending", "started", "reconcile", "wait", "finalize", "record"} =>
              turn[k].cancel # "interrupt_maybe_sent" \/ k \in issued \/ Terminal(k)

\* The same for the interrupt operation: it reads only for a barrier of an
\* earlier generation, whose turn does not run any more.
Intr ==
    \A k \in Turns :
        /\ intr[k].pc = "send" => k \in issued
        /\ intr[k].pc \in {"read", "record"} =>
              /\ driver[k].pc \in {"off", "claim", "inspect", "interrupting"}
              /\ k \notin issued /\ turn[k].cancel = "interrupt_maybe_sent" /\ ~Terminal(k)
        /\ intr[k].pc = "record" =>
              /\ prov[k].status \in Final
              /\ intr[k].out # "none"
              /\ intr[k].out = "completed" => prov[k].status = "completed"
              /\ intr[k].out = "cancelled" => prov[k].status = "interrupted"
        /\ open /\ turn[k].cancel = "interrupt_maybe_sent" /\ k \notin issued
              => prov[k].gen < gen

IInv == /\ Types /\ Stored /\ OneActive /\ Sess /\ Sent /\ Prov /\ Drive /\ Intr /\ Truthful
        /\ ~conflict

-----------------------------------------------------------------------------
(* Types *)

LEMMA Update == ASSUME NEW S, NEW T, NEW f \in [S -> T], NEW k \in S, NEW v \in T
                PROVE  [f EXCEPT ![k] = v] \in [S -> T]
OBVIOUS

LEMMA StoreTypes ==
    ASSUME NEW t \in TurnRec
    PROVE  /\ RequestCancellation(t) \in TurnRec
           /\ AcceptTurn(t) \in TurnRec
           /\ RecordUnmatchedStart(t) \in TurnRec
           /\ RecordUncertainInterrupt(t) \in TurnRec
           /\ \A out \in Outs, usage \in {"none", "reported"} :
                 RecordTerminal(t, out, usage) \in TurnRec
<1>1. \A s \in TurnRec, out \in Outs, usage \in {"none", "reported"} :
         AppendTerminal(s, out, usage) \in TurnRec
  BY DEF TurnRec, AppendTerminal, Outs, Phases
<1>2. [t EXCEPT !.cancel = "requested"] \in TurnRec
  BY DEF TurnRec
<1>3. RequestCancellation(t) \in TurnRec
  <2>1. [t EXCEPT !.phase = "cancelling", !.cancel = "requested"] \in TurnRec
    BY DEF TurnRec, Phases
  <2>2. QED
    BY <1>1, <1>2, <2>1 DEF RequestCancellation, Outs
<1>4. AcceptTurn(t) \in TurnRec
  BY DEF AcceptTurn, TurnRec, Phases
<1>5. QED
  BY <1>1, <1>3, <1>4 DEF RecordUnmatchedStart, RecordUncertainInterrupt, RecordTerminal, Outs

LEMMA NormalizeType == \A status, c : Normalize(status, c) \in Outs
BY DEF Normalize, Outs

LEMMA LeftTypes ==
    ASSUME Types, NEW k \in Turns
    PROVE  Left(k) \subseteq ProvRec
<1>1. prov[k] \in ProvRec /\ [prov[k] EXCEPT !.status = "interrupted"] \in ProvRec
  BY DEF Types, ProvRec, Final
<1>2. NoProvider \in ProvRec
  BY CodexAssumption DEF NoProvider, ProvRec
<1>3. QED
  BY <1>1, <1>2 DEF Left

LEMMA DriverTypes ==
    ASSUME Types, NEW k \in Turns
    PROVE  /\ \A p \in DriverPc : Go(k, p) => driver' \in [Turns -> DriverRec]
           /\ Ended(k) => driver' \in [Turns -> DriverRec]
           /\ Driving(k) => driver' \in [Turns -> DriverRec]
           /\ Interrupted(k) => driver' \in [Turns -> DriverRec] /\ intr' \in [Turns -> IntrRec]
<1>1. \A p \in DriverPc : [driver EXCEPT ![k].pc = p] \in [Turns -> DriverRec]
  BY DEF Types, DriverRec
<1>2. Off \in DriverRec /\ Off \in IntrRec /\ [Off EXCEPT !.pc = "claim"] \in DriverRec
  BY DEF Off, DriverRec, IntrRec, DriverPc, IntrPc, Outs
<1>3. /\ [driver EXCEPT ![k] = Off] \in [Turns -> DriverRec]
      /\ [driver EXCEPT ![k] = [Off EXCEPT !.pc = "claim"]] \in [Turns -> DriverRec]
      /\ [intr EXCEPT ![k] = Off] \in [Turns -> IntrRec]
  BY <1>2, Update DEF Types
<1>4. QED
  BY <1>1, <1>3, SMTT(30) DEF Go, Ended, Driving, Interrupted, DriverPc, Types

LEMMA FieldTypes ==
    ASSUME Types, NEW k \in Turns
    PROVE  /\ turn \in [Turns -> TurnRec]
           /\ \A t \in TurnRec : [turn EXCEPT ![k] = t] \in [Turns -> TurnRec]
           /\ [turn EXCEPT ![k].phase = "prepared"] \in [Turns -> TurnRec]
           /\ [turn EXCEPT ![k].phase = "start_maybe_sent"] \in [Turns -> TurnRec]
           /\ [turn EXCEPT ![k].cancel = "interrupt_maybe_sent"] \in [Turns -> TurnRec]
           /\ intr \in [Turns -> IntrRec]
           /\ [intr EXCEPT ![k] = Off] \in [Turns -> IntrRec]
           /\ [intr EXCEPT ![k].pc = "claim"] \in [Turns -> IntrRec]
           /\ [intr EXCEPT ![k].pc = "send"] \in [Turns -> IntrRec]
           /\ [intr EXCEPT ![k].pc = "read"] \in [Turns -> IntrRec]
           /\ [prov EXCEPT ![k].asked = TRUE] \in [Turns -> ProvRec]
<1>1. /\ turn \in [Turns -> TurnRec]
      /\ \A t \in TurnRec : [turn EXCEPT ![k] = t] \in [Turns -> TurnRec]
  BY DEF Types
<1>2. /\ [turn EXCEPT ![k].phase = "prepared"] \in [Turns -> TurnRec]
      /\ [turn EXCEPT ![k].phase = "start_maybe_sent"] \in [Turns -> TurnRec]
  BY DEF Types, TurnRec, Phases
<1>3. [turn EXCEPT ![k].cancel = "interrupt_maybe_sent"] \in [Turns -> TurnRec]
  BY DEF Types, TurnRec
<1>4. /\ intr \in [Turns -> IntrRec]
      /\ [intr EXCEPT ![k] = Off] \in [Turns -> IntrRec]
      /\ [intr EXCEPT ![k].pc = "claim"] \in [Turns -> IntrRec]
      /\ [intr EXCEPT ![k].pc = "send"] \in [Turns -> IntrRec]
      /\ [intr EXCEPT ![k].pc = "read"] \in [Turns -> IntrRec]
  BY DEF Types, IntrRec, IntrPc, Off, Outs
<1>5. [prov EXCEPT ![k].asked = TRUE] \in [Turns -> ProvRec]
  BY DEF Types, ProvRec
<1>6. QED
  BY <1>1, <1>2, <1>3, <1>4, <1>5

LEMMA StreamTypes ==
    ASSUME Types, NEW k \in Turns, Stream(k)
    PROVE  Types'
<1>1. Flags'
  BY CodexAssumption DEF Types, Flags, Stream, runner
<1>2. turn' \in [Turns -> TurnRec]
  <2>1. turn' = turn \/ turn' = [turn EXCEPT ![k].phase = "prepared"]
    BY DEF Stream
  <2>2. QED
    BY <2>1 DEF Types, TurnRec, Phases
<1>3. driver' \in [Turns -> DriverRec]
  BY DriverTypes DEF Types, Stream, DriverPc, Off, DriverRec, Outs
<1>4. /\ prov' \in [Turns -> ProvRec]
      /\ intr' \in [Turns -> IntrRec]
      /\ sends' \in [Turns -> Nat]
  BY DEF Types, Stream, runner
<1>5. QED
  BY <1>1, <1>2, <1>3, <1>4 DEF Types

LEMMA CancelTypes ==
    ASSUME Types, NEW k \in Turns, CancelTurn(k)
    PROVE  Types'
<1>1. Flags'
  BY CodexAssumption DEF Types, Flags, CancelTurn, runner
<1>2. turn' \in [Turns -> TurnRec]
  BY StoreTypes, FieldTypes DEF CancelTurn
<1>3. driver' \in [Turns -> DriverRec]
  BY DriverTypes DEF Types, CancelTurn, DriverPc, Off, DriverRec, Outs
<1>4. intr' \in [Turns -> IntrRec]
  BY FieldTypes DEF CancelTurn, Interrupted
<1>5. /\ prov' \in [Turns -> ProvRec]
      /\ sends' \in [Turns -> Nat]
  BY DEF Types, CancelTurn, runner
<1>6. QED
  BY <1>1, <1>2, <1>3, <1>4, <1>5 DEF Types

LEMMA ClaimTurnStartTypes ==
    ASSUME Types, NEW k \in Turns, ClaimTurnStart(k)
    PROVE  Types'
<1>1. Flags'
  BY CodexAssumption DEF Types, Flags, ClaimTurnStart, runner
<1>2. turn' \in [Turns -> TurnRec]
  <2>1. turn' = turn \/ turn' = [turn EXCEPT ![k].phase = "start_maybe_sent"]
    BY DEF ClaimTurnStart
  <2>2. QED
    BY <2>1 DEF Types, TurnRec, Phases
<1>3. driver' \in [Turns -> DriverRec]
  BY DriverTypes DEF Types, ClaimTurnStart, DriverPc, Off, DriverRec, Outs
<1>4. sends' \in [Turns -> Nat]
  BY DEF Types, ClaimTurnStart
<1>5. /\ prov' \in [Turns -> ProvRec]
      /\ intr' \in [Turns -> IntrRec]
  BY DEF Types, ClaimTurnStart, runner
<1>6. QED
  BY <1>1, <1>2, <1>3, <1>4, <1>5 DEF Types

LEMMA ProviderStartsTypes ==
    ASSUME Types, NEW k \in Turns, ProviderStarts(k)
    PROVE  Types'
<1>1. Flags'
  BY CodexAssumption DEF Types, Flags, ProviderStarts, store, runner
<1>2. prov' \in [Turns -> ProvRec]
  BY CodexAssumption, Update DEF Types, ProviderStarts, ProvRec, NoProvider, Final, Flags
<1>3. driver' \in [Turns -> DriverRec]
  BY DriverTypes DEF Types, ProviderStarts, DriverPc, Off, DriverRec, Outs
<1>4. /\ turn' \in [Turns -> TurnRec]
      /\ intr' \in [Turns -> IntrRec]
      /\ sends' \in [Turns -> Nat]
  BY DEF Types, ProviderStarts, store, runner
<1>5. QED
  BY <1>1, <1>2, <1>3, <1>4 DEF Types

LEMMA BindTypes ==
    ASSUME Types, NEW k \in Turns, Bind(k)
    PROVE  Types'
<1>1. Flags'
  BY CodexAssumption DEF Types, Flags, Bind, runner
<1>2. turn' \in [Turns -> TurnRec]
  BY StoreTypes, FieldTypes DEF Bind
<1>3. driver' \in [Turns -> DriverRec]
  BY DriverTypes DEF Types, Bind, DriverPc, Off, DriverRec, Outs
<1>4. /\ prov' \in [Turns -> ProvRec]
      /\ intr' \in [Turns -> IntrRec]
      /\ sends' \in [Turns -> Nat]
  BY DEF Types, Bind, runner
<1>5. QED
  BY <1>1, <1>2, <1>3, <1>4 DEF Types

LEMMA ReconcileTypes ==
    ASSUME Types, NEW k \in Turns, Reconcile(k)
    PROVE  Types'
<1>1. Flags'
  BY CodexAssumption DEF Types, Flags, Reconcile, runner
<1>2. turn' \in [Turns -> TurnRec]
  <2>1. CASE prov[k].status = "none"
    <3>1. RecordUnmatchedStart(turn[k]) \in TurnRec
      BY StoreTypes DEF Types
    <3>2. QED
      BY <2>1, <3>1, FieldTypes DEF Reconcile
  <2>2. CASE prov[k].status # "none"
    <3>1. AcceptTurn(turn[k]) \in TurnRec
      BY StoreTypes DEF Types
    <3>2. QED
      BY <2>2, <3>1, FieldTypes DEF Reconcile
  <2>3. QED
    BY <2>1, <2>2
<1>3. driver' \in [Turns -> DriverRec]
  BY DriverTypes DEF Types, Reconcile, DriverPc, Off, DriverRec, Outs
<1>4. /\ prov' \in [Turns -> ProvRec]
      /\ intr' \in [Turns -> IntrRec]
      /\ sends' \in [Turns -> Nat]
  BY DEF Types, Reconcile, runner
<1>5. QED
  BY <1>1, <1>2, <1>3, <1>4 DEF Types

LEMMA InspectTypes ==
    ASSUME Types, NEW k \in Turns, Inspect(k)
    PROVE  Types'
<1>1. Flags'
  BY CodexAssumption DEF Types, Flags, Inspect, store, runner
<1>2. driver' \in [Turns -> DriverRec]
  BY DriverTypes DEF Types, Inspect, DriverPc, Off, DriverRec, Outs
<1>3. intr' \in [Turns -> IntrRec]
  BY FieldTypes, ZenonT(60) DEF Inspect, Interrupted
<1>4. /\ turn' \in [Turns -> TurnRec]
      /\ prov' \in [Turns -> ProvRec]
      /\ sends' \in [Turns -> Nat]
  BY DEF Types, Inspect, store, runner
<1>5. QED
  BY <1>1, <1>2, <1>3, <1>4 DEF Types

LEMMA NotifiedTypes ==
    ASSUME Types, NEW k \in Turns, Notified(k)
    PROVE  Types'
<1>1. Flags'
  BY CodexAssumption DEF Types, Flags, Notified, store, runner
<1>2. driver' \in [Turns -> DriverRec]
  <2>1. \A seen \in BOOLEAN :
           [driver EXCEPT ![k] = [@ EXCEPT !.pc = "finalize", !.usage = seen]]
              \in [Turns -> DriverRec]
    BY DEF Types, DriverRec, DriverPc
  <2>2. prov[k].used \in BOOLEAN
    BY DEF Types, ProvRec
  <2>3. QED
    BY <2>1, <2>2 DEF Notified
<1>3. /\ turn' \in [Turns -> TurnRec]
      /\ prov' \in [Turns -> ProvRec]
      /\ intr' \in [Turns -> IntrRec]
      /\ sends' \in [Turns -> Nat]
  BY DEF Types, Notified, store, runner
<1>4. QED
  BY <1>1, <1>2, <1>3 DEF Types

LEMMA PolledTypes ==
    ASSUME Types, NEW k \in Turns, Polled(k)
    PROVE  Types'
<1>1. Flags'
  BY CodexAssumption DEF Types, Flags, Polled, runner
<1>2. turn' \in [Turns -> TurnRec]
  BY StoreTypes, FieldTypes DEF Polled
<1>3. driver' \in [Turns -> DriverRec]
  BY DriverTypes DEF Types, Polled, DriverPc, Off, DriverRec, Outs
<1>4. /\ prov' \in [Turns -> ProvRec]
      /\ intr' \in [Turns -> IntrRec]
      /\ sends' \in [Turns -> Nat]
  BY DEF Types, Polled, runner
<1>5. QED
  BY <1>1, <1>2, <1>3, <1>4 DEF Types

LEMMA WaitEndsTypes ==
    ASSUME Types, NEW k \in Turns, WaitEnds(k)
    PROVE  Types'
<1>1. Flags'
  BY CodexAssumption DEF Types, Flags, WaitEnds, store, runner
<1>2. driver' \in [Turns -> DriverRec]
  BY DriverTypes DEF Types, WaitEnds, DriverPc, Off, DriverRec, Outs
<1>3. /\ turn' \in [Turns -> TurnRec]
      /\ prov' \in [Turns -> ProvRec]
      /\ intr' \in [Turns -> IntrRec]
      /\ sends' \in [Turns -> Nat]
  BY DEF Types, WaitEnds, store, runner
<1>4. QED
  BY <1>1, <1>2, <1>3 DEF Types

LEMMA FinalizeTypes ==
    ASSUME Types, NEW k \in Turns, Finalize(k)
    PROVE  Types'
<1>1. Flags'
  BY CodexAssumption DEF Types, Flags, Finalize, store, runner
<1>2. driver' \in [Turns -> DriverRec]
  BY NormalizeType DEF Types, Finalize, DriverPc, DriverRec
<1>3. /\ turn' \in [Turns -> TurnRec]
      /\ prov' \in [Turns -> ProvRec]
      /\ intr' \in [Turns -> IntrRec]
      /\ sends' \in [Turns -> Nat]
  BY DEF Types, Finalize, store, runner
<1>4. QED
  BY <1>1, <1>2, <1>3 DEF Types

LEMMA RecordTypes ==
    ASSUME Types, NEW k \in Turns, Record(k)
    PROVE  Types'
<1>1. Flags'
  BY CodexAssumption DEF Types, Flags, Record, runner
<1>2. turn' \in [Turns -> TurnRec]
  <2> DEFINE u == IF driver[k].usage THEN "reported" ELSE "none"
  <2>1. CASE Refuses(turn[k], driver[k].out, u)
    BY <2>1 DEF Types, Record
  <2>2. CASE ~ Refuses(turn[k], driver[k].out, u)
    <3>1. driver[k].out \in Outs /\ u \in {"none", "reported"}
      BY DEF Types, DriverRec
    <3>2. RecordTerminal(turn[k], driver[k].out, u) \in TurnRec
      BY <3>1, StoreTypes DEF Types
    <3>3. QED
      BY <2>2, <3>2, FieldTypes DEF Record
  <2>3. QED
    BY <2>1, <2>2
<1>3. driver' \in [Turns -> DriverRec]
  BY DriverTypes DEF Types, Record, DriverPc, Off, DriverRec, Outs
<1>4. /\ prov' \in [Turns -> ProvRec]
      /\ intr' \in [Turns -> IntrRec]
      /\ sends' \in [Turns -> Nat]
  BY DEF Types, Record, runner
<1>5. QED
  BY <1>1, <1>2, <1>3, <1>4 DEF Types

LEMMA ClaimInterruptTypes ==
    ASSUME Types, NEW k \in Turns, ClaimInterrupt(k)
    PROVE  Types'
<1>1. Flags'
  BY CodexAssumption DEF Types, Flags, ClaimInterrupt
<1>2. turn' \in [Turns -> TurnRec]
  <2>1. turn' = turn \/ turn' = [turn EXCEPT ![k].cancel = "interrupt_maybe_sent"]
    BY DEF ClaimInterrupt
  <2>2. QED
    BY <2>1, SMTT(30) DEF Types, TurnRec
<1>3. driver' \in [Turns -> DriverRec]
  BY DriverTypes DEF Types, ClaimInterrupt, DriverPc, Off, DriverRec, Outs
<1>4. intr' \in [Turns -> IntrRec]
  <2>1. \/ intr' = [intr EXCEPT ![k] = Off]
        \/ intr' = [intr EXCEPT ![k].pc = "send"]
        \/ intr' = [intr EXCEPT ![k].pc = "read"]
    BY DEF ClaimInterrupt, Interrupted
  <2>2. CASE intr' = [intr EXCEPT ![k] = Off]
    BY <2>2 DEF Types, IntrRec, IntrPc, Off, Outs
  <2>3. CASE intr' = [intr EXCEPT ![k].pc = "send"]
    BY <2>3 DEF Types, IntrRec, IntrPc
  <2>4. CASE intr' = [intr EXCEPT ![k].pc = "read"]
    BY <2>4 DEF Types, IntrRec, IntrPc
  <2>5. QED
    BY <2>1, <2>2, <2>3, <2>4
<1>5. /\ prov' \in [Turns -> ProvRec]
      /\ sends' \in [Turns -> Nat]
  BY DEF Types, ClaimInterrupt
<1>6. QED
  BY <1>1, <1>2, <1>3, <1>4, <1>5 DEF Types

LEMMA SendInterruptTypes ==
    ASSUME Types, NEW k \in Turns, SendInterrupt(k)
    PROVE  Types'
<1>1. Flags'
  BY CodexAssumption DEF Types, Flags, SendInterrupt, store, runner
<1>2. prov' \in [Turns -> ProvRec]
  BY FieldTypes DEF SendInterrupt
<1>3. driver' \in [Turns -> DriverRec]
  BY DriverTypes DEF Types, SendInterrupt, DriverPc, Off, DriverRec, Outs
<1>4. intr' \in [Turns -> IntrRec]
  BY FieldTypes DEF SendInterrupt, Interrupted
<1>5. /\ turn' \in [Turns -> TurnRec]
      /\ sends' \in [Turns -> Nat]
  BY DEF Types, SendInterrupt, store, runner
<1>6. QED
  BY <1>1, <1>2, <1>3, <1>4, <1>5 DEF Types

LEMMA ReadInterruptedTypes ==
    ASSUME Types, NEW k \in Turns, ReadInterrupted(k)
    PROVE  Types'
<1>1. Flags'
  BY CodexAssumption DEF Types, Flags, ReadInterrupted, runner
<1>2. turn' \in [Turns -> TurnRec]
  <2>1. RecordUncertainInterrupt(turn[k]) \in TurnRec
    BY StoreTypes DEF Types
  <2>2. QED
    BY <2>1, FieldTypes DEF ReadInterrupted
<1>3. driver' \in [Turns -> DriverRec]
  BY DriverTypes DEF Types, ReadInterrupted, DriverPc, Off, DriverRec, Outs
<1>4. intr' \in [Turns -> IntrRec]
  <2>1. [intr EXCEPT ![k] = [@ EXCEPT !.pc = "record", !.out = Normalize(prov[k].status, TRUE)]]
           \in [Turns -> IntrRec]
    BY NormalizeType DEF Types, IntrRec, IntrPc
  <2>2. QED
    BY <2>1, DriverTypes DEF ReadInterrupted
<1>5. /\ prov' \in [Turns -> ProvRec]
      /\ sends' \in [Turns -> Nat]
  BY DEF Types, ReadInterrupted, runner
<1>6. QED
  BY <1>1, <1>2, <1>3, <1>4, <1>5 DEF Types

LEMMA RecordInterruptedTypes ==
    ASSUME Types, NEW k \in Turns, RecordInterrupted(k)
    PROVE  Types'
<1>1. Flags'
  BY CodexAssumption DEF Types, Flags, RecordInterrupted, runner
<1>2. turn' \in [Turns -> TurnRec]
  <2>1. CASE Refuses(turn[k], intr[k].out, "none")
    BY <2>1 DEF Types, RecordInterrupted
  <2>2. CASE ~ Refuses(turn[k], intr[k].out, "none")
    <3>1. intr[k].out \in Outs
      BY DEF Types, IntrRec
    <3>2. RecordTerminal(turn[k], intr[k].out, "none") \in TurnRec
      BY <3>1, StoreTypes DEF Types
    <3>3. QED
      BY <2>2, <3>2, FieldTypes DEF RecordInterrupted
  <2>3. QED
    BY <2>1, <2>2
<1>3. driver' \in [Turns -> DriverRec]
  BY DriverTypes DEF Types, RecordInterrupted, DriverPc, Off, DriverRec, Outs
<1>4. intr' \in [Turns -> IntrRec]
  BY FieldTypes DEF RecordInterrupted, Interrupted
<1>5. /\ prov' \in [Turns -> ProvRec]
      /\ sends' \in [Turns -> Nat]
  BY DEF Types, RecordInterrupted, runner
<1>6. QED
  BY <1>1, <1>2, <1>3, <1>4, <1>5 DEF Types

LEMMA DriverFailsTypes ==
    ASSUME Types, NEW k \in Turns, DriverFails(k)
    PROVE  Types'
<1>1. Flags'
  BY CodexAssumption DEF Types, Flags, DriverFails, store
<1>2. driver' \in [Turns -> DriverRec]
  BY DriverTypes DEF Types, DriverFails, DriverPc, Off, DriverRec, Outs
<1>3. /\ turn' \in [Turns -> TurnRec]
      /\ prov' \in [Turns -> ProvRec]
      /\ intr' \in [Turns -> IntrRec]
      /\ sends' \in [Turns -> Nat]
  BY DEF Types, DriverFails, store
<1>4. QED
  BY <1>1, <1>2, <1>3 DEF Types

LEMMA InterruptFailsTypes ==
    ASSUME Types, NEW k \in Turns, InterruptFails(k)
    PROVE  Types'
<1>1. Flags'
  BY CodexAssumption DEF Types, Flags, InterruptFails, store
<1>2. driver' \in [Turns -> DriverRec]
  BY DriverTypes DEF Types, InterruptFails, DriverPc, Off, DriverRec, Outs
<1>3. intr' \in [Turns -> IntrRec]
  BY FieldTypes DEF InterruptFails, Interrupted
<1>4. /\ turn' \in [Turns -> TurnRec]
      /\ prov' \in [Turns -> ProvRec]
      /\ sends' \in [Turns -> Nat]
  BY DEF Types, InterruptFails, store
<1>5. QED
  BY <1>1, <1>2, <1>3, <1>4 DEF Types

LEMMA ProviderEndsTypes ==
    ASSUME Types, NEW k \in Turns, ProviderEnds(k)
    PROVE  Types'
<1>1. Flags'
  BY CodexAssumption DEF Types, Flags, ProviderEnds, store, runner
<1>2. prov' \in [Turns -> ProvRec]
  <2>1. PICK s \in Final, used \in BOOLEAN :
            prov' = [prov EXCEPT ![k].status = s, ![k].note = TRUE, ![k].used = used]
    BY DEF ProviderEnds, Final
  <2>2. QED
    BY <2>1, ZenonT(60) DEF Types, ProvRec
<1>3. /\ turn' \in [Turns -> TurnRec]
      /\ driver' \in [Turns -> DriverRec]
      /\ intr' \in [Turns -> IntrRec]
      /\ sends' \in [Turns -> Nat]
  BY DEF Types, ProviderEnds, store, runner
<1>4. QED
  BY <1>1, <1>2, <1>3 DEF Types

LEMMA ProviderSettlesTypes ==
    ASSUME Types, NEW k \in Turns, ProviderSettles(k)
    PROVE  Types'
<1>1. Flags'
  BY CodexAssumption DEF Types, Flags, ProviderSettles, store, runner
<1>2. prov' \in [Turns -> ProvRec]
  BY DEF Types, ProviderSettles, ProvRec, Final
<1>3. /\ turn' \in [Turns -> TurnRec]
      /\ driver' \in [Turns -> DriverRec]
      /\ intr' \in [Turns -> IntrRec]
      /\ sends' \in [Turns -> Nat]
  BY DEF Types, ProviderSettles, store, runner
<1>4. QED
  BY <1>1, <1>2, <1>3 DEF Types

LEMMA OpenTypes ==
    ASSUME Types, OpenRunner
    PROVE  Types'
<1>1. Flags'
  <2>1. gen + 1 \in 0 .. MaxGens
    BY CodexAssumption DEF Types, Flags, OpenRunner
  <2>2. QED
    BY <2>1 DEF Types, Flags, OpenRunner, store
<1>2. driver' \in [Turns -> DriverRec]
  BY DriverTypes DEF Types, OpenRunner, DriverPc, Off, DriverRec, Outs
<1>3. intr' \in [Turns -> IntrRec]
  BY DEF OpenRunner, Off, IntrRec, IntrPc, Outs
<1>4. /\ turn' \in [Turns -> TurnRec]
      /\ prov' \in [Turns -> ProvRec]
      /\ sends' \in [Turns -> Nat]
  BY DEF Types, OpenRunner, store
<1>5. QED
  BY <1>1, <1>2, <1>3, <1>4 DEF Types

LEMMA ClaimSessionTypes ==
    ASSUME Types, ClaimSession
    PROVE  Types'
<1>1. Flags'
  BY CodexAssumption DEF Types, Flags, ClaimSession
<1>2. /\ turn' \in [Turns -> TurnRec]
      /\ prov' \in [Turns -> ProvRec]
      /\ driver' \in [Turns -> DriverRec]
      /\ intr' \in [Turns -> IntrRec]
      /\ sends' \in [Turns -> Nat]
  BY DEF Types, ClaimSession
<1>3. QED
  BY <1>1, <1>2 DEF Types

LEMMA SessionReadyTypes ==
    ASSUME Types, SessionReady
    PROVE  Types'
<1>1. Flags'
  BY CodexAssumption DEF Types, Flags, SessionReady
<1>2. /\ turn' \in [Turns -> TurnRec]
      /\ prov' \in [Turns -> ProvRec]
      /\ driver' \in [Turns -> DriverRec]
      /\ intr' \in [Turns -> IntrRec]
      /\ sends' \in [Turns -> Nat]
  BY DEF Types, SessionReady
<1>3. QED
  BY <1>1, <1>2 DEF Types

LEMMA SessionFailsTypes ==
    ASSUME Types, SessionFails
    PROVE  Types'
<1>1. Flags'
  BY CodexAssumption DEF Types, Flags, SessionFails, store
<1>2. /\ turn' \in [Turns -> TurnRec]
      /\ prov' \in [Turns -> ProvRec]
      /\ driver' \in [Turns -> DriverRec]
      /\ intr' \in [Turns -> IntrRec]
      /\ sends' \in [Turns -> Nat]
  BY DEF Types, SessionFails, store
<1>3. QED
  BY <1>1, <1>2 DEF Types

LEMMA ProviderDiesTypes ==
    ASSUME Types, ProviderDies
    PROVE  Types'
<1>1. Flags'
  BY CodexAssumption DEF Types, Flags, ProviderDies, store
<1>2. prov' \in [Turns -> ProvRec]
  BY LeftTypes DEF ProviderDies
<1>3. /\ turn' \in [Turns -> TurnRec]
      /\ driver' \in [Turns -> DriverRec]
      /\ intr' \in [Turns -> IntrRec]
      /\ sends' \in [Turns -> Nat]
  BY DEF Types, ProviderDies, store
<1>4. QED
  BY <1>1, <1>2, <1>3 DEF Types

LEMMA CloseTypes ==
    ASSUME Types, Close
    PROVE  Types'
<1>1. Flags'
  BY CodexAssumption DEF Types, Flags, Close, store
<1>2. prov' \in [Turns -> ProvRec]
  BY LeftTypes DEF Close
<1>3. driver' \in [Turns -> DriverRec]
  BY DriverTypes DEF Types, Close, DriverPc, Off, DriverRec, Outs
<1>4. intr' \in [Turns -> IntrRec]
  BY DEF Close, Off, IntrRec, IntrPc, Outs
<1>5. /\ turn' \in [Turns -> TurnRec]
      /\ sends' \in [Turns -> Nat]
  BY DEF Types, Close, store
<1>6. QED
  BY <1>1, <1>2, <1>3, <1>4, <1>5 DEF Types

-----------------------------------------------------------------------------
(* The steps *)

\* What the steps need of the types: which arguments and fields there are.
CodexShape ==
    /\ DOMAIN turn = Turns /\ DOMAIN prov = Turns /\ DOMAIN driver = Turns
    /\ DOMAIN intr = Turns /\ DOMAIN sends = Turns
    /\ \A k \in Turns : /\ DOMAIN turn[k] = {"phase", "bound", "cancel", "last", "usage"}
                        /\ DOMAIN prov[k] = {"status", "gen", "asked", "note", "used"}
                        /\ DOMAIN driver[k] = {"pc", "out", "usage"}
                        /\ DOMAIN intr[k] = {"pc", "out", "usage"}
                        /\ sends[k] \in Nat
                        /\ prov[k].gen \in Nat
    /\ gen \in Nat

LEMMA TypesShape == Types => CodexShape
BY CodexAssumption DEF Types, Flags, TurnRec, ProvRec, DriverRec, IntrRec, CodexShape

\* A turn gets its result: the cases of Reconcile, Record, ReadInterrupted and
\* RecordInterrupted.
LEMMA Settled ==
    ASSUME IInv, NEW k \in Turns, NEW out \in {"completed", "failed", "cancelled"}, NEW u,
           turn[k].phase \notin {"absent", "prepared", "terminal"},
           turn' = [turn EXCEPT ![k] = AppendTerminal(@, out, u)],
           out = "completed" => prov[k].status = "completed",
           out = "cancelled" =>
              turn[k].cancel # "none" /\ prov[k].status \in {"none", "interrupted"},
           ~ (open /\ prov[k].status = "inProgress" /\ prov[k].gen = gen),
           UNCHANGED <<session, prov, gen, open, sends>>,
           \A j \in Turns : driver'[j].pc = "sending" => driver[j].pc = "sending"
    PROVE  /\ Stored' /\ OneActive' /\ Sent' /\ Truthful'
           /\ turn'[k].phase = "terminal" /\ turn'[k].bound = turn[k].bound
           /\ turn'[k].cancel = turn[k].cancel
           /\ \A j \in Turns : j # k => turn'[j] = turn[j]
<1>1. /\ turn'[k].phase = "terminal" /\ turn'[k].bound = turn[k].bound
      /\ turn'[k].cancel = turn[k].cancel /\ turn'[k].last = out
      /\ \A j \in Turns : j # k => turn'[j] = turn[j]
  BY TypesShape DEF IInv, CodexShape, AppendTerminal
<1>2. Stored'
  BY <1>1 DEF IInv, Stored, Terminal
<1>3. OneActive'
  BY <1>1 DEF IInv, OneActive, TurnActive
<1>4. Sent'
  BY <1>1 DEF IInv, Sent
<1>5. Truthful'
  BY <1>1 DEF IInv, Truthful, Terminal
<1>6. QED
  BY <1>1, <1>2, <1>3, <1>4, <1>5

LEMMA Bound ==
    ASSUME IInv, NEW k \in Turns,
           turn[k].phase \in {"start_maybe_sent", "cancelling"}, ~turn[k].bound,
           turn' = [turn EXCEPT ![k] = AcceptTurn(@)],
           UNCHANGED <<session, prov, gen, open, sends>>,
           \A j \in Turns : driver'[j].pc = "sending" => driver[j].pc = "sending"
    PROVE  /\ Stored' /\ OneActive' /\ Sent' /\ Truthful'
           /\ turn'[k].phase \in {"accepted", "cancelling"} /\ turn'[k].bound
           /\ turn'[k].cancel = turn[k].cancel
           /\ \A j \in Turns : j # k => turn'[j] = turn[j]
<1>1. /\ turn'[k].phase = IF turn[k].phase = "start_maybe_sent" THEN "accepted" ELSE "cancelling"
      /\ turn'[k].bound /\ turn'[k].cancel = turn[k].cancel /\ turn'[k].last = turn[k].last
      /\ \A j \in Turns : j # k => turn'[j] = turn[j]
  BY TypesShape DEF IInv, CodexShape, AcceptTurn
<1>2. Stored'
  BY <1>1 DEF IInv, Stored, Terminal
<1>3. OneActive'
  BY <1>1 DEF IInv, OneActive, TurnActive
<1>4. Sent'
  BY <1>1 DEF IInv, Sent
<1>5. Truthful'
  BY <1>1 DEF IInv, Truthful, Terminal
<1>6. QED
  BY <1>1, <1>2, <1>3, <1>4, <1>5

\* The provider's record of a turn after the process has gone.
LEMMA LeftSound ==
    ASSUME IInv, NEW j \in Turns, prov'[j] \in Left(j)
    PROVE  prov'[j].gen <= gen /\ (prov'[j].note => prov'[j].status \in Final)
<1>0. CodexShape
  BY TypesShape DEF IInv
<1>1. /\ prov[j].gen <= gen /\ (prov[j].note => prov[j].status \in Final)
      /\ gen >= 0
  BY <1>0 DEF IInv, CodexShape, Prov
<1>2. CASE prov'[j] = prov[j]
  BY <1>1, <1>2
<1>3. CASE prov'[j] = [prov[j] EXCEPT !.status = "interrupted"]
  BY <1>0, <1>1, <1>3 DEF CodexShape, Final
<1>4. CASE prov'[j] = NoProvider
  BY <1>1, <1>4 DEF NoProvider
<1>5. QED
  BY <1>2, <1>3, <1>4 DEF Left

\* An interrupt is read, not sent, only when its barrier is of an earlier
\* generation.
LEMMA ClaimInterruptIntr ==
    ASSUME IInv, NEW k \in Turns, ClaimInterrupt(k)
    PROVE  Intr'
<1>0. CodexShape
  BY TypesShape DEF IInv
<1>1. UNCHANGED <<prov, gen, open>>
  BY DEF ClaimInterrupt
<1>2. CASE UNCHANGED <<turn, issued>> /\ Interrupted(k)
  <2>1. /\ intr'[k].pc = "off"
        /\ \A j \in Turns : j # k => intr'[j] = intr[j] /\ driver'[j] = driver[j]
    BY <1>0, <1>2 DEF CodexShape, Interrupted, Off
  <2>2. QED
    BY <1>1, <1>2, <2>1 DEF IInv, Intr, Terminal
<1>3. CASE /\ ~Terminal(k) /\ turn[k].bound /\ turn[k].cancel = "requested"
           /\ turn' = [turn EXCEPT ![k].cancel = "interrupt_maybe_sent"]
           /\ issued' = issued \cup {k}
           /\ intr' = [intr EXCEPT ![k].pc = "send"]
           /\ UNCHANGED driver
  <2>1. /\ intr'[k].pc = "send" /\ k \in issued'
        /\ \A j \in Turns : j # k => /\ intr'[j] = intr[j] /\ driver'[j] = driver[j]
                                      /\ turn'[j] = turn[j] /\ (j \in issued' <=> j \in issued)
    BY <1>0, <1>3 DEF CodexShape
  <2>2. QED
    BY <1>1, <2>1 DEF IInv, Intr, Terminal
<1>4. CASE /\ ~Terminal(k) /\ turn[k].bound /\ turn[k].cancel = "interrupt_maybe_sent"
           /\ k \notin issued
           /\ intr' = [intr EXCEPT ![k].pc = "read"]
           /\ UNCHANGED <<turn, issued, driver>>
  <2>1. intr'[k].pc = "read" /\ \A j \in Turns : j # k => intr'[j] = intr[j]
    BY <1>0, <1>4 DEF CodexShape
  <2>2. driver[k].pc \in {"off", "claim", "inspect", "interrupting"}
    BY <1>4 DEF IInv, Types, DriverRec, DriverPc, Drive
  <2>3. QED
    BY <1>1, <1>4, <2>1, <2>2 DEF IInv, Intr, Terminal
<1>5. QED
  BY <1>2, <1>3, <1>4 DEF ClaimInterrupt

\* For every action: the parts of the invariant it leaves alone, and the ones
\* it disturbs.
LEMMA StreamKeeps ==
    ASSUME IInv, NEW k \in Turns, Stream(k)
    PROVE  IInv'
<1>0. Types'
  BY StreamTypes DEF IInv
<1>d. CodexShape
  BY TypesShape DEF IInv
<1>1. Sess' /\ Prov' /\ ~conflict'
  BY DEF IInv, Sess, Prov, Stream, runner
<1>2. Stored'
  BY <1>d DEF IInv, Stored, Sess, Terminal, CodexShape, Stream, NoneActive, Driving, runner, Off
<1>3. OneActive'
  BY <1>d DEF IInv, OneActive, TurnActive, CodexShape, Stream, NoneActive, Driving, runner, Off
<1>4. Sent'
  BY <1>d DEF IInv, Sent, CodexShape, Stream, NoneActive, Driving, runner, Off
<1>5. Drive'
  BY <1>d DEF IInv, Drive, Terminal, Final, CodexShape, Stream, NoneActive, Driving, runner, Off
<1>6. Intr'
  BY <1>d DEF IInv, Intr, Terminal, Final, CodexShape, Stream, NoneActive, Driving, runner, Off
<1>7. Truthful'
  BY <1>d DEF IInv, Truthful, Terminal, Final, CodexShape, Stream, NoneActive, Driving, runner,
       Off
<1>8. QED
  BY <1>0, <1>1, <1>2, <1>3, <1>4, <1>5, <1>6, <1>7 DEF IInv

LEMMA CancelKeeps ==
    ASSUME IInv, NEW k \in Turns, CancelTurn(k)
    PROVE  IInv'
<1>0. Types'
  BY CancelTypes DEF IInv
<1>d. CodexShape
  BY TypesShape DEF IInv
<1>1. Sess' /\ Prov' /\ ~conflict'
  BY DEF IInv, Sess, Prov, CancelTurn, runner
<1>2. Stored'
  BY <1>d DEF IInv, Stored, Terminal, CodexShape, CancelTurn, RequestCancellation, Driving, runner,
       AppendTerminal, Off
<1>3. OneActive'
  BY <1>d DEF IInv, OneActive, TurnActive, CodexShape, CancelTurn, RequestCancellation, Driving, runner,
       AppendTerminal, Off
<1>4. Sent'
  BY <1>d DEF IInv, Sent, CodexShape, CancelTurn, RequestCancellation, Driving, runner, AppendTerminal, Off
<1>5. Drive'
  BY <1>d DEF IInv, Drive, Stored, Terminal, Final, CodexShape, CancelTurn, RequestCancellation,
       Driving, runner, AppendTerminal, Off
<1>6. Intr'
  BY <1>d DEF IInv, Intr, Terminal, Final, CodexShape, CancelTurn, RequestCancellation, Driving,
       runner, AppendTerminal, Off
<1>7. Truthful'
  BY <1>d DEF IInv, Truthful, Sent, Terminal, Final, CodexShape, CancelTurn, RequestCancellation,
       Driving, runner, AppendTerminal, Off
<1>8. QED
  BY <1>0, <1>1, <1>2, <1>3, <1>4, <1>5, <1>6, <1>7 DEF IInv

LEMMA ClaimTurnStartKeeps ==
    ASSUME IInv, NEW k \in Turns, ClaimTurnStart(k)
    PROVE  IInv'
<1>0. Types'
  BY ClaimTurnStartTypes DEF IInv
<1>d. CodexShape
  BY TypesShape DEF IInv
<1>1. Sess' /\ Prov' /\ ~conflict'
  BY DEF IInv, Sess, Prov, ClaimTurnStart, runner
<1>2. Stored'
  BY <1>d DEF IInv, Stored, Terminal, CodexShape, ClaimTurnStart, At, Go, Ended, runner, Off
<1>3. OneActive'
  BY <1>d DEF IInv, OneActive, TurnActive, CodexShape, ClaimTurnStart, At, Go, Terminal, Ended,
       runner, Off
<1>4. Sent'
  BY <1>d DEF IInv, Sent, CodexShape, ClaimTurnStart, At, Go, Terminal, Ended, runner, Off
<1>5. Drive'
  BY <1>d DEF IInv, Drive, Stored, Terminal, Final, CodexShape, ClaimTurnStart, At, Go, Ended,
       runner, Off
<1>6. Intr'
  BY <1>d DEF IInv, Intr, Stored, Terminal, Final, CodexShape, ClaimTurnStart, At, Go, Ended,
       runner, Off
<1>7. Truthful'
  BY <1>d DEF IInv, Truthful, Terminal, Final, CodexShape, ClaimTurnStart, At, Go, Ended, runner,
       Off
<1>8. QED
  BY <1>0, <1>1, <1>2, <1>3, <1>4, <1>5, <1>6, <1>7 DEF IInv

LEMMA ProviderStartsKeeps ==
    ASSUME IInv, NEW k \in Turns, ProviderStarts(k)
    PROVE  IInv'
<1>0. Types'
  BY ProviderStartsTypes DEF IInv
<1>d. CodexShape
  BY TypesShape DEF IInv
<1>1. Stored' /\ OneActive' /\ Sess' /\ ~conflict'
  BY DEF IInv, Stored, OneActive, Sess, ProviderStarts, store, runner, Terminal, TurnActive
<1>2. Sent'
  BY <1>d DEF IInv, Sent, Drive, CodexShape, ProviderStarts, At, NoProvider, Go, store, runner
<1>3. Prov'
  BY <1>d DEF IInv, Prov, CodexShape, ProviderStarts, At, NoProvider, Go, store, runner
<1>4. Drive'
  BY <1>d DEF IInv, Drive, Terminal, Final, CodexShape, ProviderStarts, At, NoProvider, Go,
       store, runner
<1>5. Intr'
  BY <1>d DEF IInv, Intr, Drive, Terminal, Final, CodexShape, ProviderStarts, At, NoProvider, Go,
       store, runner
<1>6. Truthful'
  BY <1>d DEF IInv, Truthful, Drive, Terminal, Final, CodexShape, ProviderStarts, At, NoProvider,
       Go, store, runner
<1>7. QED
  BY <1>0, <1>1, <1>2, <1>3, <1>4, <1>5, <1>6 DEF IInv

LEMMA BindKeeps ==
    ASSUME IInv, NEW k \in Turns, Bind(k)
    PROVE  IInv'
<1>0. Types'
  BY BindTypes DEF IInv
<1>d. CodexShape
  BY TypesShape DEF IInv
<1>1. Sess' /\ Prov' /\ ~conflict'
  BY DEF IInv, Sess, Prov, Bind, runner
<1>2. Stored'
  BY <1>d DEF IInv, Stored, Drive, Terminal, CodexShape, Bind, At, AcceptTurn, Go, runner
<1>3. OneActive'
  BY <1>d DEF IInv, OneActive, TurnActive, CodexShape, Bind, At, AcceptTurn, Go, runner
<1>4. Sent'
  BY <1>d DEF IInv, Sent, Bind, At, AcceptTurn, Go, runner
<1>5. Drive'
  BY <1>d DEF IInv, Drive, Terminal, Final, CodexShape, Bind, At, AcceptTurn, Go, runner
<1>6. Intr'
  BY <1>d DEF IInv, Intr, Terminal, Final, CodexShape, Bind, At, AcceptTurn, Go, runner
<1>7. Truthful'
  BY <1>d DEF IInv, Truthful, Terminal, Final, CodexShape, Bind, At, AcceptTurn, Go, runner
<1>8. QED
  BY <1>0, <1>1, <1>2, <1>3, <1>4, <1>5, <1>6, <1>7 DEF IInv

LEMMA ReconcileKeeps ==
    ASSUME IInv, NEW k \in Turns, Reconcile(k)
    PROVE  IInv'
<1>0. Types'
  BY ReconcileTypes DEF IInv
<1>1. /\ turn[k].phase \in {"start_maybe_sent", "cancelling"} /\ ~turn[k].bound
      /\ k \in issued \/ turn[k].cancel # "interrupt_maybe_sent"
      /\ intr[k].pc \notin {"read", "record"}
  BY DEF IInv, Drive, Intr, Reconcile, At, Terminal
<1>2. /\ UNCHANGED <<session, prov, runner, intr, sends, conflict>>
      /\ driver' = [driver EXCEPT ![k].pc = driver'[k].pc]
      /\ driver'[k].pc \in {"inspect", "finalize"}
      /\ \A j \in Turns : j # k => driver'[j] = driver[j]
      /\ driver'[k].pc = "finalize" => prov[k].status \in Final
  BY TypesShape DEF IInv, CodexShape, Types, ProvRec, Final, Reconcile, Go
<1>3. Stored' /\ OneActive' /\ Sent' /\ Truthful' /\ Drive' /\ Intr'
  <2>1. CASE prov[k].status = "none"
    <3>1. PICK out \in {"failed", "cancelled"} :
             /\ turn' = [turn EXCEPT ![k] = AppendTerminal(@, out, "none")]
             /\ out = "cancelled" => turn[k].cancel # "none"
      BY <1>1, <2>1 DEF Reconcile, RecordUnmatchedStart
    <3>2. /\ Stored' /\ OneActive' /\ Sent' /\ Truthful'
          /\ turn'[k].phase = "terminal" /\ turn'[k].bound = turn[k].bound
          /\ turn'[k].cancel = turn[k].cancel
          /\ \A j \in Turns : j # k => turn'[j] = turn[j]
      BY <1>1, <1>2, <2>1, <3>1, Settled DEF runner
    <3>3. driver'[k].pc = "inspect"
      BY <2>1, TypesShape DEF Reconcile, Go, IInv, CodexShape
    <3>4. Drive'
      BY <1>2, <3>2, <3>3 DEF IInv, Drive, Terminal, runner
    <3>5. Intr'
      BY <1>1, <1>2, <3>2 DEF IInv, Intr, Terminal, runner
    <3>6. QED
      BY <3>2, <3>4, <3>5
  <2>2. CASE prov[k].status # "none"
    <3>1. turn' = [turn EXCEPT ![k] = AcceptTurn(@)]
      BY <2>2 DEF Reconcile
    <3>2. /\ Stored' /\ OneActive' /\ Sent' /\ Truthful'
          /\ turn'[k].phase \in {"accepted", "cancelling"} /\ turn'[k].bound
          /\ turn'[k].cancel = turn[k].cancel
          /\ \A j \in Turns : j # k => turn'[j] = turn[j]
      BY <1>1, <1>2, <3>1, Bound DEF runner
    <3>4. Drive'
      BY <1>1, <1>2, <3>2 DEF IInv, Drive, Terminal, runner
    <3>5. Intr'
      BY <1>1, <1>2, <3>2 DEF IInv, Intr, Terminal, runner
    <3>6. QED
      BY <3>2, <3>4, <3>5
  <2>3. QED
    BY <2>1, <2>2
<1>4. Sess' /\ Prov' /\ ~conflict'
  BY <1>2 DEF IInv, Sess, Prov, runner
<1>5. QED
  BY <1>0, <1>1, <1>2, <1>3, <1>4 DEF IInv

LEMMA InspectKeeps ==
    ASSUME IInv, NEW k \in Turns, Inspect(k)
    PROVE  IInv'
<1>0. Types'
  BY InspectTypes DEF IInv
<1>d. CodexShape
  BY TypesShape DEF IInv
<1>1. Stored' /\ OneActive' /\ Sess' /\ Prov' /\ Truthful' /\ ~conflict'
  BY DEF IInv, Stored, OneActive, Sess, Prov, Truthful, Inspect, store, runner, Terminal,
       TurnActive
<1>2. Sent'
  BY <1>d DEF IInv, Sent, CodexShape, Inspect, At, Terminal, Ended, Go, store, runner, Off
<1>3. Drive'
  BY <1>d DEF IInv, Drive, Terminal, Final, CodexShape, Inspect, At, Ended, Go, store, runner,
       Off
<1>4. Intr'
  BY <1>d DEF IInv, Intr, Terminal, Final, CodexShape, Inspect, At, Ended, Go, store, runner, Off
<1>5. QED
  BY <1>0, <1>1, <1>2, <1>3, <1>4 DEF IInv

LEMMA NotifiedKeeps ==
    ASSUME IInv, NEW k \in Turns, Notified(k)
    PROVE  IInv'
<1>0. Types'
  BY NotifiedTypes DEF IInv
<1>d. CodexShape
  BY TypesShape DEF IInv
<1>1. Stored' /\ OneActive' /\ Sess' /\ Prov' /\ Truthful' /\ ~conflict'
  BY DEF IInv, Stored, OneActive, Sess, Prov, Truthful, Notified, store, runner, Terminal,
       TurnActive
<1>2. Sent'
  BY <1>d DEF IInv, Sent, Notified, At, Terminal, store, runner
<1>3. Drive'
  BY <1>d DEF IInv, Drive, Prov, Terminal, Final, CodexShape, Notified, At, store, runner
<1>4. Intr'
  BY <1>d DEF IInv, Intr, Terminal, Final, CodexShape, Notified, At, store, runner
<1>5. QED
  BY <1>0, <1>1, <1>2, <1>3, <1>4 DEF IInv

LEMMA PolledKeeps ==
    ASSUME IInv, NEW k \in Turns, Polled(k)
    PROVE  IInv'
<1>0. Types'
  BY PolledTypes DEF IInv
<1>1. turn[k].bound
  BY DEF IInv, Drive, Polled, At, Terminal
<1>2. /\ UNCHANGED <<session, prov, runner, intr, sends, conflict>>
      /\ ~Terminal(k) /\ prov[k].status \in Final /\ intr[k].pc \notin {"read", "record"}
      /\ turn[k].cancel # "interrupt_maybe_sent" \/ k \in issued
  BY DEF IInv, Types, ProvRec, Drive, Intr, Polled, At
<1>3. /\ DOMAIN turn' = Turns
      /\ \A j \in Turns : turn'[j] = turn[j]
  BY <1>1, TypesShape DEF IInv, CodexShape, Polled, AcceptTurn
<1>4. driver'[k].pc = "finalize" /\ \A j \in Turns : j # k => driver'[j] = driver[j]
  BY TypesShape DEF IInv, CodexShape, Polled, Go
<1>5. Stored' /\ OneActive' /\ Sent' /\ Truthful'
  BY <1>2, <1>3, <1>4 DEF IInv, Stored, OneActive, Sent, Truthful, Terminal, TurnActive, runner
<1>6. Drive'
  BY <1>1, <1>2, <1>3, <1>4 DEF IInv, Drive, Terminal, runner
<1>7. Intr'
  BY <1>2, <1>3, <1>4 DEF IInv, Intr, Terminal, runner
<1>8. Sess' /\ Prov' /\ ~conflict'
  BY <1>2 DEF IInv, Sess, Prov, runner
<1>9. QED
  BY <1>0, <1>1, <1>2, <1>3, <1>4, <1>5, <1>6, <1>7, <1>8 DEF IInv

LEMMA WaitEndsKeeps ==
    ASSUME IInv, NEW k \in Turns, WaitEnds(k)
    PROVE  IInv'
<1>0. Types'
  BY WaitEndsTypes DEF IInv
<1>d. CodexShape
  BY TypesShape DEF IInv
<1>1. Stored' /\ OneActive' /\ Sess' /\ Prov' /\ Truthful' /\ ~conflict'
  BY DEF IInv, Stored, OneActive, Sess, Prov, Truthful, WaitEnds, store, runner, Terminal,
       TurnActive
<1>2. Sent'
  BY <1>d DEF IInv, Sent, WaitEnds, At, Terminal, Ended, store, runner, Off
<1>3. Drive'
  BY <1>d DEF IInv, Drive, Terminal, Final, CodexShape, WaitEnds, At, Ended, store, runner, Off
<1>4. Intr'
  BY <1>d DEF IInv, Intr, Terminal, Final, CodexShape, WaitEnds, At, Ended, store, runner, Off
<1>5. QED
  BY <1>0, <1>1, <1>2, <1>3, <1>4 DEF IInv

LEMMA FinalizeKeeps ==
    ASSUME IInv, NEW k \in Turns, Finalize(k)
    PROVE  IInv'
<1>0. Types'
  BY FinalizeTypes DEF IInv
<1>d. CodexShape
  BY TypesShape DEF IInv
<1>1. Stored' /\ OneActive' /\ Sess' /\ Prov' /\ Truthful' /\ ~conflict'
  BY DEF IInv, Stored, OneActive, Sess, Prov, Truthful, Finalize, store, runner, Terminal,
       TurnActive
<1>2. Sent'
  BY <1>d DEF IInv, Sent, Finalize, At, Normalize, store, runner
<1>3. Drive'
  BY <1>d DEF IInv, Drive, Terminal, Final, CodexShape, Finalize, At, Normalize, store, runner
<1>4. Intr'
  BY <1>d DEF IInv, Intr, Terminal, Final, CodexShape, Finalize, At, Normalize, store, runner
<1>5. QED
  BY <1>0, <1>1, <1>2, <1>3, <1>4 DEF IInv

LEMMA RecordKeeps ==
    ASSUME IInv, NEW k \in Turns, Record(k)
    PROVE  IInv'
<1>0. Types'
  BY RecordTypes DEF IInv
<1> DEFINE u == IF driver[k].usage THEN "reported" ELSE "none"
<1>1. /\ turn[k].bound /\ ~Terminal(k) /\ prov[k].status \in Final
      /\ driver[k].out # "none"
      /\ driver[k].out = "completed" => prov[k].status = "completed"
      /\ driver[k].out = "cancelled" => prov[k].status = "interrupted" /\ turn[k].cancel # "none"
      /\ intr[k].pc \notin {"read", "record"}
  BY DEF IInv, Drive, Intr, Record, At
<1>2. /\ turn[k].phase \notin {"absent", "prepared", "terminal"}
      /\ turn[k].cancel # "none" => turn[k].phase = "cancelling"
  BY <1>1 DEF IInv, Stored, Terminal
<1>3. ~ Refuses(turn[k], driver[k].out, u)
  BY <1>1, <1>2 DEF Refuses, Terminal
<1>4. /\ turn' = [turn EXCEPT ![k] = AppendTerminal(@, driver[k].out, u)]
      /\ UNCHANGED <<session, prov, runner, intr, sends, conflict>>
      /\ driver' = [driver EXCEPT ![k] = Off]
  BY <1>2, <1>3 DEF Record, RecordTerminal, Ended
<1>5. driver'[k].pc = "off" /\ \A j \in Turns : j # k => driver'[j] = driver[j]
  BY <1>4, TypesShape DEF IInv, CodexShape, Off
<1>6. driver[k].out \in {"completed", "failed", "cancelled"}
  BY <1>1 DEF IInv, Types, DriverRec, Outs
<1>7. /\ Stored' /\ OneActive' /\ Sent' /\ Truthful'
      /\ turn'[k].phase = "terminal" /\ turn'[k].bound = turn[k].bound
      /\ turn'[k].cancel = turn[k].cancel
      /\ \A j \in Turns : j # k => turn'[j] = turn[j]
  BY <1>1, <1>2, <1>4, <1>5, <1>6, Settled DEF runner, Final
<1>8. Drive'
  BY <1>4, <1>5, <1>7 DEF IInv, Drive, Terminal, runner
<1>9. Intr'
  BY <1>1, <1>4, <1>5, <1>7 DEF IInv, Intr, Terminal, runner
<1>10. Sess' /\ Prov' /\ ~conflict'
  BY <1>4 DEF IInv, Sess, Prov, runner
<1>11. QED
  BY <1>0, <1>1, <1>2, <1>3, <1>4, <1>5, <1>6, <1>7, <1>8, <1>9, <1>10 DEF IInv

LEMMA ClaimInterruptKeeps ==
    ASSUME IInv, NEW k \in Turns, ClaimInterrupt(k)
    PROVE  IInv'
<1>0. Types'
  BY ClaimInterruptTypes DEF IInv
<1>u. UNCHANGED <<prov, gen, open>>
  BY DEF ClaimInterrupt
<1>d. CodexShape
  BY TypesShape DEF IInv
<1>1. Sess' /\ Prov' /\ ~conflict'
  BY DEF IInv, Sess, Prov, ClaimInterrupt
<1>2. Stored'
  BY <1>d DEF IInv, Stored, Terminal, CodexShape, ClaimInterrupt, Interrupted, Off, At
<1>3. OneActive'
  BY <1>d DEF IInv, OneActive, TurnActive, CodexShape, ClaimInterrupt, Terminal, Interrupted, Off, At
<1>4. Sent'
  BY <1>d DEF IInv, Sent, CodexShape, ClaimInterrupt, Terminal, Interrupted, Off, At
<1>5. Drive'
  BY <1>d DEF IInv, Drive, Terminal, Final, CodexShape, ClaimInterrupt, Interrupted, Off, At
<1>6. Intr'
  BY ClaimInterruptIntr
<1>7. Truthful'
  BY <1>d DEF IInv, Truthful, Terminal, Final, CodexShape, ClaimInterrupt, Interrupted, Off, At
<1>8. QED
  BY <1>0, <1>1, <1>2, <1>3, <1>4, <1>5, <1>6, <1>7 DEF IInv

LEMMA SendInterruptKeeps ==
    ASSUME IInv, NEW k \in Turns, SendInterrupt(k)
    PROVE  IInv'
<1>0. Types'
  BY SendInterruptTypes DEF IInv
<1>d. CodexShape
  BY TypesShape DEF IInv
<1>1. Stored' /\ OneActive' /\ Sess' /\ ~conflict'
  BY DEF IInv, Stored, OneActive, Sess, SendInterrupt, store, runner, Terminal, TurnActive
<1>2. Sent'
  BY <1>d DEF IInv, Sent, SendInterrupt, Interrupted, store, runner, Off, At
<1>3. Prov'
  BY <1>d DEF IInv, Prov, CodexShape, SendInterrupt, Interrupted, store, runner, Off, At
<1>4. Drive'
  BY <1>d DEF IInv, Drive, Intr, Terminal, Final, CodexShape, SendInterrupt, Interrupted, store,
       runner, Off, At
<1>5. Intr'
  BY <1>d DEF IInv, Intr, Terminal, Final, CodexShape, SendInterrupt, Interrupted, store, runner,
       Off, At
<1>6. Truthful'
  BY <1>d DEF IInv, Truthful, Terminal, Final, CodexShape, SendInterrupt, Interrupted, store,
       runner, Off, At
<1>7. QED
  BY <1>0, <1>1, <1>2, <1>3, <1>4, <1>5, <1>6 DEF IInv

LEMMA ReadInterruptedKeeps ==
    ASSUME IInv, NEW k \in Turns, ReadInterrupted(k)
    PROVE  IInv'
<1>0. Types'
  BY ReadInterruptedTypes DEF IInv
<1>1. /\ k \notin issued /\ turn[k].cancel = "interrupt_maybe_sent" /\ ~Terminal(k)
      /\ turn[k].bound /\ turn[k].phase \notin {"absent", "prepared", "terminal"}
      /\ prov[k].gen < gen
      /\ driver[k].pc \in {"off", "claim", "inspect", "interrupting"}
  BY DEF IInv, Intr, Stored, ReadInterrupted, Terminal
<1>2. UNCHANGED <<session, prov, runner, sends, conflict>>
  BY DEF ReadInterrupted
<1>3. Stored' /\ OneActive' /\ Sent' /\ Truthful' /\ Drive' /\ Intr'
  <2>1. CASE prov[k].status \in {"none", "inProgress"}
    <3>1. /\ turn' = [turn EXCEPT ![k] = AppendTerminal(@, "failed", "none")]
          /\ Interrupted(k)
      BY <1>1, <2>1 DEF ReadInterrupted, RecordUncertainInterrupt, Terminal
    <3>2. /\ intr'[k].pc = "off"
          /\ \A j \in Turns : j # k => intr'[j] = intr[j] /\ driver'[j] = driver[j]
          /\ driver'[k].pc \in {"off", "claim", "inspect", "wait"}
      BY <1>1, <3>1, TypesShape DEF IInv, CodexShape, Interrupted, Off, At
    <3>3. prov[k].gen # gen
      BY <1>1, TypesShape DEF IInv, CodexShape
    <3>4. /\ Stored' /\ OneActive' /\ Sent' /\ Truthful'
          /\ turn'[k].phase = "terminal" /\ turn'[k].bound = turn[k].bound
          /\ turn'[k].cancel = turn[k].cancel
          /\ \A j \in Turns : j # k => turn'[j] = turn[j]
      BY <1>1, <1>2, <3>1, <3>2, <3>3, Settled DEF runner
    <3>5. Drive'
      BY <1>2, <3>2, <3>4 DEF IInv, Drive, Terminal, runner
    <3>6. Intr'
      BY <1>1, <1>2, <3>2, <3>4 DEF IInv, Intr, Terminal, runner
    <3>7. QED
      BY <3>4, <3>5, <3>6
  <2>2. CASE prov[k].status \notin {"none", "inProgress"}
    <3>1. /\ UNCHANGED <<turn, driver>>
          /\ intr'[k].pc = "record" /\ intr'[k].out = Normalize(prov[k].status, TRUE)
          /\ \A j \in Turns : j # k => intr'[j] = intr[j]
      <4>1. /\ UNCHANGED <<turn, driver>>
            /\ intr' = [intr EXCEPT ![k] = [intr[k] EXCEPT !.pc = "record",
                                               !.out = Normalize(prov[k].status, TRUE)]]
        BY <2>2 DEF ReadInterrupted
      <4>2. QED
        BY <4>1, TypesShape DEF IInv, CodexShape
    <3>2. Stored' /\ OneActive' /\ Sent' /\ Truthful' /\ Drive'
      BY <1>2, <3>1 DEF IInv, Stored, OneActive, Sent, Truthful, Drive, Terminal, TurnActive,
           runner
    <3>3. prov[k].status \in Final
      BY <2>2 DEF IInv, Types, ProvRec
    <3>4. /\ intr'[k].out # "none"
          /\ intr'[k].out = "completed" => prov[k].status = "completed"
          /\ intr'[k].out = "cancelled" => prov[k].status = "interrupted"
      BY <3>1, <3>3 DEF Normalize, Final
    <3>5. Intr'
      BY <1>1, <1>2, <3>1, <3>3, <3>4 DEF IInv, Intr, Terminal, runner
    <3>6. QED
      BY <3>2, <3>5
  <2>3. QED
    BY <2>1, <2>2
<1>4. Sess' /\ Prov' /\ ~conflict'
  BY <1>2 DEF IInv, Sess, Prov, runner
<1>5. QED
  BY <1>0, <1>1, <1>2, <1>3, <1>4 DEF IInv

LEMMA RecordInterruptedKeeps ==
    ASSUME IInv, NEW k \in Turns, RecordInterrupted(k)
    PROVE  IInv'
<1>0. Types'
  BY RecordInterruptedTypes DEF IInv
<1>1. /\ k \notin issued /\ turn[k].cancel = "interrupt_maybe_sent" /\ ~Terminal(k)
      /\ turn[k].phase = "cancelling"
      /\ driver[k].pc \in {"off", "claim", "inspect", "interrupting"}
      /\ turn[k].bound
      /\ prov[k].status \in Final
      /\ intr[k].out # "none"
      /\ intr[k].out = "completed" => prov[k].status = "completed"
      /\ intr[k].out = "cancelled" => prov[k].status = "interrupted"
  BY DEF IInv, Intr, Stored, RecordInterrupted, Terminal
<1>2. /\ turn' = [turn EXCEPT ![k] = AppendTerminal(@, intr[k].out, "none")]
      /\ UNCHANGED <<session, prov, runner, sends, conflict>>
      /\ Interrupted(k)
  BY <1>1 DEF RecordInterrupted, RecordTerminal, Refuses
<1>3. /\ intr'[k].pc = "off"
      /\ \A j \in Turns : j # k => intr'[j] = intr[j] /\ driver'[j] = driver[j]
      /\ driver'[k].pc \in {"off", "claim", "inspect", "wait"}
  BY <1>1, <1>2, TypesShape DEF IInv, CodexShape, Interrupted, Off, At
<1>4. intr[k].out \in {"completed", "failed", "cancelled"}
  BY <1>1 DEF IInv, Types, IntrRec, Outs
<1>5. /\ Stored' /\ OneActive' /\ Sent' /\ Truthful'
      /\ turn'[k].phase = "terminal" /\ turn'[k].bound = turn[k].bound
      /\ turn'[k].cancel = turn[k].cancel
      /\ \A j \in Turns : j # k => turn'[j] = turn[j]
  BY <1>1, <1>2, <1>3, <1>4, Settled, ZenonT(60) DEF runner, Final
<1>6. Drive'
  BY <1>2, <1>3, <1>5 DEF IInv, Drive, Terminal, runner
<1>7. Intr'
  BY <1>1, <1>2, <1>3, <1>5 DEF IInv, Intr, Terminal, runner
<1>8. Sess' /\ Prov' /\ ~conflict'
  BY <1>2 DEF IInv, Sess, Prov, runner
<1>9. QED
  BY <1>0, <1>1, <1>2, <1>3, <1>4, <1>5, <1>6, <1>7, <1>8 DEF IInv

LEMMA DriverFailsKeeps ==
    ASSUME IInv, NEW k \in Turns, DriverFails(k)
    PROVE  IInv'
<1>0. Types'
  BY DriverFailsTypes DEF IInv
<1>d. CodexShape
  BY TypesShape DEF IInv
<1>1. Stored' /\ OneActive' /\ Sess' /\ Prov' /\ Truthful' /\ ~conflict'
  BY DEF IInv, Stored, OneActive, Sess, Prov, Truthful, DriverFails, store, Terminal, TurnActive
<1>2. Sent'
  BY <1>d DEF IInv, Sent, DriverFails, Ended, store, Off
<1>3. Drive'
  BY <1>d DEF IInv, Drive, Terminal, Final, CodexShape, DriverFails, Ended, store, Off
<1>4. Intr'
  BY <1>d DEF IInv, Intr, Terminal, Final, CodexShape, DriverFails, Ended, store, Off
<1>5. QED
  BY <1>0, <1>1, <1>2, <1>3, <1>4 DEF IInv

LEMMA InterruptFailsKeeps ==
    ASSUME IInv, NEW k \in Turns, InterruptFails(k)
    PROVE  IInv'
<1>0. Types'
  BY InterruptFailsTypes DEF IInv
<1>d. CodexShape
  BY TypesShape DEF IInv
<1>1. Stored' /\ OneActive' /\ Sess' /\ Prov' /\ Truthful' /\ ~conflict'
  BY DEF IInv, Stored, OneActive, Sess, Prov, Truthful, InterruptFails, store, Terminal,
       TurnActive
<1>2. Sent'
  BY <1>d DEF IInv, Sent, CodexShape, InterruptFails, Off, At, Ended, store
<1>3. Drive'
  BY <1>d DEF IInv, Drive, Terminal, Final, CodexShape, InterruptFails, Off, At, Ended, store
<1>4. Intr'
  BY <1>d DEF IInv, Intr, Terminal, Final, CodexShape, InterruptFails, Off, At, Ended, store
<1>5. QED
  BY <1>0, <1>1, <1>2, <1>3, <1>4 DEF IInv

LEMMA ProviderEndsKeeps ==
    ASSUME IInv, NEW k \in Turns, ProviderEnds(k)
    PROVE  IInv'
<1>0. Types'
  BY ProviderEndsTypes DEF IInv
<1>d. CodexShape
  BY TypesShape DEF IInv
<1>1. Stored' /\ OneActive' /\ Sess' /\ ~conflict'
  BY DEF IInv, Stored, OneActive, Sess, ProviderEnds, store, runner, Terminal, TurnActive
<1>2. Sent'
  BY <1>d DEF IInv, Sent, CodexShape, ProviderEnds, store, runner
<1>3. Prov'
  BY <1>d DEF IInv, Prov, Final, CodexShape, ProviderEnds, store, runner
<1>4. Drive'
  BY <1>d DEF IInv, Drive, Terminal, Final, CodexShape, ProviderEnds, store, runner
<1>5. Intr'
  BY <1>d DEF IInv, Intr, Terminal, Final, CodexShape, ProviderEnds, store, runner
<1>6. Truthful'
  BY <1>d DEF IInv, Truthful, Terminal, Final, CodexShape, ProviderEnds, store, runner
<1>7. QED
  BY <1>0, <1>1, <1>2, <1>3, <1>4, <1>5, <1>6 DEF IInv

LEMMA ProviderSettlesKeeps ==
    ASSUME IInv, NEW k \in Turns, ProviderSettles(k)
    PROVE  IInv'
<1>0. Types'
  BY ProviderSettlesTypes DEF IInv
<1>d. CodexShape
  BY TypesShape DEF IInv
<1>1. Stored' /\ OneActive' /\ Sess' /\ ~conflict'
  BY DEF IInv, Stored, OneActive, Sess, ProviderSettles, store, runner, Terminal, TurnActive
<1>2. Sent'
  BY <1>d DEF IInv, Sent, ProviderSettles, store, runner
<1>3. Prov'
  BY <1>d DEF IInv, Prov, Final, CodexShape, ProviderSettles, store, runner
<1>4. Drive'
  BY <1>d DEF IInv, Drive, Terminal, Final, CodexShape, ProviderSettles, store, runner
<1>5. Intr'
  BY <1>d DEF IInv, Intr, Terminal, Final, CodexShape, ProviderSettles, store, runner
<1>6. Truthful'
  BY <1>d DEF IInv, Truthful, Terminal, Final, CodexShape, ProviderSettles, store, runner
<1>7. QED
  BY <1>0, <1>1, <1>2, <1>3, <1>4, <1>5, <1>6 DEF IInv

LEMMA OpenKeeps ==
    ASSUME IInv, OpenRunner
    PROVE  IInv'
<1>0. Types'
  BY OpenTypes DEF IInv
<1>d. CodexShape
  BY TypesShape DEF IInv
<1>1. Stored' /\ OneActive' /\ ~conflict'
  BY DEF IInv, Stored, OneActive, OpenRunner, store, Terminal, TurnActive
<1>2. Sess'
  BY <1>d DEF IInv, Sess, OpenRunner, Off, store
<1>3. Sent'
  BY <1>d DEF IInv, Sent, OpenRunner, Off, store
<1>4. Prov'
  BY <1>d DEF IInv, Prov, CodexShape, OpenRunner, Off, store
<1>5. Drive'
  BY <1>d DEF IInv, Drive, Final, CodexShape, OpenRunner, Off, store
<1>6. Intr'
  BY <1>d DEF IInv, Intr, Prov, Final, CodexShape, OpenRunner, Off, store
<1>7. Truthful'
  BY <1>d DEF IInv, Truthful, Prov, Terminal, Final, CodexShape, OpenRunner, Off, store
<1>8. QED
  BY <1>0, <1>1, <1>2, <1>3, <1>4, <1>5, <1>6, <1>7 DEF IInv

LEMMA ClaimSessionKeeps ==
    ASSUME IInv, ClaimSession
    PROVE  IInv'
<1>0. Types'
  BY ClaimSessionTypes DEF IInv
<1>d. CodexShape
  BY TypesShape DEF IInv
<1>1. OneActive' /\ Sent' /\ Prov' /\ Drive' /\ Intr' /\ Truthful' /\ ~conflict'
  BY DEF IInv, OneActive, Sent, Prov, Drive, Intr, Truthful, ClaimSession, TurnActive, Terminal
<1>2. Stored'
  BY <1>d DEF IInv, Stored, Terminal, CodexShape, ClaimSession
<1>3. Sess'
  BY <1>d DEF IInv, Sess, CodexShape, ClaimSession
<1>4. QED
  BY <1>0, <1>1, <1>2, <1>3 DEF IInv

LEMMA SessionReadyKeeps ==
    ASSUME IInv, SessionReady
    PROVE  IInv'
<1>0. Types'
  BY SessionReadyTypes DEF IInv
<1>d. CodexShape
  BY TypesShape DEF IInv
<1>1. OneActive' /\ Sent' /\ Prov' /\ Drive' /\ Intr' /\ Truthful' /\ ~conflict'
  BY DEF IInv, OneActive, Sent, Prov, Drive, Intr, Truthful, SessionReady, TurnActive, Terminal
<1>2. Stored'
  BY <1>d DEF IInv, Stored, Terminal, CodexShape, SessionReady
<1>3. Sess'
  BY <1>d DEF IInv, Sess, CodexShape, SessionReady
<1>4. QED
  BY <1>0, <1>1, <1>2, <1>3 DEF IInv

LEMMA SessionFailsKeeps ==
    ASSUME IInv, SessionFails
    PROVE  IInv'
<1>0. Types'
  BY SessionFailsTypes DEF IInv
<1>d. CodexShape
  BY TypesShape DEF IInv
<1>1. Stored' /\ OneActive' /\ Sent' /\ Prov' /\ Drive' /\ Intr' /\ Truthful' /\ ~conflict'
  BY DEF IInv, Stored, OneActive, Sent, Prov, Drive, Intr, Truthful, SessionFails, store,
       Terminal, TurnActive
<1>2. Sess'
  BY <1>d DEF IInv, Sess, SessionFails, store
<1>3. QED
  BY <1>0, <1>1, <1>2 DEF IInv

LEMMA ProviderDiesKeeps ==
    ASSUME IInv, ProviderDies
    PROVE  IInv'
<1>0. Types'
  BY ProviderDiesTypes DEF IInv
<1>d. CodexShape
  BY TypesShape DEF IInv
<1>1. Stored' /\ OneActive' /\ Sess' /\ ~conflict'
  BY DEF IInv, Stored, OneActive, Sess, ProviderDies, store, Terminal, TurnActive
<1>2. Sent'
  BY <1>d DEF IInv, Sent, ProviderDies, Left, store, NoProvider
<1>3. Prov'
  <2>1. \A j \in Turns : prov'[j] \in Left(j)
    BY DEF ProviderDies
  <2>2. gen' = gen
    BY DEF ProviderDies
  <2>3. \A j \in Turns : prov'[j].gen <= gen /\ (prov'[j].note => prov'[j].status \in Final)
    BY <1>d, <2>1, LeftSound
  <2>4. QED
    BY <2>2, <2>3 DEF Prov
<1>4. Drive'
  BY <1>d DEF IInv, Drive, Terminal, Final, CodexShape, ProviderDies, Left, store, NoProvider
<1>5. Intr'
  BY <1>d DEF IInv, Intr, Terminal, Final, CodexShape, ProviderDies, Left, store, NoProvider
<1>6. Truthful'
  BY <1>d DEF IInv, Truthful, Terminal, Final, CodexShape, ProviderDies, Left, store, NoProvider
<1>7. QED
  BY <1>0, <1>1, <1>2, <1>3, <1>4, <1>5, <1>6 DEF IInv

LEMMA CloseKeeps ==
    ASSUME IInv, Close
    PROVE  IInv'
<1>0. Types'
  BY CloseTypes DEF IInv
<1>d. CodexShape
  BY TypesShape DEF IInv
<1>1. Stored' /\ OneActive' /\ ~conflict'
  BY DEF IInv, Stored, OneActive, Close, store, Terminal, TurnActive
<1>2. Sess'
  BY <1>d DEF IInv, Sess, Close, Off, Left, store, NoProvider
<1>3. Sent'
  BY <1>d DEF IInv, Sent, Close, Off, Left, store, NoProvider
<1>4. Prov'
  <2>1. \A j \in Turns : prov'[j] \in Left(j)
    BY DEF Close
  <2>2. gen' = gen
    BY DEF Close
  <2>3. \A j \in Turns : prov'[j].gen <= gen /\ (prov'[j].note => prov'[j].status \in Final)
    BY <1>d, <2>1, LeftSound
  <2>4. QED
    BY <2>2, <2>3 DEF Prov
<1>5. Drive'
  BY <1>d DEF IInv, Drive, Final, CodexShape, Close, Off, Left, store, NoProvider
<1>6. Intr'
  BY <1>d DEF IInv, Intr, Final, CodexShape, Close, Off, Left, store, NoProvider
<1>7. Truthful'
  BY <1>d DEF IInv, Truthful, Terminal, Final, CodexShape, Close, Off, Left, store, NoProvider
<1>8. QED
  BY <1>0, <1>1, <1>2, <1>3, <1>4, <1>5, <1>6, <1>7 DEF IInv

-----------------------------------------------------------------------------
(* The theorems *)

LEMMA Initially == CodexInit => IInv
<1>1. CodexInit => Types
  <2>1. CodexInit => Flags
    <3>1. 0 \in 0 .. MaxGens
      BY CodexAssumption
    <3>2. QED
      BY <3>1 DEF CodexInit, Flags
  <2>5. CodexInit => sends \in [Turns -> Nat]
    BY DEF CodexInit
  <2>2. CodexInit => turn \in [Turns -> TurnRec]
    BY DEF CodexInit, TurnRec, AbsentTurn, Phases, Outs
  <2>3. CodexInit => prov \in [Turns -> ProvRec]
    BY CodexAssumption DEF CodexInit, ProvRec, NoProvider, Final
  <2>4. CodexInit => driver \in [Turns -> DriverRec] /\ intr \in [Turns -> IntrRec]
    BY DEF CodexInit, DriverRec, IntrRec, Off, DriverPc, IntrPc, Outs
  <2>6. QED
    BY <2>1, <2>2, <2>3, <2>4, <2>5 DEF Types
<1>2. CodexInit => Stored /\ OneActive /\ Sess /\ Sent
  BY DEF CodexInit, Stored, OneActive, TurnActive, Sess, Sent, Terminal, AbsentTurn, NoProvider, Off
<1>3. CodexInit => Prov /\ Drive /\ Intr /\ Truthful /\ ~conflict
  BY DEF CodexInit, Prov, Drive, Intr, Truthful, AbsentTurn, NoProvider, Off
<1>4. QED
  BY <1>1, <1>2, <1>3 DEF IInv

LEMMA Inductive == IInv /\ [CodexNext]_codexVars => IInv'
<1> SUFFICES ASSUME IInv, [CodexNext]_codexVars
             PROVE  IInv'
  OBVIOUS
<1>1. CASE OpenRunner \/ ClaimSession \/ SessionReady \/ SessionFails \/ ProviderDies \/ Close
  BY <1>1, OpenKeeps, ClaimSessionKeeps, SessionReadyKeeps, SessionFailsKeeps, ProviderDiesKeeps,
     CloseKeeps
<1>2. ASSUME NEW k \in Turns, DriverStep(k)
      PROVE  IInv'
  BY <1>2, ClaimTurnStartKeeps, ProviderStartsKeeps, BindKeeps, ReconcileKeeps, InspectKeeps,
     NotifiedKeeps, PolledKeeps, WaitEndsKeeps, FinalizeKeeps, RecordKeeps DEF DriverStep
<1>3. ASSUME NEW k \in Turns, InterruptStep(k)
      PROVE  IInv'
  BY <1>3, ClaimInterruptKeeps, SendInterruptKeeps, ReadInterruptedKeeps, RecordInterruptedKeeps
     DEF InterruptStep
<1>4. ASSUME NEW k \in Turns,
             \/ Stream(k) \/ CancelTurn(k) \/ DriverFails(k) \/ InterruptFails(k) \/ ProviderEnds(k)
             \/ ProviderSettles(k)
      PROVE  IInv'
  BY <1>4, StreamKeeps, CancelKeeps, DriverFailsKeeps, InterruptFailsKeeps, ProviderEndsKeeps,
     ProviderSettlesKeeps
<1>5. CASE UNCHANGED codexVars
  BY <1>5 DEF codexVars, IInv, Types, Flags, Stored, OneActive, TurnActive, Sess, Sent, Prov, Drive,
       Intr, Truthful, Terminal
<1>6. QED
  BY <1>1, <1>2, <1>3, <1>4, <1>5 DEF CodexNext

LEMMA Invariance == CodexSpec => []IInv
BY Initially, Inductive, PTL DEF CodexSpec

\* Types of the variables hold in every reachable state.
THEOREM CodexTypesHold == CodexSpec => []CodexTypeOK
<1>1. IInv => CodexTypeOK
  BY DEF IInv, Types, Flags, TurnRec, Phases, Outs, CodexTypeOK
<1>2. QED
  BY <1>1, Invariance, PTL

\* No turn is sent to the provider twice, whatever dies between the claim in
\* the store and the provider's answer (claimTurnStart).
THEOREM SentAtMostOnce == CodexSpec => []AtMostOnce
<1>1. IInv => AtMostOnce
  BY DEF IInv, Sent, AtMostOnce
<1>2. QED
  BY <1>1, Invariance, PTL

LEMMA OneOrNone ==
    ASSUME NEW A, \A j, k \in A : j = k
    PROVE  Cardinality(A) <= 1
<1>1. CASE A = {}
  BY <1>1, FS_EmptySet
<1>2. ASSUME NEW k \in A
      PROVE  Cardinality(A) <= 1
  <2>1. A = {k}
    OBVIOUS
  <2>2. QED
    BY <2>1, FS_Singleton, SMTT(30)
<1>3. QED
  BY <1>1, <1>2

\* Whatever the interleaving of a driver, a cancellation, the provider's death
\* and the next generation: the stored result of a turn is what the provider
\* did, no second one contradicts it, and the store can be opened again
\* (recordTerminal, recordUnmatchedStart, recordUncertainInterrupt).
THEOREM StoredResultsSound == CodexSpec => []ResultsSound
<1>1. IInv => Truthful /\ OneResult
  BY DEF IInv, OneResult
<1>2. IInv => Reopens
  <2> SUFFICES ASSUME IInv PROVE Reopens
    OBVIOUS
  <2> DEFINE A == {k \in Turns : turn[k].phase \notin {"absent", "terminal"}}
  <2>1. \A j, k \in A : j = k
    BY DEF IInv, OneActive, TurnActive
  <2>2. Cardinality(A) <= 1
    BY <2>1, OneOrNone
  <2>3. QED
    BY <2>2 DEF IInv, Stored, Reopens
<1>3. QED
  BY <1>1, <1>2, Invariance, PTL DEF ResultsSound

=============================================================================
