-------------------------------- MODULE Capsule --------------------------------
(***************************************************************************)
(* The persistent Capsule of one Mission: the Node's adapter with its      *)
(* authority registry, the Capsule server processes it launches, the one   *)
(* socket path they compete for, the authority each process admits and the *)
(* durable turns of the fake store.  The Node and every Capsule process    *)
(* may die on their own; a request whose sender timed out or died may      *)
(* still be served.                                                        *)
(*                                                                         *)
(* A process's socket inode is the process's number.  What the delivery    *)
(* processor does to its journaled grant is modelled as far as the adapter *)
(* meets it: Checkpoint and Discard.                                       *)
(***************************************************************************)
EXTENDS Integers, FiniteSets

CONSTANTS
    Callers,     \* who uses the adapter: the turn driver "main", the lease keeper "keeper"
    MaxProcs,    \* bound: Capsule processes launched
    MaxGrants,   \* bound: grants checkpointed
    MaxTurns,    \* bound: turns the grants are for, and so execution keys
    MaxInputs,   \* bound: different start inputs offered for a turn key
    MaxFaults    \* bound: crashes and unanswered requests

ASSUME CapsuleAssumption ==
    /\ "main" \in Callers /\ Callers \subseteq {"main", "keeper"}
    /\ {MaxProcs, MaxGrants, MaxTurns, MaxInputs} \subseteq Nat \ {0}
    /\ MaxFaults \in Nat

VARIABLES
    path,      \* the inode at the socket path; 0 when there is none
    proc,      \* the Capsule processes
    launched,  \* processes launched so far
    disk,      \* the durable state file of the store
    descriptor,\* whether launch.json exists
    registry,  \* the adapter's durable execution registry: recorded input by key
    grant,     \* the newest grant, its turn's key, and whether the journal holds it
    cache,     \* the adapter's CachedCapsuleAuthority, lost with the Node process
    revoked,   \* its revokedGrantIds, lost with the Node process
    lock,      \* the caller whose transition runs
    call,      \* the adapter call of each caller
    orphans,   \* requests whose sender is gone
    faults     \* faults so far

vars == <<path, proc, launched, disk, descriptor, registry, grant, cache, revoked,
          lock, call, orphans, faults>>

Procs == 1..MaxProcs
Grants == 1..MaxGrants
Keys == 1..MaxTurns
Inputs == 1..MaxInputs

\* assertAuthority, ensureSession, recoverTurn and cancelTurn are alike up to
\* their request, which is chosen when it is sent: they are the call "use".
Guarded == {"use", "start"}
Uses == {"assert", "session", "recover", "cancel"}
Ops == Guarded \cup {"install", "renew", "lookup", "revoke"}
OpsOf(c) == IF c = "main" THEN Ops \ {"renew"} ELSE {"renew", "revoke"}

TurnStates == {"none", "running", "completed", "cancelled"}
NoTurn == [input |-> 0, state |-> "none"]
EmptyStore == [session |-> FALSE, turns |-> [k \in Keys |-> NoTurn]]
NoWrite == [next |-> EmptyStore, started |-> 0, busy |-> FALSE]

\* A launched process: at, its monitor's grant, key and liveness, a scheduled
\* retirement, the store in memory, the write in progress, completion timers.
NewProc ==
    [at |-> "none", grant |-> 0, key |-> 0, live |-> FALSE, retire |-> FALSE,
     mem |-> EmptyStore, write |-> NoWrite, timers |-> {}]

NoCache == [grant |-> 0, key |-> 0, status |-> "none"]
NoCall == [op |-> "none", at |-> "idle", input |-> 0, tried |-> FALSE, stale |-> 0]
NoGrant == [id |-> 0, key |-> 0, held |-> FALSE]

Stores == [session : BOOLEAN, turns : [Keys -> [input : 0..MaxInputs, state : TurnStates]]]

TypeOK ==
    /\ path \in 0..MaxProcs
    /\ launched \in 0..MaxProcs
    /\ \A p \in Procs :
          /\ proc[p].at \in {"none", "started", "checked", "linked", "ready", "closing",
                             "draining", "dead"}
          /\ proc[p].grant \in 0..MaxGrants
          /\ proc[p].mem \in Stores
          /\ proc[p].timers \subseteq Keys
    /\ disk \in Stores
    /\ registry \in [Keys -> 0..MaxInputs]
    /\ grant \in [id : 0..MaxGrants, key : 0..MaxTurns, held : BOOLEAN]
    /\ cache \in [grant : 0..MaxGrants, key : 0..MaxTurns,
                  status : {"none", "installing", "active", "revoking", "revoked"}]
    /\ revoked \subseteq Grants
    /\ lock \in Callers \cup {"free"}
    /\ \A c \in Callers :
          call[c].at \in {"idle", "enter", "probe", "remove", "sync", "resync", "send",
                          "shutdown", "retire"}
    /\ faults \in 0..MaxFaults

Init ==
    /\ path = 0
    /\ proc = [p \in Procs |-> NewProc]
    /\ launched = 0
    /\ disk = EmptyStore
    /\ descriptor = FALSE
    /\ registry = [k \in Keys |-> 0]
    /\ grant = NoGrant
    /\ cache = NoCache
    /\ revoked = {}
    /\ lock = "free"
    /\ call = [c \in Callers |-> NoCall]
    /\ orphans = {}
    /\ faults = 0

-----------------------------------------------------------------------------
(* The Capsule process: authority and store *)

Serving(p) == proc[p].at = "ready"
Alive(p) == proc[p].at \in {"started", "checked", "linked", "ready", "closing", "draining"}

\* What a connection to the socket path meets: nobody listening, a process that
\* destroys connections (starting or closing), or one that serves.
Reach ==
    IF path = 0 \/ proc[path].at = "dead" THEN "unavailable"
    ELSE IF Serving(path) THEN "ready" ELSE "transport"

Request(kind, g, k, i) == [kind |-> kind, grant |-> g, key |-> k, input |-> i]

\* revoke() of the monitor: the abort schedules the retirement of the process.
Abort(q) == [q EXCEPT !.live = FALSE, !.retire = TRUE]

\* CapsuleAuthority.install: the first grant is admitted, an exact replay
\* renews it, any other grant ends this generation.
Install(q, r) ==
    IF q.grant = 0 THEN <<"ok", [q EXCEPT !.grant = r.grant, !.key = r.key, !.live = TRUE]>>
    ELSE IF q.grant # r.grant THEN <<"denied", Abort(q)>>
    ELSE <<IF q.live THEN "ok" ELSE "denied", q>>

\* requireMonitor and the checks of perform for the request's grant and turn.
Verdict(q, r) ==
    IF q.grant = 0 THEN "not_installed"
    ELSE IF q.live /\ q.grant = r.grant /\ q.key = r.key THEN "ok" ELSE "denied"

Write(q, next, started) ==
    [q EXCEPT !.write = [next |-> next, started |-> started, busy |-> TRUE]]

\* FakeCapsuleStore.ensureSession.
Session(q) == <<"ok", IF q.mem.session THEN q ELSE Write(q, [q.mem EXCEPT !.session = TRUE], 0)>>

\* FakeCapsuleStore.startTurn: idempotent by execution key and input, one
\* active turn in a Mission.
Start(q, r) ==
    LET old == q.mem.turns[r.key] IN
    IF old.state # "none" THEN <<IF old.input = r.input THEN "ok" ELSE "conflict", q>>
    ELSE IF ~q.mem.session \/ \E k \in Keys : q.mem.turns[k].state = "running"
    THEN <<"conflict", q>>
    ELSE <<"ok", Write(q, [q.mem EXCEPT !.turns[r.key] = [input |-> r.input, state |-> "running"]], r.key)>>

\* eventsForTurn of a recovered turn.
Recover(q, r) ==
    <<IF q.mem.turns[r.key].state # "none" /\ q.mem.turns[r.key].input = r.input
      THEN "ok" ELSE "conflict", q>>

\* FakeCapsuleStore.cancelTurn; a terminal turn stays as it is.
Cancel(q, r) ==
    CASE q.mem.turns[r.key].state = "none" -> <<"conflict", q>>
      [] q.mem.turns[r.key].state = "running" ->
            <<"ok", [Write(q, [q.mem EXCEPT !.turns[r.key].state = "cancelled"], 0)
                     EXCEPT !.timers = @ \ {r.key}]>>
      [] OTHER -> <<"ok", q>>

\* The effects the monitor guards.
Guard(q, r) ==
    CASE Verdict(q, r) # "ok" -> <<Verdict(q, r), q>>
      [] r.kind \in {"assert", "renew"} -> <<"ok", q>>
      [] r.kind = "session" -> Session(q)
      [] r.kind = "start" -> Start(q, r)
      [] r.kind = "recover" -> Recover(q, r)
      [] r.kind = "cancel" -> Cancel(q, r)

\* CapsuleAuthority.revoke: only a live monitor of this very grant.
Revoke(q, r) ==
    IF q.grant = 0 THEN <<"not_installed", q>>
    ELSE IF q.live /\ q.grant = r.grant THEN <<"ok", Abort(q)>> ELSE <<"denied", q>>

\* PersistentCapsuleServer.dispatch: the reply and what becomes of the process.
Dispatch(q, r) ==
    CASE r.kind = "install" -> Install(q, r)
      [] r.kind = "revoke" -> Revoke(q, r)
      [] r.kind = "lookup" -> <<"ok", q>>
      [] r.kind = "shutdown" -> <<"ok", [q EXCEPT !.retire = TRUE]>>
      [] OTHER -> Guard(q, r)

-----------------------------------------------------------------------------
(* The life of a Capsule process *)

\* A process that stops serving ends its connections, and with them the requests
\* it has not read.
ProcStep ==
    /\ UNCHANGED <<launched, descriptor, registry, grant, cache, revoked, lock, call>>
    /\ orphans' = {o \in orphans : proc'[o.proc].at = "ready"}

\* publishCapsuleSocket: the path must be free, then the bound socket is
\* linked to it; link refuses a path taken meanwhile.
CheckPath(p) ==
    /\ proc[p].at = "started"
    /\ proc' = [proc EXCEPT ![p].at = IF path = 0 THEN "checked" ELSE "dead"]
    /\ UNCHANGED <<path, disk, faults>> /\ ProcStep

\* Mutant: publication replaces whatever is at the path.
LinkOver(p) ==
    /\ proc[p].at = "checked"
    /\ path' = p
    /\ proc' = [proc EXCEPT ![p].at = "linked"]
    /\ UNCHANGED <<disk, faults>> /\ ProcStep

LinkPath(p) ==
    /\ proc[p].at = "checked"
    /\ path' = IF path = 0 THEN p ELSE path
    /\ proc' = [proc EXCEPT ![p].at = IF path = 0 THEN "linked" ELSE "dead"]
    /\ UNCHANGED <<disk, faults>> /\ ProcStep

\* openRuntime reads the durable state and schedules the turns still running.
Open(p) ==
    /\ proc[p].at = "linked"
    /\ proc' = [proc EXCEPT ![p].at = "ready", ![p].mem = disk,
                            ![p].timers = {k \in Keys : disk.turns[k].state = "running"}]
    /\ UNCHANGED <<path, disk, faults>> /\ ProcStep

\* mutate(): the file is replaced, then memory follows; a started turn's
\* completion is scheduled after its write.
Commit(p) ==
    /\ Alive(p) /\ proc[p].write.busy
    /\ disk' = proc[p].write.next
    /\ proc' = [proc EXCEPT ![p].mem = proc[p].write.next, ![p].write = NoWrite,
                            ![p].timers = @ \cup ({proc[p].write.started} \ {0})]
    /\ UNCHANGED <<path, faults>> /\ ProcStep

\* completeTurn when a completion timer fires: a turn that a cancellation has
\* already ended stays as it is.
Complete(p, k) ==
    /\ Alive(p) /\ k \in proc[p].timers /\ ~proc[p].write.busy
    /\ proc' = [proc EXCEPT ![p] =
          LET q == [proc[p] EXCEPT !.timers = @ \ {k}] IN
          IF q.mem.turns[k].state = "running"
          THEN Write(q, [q.mem EXCEPT !.turns[k].state = "completed"], 0) ELSE q]
    /\ UNCHANGED <<path, disk, faults>> /\ ProcStep

\* The lease or hard deadline, or the turn timer, ends the monitor.
Expire(p) ==
    /\ Serving(p) /\ proc[p].live
    /\ proc' = [proc EXCEPT ![p] = Abort(proc[p])]
    /\ UNCHANGED <<path, disk, faults>> /\ ProcStep

\* close(): from here on connections are refused.
BeginClose(p) ==
    /\ Serving(p) /\ proc[p].retire
    /\ proc' = [proc EXCEPT ![p].at = "closing", ![p].live = FALSE, ![p].grant = 0,
                            ![p].key = 0, ![p].retire = FALSE]
    /\ UNCHANGED <<path, disk, faults>> /\ ProcStep

\* removeCapsuleSocketIfOwned, then the runtime's close aborts the timers; a
\* write in progress goes on.
Unpublish(p) ==
    /\ proc[p].at = "closing"
    /\ path' = IF path = p THEN 0 ELSE path
    /\ proc' = [proc EXCEPT ![p].at = "draining", ![p].timers = {}]
    /\ UNCHANGED <<disk, faults>> /\ ProcStep

Drained(p) ==
    /\ proc[p].at = "draining" /\ ~proc[p].write.busy /\ proc[p].timers = {}
    /\ proc' = [proc EXCEPT ![p] = [NewProc EXCEPT !.at = "dead"]]
    /\ UNCHANGED <<path, disk, faults>> /\ ProcStep

\* The process dies; its socket stays at the path and refuses connections.
Die(p) ==
    /\ Alive(p) /\ faults < MaxFaults
    /\ proc' = [proc EXCEPT ![p] = [NewProc EXCEPT !.at = "dead"]]
    /\ faults' = faults + 1
    /\ UNCHANGED <<path, disk>> /\ ProcStep

\* A request whose sender is gone is served all the same.
ServeOrphan(p, o) ==
    /\ o \in orphans /\ o.proc = p
    /\ Serving(p) /\ ~proc[p].write.busy
    /\ orphans' = orphans \ {o}
    /\ proc' = [proc EXCEPT ![p] = Dispatch(proc[p], o.request)[2]]
    /\ UNCHANGED <<path, launched, disk, descriptor, registry, grant, cache, revoked, lock,
                   call, faults>>

-----------------------------------------------------------------------------
(* The adapter *)

\* The requests that change the process when they are served late.
Lasting == {"install", "revoke", "session", "start", "cancel", "shutdown"}

Replies == {"ok", "denied", "conflict", "not_installed", "unavailable", "transport"}

\* requestUnary and requestEvents: connect, send, await the reply.  Without an
\* answer the caller sees a transport error and the request may be served later.
Exchange(r, reply) ==
    \/ /\ Reach # "ready" /\ reply = Reach
       /\ UNCHANGED <<proc, orphans, faults>>
    \/ /\ Reach = "ready" /\ ~proc[path].write.busy
       /\ reply = Dispatch(proc[path], r)[1]
       /\ proc' = [proc EXCEPT ![path] = Dispatch(proc[path], r)[2]]
       /\ UNCHANGED <<orphans, faults>>
    \/ /\ Reach = "ready" /\ faults < MaxFaults /\ reply = "transport"
       /\ orphans' = IF r.kind \in Lasting THEN orphans \cup {[proc |-> path, request |-> r]}
                     ELSE orphans
       /\ faults' = faults + 1
       /\ UNCHANGED proc

To(c, label) == call' = [call EXCEPT ![c].at = label]
Return(c) == call' = [call EXCEPT ![c] = NoCall]
Release(c) == lock' = IF lock = c THEN "free" ELSE lock
Mine(c, kind) == Request(kind, grant.id, grant.key, call[c].input)

Active == cache.status = "active" /\ cache.grant = grant.id

\* checkpointRuntimeAuthority, the journal's next grant: of the same turn after a
\* reclaim, or of a new one.  A predecessor still journaled has been revoked by
\* this very process (resolveGrant).
Checkpoint ==
    /\ grant.held => grant.id \in revoked
    /\ grant.id < MaxGrants
    /\ \A c \in Callers : call[c] = NoCall
    /\ \E k \in {grant.key, grant.key + 1} \cap Keys :
          grant' = [id |-> grant.id + 1, key |-> k, held |-> TRUE]
    /\ UNCHANGED <<path, proc, launched, disk, descriptor, registry, cache, revoked, lock,
                   call, orphans, faults>>

\* retireJournaled: once revokeAuthority has returned the journal lets go of the
\* grant, in a step of its own that a restart may prevent.
Discard ==
    /\ grant.held /\ grant.id \in revoked
    /\ call["main"] = NoCall
    /\ grant' = [grant EXCEPT !.held = FALSE]
    /\ UNCHANGED <<path, proc, launched, disk, descriptor, registry, cache, revoked, lock,
                   call, orphans, faults>>

\* recordExecution: an execution key stays bound to its start input.
Recorded(k, i) == registry[k] \in {0, i}

\* The public operations up to their Mission transition, for the journaled grant;
\* a turn may still be looked up when there is none.  A start records its intent
\* durably first.
Call(c, op, i) ==
    /\ call[c] = NoCall /\ op \in OpsOf(c)
    /\ i = 0 <=> op # "start"
    /\ grant.id # 0 /\ (grant.held \/ op = "lookup")
    /\ op \in Guarded => Active
    /\ op = "start" => Recorded(grant.key, i)
    /\ op = "lookup" => registry[grant.key] # 0
    /\ registry' = IF op = "start" THEN [registry EXCEPT ![grant.key] = i] ELSE registry
    /\ call' = [call EXCEPT ![c] = [NoCall EXCEPT !.op = op, !.at = "enter", !.input = i]]
    /\ UNCHANGED <<path, proc, launched, disk, descriptor, grant, cache, revoked, lock,
                   orphans, faults>>

\* installAuthority admits no grant beside an unresolved, active or revoking one.
MayInstall ==
    /\ cache.status # "revoking"
    /\ grant.id \notin revoked
    /\ cache.status \in {"active", "installing"} => cache.grant = grant.id

\* revokeAuthority returns at once: nothing was ever launched, or this process
\* has already proven it.
AlreadyRetired ==
    \/ cache.status = "none" /\ (grant.id \in revoked \/ ~descriptor)
    \/ cache.grant = grant.id /\ cache.status = "revoked"

\* The transition begins: the checks made under the Mission's lock.
Enter(c) ==
    /\ call[c].at = "enter" /\ lock = "free"
    /\ LET op == call[c].op IN
       \/ /\ op = "install" /\ MayInstall
          /\ descriptor' = TRUE
          /\ lock' = c /\ To(c, "probe")
          /\ UNCHANGED <<cache, revoked>>
       \/ /\ op \in Guarded \cup {"renew"} /\ Active
          /\ lock' = c /\ To(c, "probe")
          /\ UNCHANGED <<descriptor, cache, revoked>>
       \/ /\ op = "lookup" /\ cache.status # "revoking"
          /\ lock' = c /\ To(c, "probe")
          /\ UNCHANGED <<descriptor, cache, revoked>>
       \/ /\ op = "revoke" /\ AlreadyRetired
          /\ revoked' = revoked \cup {grant.id}
          /\ Return(c)
          /\ UNCHANGED <<descriptor, cache, lock>>
       \/ /\ op = "revoke" /\ ~AlreadyRetired
          /\ cache.status = "none" \/ cache.grant = grant.id
          /\ cache' = IF cache.status = "none" THEN cache ELSE [cache EXCEPT !.status = "revoking"]
          /\ lock' = c /\ To(c, "send")
          /\ UNCHANGED <<descriptor, revoked>>
       \/ /\ \/ op = "install" /\ ~MayInstall
             \/ op \in Guarded \cup {"renew"} /\ ~Active
             \/ op = "lookup" /\ cache.status = "revoking"
             \/ op = "revoke" /\ cache.status # "none" /\ cache.grant # grant.id
          /\ Return(c)
          /\ UNCHANGED <<descriptor, cache, revoked, lock>>
    /\ UNCHANGED <<path, proc, launched, disk, registry, grant, orphans, faults>>

AdapterOnly == UNCHANGED <<disk, descriptor, registry, grant, orphans>>

AfterReady(c) ==
    CASE call[c].op \in Guarded \cup {"renew"} -> "sync"
      [] OTHER -> "send"

\* startOrAwaitCapsule: one launch per wait, when nobody listens at the path.
Probe(c) ==
    /\ call[c].at = "probe"
    /\ \/ /\ Reach = "ready"
          /\ call' = [call EXCEPT ![c].at = AfterReady(c), ![c].tried = FALSE]
          /\ UNCHANGED <<proc, launched>>
       \/ /\ path = 0 /\ ~call[c].tried /\ launched < MaxProcs
          /\ launched' = launched + 1
          /\ proc' = [proc EXCEPT ![launched + 1].at = "started"]
          /\ call' = [call EXCEPT ![c].tried = TRUE]
       \/ /\ path # 0 /\ Reach = "unavailable" /\ ~call[c].tried
          /\ call' = [call EXCEPT ![c].at = "remove", ![c].stale = path]
          /\ UNCHANGED <<proc, launched>>
    /\ UNCHANGED <<path, cache, revoked, lock, faults>> /\ AdapterOnly

\* removeUnchangedSocket, after the second refused probe saw the same inode.
RemoveStale(c) ==
    /\ call[c].at = "remove"
    /\ path' = IF path = call[c].stale THEN 0 ELSE path
    /\ call' = [call EXCEPT ![c].at = "probe", ![c].stale = 0]
    /\ UNCHANGED <<proc, launched, cache, revoked, lock, faults>> /\ AdapterOnly

\* startOrAwaitCapsule and waitForCapsuleRetirement give up at their
\* deadline, when their last probe has not settled it.
Timeout(c) ==
    /\ \/ call[c].at = "probe" /\ Reach # "ready"
       \/ call[c].at = "retire" /\ Reach # "unavailable"
    /\ Return(c) /\ Release(c)
    /\ UNCHANGED <<path, proc, launched, cache, revoked, faults>> /\ AdapterOnly

\* A guarded call leaves its transition before it sends; renew stays inside.
Synced(c) ==
    /\ To(c, "send")
    /\ lock' = IF call[c].op = "renew" THEN c ELSE "free"

\* syncAuthorityWithinTransition: a fresh process gets the cached grant again.
Sync(c) ==
    /\ call[c].at = "sync"
    /\ \E reply \in Replies :
          /\ Exchange(Request("assert", cache.grant, cache.key, 0), reply)
          /\ CASE reply = "ok" -> Synced(c)
               [] reply = "not_installed" -> To(c, "resync") /\ UNCHANGED lock
               [] OTHER -> Return(c) /\ Release(c)
    /\ UNCHANGED <<path, launched, disk, descriptor, registry, grant, cache, revoked>>

Resync(c) ==
    /\ call[c].at = "resync"
    /\ \E reply \in Replies :
          /\ Exchange(Request("install", cache.grant, cache.key, 0), reply)
          /\ IF reply = "ok" THEN Synced(c) ELSE Return(c) /\ Release(c)
    /\ UNCHANGED <<path, launched, disk, descriptor, registry, grant, cache, revoked>>

\* installAuthority: installing until the reply, then active.
SendInstall(c) ==
    /\ call[c].at = "send" /\ call[c].op = "install"
    /\ \E reply \in Replies :
          /\ Exchange(Mine(c, "install"), reply)
          /\ cache' = [grant |-> grant.id, key |-> grant.key,
                       status |-> IF reply = "ok" THEN "active" ELSE "installing"]
    /\ Return(c) /\ Release(c)
    /\ UNCHANGED <<path, launched, disk, descriptor, registry, grant, revoked>>

\* A call that ends with its request, whatever the reply.
Finish(c, r) ==
    /\ \E reply \in Replies : Exchange(r, reply)
    /\ Return(c) /\ Release(c)
    /\ UNCHANGED <<path, launched, disk, descriptor, registry, grant, cache, revoked>>

SendRenew(c) ==
    /\ call[c].at = "send" /\ call[c].op = "renew"
    /\ Finish(c, Mine(c, "renew"))

SendLookup(c) ==
    /\ call[c].at = "send" /\ call[c].op = "lookup"
    /\ Finish(c, Mine(c, "lookup"))

\* The guarded calls check the cached authority again before they send.
SendStart(c) ==
    /\ call[c].at = "send" /\ call[c].op = "start" /\ Active
    /\ Finish(c, Mine(c, "start"))

\* Recovery and cancellation need the recorded execution, recovery its input.
SendUse(c) ==
    /\ call[c].at = "send" /\ call[c].op = "use" /\ Active
    /\ \E kind \in Uses, i \in Inputs :
          /\ kind \in {"recover", "cancel"} => registry[grant.key] = i
          /\ Finish(c, Request(kind, grant.id, grant.key, i))

\* The authority was lost while the call waited for its process.
Withdraw(c) ==
    /\ call[c].at = "send" /\ call[c].op \in Guarded /\ ~Active
    /\ Return(c) /\ Release(c)
    /\ UNCHANGED <<path, proc, launched, cache, revoked, faults>> /\ AdapterOnly

\* revokeAuthority and revokeUncachedAuthority: without a monitor the process is
\* shut down; a lost answer is settled by the retirement.
SendRevoke(c) ==
    /\ call[c].at = "send" /\ call[c].op = "revoke"
    /\ \E reply \in Replies :
          /\ Exchange(Mine(c, "revoke"), reply)
          /\ CASE reply \in {"ok", "transport", "unavailable"} -> To(c, "retire") /\ UNCHANGED lock
               [] reply = "not_installed" -> To(c, "shutdown") /\ UNCHANGED lock
               [] OTHER -> Return(c) /\ Release(c)
    /\ UNCHANGED <<path, launched, disk, descriptor, registry, grant, cache, revoked>>

Shutdown(c) ==
    /\ call[c].at = "shutdown"
    /\ (\E reply \in Replies : Exchange(Mine(c, "shutdown"), reply)) /\ To(c, "retire")
    /\ UNCHANGED <<path, launched, disk, descriptor, registry, grant, cache, revoked, lock>>

\* Mutant: a successful revoke request is taken for the retirement.
RetireAtOnce(c) ==
    /\ call[c].at = "retire"
    /\ cache' = IF cache.status = "none" THEN cache ELSE [cache EXCEPT !.status = "revoked"]
    /\ revoked' = revoked \cup {grant.id}
    /\ Return(c) /\ Release(c)
    /\ UNCHANGED <<path, proc, launched, faults>> /\ AdapterOnly

\* waitForCapsuleRetirement: only an unreachable socket proves it.
Retire(c) ==
    /\ call[c].at = "retire" /\ Reach = "unavailable"
    /\ cache' = IF cache.status = "none" THEN cache ELSE [cache EXCEPT !.status = "revoked"]
    /\ revoked' = revoked \cup {grant.id}
    /\ Return(c) /\ Release(c)
    /\ UNCHANGED <<path, proc, launched, faults>> /\ AdapterOnly

\* The Node dies and opens its adapter again: the registry and the descriptor
\* are durable, the authority cache is not.
RestartNode ==
    /\ faults < MaxFaults
    /\ faults' = faults + 1
    /\ cache' = NoCache /\ revoked' = {} /\ lock' = "free"
    /\ call' = [c \in Callers |-> NoCall]
    /\ UNCHANGED <<path, proc, launched, disk, descriptor, registry, grant, orphans>>

-----------------------------------------------------------------------------
CallStep(c) ==
    \/ Enter(c) \/ Probe(c) \/ RemoveStale(c) \/ Sync(c) \/ Resync(c)
    \/ SendInstall(c) \/ SendRenew(c) \/ SendLookup(c) \/ SendStart(c)
    \/ SendUse(c) \/ Withdraw(c) \/ SendRevoke(c) \/ Shutdown(c) \/ Retire(c)

ProcessStep(p) ==
    \/ CheckPath(p) \/ LinkPath(p) \/ Open(p) \/ Commit(p)
    \/ BeginClose(p) \/ Unpublish(p) \/ Drained(p)

Next ==
    \/ Checkpoint \/ Discard
    \/ RestartNode
    \/ \E c \in Callers :
          \/ CallStep(c) \/ Timeout(c)
          \/ \E op \in OpsOf(c), i \in {0} \cup Inputs : Call(c, op, i)
    \/ \E p \in Procs :
          \/ ProcessStep(p) \/ Expire(p) \/ Die(p)
          \/ \E k \in Keys : Complete(p, k)
          \/ \E o \in orphans : ServeOrphan(p, o)

Spec == Init /\ [][Next]_vars

-----------------------------------------------------------------------------
\* The process that opens the runtime and serves is the one whose socket is at
\* the path: neither a concurrent launch, nor stale-socket recovery, nor a
\* closing predecessor leaves two serving processes or hides a serving one.
Ownership == \A p \in Procs : proc[p].at \in {"linked", "ready"} => path = p

\* The grants that must not act: those revokeAuthority has returned for in this
\* Node process, and those the journal has let go of or replaced since.
Retired == revoked \cup {g \in 1..grant.id : g = grant.id => ~grant.held}

\* No process that serves has a live monitor of a retired grant, whatever delayed
\* request, relaunch or restart comes in between.  A Node that dies with a revoked
\* grant still journaled is no exception to the code's promise but its limit: the
\* next Node forgets revokedGrantIds and may install that exact grant again, so
\* revokeAuthority binds the process it returned in; only the journal's step,
\* Discard or Checkpoint, makes it last.
ProvenSilent ==
    \A g \in Retired, p \in Procs :
        Serving(p) => ~(proc[p].grant = g /\ proc[p].live /\ ~proc[p].retire)
=============================================================================
