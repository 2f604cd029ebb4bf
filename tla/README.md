# AgentRelay: models and proofs

AgentRelay lets coding agents of different people work together. A Relay (HTTP
server over PostgreSQL) keeps threads, mailboxes and Missions. A Node runs beside
each agent's workspace, polls the Relay for deliveries, runs a model turn inside a
capsule and publishes the result. This directory models the parts of the system
whose correctness depends on the order of steps, model-checks them with TLC on small
instances and proves the most important facts for every instance with TLAPS.

## The system

| Part | State it keeps | Operations | What makes it correct |
|---|---|---|---|
| Delivery ledger (`relay/src/services/delivery-ledger.ts`, `delivery-revocation.ts`) | `node_deliveries`, `delivery_operation_receipts`, Node and workspace status, blocks | claim, start, renew, complete, release, expiry, dead-lettering, revocation | one holder at a time; only the last holder publishes; a repeated request is applied once; a revocation or a dead letter takes effect for the whole Mission at once |
| Mission ledger (`mission-ledger.ts`, `mission-reconciliation.ts`) | `missions`, `mission_participants`, `mission_events` | accept, append, settle, derive deliveries, reconcile | open deliveries are what the coordinator waits for; status, projection and log agree; every Mission ends |
| Mission coordinator (`protocol/src/mission-coordinator.ts`) | `MissionCoordinatorState` | the reducer over five kinds of events | one thing to wait for at a time; completion on unanimous evidence; no work on a contract only one side agreed to; bounded log |
| Threads and mailboxes (`handoff.ts`, `mailbox-events.ts`, `agent-block-lock.ts`) | `handoffs`, `messages`, `mailbox_events`, `agent_blocks` | create, append, accept, complete, cancel, block, list after a cursor | a cursor never skips an event; a block is a commit fence; a key is applied once |
| Mailbox signals (`mailbox-signal.ts`, `mailbox-events-stream.ts`) | subscribers, pending signals, stream slots | notify, resync, close, stream | a hint lost is made up by a resync; slots do not leak |
| Connector (`mcp-server/src/connector/`) | cursor, pickups | replay, enqueue, persist, reconnect | no event passed without attention, attention repeated only for a failure |
| Live session (`mcp-server/src/live/`) | journal file: pending turn, last sequence, turns, receipts | run a turn, reply, stop | at most one model turn per message and one reply per turn across crashes |
| Delivery processor and journal (`node/src/delivery-processor.ts`, `journal.ts`) | journal file | recover, ingest, claim, execute, publish, release | the same request after a crash; no attempt started twice; no result lost; every delivery comes to rest |
| Runtime authority (`runtime-authority*.ts`, `relay-runtime-authority-port.ts`) | journaled grant, Node session, Capsule deadline | compile, checkpoint, install, renew, use, retire | no effect after lease or hard deadline; no renewal lost |
| Capsule server and adapter (`capsule-server.ts`, `persistent-capsule-adapter.ts`) | sockets, admission, durable store | launch, connect, install, start, revoke, close | the serving process owns the socket; no live monitor of a retired grant |
| Host events (`protocol/src/adapter.ts`, capsule streams) | event log, policy counters | stream, reconnect, fold | the journal replays to the state it was written in and stays within the grant |
| Codex capsule runner (`codex-capsule-*.ts`) | turn store, provider generations | start, reconcile, interrupt, finish | a turn is sent once, its result is the provider's |
| Provider supervisor, guardian, reaper | generation state file, inherited lock | arm, begin, terminate, reap | never two providers; the lock is freed only over a dead group |
| Process locks (`process-lock*.ts`) | lock files | publish, clean, own, release | one owner, and some start succeeds |
| Enrolment, accounts, keys, invitations (`node-enrollment.ts`, `invite.ts`, `auth/`, `admin` routes) | credentials, Nodes, workspaces, invitations | enrol, rotate, revoke, redeem, disable | one credential per Node, no work on a revoked route, a lock order without cycles |
| Mission acceptance on the Node (`node/src/mission-acceptance.ts`), not modelled | acceptance intents, assignment cursor | replay, list, prepare, submit, quarantine | one receipt per Mission on both sides; every acceptable assignment is reached |
| Notifications (`notifications/dispatcher.ts`), not modelled | queue, metrics | enqueue, post, retry, stop | no lost wake-up, bounded retries |

The parts interact in four ways. Requests of a Node are HTTP calls, each one
transaction of the Relay, and may be lost, repeated or late. Inside a transaction the
delivery ledger calls the Mission ledger, which runs the reducer and writes new
deliveries. A mailbox is shared state that a connector reads after a content-free
hint. On the Node's machine the daemon, the Capsule and the provider's processes share
sockets, state files and locks that outlive each of them.

What is hard here: a lease that expires while its holder still works; a request
repeated after its answer was lost, or arriving after its repetition; two
participants' steps overtaking one another; a revocation that races with work being
created; a process that dies between two writes, or lives on after it was given up;
the last attempt, the last turn and the very tick of the deadline. `PROJECT.json`
lists these hazards at their lines.

## Modules

`DeliveryLedger` models one Mission's deliveries. Each handler runs in one
transaction under the Node and Mission advisory locks, so each is one action, with
the reconciliation its transaction begins or ends with. A row of `node_deliveries` is
a record; `lease` and `token` are the number of the claim that granted them, since
the code mints a fresh UUID in the same update that increments the token. A replay
(the key of a stored receipt) changes nothing in the code and so is the absence of a
step: `FreshKey` guards every mutation. What the coordinator answers to a completion
(rows settled, rows created, next status) is any value of `Outcome`, so what is
proved about this module does not depend on the coordinator. Lost replies, late and
repeated requests are covered because `NodeRequest` lets a Node send any request it
could ever have sent, in any order: the claim of any attempt so far or the next one,
and any operation of any lease ever granted.

`MissionCoordinator` models the reducer as an operator on a state record
(`Accepts`/`Reduce`), because the Relay applies several events in one transaction.
It has no steps of its own: `MissionLedger` feeds it the events of the ledger.

`MissionLedger` composes the two: it instantiates the delivery ledger and the
reducer, replaces `Outcome` by what the reducer derives (`SettledBy`,
`DeliveryTargets`), and adds acceptance and the terminal event.

`Mailbox` models the Relay's side of threads and mailboxes at the grain where it can
go wrong: a request is a transaction that takes its locks one by one. `Plan` is the
order in which the handlers take them (idempotency key, thread row, block pair,
sequence, mailbox), `Acquire` takes the next one and, at the mailbox lock, draws a
cursor from the global sequence, `Commit` makes the writes visible and frees the
locks, and `Rollback` is a refusal, an error or a lost connection at any point (a
drawn cursor stays drawn). What a request reads it reads under the lock that protects
it. `ListMailboxEvents` is a reader that moves its checkpoint over one page.

`LiveBridge` models a live session: the process of `runLiveBridge`, one action from
each await to the next, the journal file that survives it, the Relay's thread and the
reply requests between the two. `Stop` is a crash, an abort or an error that is not
retried, at any await; `Retry` is an error that `isRetryable` accepts. A sent reply
stays in `requests` after it has been delivered, so copies of it may arrive late and
twice, until `Lose` removes it. The store's kernel lock is why there is one process.
A model host is two steps, the start of a turn and its end.

`NodeProcessor` models the delivery processor for one delivery: what it reads of the
Relay, the intent it journals before each request, the requests, the lease keeper that
runs beside the turn, and completion, release and recovery. A step is the code between
two awaits. A fault is a crash, an answer lost after its commit or a Capsule that
cannot be reached. `Port` says whether a runtime authority port is configured. Left
out: the values of expiry times (a lease ends at any moment), deliveries that are not
turns (`AuthorizeDenied`) and the order of several deliveries; a revoked Node and a
block look like an ended Mission from here. Two behaviours the model makes visible:
with a port, a completion whose lease has expired or whose Mission has ended meanwhile
stays pending and is tried again in each cycle (`docs/research/008`); and a Node that
loses its local authority gives up the lease while the Relay still holds it, so that
the claim that follows is refused and the delivery ends as `authority_lost`.

`RuntimeMonitor` follows one delivery's grant through compilation, checkpoint in the
journal, installation in Node and Capsule, renewals, effects and retirement against a
clock. Saving and forwarding a renewal is one turn of the event loop and one step.
`publishRelease` retires the journaled grant before the Relay has answered the release,
so an attempt whose release is refused gets a new hard deadline: `HardKept` says "until
the grant is proven retired".

`Capsule` models the adapter's transitions, Capsule processes, their sockets,
admission and store. There is one adapter because the Node holds its process lock. The
`use` call stands for the calls that need only an installed grant (assertAuthority,
ensureSession, recoverTurn, cancelTurn). A process's number stands for the inode of
its socket. What the delivery processor does to the journaled grant is two actions, as
far as the adapter can tell: `Checkpoint` writes the next grant (`resolveGrant`) and
`Discard` lets go of a revoked one (`retireJournaled`), each after `revokeAuthority` has
returned in this Node process; a restart may come in between. The run has two grants,
so that installations, lookups and delayed requests follow the first revocation.
`HostEventStream` models the events of one turn through Capsule, socket
and Node into the journal, proper or not (a skipped number, an event after the result,
another turn's event), with the policy's counters; the Node's policy is the same after
a restart. `CodexCapsule` models the runner over provider generations; the provider is
external, and is assumed to keep the turns it has answered for: a bound turn it no
longer showed would be polled for ever. `ProviderTeardown` models owner, supervisor,
guardian and reaper of a generation with the state file two of them rewrite and the
lock they inherit. A killed process group takes no more steps, and a reboot ends
everything but the files. Two stops leave the system safe but closed: an owner that
dies, or stops, after the reaper is armed and before `begin` has written the barrier
leaves the reaper holding the lock until a reboot, and a terminate before initialise
leaves the owner closed.

`ProcessLock` models the lock file one file-system call at a time. Legacy files, modes
and symbolic links are left out. A start may be refused as `invalid_lock` when a
temporary link disappears between two calls (`process-lock-state.ts`), and temporary
files that were never linked stay; neither disturbs ownership or, in the end, the
next start (`LockAvailable`). `StateOwnership` is the abstract lock that it is shown to
implement, with `path`, `locked` and `meta` for the file, the holders and the diagnostics.

`MailboxWatch` composes the Relay's signal hub, the stream route and the connector.
Signals carry nothing; consent is fixed; a changed binding or a permanent 4xx answer
ends the connector like a crash. An event that is coalesced into an earlier queued
pickup of its thread counts as covered by it. `consumeSse` releases its reader without
cancelling the body, so the Relay learns only later that a stream is stale
(`StaleEnds`, an assumption about the HTTP client and the operating system).

`Authority` models transactions lock by lock: lifecycle, then Node enrolment and Nodes
in ascending order, workspace, Missions in ascending order, block pairs in ascending
order. Authentication is read before the transaction; what is checked under the locks
is one step after the last lock, and the writes happen at `Commit`; `Rollback` at any
step stands for early refusals as well. Every agent takes part in each Mission, a Node
has one alias, API keys are counted and Node credentials are identified. Handlers that
take a suffix of the same order (appending an event, reconciling) are left to
`MissionLedger`, whose actions are atomic because of these locks. A run starts in one of
several `Scenarios`, which name what exists at the start, the operations requested and
the number of transactions at a time (the connection pool).

The modules ending in `Proofs` hold the theorems. `MC*` modules give TLC its instances.

## Runs

| Run | Instance | Properties |
|---|---|---|
| `missions` | whole Missions: four turns with one attempt and a deadline at the first tick, or one turn with two attempts, a renewal and a clock to 3 | `FencedPublication`: only the last holder publishes, once. `NoGrantOverLiveLease`: a live lease is never granted over. `AttemptsAccounted`: the receipts account for every attempt. `RevocationFence`: a revocation takes effect for the whole Mission. `WorkMatches`: open deliveries are what the coordinator waits for, each once; held work can be published; a finished Mission leaves none; status, projection and log agree. `Agreement`: the coordinator waits for exactly one thing, nobody works on a contract only one side agreed to, completion needs unanimous evidence, the log is bounded. `MissionEnds`: every accepted Mission ends |
| `mailbox` | two sessions, two agents, two threads in opposite directions, one key, three cursors | `CommitOrder`, `NoEventSkipped`: cursors commit in order and a reader skips none. `BlockFence`: no message commits behind a block. `ThreadsSound`: lifecycle, keys and sequence numbers of a thread. `SomeoneProceeds`: no deadlock |
| `live_session` | two turns, three posted messages, two retryable errors | `TurnsOnce`: one model turn per message. `RepliesInOrder`: one reply per turn, in order. `SavesAccepted`: the journal's schema refuses no save. `Answering`: every message is received |
| `node_delivery` | two attempts, three renewals, two inputs, one fault, a runtime authority port | `TurnsExclusive`: no attempt is started twice or beside another. `JournalSound`: the journal's fence, status and grants are true and every save is accepted. `CompletionRemembered`: an accepted completion is not forgotten. `ComesToRest`: the delivery ends |
| `capsule` | turn driver and lease keeper, two grants of one turn, two Capsule processes, one fault | `Ownership`: the serving process owns the socket. `ProvenSilent`: no process serves a grant that is revoked in this Node process, or that the journal has let go of |
| `runtime_monitor` | two fences, clock to 6, one fault | `EffectsInTime`: no effect after lease or hard deadline. `CapsuleFenced`: the Capsule is never behind the checkpointed fence. `DeadlinesKept`: no renewal is lost, costs a healthy session or moves the hard deadline |
| `codex` | one turn, three provider generations | `AtMostOnce`: a turn is sent once. `ResultsSound`: one result, the provider's, in a store that opens again. `TurnEnds`: a prepared turn gets a result |
| `host_events` | four events, one on the wire, two cuts, a runtime that may lose its history | `JournalFaithful`: the journal is one well-formed history within the grant and replays to the Node's accounting. `Delivered`: a finished admissible turn arrives |
| `teardown` | two generations, two deaths, one reboot | `GroupsOnRecord`: never two providers, a live one is on record, and quiescence or a free lock mean that its group is gone. `QuiescentFinal`: no late write takes a quiescent record back. `Freed`: the lock is given back while the reaper survives |
| `watch` | two events, two threads, pages of one, one stream slot, two failures | `EventsAccounted`: no event is passed without attention, attention repeats only for a failure, slots do not leak. `Disposed`: every event reaches its disposition |
| `authority` | four scenarios of up to three sessions, two agents, three Nodes, two Missions, two invitations | `NoDeadlock`: the locks form no cycle. `RevokedNoWork`: no work stays live on a revoked route. `Holdings`: keys, credentials and Nodes are what the status allows |
| `process_lock` | three processes, two deaths | `OwnershipKept`: it implements `StateOwnership` (one permanent file, one holder at a time, diagnostics signed by the holder). `LockAvailable`: whatever the dead left behind, a live process becomes owner |

A property that joins several parts (`WorkMatches`, `Agreement`, `Holdings`, ...) names
each part as a definition of its own, with its comment.

Bounds. Two attempts give a stale holder and a current one; a third only repeats the
pair. The clock of the short Missions runs to the Mission's deadline, so that lease,
backoff and deadline fall on the same tick and on either side of each other; four turns
let both sides propose, one revise, and a verification round fail and be repeated. The
initial state chooses between the two, because their product is out of TLC's reach.
`MaxDeliveries` is never reached. Two sessions and two threads in opposite directions
are the smallest instance in which locks can be waited for in a cycle and cursors can
commit out of order; three cursors leave one rolled back between two that commit. Two
turns, with two errors and any number of restarts, let a late copy of the first reply
meet the second turn. `PageSize` 1 makes every listing partial.

On the Node's machine, two leases or fences give a stale and a current one, and a fault
can fall on every step of either. Two Capsule processes are an old one and its
replacement; three provider generations let a turn be prepared, lost and recovered with
one generation to spare. `MaxCrashes` of `ProcessLock` is below the number of processes,
so that one is left to find what the others left behind. In `authority`, blocks and
revocations meet the work of a Mission in three sessions; the other scenarios have two.
`MaxWire`, `MaxLog`, `MaxBreaks`, `MaxInstalls`, `MaxResolves`, `MaxRenewals`,
`MaxInputs` and `MaxTurns` are bounds of this kind and are named in the constants of their modules.

Symmetry is used for the sessions of `mailbox` and `authority`, which have no liveness
property. `CHECK_DEADLOCK FALSE` is set where the bounds or the end of a Mission,
delivery, session or stop really end the system; a deadlock of transactions is a property
of its own (`SomeoneProceeds`, `NoDeadlock`).

Fairness.

- `missions`: time passes and some Node polls: a poll (`listDeliveries`) runs
  `ReconcileMission` whatever its Node then does. Nothing is assumed of claims, turns
  or completions.
- `live_session`: the process goes on while it can, a reply that is not lost arrives,
  and a lost HTTP request throws; crashes are possible at any time and excuse the
  process.
- `node_delivery`: processor and lease keeper go on (a dead Node is started again, a
  request is answered or times out), a host finishes its turn and a backoff ends; faults
  are bounded.
- `codex`: the runner goes on, a retired runner is closed, the Node recovers a started
  turn, and the provider answers, finishes and settles its turns; the last generation
  meets no fault.
- `host_events`: the Node reconnects and reads, the Capsule streams.
- `teardown`: live processes go on, watchdogs fire, SIGKILL works, a supervisor's events
  reach its owner.
- `watch`: connector, stream and hub go on and reconnect; a stale stream ends.
- `process_lock`: a start is repeated and a holder ends.

Each property has a mutant in `PROJECT.json`: a plausible bug in a mapped definition
under which TLC finds the property violated.

## Proofs

All theorems hold for every value of the constants that the named assumptions allow.

`DeliveryLedgerProofs`. `RowInv` is the type invariant with `RowChecks` and
`LeaseWithinMission`; the three are proved together, since a CHECK on a row is
preserved by a renewal only because leases are typed and bounded. From it follow, as
action properties, `LeasesAreExclusive` and `ClosedRowsAreFinal`, and the invariant
`PublicationIsFenced`. `FenceInv` adds that a Mission awaiting acceptance has no
deliveries, `DeadLetterEndsMission` and `RevocationFence`. The first is needed because
a revocation before acceptance only fences work that does not exist yet.
`LeasesAreAccounted` rests on `Account`: every attempt of a row has one receipt that
granted it and, unless it is still held, one that closed it, and no receipt is about an
attempt that no row has had yet. `Booked` states once for all handlers what a step may
do to a row and its receipts; reconciliation is booked row by row. The outcome of the coordinator is arbitrary in these
proofs.

The same module proves the coordinator and the composition. `ReducerInv` is the inductive
invariant of the reducer, one part for each claim of `Agreement`, each of them relating
the event log to the state that goes on from it: `Scheduled` is the schedule;
`Evidence` finds every record of the round in the log, one for each command, and says
that a participant that is done has not failed; `Readied` finds the declaration of each
participant that is ready and says what has not followed it; `Agreed` finds both
acknowledgements of the contract in force; `Alternating` says who took the last turn;
and `Budgeted` counts, next to the events in the log, those that the turns already taken
still pay for (`Credit`). The last is what makes the bound inductive: a round of evidence
is paid for by the two declarations that started it. `ReduceKeeps` is the step for any
event the reducer accepts, from whatever source. What is assumed is `Configured`: two
participants, a finite, non-empty set of commands for each, positive budgets.

`MissionsImplementLedger` shows that the Mission ledger implements the delivery ledger
under `Composed`, which says that the two have the same Nodes and work and that a
transaction may create two rows. The step that needs an argument is a completion
(`CompletionOK`): the reducer keeps its invariant through all its events
(`PublishedInv`), every event but the last leaves the verification open and so calls for
no work (`NoTarget`), what the last one calls for is at most two rows (`TargetsOK`), and
what it settles is unsettled and contains the source. `CoordinatorAgrees` follows from the
same joint invariant, and the theorems about the delivery ledger hold of the Mission
ledger by the refinement.

`LedgerAndCoordinatorAgree` is `WorkMatches` of the Mission ledger. `WorkInv` joins
`MissionInv` and `FenceInv` with `WorkOf`: the status column is the coordinator's; while
every route is active the open rows ask for just the work it waits for, each row for
another part of it (`Asked`); a live row is unsettled; and three facts that keep
the open rows publishable and the projection intact. `TurnsIn` says that
every turn in the log came from a row that has been settled, so the reducer has not seen
the delivery of an open one before and does not refuse its result. `Whole` says that who
has recorded some evidence of a round has recorded all of it: the evidence of one
participant is published in one transaction, which is why the reducer takes each piece
and only the last one settles the row. `Derived` says that the log replays to the
projection. `TurnAnswered`, `AckAnswered` and `VerificationAnswered` show what a result
makes of the work: it closes every open row and lists the work awaited next (`AllClosed`),
or it closes its own and the others stay awaited (`OneClosed`). The theorem needs the
routes: a revocation cancels rows whose work the coordinator goes on waiting for, so it
is `RevocationFence` that leaves nothing live after it.

`MailboxProofs`. `MailInv` has four parts: the shape of each running transaction, the
exclusion of the locks it holds, that its cursor is above everything committed in the
mailbox it has locked, and that a transaction past the block check still finds its
pair unblocked. `CursorsCommitInOrder` and `BlocksAreFences` follow. Neither is
inductive by itself: commit order needs the cursor of a transaction that has not
committed, and the fence needs what a transaction has read. `LocksNeverDeadlock` gives
every lock a rank; a request's plan rises in it, so of the requests that wait the one
whose next lock is greatest waits for nobody. `NothingIsSkipped` adds `Reader`: a
checkpoint is the cursor of a committed event, so by `Cursors` whatever still commits
lies beyond it. `ThreadsAreSound` adds `History`,
which ties what a transaction read under its locks (status, next number, key) to the
committed thread it is about to extend.

`RecipientProofs` is about the two consumers of a mailbox. `LiveInv` (`LiveBridge`) says which journal a process can have at which step
(`Stage`), that turns and receipts add up and the pending turn is about the next peer
message (`Accounts`), that every message the model saw has a receipt or is the pending
one (`Given`), that a request the Relay has not seen is the pending turn's (`Outbox`),
and that a reply in the thread is to the pending message or to one before it
(`Replied`). `RepliesAreOrdered` needs `Outbox`: a late request is harmless because a
turn is only settled once the Relay holds its key. `TurnsRunOnce` counts the messages
given to the model by the receipts that name them. `SavesNeverRefused` follows from
`Stage` and `Accounts`.

`WatchInv` (`MailboxWatch`) says that the cursor in memory is the saved one and lies
before the page (`Positions`), that what is saved as a thread's last pickup is an event
of it that was queued (`Picked`, `QueuedFirst`), and that nothing is queued before its
turn (`NotYet`). `AttentionIsSound` is three claims. No event is passed without
attention: by `Picked`, an event whose interval still runs is covered by one that was
queued. Attention repeats only for a failure: the repetitions so far, summed over the
events, and the one still due for the event at the cursor when it has been queued but
not saved (`Owed`), are at most the failures (`Paid`); without `Owed` the bound would
not be inductive, since the failure comes before the repetition it causes. The sum is
taken over sets of events, and its laws (`ExtraSum`) are proved by taking the least event
at which they fail. Stream slots do not leak: a connector that is about to open a stream has none
(`Streamless`).

`NodeProofs` is about the Node process. `LockInv` (`ProcessLock`) joins the type invariant with: every open descriptor is the
inode at the path (`OneInode`), since the path is linked once and never replaced; a
process has the kernel lock exactly while it is past `tryLock` (`LockedPast`); at most
one has it (`Alone`); and past the write of the diagnostics they name it (`Named`). From it follow
`LockExcludes`, `LockNamesOwner` and the refinement `LockImplementsOwnership`: a step takes
the abstract lock only in `tryLock`, where `OneInode` and `LockedPast` show that nobody
holds it; a refusal or a death gives it up or is a stuttering step.

`NodeInv` (`NodeProcessor`) carries `TurnsAreExclusive`, `JournalIsSound` and
`CompletionsAreRemembered`. Each of the three speaks of journal, host, Capsule and Relay
after a crash between any two steps, and what it needs is an account of everything the
Node may find when it comes back:

- `RelaySound`: what each receipt the Relay has kept says of its row (a released fence is
  not held any more, a leased row was not started under its fence, only a completion
  acknowledges).
- `Pending`: which intent goes with which phase, key and fence, and what a receipt for
  that very intent can say. This is the part that makes a replayed answer safe: the
  receipt of a pending claim is about the fence the row has now.
- `Fenced`: the journaled lease was granted and is never ahead of the Relay's, an
  attempt is never older than its fence, keys are not used twice, and a lease the Relay
  has taken back by a release still has that release journaled (`GivenBack`).
- `TurnsOf`, `GrantsOf`, `CompletionOf`, `UnseenOf`: the three properties in the form
  that is inductive, and that nothing has happened to a delivery not seen yet.
- `SavesSound`: the schema accepts the entry, and none was refused.
- `ProcessFits`: what `process()` and the lease keeper rely on at each label, and that an
  answer in hand is a receipt of the journaled intent or a refusal that left none.

Most actions only save an entry, only send the journaled intent or only leave a pass, so
their shared part is proved once: `SaveStep`, `RequestStep` and `LeftStep` say what is left
to show of the entry saved, of the answer or of the label reached, and each action has a lemma
`...Step` that shows it. `ProcessorTypes` adds `RoundsEnd`: after the last round of
`prepareExecutableLease` a pass can still start or reclaim the row, but not confirm it.

`RuntimeMonitorProofs`. `EffectsInTime` needs that the journaled lease is the last one
granted for its fence (`Journaled`), that the grants in Node and Capsule are of that
attempt (`GrantsOwn`, `SessionOwn`), that queued renewals never reach past the journaled
lease (`RenewalsOwn`) and that an effect is of the current session (`EffectOwn`): an
effect is checked against a session that only these keep from outlasting its lease.
A second invariant, `Enforced`, carries `CapsulesAreFenced` and `DeadlinesAreKept`: a live
Capsule is of the active grant or its predecessor, and of none while the next one is
checkpointed (`OnRecord`, `CapsuleOwn`); the hard deadline is that of the attempt
(`Hard`); renewals are forwarded only by a bound synchronizer, in order, up to the
journaled lease (`Quiet`, `Sorted`); an accepted installation has left its own lease in
the Capsule (`Installing`), and without faults only time revokes it (`Healthy`).

`HostProofs`, the provider's processes. `IInv`: at most one generation holds the inherited lock
(`OneHolder`); its processes come and go in order (`Started`, `Ended`); and a generation
with a process that may still write the file is the one on record, and its record is
open (`Writers`). The last is what `QuiescenceIsFinal` needs: file
reads and writes of supervisor and reaper interleave, and a stale write would otherwise
bring back a record that was already quiescent.

`HostProofs`, the events of a turn. The model replays a journal with the folds of the
community modules, and a fold is a recursive function over the subsets of the positions:
the lemmas first show that this function exists (`FoldExists`, by induction over finite
subsets, the one set induction that needs no operator as parameter), which element it
takes next (`LastPosition`), and hence what one event more does to the reducer's state,
the text and the bytes (`ReplayAppend`, `TextAppend`, `BytesOf`). `StreamInv` then says
three things of a connection: what was read on it agrees with the journal, what is on the
wire is the history from there to what the Capsule has published, and each start of what
was published is within the grant (`Reading`), as the Capsule's own counters are
(`Shown`); and of the journal that each event was admissible where it stands (`Kept`).
A connection may be reading one history while the journal is the start of the other one,
until the first event that differs; therefore the histories are bound by an existential
and `OneHistory` is not inductive alone. The artifacts a turn can name are assumed to be
finitely many (references are of bounded length).

`CapsuleProofs`, the Codex runner. `IInv` relates the stored phase of each turn to what was sent
(`Sent`), to the provider (`Prov`) and to the steps of the driver and of a concurrent
interrupt (`Drive`, `Intr`). `SentAtMostOnce` holds because a start is claimed in the
store before it is sent, and from then on every process reconciles; `StoredResultsSound` because both
callers record a result only from what the provider answered, and whoever is second
finds the same one.

`CapsuleProofs`, the persistent Capsule. `CapsuleInv`: which processes can be at the path (`Owner`), what each
caller of the adapter may have in hand at each step (`Transitions`), what has not been
launched yet is empty (`Unlaunched`), and neither a process nor a delayed installation has a retired grant
(`Silent`). A grant is retired (`Retired`) when `revokeAuthority` has returned for it in
this Node process, or when the journal holds it no more. A revocation returns only when
nothing was ever launched or the socket cannot be reached; then `Ownership` shows that no
process serves, and one that stopped being ready never serves again. A call inside the
adapter's transition holds its lock, so that nobody installs the grant meanwhile, and
after it `revokedGrantIds` refuses the installation. A restart of the Node empties that
set: the grants it alone had retired are retired no more, which only weakens the
invariant, while `Discard` and `Checkpoint` need a revocation returned in this process and
so retire nothing new.

`AuthorityProofs`. The constants are any finite sets of agents, Nodes, Missions and
sessions, whose ids are numbers because the code sorts them; a scenario starts with at
most one Node of each name per owner, as the Relay's unique index has it. `AInv` says of
each transaction that its plan is the one its request has at this point (`Steps`), that
it has no lock in common with another (`Exclusive`), that a Node being enrolled is still
new (`Enrols`) and that what it has read under all of its locks still stands (`Ready`);
and of the committed tables what must always be true of them (`Tables`).

- `LocksNeverDeadlock`. `Below` orders all locks: invitation, handle, lifecycle, Node
  name, Node, workspace, Mission, pair, and within each kind by id. Every plan ascends
  in it. That includes the Nodes and Missions of a revocation, which are looked up only
  when earlier locks are held: what is found then sorts above what is held, and cannot
  change any more (`PlanStays`). So of any transactions the one whose next lock is
  highest waits for nobody.
- `RevocationEndsWork` and `HoldingsFitStatus`. A commit changes only rows that its locks
  cover (`AgentEffect`, `NodeEffect`, `MissionEffect`), and the facts another transaction
  has read are about rows it has locks for (`Protects`), so they stand (`StandsStay`): a
  revocation that has read the live Missions of its Nodes ends exactly those, and an
  acceptance or a Mission whose participants were checked finds them unchanged.

The sort itself is proved to exist: a finite set with a total order has an ascending
enumeration (`SortedExists`, by induction over its subsets).

Theorems about properties that no run lists (`RowChecks`, `LeaseWithinMission`,
`ClosedIsFinal`, `DeadLetterEndsMission`, `OwnerNamed` and the types) are the steps
towards the others or facts in their own right.

Only model-checked: all liveness properties, which are out of the installed provers'
reach. The run of the Mission ledger states `WorkMatches` and `Agreement` for two sets of
bounds at once; `LedgerAndCoordinatorAgree` and `CoordinatorAgrees` are the theorems
behind them, for any bounds.

## What the models leave out

- Reconciliation reads the clock again inside its transaction; a handler of the models
  uses one value.
- The handlers of `DeliveryLedger` and `MissionLedger` are atomic; `Authority` checks
  the order of the locks that make them so. Collisions of the 64-bit hashes that name
  advisory locks are left out: they only make more waiting.
- Rendering, digests, document schemas, audit rows and most metrics.
- The runs check the coordinator under the events of the ledger only (its proof holds for
  any stream of accepted events), and the delivery processor with a runtime authority port.
- Facts about the code that the models make visible: a Mission that awaits acceptance is
  never expired by reconciliation; a Mission whose Nodes are all revoked is not polled
  any more; and a closing Capsule gives up its socket before its store is closed
  (`Unpublish` before `Drained`), so that its replacement may open the state file while
  an admitted write is still under way. The adapter remembers revoked grants in memory
  only: when the Node dies after `revokeAuthority` has returned and before
  `retireJournaled` has saved, the next Node finds the exact grant in its journal and may
  install it again in a fresh Capsule, until its lease or its hard deadline ends or it is
  revoked anew. And `revokeAuthority` of a successor whose installation failed before
  `beginInstall` is refused while the revoked predecessor is still cached; it succeeds
  after a successful installation or a restart of the Node.

## Not modelled

- Codex app-server client: JSON-RPC over a child's pipes, mostly parsing and I/O.
- Sandbox containment: file-system layout, mounts and digests, with no protocol.
- Workspaces and local policy: a git preflight and lookups.
- Mission acceptance on the Node (`mission-acceptance.ts`): the Relay's side is in
  `MissionLedger` and `Authority`; the Node's intents, cursor and retries are planned.
- Notifications: a bounded queue beside the requests, whose jobs change nothing else.
- MCP tools, trust file, command line, `stdout-watch.ts`: formatting, file edits,
  terminal output.
- The Relay's process: wiring.
- The transition tables of `state-machines.ts` as an abstract machine of their own.

## Plan

1. `MissionAcceptance`: the Node's journaled intents and assignment cursor against the
   Relay's acceptance; `NotificationQueue`: the worker's sleep and its retries.
2. `DeliveryState`: the transition tables as an abstract specification that
   `DeliveryLedger` implements.
3. `NodeProcessor` composed with `DeliveryLedger` over several deliveries; liveness of
   `Capsule` (a revocation eventually returns).
