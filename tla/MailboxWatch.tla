---------------------------- MODULE MailboxWatch ----------------------------
(***************************************************************************)
(* How a committed mailbox event becomes attention in the recipient's local *)
(* runtime: pg_notify and the one LISTEN connection of a Relay process      *)
(* (events/mailbox-signal.ts), the wake-up stream of the recipient          *)
(* (routes/mailbox-events-stream.ts) and its connector, which replays the   *)
(* mailbox from a saved cursor (mcp-server/src/connector).                  *)
(*                                                                         *)
(* The mailbox itself (module Mailbox) is here a log whose position is the  *)
(* cursor.  An event is its thread if it is an activation from a sender    *)
(* with auto_pickup consent, and Quiet otherwise.  Signals carry nothing.   *)
(* One connector runs at a time (connector/lock.ts).                        *)
(***************************************************************************)
EXTENDS Integers, Sequences, FiniteSets, FiniteSetsExt

CONSTANTS Threads,
          MaxEvents,   \* events committed
          PageSize,    \* events of one replay page (100 in the code)
          MaxStreams,  \* streams of one credential
          MaxBreaks    \* lost connections, failed calls and deaths

ASSUME WatchAssumption == /\ IsFiniteSet(Threads) /\ MaxEvents \in Nat /\ MaxBreaks \in Nat
                          /\ PageSize \in Nat \ {0} /\ MaxStreams \in Nat \ {0}

Quiet == "quiet"

VARIABLES log,     \* the recipient's mailbox
          notice,  \* a NOTIFY is on its way to the Relay process
          listen,  \* the Relay process's LISTEN connection is up
          feed,    \* the Relay's side of the connector's current stream
          pending, \* signals the stream has not written yet
          active,  \* activeStreams of the credential
          stale,   \* streams whose client is gone, unnoticed by the Relay
          wire,    \* signals on the way to the connector
          task,    \* the connector
          back,    \* where the running drain returns to
          first,   \* the initial replay is still to be done
          cursor,  \* the connector's cursor in memory
          page,    \* the page being processed: its last event, whether it was full
          saved,   \* the connector's state file: cursor and last pickups
          fresh,   \* threads whose last pickup is younger than the interval
          queued,  \* how often each event was queued in the runtime
          covered, \* history: the queued event an event was coalesced into
          breaks

relaySide == <<log, notice, listen, feed, pending, active, stale>>
conn == <<task, back, first, cursor, page>>
disk == <<saved, fresh, queued, covered>>
watchVars == <<log, notice, listen, feed, pending, active, stale, wire,
               task, back, first, cursor, page, saved, fresh, queued, covered, breaks>>

Break == breaks < MaxBreaks /\ breaks' = breaks + 1

WatchInit ==
    /\ log = <<>> /\ notice = FALSE /\ listen = FALSE
    /\ feed = "none" /\ pending = {} /\ active = 0 /\ stale = 0 /\ wire = <<>>
    /\ task = "off" /\ back = "connect" /\ first = TRUE /\ cursor = 0
    /\ page = [hi |-> 0, full |-> FALSE]
    /\ saved = [cursor |-> 0, pickup |-> [t \in Threads |-> 0]]
    /\ fresh = {}
    /\ queued = [e \in 1 .. MaxEvents |-> 0]
    /\ covered = [e \in 1 .. MaxEvents |-> 0]
    /\ breaks = 0

-----------------------------------------------------------------------------
(* The Relay *)

\* appendMailboxEvent: NOTIFY reaches those who LISTEN when it commits.
Append_(t) ==
    /\ Len(log) < MaxEvents
    /\ log' = Append(log, t)
    /\ notice' = (notice \/ listen)
    /\ UNCHANGED <<listen, feed, pending, active, stale, wire, conn, disk, breaks>>

\* Mutant: a signal finds its stream only while that one waits.
Wake_Waiting(s) ==
    IF feed = "wait"
    THEN pending' = pending \cup {s} /\ feed' = "check"
    ELSE UNCHANGED <<pending, feed>>

\* The listener of a subscribed stream: the signal is kept, and a waiting
\* stream released.
Wake(s) ==
    IF feed = "none" THEN UNCHANGED <<pending, feed>>
    ELSE /\ pending' = pending \cup {s}
         /\ feed' = IF feed = "wait" THEN "check" ELSE feed

\* MailboxSignalHub.emit
Notify ==
    /\ notice /\ notice' = FALSE
    /\ Wake("changed")
    /\ UNCHANGED <<log, listen, active, stale, wire, conn, disk, breaks>>

\* start and every reconnection of LISTEN: what was missed is unknown, so
\* all streams are told to replay.
Listen ==
    /\ ~listen /\ listen' = TRUE
    /\ Wake("resync")
    /\ UNCHANGED <<log, notice, active, stale, wire, conn, disk, breaks>>

\* The LISTEN connection breaks, with what it had not delivered.
ListenLost ==
    /\ listen /\ Break
    /\ listen' = FALSE /\ notice' = FALSE
    /\ UNCHANGED <<log, feed, pending, active, stale, wire, conn, disk>>

\* The stream handler: subscribed before "ready" is written.
WriteReady ==
    /\ feed = "open"
    /\ wire' = Append(wire, "ready")
    /\ feed' = "loop"
    /\ UNCHANGED <<log, notice, listen, pending, active, stale, conn, disk, breaks>>

\* The pending signals are looked at and the wake callback installed
\* without an await in between.
StreamLoop ==
    /\ feed = "loop"
    /\ feed' = IF pending = {} THEN "wait" ELSE "check"
    /\ UNCHANGED <<log, notice, listen, pending, active, stale, wire, conn, disk, breaks>>

\* The credential is still active: one signal for all that are pending.  A
\* client that does not read holds the stream back.
WriteSignal ==
    /\ feed = "check" /\ pending # {} /\ Len(wire) < 2
    /\ wire' = Append(wire, IF "resync" \in pending THEN "resync" ELSE "changed")
    /\ pending' = {}
    /\ feed' = "loop"
    /\ UNCHANGED <<log, notice, listen, active, stale, conn, disk, breaks>>

\* The wait times out; a signal that comes during the lookup stays pending.
Heartbeat ==
    /\ feed = "wait" /\ feed' = "beat"
    /\ UNCHANGED <<log, notice, listen, pending, active, stale, wire, conn, disk, breaks>>
WriteHeartbeat ==
    /\ feed = "beat" /\ Len(wire) < 1
    /\ wire' = Append(wire, "heartbeat")
    /\ feed' = "loop"
    /\ UNCHANGED <<log, notice, listen, pending, active, stale, conn, disk, breaks>>

\* releaseStream, once per stream.
Released == active - 1

Unsubscribed == /\ feed' = "none" /\ pending' = {} /\ wire' = <<>>

\* The connection breaks, the hub stops or the Relay closes the stream:
\* the connector sees the end of it.
StreamEnds ==
    /\ feed # "none" /\ Break
    /\ Unsubscribed /\ active' = Released
    /\ UNCHANGED <<log, notice, listen, stale, conn, disk>>

\* The Relay notices that a client has gone.
StaleEnds ==
    /\ stale > 0
    /\ stale' = stale - 1 /\ active' = Released
    /\ UNCHANGED <<log, notice, listen, feed, pending, wire, conn, disk, breaks>>

\* The Relay process restarts with nothing but the database.
RelayRestarts ==
    /\ Break
    /\ Unsubscribed /\ active' = 0 /\ stale' = 0
    /\ listen' = FALSE /\ notice' = FALSE
    /\ UNCHANGED <<log, conn, disk>>

-----------------------------------------------------------------------------
(* The connector *)

\* watchConfiguredCodex: lock, state file, then a replay before any stream.
StartWatch ==
    /\ task = "off"
    /\ cursor' = saved.cursor
    /\ task' = "list" /\ back' = "connect" /\ first' = TRUE
    /\ UNCHANGED <<relaySide, wire, page, disk, breaks>>

\* The drain is over; if it was the initial replay, that is done.
Drained == task' = back /\ first' = FALSE

\* drain: one page after the cursor; an empty one ends it.
List ==
    /\ task = "list"
    /\ page' = IF cursor + PageSize <= Len(log) THEN [hi |-> cursor + PageSize, full |-> TRUE]
               ELSE [hi |-> Len(log), full |-> FALSE]
    /\ IF page'.hi = cursor THEN Drained ELSE task' = "event" /\ UNCHANGED first
    /\ UNCHANGED <<relaySide, wire, back, cursor, disk, breaks>>

Event == cursor + 1
Thread == log[Event]

\* connectorPickupDecision, on the state file as it is now.
Duplicate == saved.pickup[Thread] = Event
Coalesced == saved.pickup[Thread] # 0 /\ Thread \in fresh

\* After an event: the rest of its page, and another page if that was full.
NextEvent == IF Event < page.hi THEN task' = "event" /\ UNCHANGED first
             ELSE IF page.full THEN task' = "list" /\ UNCHANGED first
             ELSE Drained

\* persistConnectorProgress: cursor and pickup in one write.
Persist(p) ==
    /\ saved' = [cursor |-> Event, pickup |-> p]
    /\ cursor' = Event
    /\ NextEvent

\* An event that needs no attention, or has it already.
Skip ==
    /\ task = "event"
    /\ IF Thread = Quiet THEN UNCHANGED covered
       ELSE /\ Duplicate \/ Coalesced
            /\ covered' = [covered EXCEPT ![Event] = saved.pickup[Thread]]
    /\ Persist(saved.pickup)
    /\ UNCHANGED <<relaySide, wire, back, page, fresh, queued, breaks>>

Wanted == Thread # Quiet /\ ~Duplicate /\ ~Coalesced

\* Mutant: the cursor is saved before the attention is queued.
Enqueue_SavedFirst ==
    /\ task = "event" /\ Wanted
    /\ saved' = [cursor |-> Event, pickup |-> [saved.pickup EXCEPT ![Thread] = Event]]
    /\ task' = "persist"
    /\ UNCHANGED <<relaySide, wire, back, first, cursor, page, fresh, queued, covered, breaks>>

\* enqueueAttention
Enqueue ==
    /\ task = "event" /\ Wanted
    /\ queued' = [queued EXCEPT ![Event] = @ + 1]
    /\ task' = "persist"
    /\ UNCHANGED <<relaySide, wire, back, first, cursor, page, saved, fresh, covered, breaks>>

PersistPickup ==
    /\ task = "persist"
    /\ Persist([saved.pickup EXCEPT ![Thread] = Event])
    /\ fresh' = fresh \cup {Thread}
    /\ UNCHANGED <<relaySide, wire, back, page, queued, covered, breaks>>

\* The coalescing interval of a thread's last pickup is over.
IntervalEnds(t) ==
    /\ t \in fresh
    /\ fresh' = fresh \ {t}
    /\ UNCHANGED <<relaySide, wire, conn, saved, queued, covered, breaks>>

\* client.stream: refused while too many streams are counted.
ConnectStream ==
    /\ task = "connect"
    /\ IF active < MaxStreams
       THEN /\ active' = active + 1 /\ feed' = "open" /\ pending' = {} /\ wire' = <<>>
            /\ task' = "stream"
       ELSE task' = "sleep" /\ UNCHANGED <<active, feed, pending, wire>>
    /\ UNCHANGED <<log, notice, listen, stale, back, first, cursor, page, disk, breaks>>

\* A signal: heartbeats are ignored, every other one replays.
Receive ==
    /\ task = "stream" /\ wire # <<>>
    /\ wire' = Tail(wire)
    /\ IF Head(wire) = "heartbeat" THEN UNCHANGED <<task, back>>
       ELSE task' = "list" /\ back' = "stream"
    /\ UNCHANGED <<relaySide, first, cursor, page, disk, breaks>>

\* The stream has ended under the connector.
SeesEnd ==
    /\ task = "stream" /\ feed = "none"
    /\ task' = "sleep"
    /\ UNCHANGED <<relaySide, wire, back, first, cursor, page, disk, breaks>>

\* The connector's own stream, if it has one, is left to the Relay.
Abandon == IF feed # "none"
           THEN Unsubscribed /\ stale' = stale + 1
           ELSE UNCHANGED <<feed, pending, wire, stale>>

\* A replay, a trust file, the runtime or the state file fails; the runtime
\* may have queued what it reports as failed.
DrainFails ==
    /\ task \in {"list", "event", "persist"} /\ Break
    /\ Abandon
    /\ task' = "sleep"
    /\ \/ UNCHANGED queued
       \/ /\ task = "event" /\ Wanted
          /\ queued' = [queued EXCEPT ![Event] = @ + 1]
    /\ UNCHANGED <<log, notice, listen, active, back, first, cursor, page, saved, fresh, covered>>

\* After the delay: the initial replay again if it was not completed.
RetryDrain ==
    /\ task = "sleep"
    /\ back' = "connect"
    /\ task' = IF first THEN "list" ELSE "connect"
    /\ UNCHANGED <<relaySide, wire, first, cursor, page, disk, breaks>>

ConnectorDies ==
    /\ task # "off" /\ Break
    /\ Abandon
    /\ task' = "off"
    /\ UNCHANGED <<log, notice, listen, active, back, first, cursor, page, disk>>

-----------------------------------------------------------------------------
RelayNext == \/ \E t \in Threads \cup {Quiet} : Append_(t)
             \/ Notify \/ Listen \/ ListenLost \/ WriteReady \/ StreamLoop
             \/ WriteSignal \/ Heartbeat \/ WriteHeartbeat
             \/ StreamEnds \/ StaleEnds \/ RelayRestarts
ConnectorNext == \/ StartWatch \/ List \/ Skip \/ Enqueue \/ PersistPickup
                 \/ \E t \in Threads : IntervalEnds(t)
                 \/ ConnectStream \/ Receive \/ SeesEnd \/ DrainFails \/ RetryDrain \/ ConnectorDies

WatchNext == RelayNext \/ ConnectorNext

WatchSpec == WatchInit /\ [][WatchNext]_watchVars

\* LISTEN is re-established, a Relay stream goes on, a departed client is
\* noticed, and the connector is running or started again.  Heartbeats may
\* come as they like.
WatchFairness ==
    /\ WF_watchVars(Notify) /\ WF_watchVars(Listen)
    /\ WF_watchVars(WriteReady) /\ WF_watchVars(StreamLoop) /\ WF_watchVars(WriteSignal)
    /\ WF_watchVars(WriteHeartbeat) /\ WF_watchVars(StaleEnds)
    /\ WF_watchVars(StartWatch) /\ WF_watchVars(List) /\ WF_watchVars(Skip)
    /\ WF_watchVars(Enqueue) /\ WF_watchVars(PersistPickup) /\ WF_watchVars(ConnectStream)
    /\ WF_watchVars(Receive) /\ WF_watchVars(SeesEnd) /\ WF_watchVars(RetryDrain)

FairWatch == WatchSpec /\ WatchFairness

-----------------------------------------------------------------------------
(* Properties *)

\* Types of streams, signals and the connector's state.
WatchTypeOK ==
    /\ log \in Seq(Threads \cup {Quiet}) /\ Len(log) <= MaxEvents
    /\ notice \in BOOLEAN /\ listen \in BOOLEAN
    /\ feed \in {"none", "open", "loop", "wait", "check", "beat"}
    /\ pending \subseteq {"changed", "resync"}
    /\ active \in Nat /\ stale \in Nat
    /\ wire \in Seq({"ready", "changed", "resync", "heartbeat"})
    /\ task \in {"off", "list", "event", "persist", "connect", "stream", "sleep"}
    /\ back \in {"connect", "stream"} /\ first \in BOOLEAN
    /\ cursor \in 0 .. MaxEvents /\ page \in [hi : 0 .. MaxEvents, full : BOOLEAN]
    /\ saved \in [cursor : 0 .. MaxEvents, pickup : [Threads -> 0 .. MaxEvents]]
    /\ queued \in [1 .. MaxEvents -> Nat] /\ covered \in [1 .. MaxEvents -> 0 .. MaxEvents]
    /\ fresh \subseteq Threads /\ breaks \in 0 .. MaxBreaks

\* No event that asks for attention is passed by the saved cursor unless it
\* was queued in the runtime, or coalesced into an earlier queued event of
\* the same thread, whatever died or failed in between.
NoEventLost ==
    \A e \in 1 .. saved.cursor : log[e] # Quiet =>
       \/ queued[e] > 0
       \/ /\ covered[e] \in 1 .. (e - 1)
          /\ log[covered[e]] = log[e] /\ queued[covered[e]] > 0

\* Attention is repeated only for a death or a failure: the surplus over one
\* per event never exceeds what has gone wrong.
AttentionRepeats ==
    MapThenSumSet(LAMBDA e : IF queued[e] > 1 THEN queued[e] - 1 ELSE 0,
                                1 .. MaxEvents) <= breaks

\* The count that limits a credential's streams is the number it has, so a
\* lost stream never uses up a slot for good.
SlotsAccounted == active = stale + (IF feed = "none" THEN 0 ELSE 1)

\* No event is passed without attention, attention is repeated only for a
\* failure and stream slots do not leak (watch.ts:128, event-client.ts:140).
EventsAccounted == NoEventLost /\ AttentionRepeats /\ SlotsAccounted

\* Every committed event gets its disposition in the end, although signals
\* are lost with the LISTEN connection, with a stream and with a process.
Disposed == \A n \in 1 .. MaxEvents : (Len(log) >= n) ~> (saved.cursor >= n)
=============================================================================
