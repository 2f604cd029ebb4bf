------------------------------ MODULE LiveBridge ------------------------------
(***************************************************************************)
(* A live session: one process that answers a peer's messages in one       *)
(* thread with model turns, and the journal file that lets a later process *)
(* go on where it was.                                                     *)
(*                                                                         *)
(* Every await of the process ends an action, so it may crash, see an      *)
(* error or meet new messages between any two.  authorize ends without an  *)
(* await, so its check is part of the step after it.  A save replaces the  *)
(* journal atomically (temporary file, fsync, rename) and the store's copy *)
(* in memory follows it, so a process reads what is on disk; the store's   *)
(* kernel lock admits one process at a time.  A reply is an HTTP request:  *)
(* it can reach the Relay twice, after its sender has died, or never.      *)
(***************************************************************************)
EXTENDS Integers, Sequences, FiniteSets

CONSTANTS
    MaxTurns,      \* journal.maxTurns
    MaxPosts,      \* bound: messages of the thread that are no live replies
    MaxRetries     \* bound: errors isRetryable accepts, and streams that end

ASSUME LiveAssumption ==
    /\ MaxTurns \in Nat \ {0}
    /\ MaxPosts \in Nat \ {0}
    /\ MaxRetries \in Nat

\* A turn makes at most one message.
MaxMessages == MaxPosts + MaxTurns

VARIABLES
    thread,      \* the Relay's messages; a message's sequence_no is its place
    open,        \* the thread is neither completed nor cancelled
    requests,    \* replies sent to the Relay that may still arrive
    journal,     \* the journal on disk
    expired,     \* expiresAt has passed, or the owner withdrew consent
    pc,          \* what the process does next; "down" when there is none
    snapshot,    \* how many messages the current drain has read
    streaming,   \* the process has a live event stream
    hint,        \* the stream holds a hint that was not handled yet
    started,     \* how often each message was given to the model
    retries      \* retryable errors so far

relay == <<thread, open, requests>>
stream == <<streaming, hint>>
vars == <<thread, open, requests, journal, expired, pc, snapshot, streaming,
          hint, started, retries>>

\* A message: source is the message it replies to and key its idempotency
\* key, the number of the turn that minted it; both are 0 for other messages.
Message == [from : {"peer", "local"}, source : 0..MaxMessages, key : 0..MaxTurns]
Request == [source : 1..MaxMessages, key : 1..MaxTurns]
Receipt == [sequence : 1..MaxMessages, disposition : {"replied", "no_reply"}]

\* pending.phase ("none" when pending is null); a reply_ready turn whose reply
\* is null is no_reply_ready.
Phase == {"none", "running", "reply_ready", "no_reply_ready"}
Journal == [lastSequence : 0..MaxMessages, turnsStarted : 0..MaxTurns,
            phase : Phase, sequence : 0..MaxMessages, receipts : Seq(Receipt)]
Step == {"down", "connect", "idle", "drain", "publish", "send", "answer",
         "read", "scan", "prepared", "start", "turn"}

TypeOK ==
    /\ thread \in Seq(Message)
    /\ open \in BOOLEAN
    /\ requests \subseteq Request
    /\ journal \in Journal
    /\ expired \in BOOLEAN
    /\ pc \in Step
    /\ snapshot \in 0..MaxMessages
    /\ streaming \in BOOLEAN
    /\ hint \in BOOLEAN
    /\ started \in [1..MaxMessages -> Nat]
    /\ retries \in 0..MaxRetries

\* A thread begins with its sender's first message, on either side.
Init ==
    /\ \E side \in {"peer", "local"} :
           thread = <<[from |-> side, source |-> 0, key |-> 0]>>
    /\ open = TRUE
    /\ requests = {}
    /\ journal = [lastSequence |-> 0, turnsStarted |-> 0, phase |-> "none",
                  sequence |-> 0, receipts |-> <<>>]
    /\ expired = FALSE
    /\ pc = "down"
    /\ snapshot = 0
    /\ streaming = FALSE
    /\ hint = FALSE
    /\ started = [s \in 1..MaxMessages |-> 0]
    /\ retries = 0

-----------------------------------------------------------------------------
(* The journal *)

\* liveJournalSchema and ownedStore: what a save must satisfy.  The schema
\* holds of every journal a process opens, because a save demanded it.
Acceptable(j) ==
    /\ j.turnsStarted <= MaxTurns
    /\ j.turnsStarted = Len(j.receipts) + (IF j.phase = "none" THEN 0 ELSE 1)
    /\ j.phase # "none" => j.sequence > j.lastSequence
    /\ j.lastSequence >= journal.lastSequence
    /\ j.turnsStarted >= journal.turnsStarted

\* A refused save throws, which ends the process.
Save(j, label) ==
    IF Acceptable(j) THEN journal' = j /\ pc' = label
                     ELSE UNCHANGED journal /\ pc' = "down"

Exhausted == journal.turnsStarted >= MaxTurns /\ journal.phase = "none"

\* The pending turn's idempotency key: one is minted with every intent.
PendingKey == journal.turnsStarted

\* The message the scan has come to.
Current == journal.lastSequence + 1

\* A message of the local agent is passed over.
Passed == [journal EXCEPT !.lastSequence = Current]

\* The intent: the message is about to be given to the model.
Intended ==
    [journal EXCEPT !.phase = "running", !.sequence = Current,
                    !.turnsStarted = @ + 1]

\* The receipt of a published turn.
Settled ==
    [journal EXCEPT
        !.lastSequence = journal.sequence, !.phase = "none", !.sequence = 0,
        !.receipts = Append(@,
            [sequence |-> journal.sequence,
             disposition |-> IF journal.phase = "reply_ready" THEN "replied"
                             ELSE "no_reply"])]

-----------------------------------------------------------------------------
(* The process *)

\* openLiveStore, then the loop of runLiveBridge, which ends at once when no
\* turn is left.
Open ==
    /\ pc = "down"
    /\ ~Exhausted
    /\ pc' = "drain"
    /\ UNCHANGED <<relay, journal, expired, snapshot, stream, started, retries>>

\* drain: authorize.
Drain ==
    /\ pc = "drain"
    /\ ~expired
    /\ snapshot' = 0
    /\ pc' = "publish"
    /\ UNCHANGED <<relay, journal, expired, stream, started, retries>>

\* The thread still holds the pending turn's peer message.
SourceHolds ==
    /\ journal.sequence \in DOMAIN thread
    /\ thread[journal.sequence].from = "peer"

\* Mutant: a running turn found in the journal is simply run again.
PublishReruns ==
    /\ pc = "publish"
    /\ IF journal.phase \in {"none", "running"} THEN pc' = "read"
       ELSE ~expired /\ open /\ SourceHolds /\ pc' = "send"
    /\ journal' = IF journal.phase = "running"
                  THEN [journal EXCEPT !.phase = "none", !.sequence = 0,
                                       !.turnsStarted = @ - 1]
                  ELSE journal
    /\ UNCHANGED <<relay, expired, snapshot, stream, started, retries>>

\* publishPending up to its last authorize: nothing to publish, or a finished
\* turn whose thread is open and unchanged.  Otherwise it throws: see Uncertain
\* and Stop.
Publish ==
    /\ pc = "publish"
    /\ \/ journal.phase = "none" /\ pc' = "read"
       \/ /\ journal.phase \in {"reply_ready", "no_reply_ready"}
          /\ ~expired
          /\ open
          /\ SourceHolds
          /\ pc' = "send"
    /\ UNCHANGED <<relay, journal, expired, snapshot, stream, started, retries>>

\* publishPending finds a turn whose outcome is unknown: it is not run again.
Uncertain ==
    /\ pc = "publish"
    /\ journal.phase = "running"
    /\ pc' = "down"
    /\ streaming' = FALSE
    /\ hint' = FALSE
    /\ UNCHANGED <<relay, journal, expired, snapshot, started, retries>>

\* mailbox.reply under the pending turn's key; without a reply there is nothing
\* to wait for.
SendReply ==
    /\ pc = "send"
    /\ ~expired
    /\ requests' = IF journal.phase = "reply_ready"
                   THEN requests \cup {[source |-> journal.sequence, key |-> PendingKey]}
                   ELSE requests
    /\ pc' = "answer"
    /\ UNCHANGED <<thread, open, journal, expired, snapshot, stream, started, retries>>

\* The Relay has answered: it holds a message under the pending key.
Answered ==
    journal.phase = "reply_ready" => \E i \in DOMAIN thread : thread[i].key = PendingKey

\* publishPending: the receipt is saved, even if consent ended meanwhile.
Settle ==
    /\ pc = "answer"
    /\ Answered
    /\ Save(Settled, IF snapshot = 0 THEN "read" ELSE "scan")
    /\ UNCHANGED <<relay, expired, snapshot, stream, started, retries>>

\* drain: mailbox.read, which refuses a closed thread.
Read ==
    /\ pc = "read"
    /\ open
    /\ snapshot' = Len(thread)
    /\ pc' = "scan"
    /\ UNCHANGED <<relay, journal, expired, stream, started, retries>>

\* The loop is at a message of the local agent.
PassLocal ==
    /\ pc = "scan"
    /\ Current <= snapshot
    /\ ~expired
    /\ thread[Current].from = "local"
    /\ Save(Passed, "scan")
    /\ UNCHANGED <<relay, expired, snapshot, stream, started, retries>>

\* Mutant: one turn too many.
PrepareAtLimit ==
    /\ pc = "scan"
    /\ Current <= snapshot
    /\ ~expired
    /\ thread[Current].from = "peer"
    /\ journal.turnsStarted <= MaxTurns
    /\ pc' = "prepared"
    /\ UNCHANGED <<relay, journal, expired, snapshot, stream, started, retries>>

\* The loop is at a message of the peer: runtime.prepare.
Prepare ==
    /\ pc = "scan"
    /\ Current <= snapshot
    /\ ~expired
    /\ thread[Current].from = "peer"
    /\ journal.turnsStarted < MaxTurns
    /\ pc' = "prepared"
    /\ UNCHANGED <<relay, journal, expired, snapshot, stream, started, retries>>

\* The intent is saved before the turn starts.
Intend ==
    /\ pc = "prepared"
    /\ ~expired
    /\ Save(Intended, "start")
    /\ UNCHANGED <<relay, expired, snapshot, stream, started, retries>>

\* runtime.runTurn.
StartTurn ==
    /\ pc = "start"
    /\ ~expired
    /\ started' = [started EXCEPT ![journal.sequence] = @ + 1]
    /\ pc' = "turn"
    /\ UNCHANGED <<relay, journal, expired, snapshot, stream, retries>>

\* The model's answer, a reply or none, is saved and published.
TurnEnds ==
    /\ pc = "turn"
    /\ \E phase \in {"reply_ready", "no_reply_ready"} :
           Save([journal EXCEPT !.phase = phase], "publish")
    /\ UNCHANGED <<relay, expired, snapshot, stream, started, retries>>

\* The end of drain, after the last message read or at the turn limit.
DrainEnds ==
    /\ pc = "scan"
    /\ \/ Current > snapshot
       \/ /\ Current <= snapshot
          /\ thread[Current].from = "peer"
          /\ journal.turnsStarted >= MaxTurns
          /\ ~expired
    /\ pc' = IF Exhausted THEN "down" ELSE IF streaming THEN "idle" ELSE "connect"
    /\ streaming' = (streaming /\ ~Exhausted)
    /\ hint' = (hint /\ ~Exhausted)
    /\ UNCHANGED <<relay, journal, expired, snapshot, started, retries>>

\* Mutant: ready does not drain, as if nothing happened between two streams.
ConnectSilent ==
    /\ pc = "connect"
    /\ pc' = "idle"
    /\ streaming' = TRUE
    /\ hint' = FALSE
    /\ UNCHANGED <<relay, journal, expired, snapshot, started, retries>>

\* events.stream: the Relay's first hint on a stream is ready.
Connect ==
    /\ pc = "connect"
    /\ pc' = "idle"
    /\ streaming' = TRUE
    /\ hint' = TRUE
    /\ UNCHANGED <<relay, journal, expired, snapshot, started, retries>>

\* The stream's callback: a hint other than a heartbeat drains.  The next one
\* waits until the callback has returned.
TakeHint ==
    /\ pc = "idle"
    /\ hint
    /\ ~expired
    /\ hint' = FALSE
    /\ pc' = "drain"
    /\ UNCHANGED <<relay, journal, expired, snapshot, streaming, started, retries>>

\* isRetryable: the step that was under way failed, and after a delay the
\* process connects again.  Before the first stream it drains again instead.
Retry ==
    /\ pc # "down"
    /\ ~expired
    /\ ~Exhausted
    /\ retries < MaxRetries
    /\ retries' = retries + 1
    /\ pc' = IF streaming \/ pc = "connect" THEN "connect" ELSE "drain"
    /\ streaming' = FALSE
    /\ hint' = FALSE
    /\ UNCHANGED <<relay, journal, expired, snapshot, started>>

\* The process ends: a crash, an abort, an error that is not retried (a closed
\* thread, changed input, consent that ended), or once.
Stop ==
    /\ pc # "down"
    /\ pc' = "down"
    /\ streaming' = FALSE
    /\ hint' = FALSE
    /\ UNCHANGED <<relay, journal, expired, snapshot, started, retries>>

-----------------------------------------------------------------------------
(* The Relay and the people at both ends *)

\* Mutant: the Relay does not know the keys of its messages.
KeyForgotten(key) == TRUE

\* messages.idempotency_key is unique: a known key gets the old answer.
KeyUnused(key) == \A i \in DOMAIN thread : thread[i].key # key

Appended(m) ==
    /\ open
    /\ thread' = Append(thread, m)
    /\ hint' = (hint \/ streaming)

\* A reply reaches the Relay, maybe not for the last time.
Deliver(r) ==
    /\ r \in requests
    /\ KeyUnused(r.key)
    /\ Appended([from |-> "local", source |-> r.source, key |-> r.key])
    /\ UNCHANGED <<open, requests, journal, expired, pc, snapshot, streaming,
                   started, retries>>

\* A message of the peer, or one the local agent sends by other means.
Post(side) ==
    /\ Cardinality({i \in DOMAIN thread : thread[i].key = 0}) < MaxPosts
    /\ Appended([from |-> side, source |-> 0, key |-> 0])
    /\ UNCHANGED <<open, requests, journal, expired, pc, snapshot, streaming,
                   started, retries>>

\* No copy of a request is on its way any more.
Lose(r) ==
    /\ r \in requests
    /\ requests' = requests \ {r}
    /\ UNCHANGED <<thread, open, journal, expired, pc, snapshot, stream, started, retries>>

\* Either side completes or cancels the thread.
Close ==
    /\ open
    /\ open' = FALSE
    /\ UNCHANGED <<thread, requests, journal, expired, pc, snapshot, stream, started, retries>>

\* The grant reaches expiresAt, or the owner changes configuration or trust.
Expire ==
    /\ ~expired
    /\ expired' = TRUE
    /\ UNCHANGED <<relay, journal, pc, snapshot, stream, started, retries>>

Progress ==
    \/ Drain \/ Publish \/ Uncertain \/ SendReply \/ Settle \/ Read \/ PassLocal
    \/ Prepare \/ Intend \/ StartTurn \/ TurnEnds \/ DrainEnds \/ Connect \/ TakeHint

Next ==
    \/ Open \/ Progress \/ Retry \/ Stop
    \/ \E r \in Request : Deliver(r) \/ Lose(r)
    \/ \E side \in {"peer", "local"} : Post(side)
    \/ Close \/ Expire

\* The request of the pending reply is gone and its answer never came.
AnswerLost ==
    /\ pc = "answer"
    /\ ~Answered
    /\ [source |-> journal.sequence, key |-> PendingKey] \notin requests

\* The process goes on while it can, a reply that stays on its way arrives, and
\* an HTTP request that failed throws.
Fairness ==
    /\ WF_vars(Progress)
    /\ \A r \in Request : WF_vars(Deliver(r))
    /\ WF_vars(AnswerLost /\ (Retry \/ Stop))

Spec == Init /\ [][Next]_vars /\ Fairness

-----------------------------------------------------------------------------
(* Properties *)

Replies == {i \in DOMAIN thread : thread[i].source # 0}

\* publishPending refuses to go past a running turn: through any number of
\* crashes, retries and restarts, no message is given to the model twice, and
\* no more than MaxTurns messages are given to it at all.
TurnsOnce ==
    /\ \A s \in 1..MaxMessages : started[s] <= 1
    /\ Cardinality({s \in 1..MaxMessages : started[s] > 0}) <= MaxTurns

\* publishPending sends a saved reply again under the same key, and drain
\* publishes before it reads on: the thread holds at most one reply to each
\* peer message, in the order of the messages, also when copies of a dead
\* process's request arrive late.
RepliesInOrder ==
    /\ \A i, j \in Replies : i < j => thread[i].source < thread[j].source
    /\ \A i \in Replies : thread[thread[i].source].from = "peer"

\* The bridge never offers the store a journal that liveJournalSchema or
\* ownedStore.save refuses, which would strand a finished turn.
SavesAccepted ==
    /\ pc = "answer" => Acceptable(Settled)
    /\ pc = "prepared" => Acceptable(Intended)
    /\ pc = "turn" => Acceptable([journal EXCEPT !.phase = "reply_ready"])
    /\ pc = "scan" /\ Current <= snapshot => Acceptable(Passed)

\* drain on ready: a peer message of an open thread is received while the
\* process lives, also when it was posted between two streams.  Its turn may
\* end the session instead (an unknown outcome, or no turn left).
Answering ==
    \A s \in 1..MaxMessages :
        (pc # "down" /\ s \in DOMAIN thread)
            ~> (journal.lastSequence >= s \/ pc = "down" \/ ~open \/ expired)
=============================================================================
