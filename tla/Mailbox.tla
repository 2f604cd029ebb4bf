-------------------------------- MODULE Mailbox --------------------------------
(***************************************************************************)
(* Threads, messages, blocks and the mailbox event log of the Relay, at    *)
(* the level of its database transactions: every request is a transaction  *)
(* that takes its locks one at a time, reads what each lock protects,      *)
(* allocates a cursor from the global sequence and commits.  Transactions  *)
(* interleave between any two of these steps, and may roll back at any of  *)
(* them (a refusal by what is not modelled, a lost connection, a crash);   *)
(* a cursor allocated before a rollback is never used again.               *)
(*                                                                         *)
(* A reader follows each mailbox by cursor, page by page.                  *)
(***************************************************************************)
EXTENDS Integers, Sequences, FiniteSets

CONSTANTS
    Agents,
    Threads,      \* handoff ids
    Sender,       \* handoffs.sender_id of each thread
    Recipient,    \* handoffs.recipient_id of each thread
    Keys,         \* idempotency keys
    NoKey,        \* a request without one
    Slots,        \* database sessions
    PageSize,     \* the limit of a listing
    MaxCursor     \* bound: cursors allocated

ASSUME MailboxAssumption ==
    /\ Sender \in [Threads -> Agents]
    /\ Recipient \in [Threads -> Agents]
    /\ \A th \in Threads : Sender[th] # Recipient[th]   \* "Cannot send a handoff to yourself"
    /\ NoKey \notin Keys
    /\ PageSize \in Nat \ {0}
    /\ MaxCursor \in Nat

VARIABLES
    threads,      \* handoffs: status and idempotency key
    messages,     \* committed messages, in commit order
    events,       \* committed mailbox_events, in commit order
    blocks,       \* agent_blocks: <<blocker, blocked>>
    sequence,     \* the last value of the mailbox_events.cursor sequence
    tx,           \* the transaction of each session
    checkpoint,   \* the last cursor the reader of each mailbox has consumed
    consumed      \* the events that reader has been given

vars == <<threads, messages, events, blocks, sequence, tx, checkpoint, consumed>>

ThreadStatus == {"none", "pending", "accepted", "completed", "cancelled"}
ThreadOp == {"create", "append", "accept", "complete", "cancel"}
EventKind(op) ==
    CASE op = "create" -> "thread.created"
      [] op = "append" -> "message.appended"
      [] op = "accept" -> "thread.accepted"
      [] op = "complete" -> "thread.completed"
      [] op = "cancel" -> "thread.cancelled"
EventKinds == {EventKind(op) : op \in ThreadOp}

\* A request about a thread, and one that changes by's block of another agent.
ThreadRequest == [op : ThreadOp, thread : Threads, by : Agents, key : Keys \cup {NoKey}]
BlockRequest == {r \in [op : {"block", "unblock"}, by : Agents, other : Agents] :
                    r.by # r.other}
Request == ThreadRequest \cup BlockRequest

\* A session: the request it serves, how many locks of the request's plan it
\* has taken, and the sequence_no and cursor it has allocated.
Idle == [busy |-> FALSE]
Busy(request, held, seq, cursor) ==
    [busy |-> TRUE, req |-> request, held |-> held, seq |-> seq, cursor |-> cursor]

Message == [thread : Threads, by : Agents, seq : Nat, key : Keys \cup {NoKey}]
Event == [to : Agents, by : Agents, thread : Threads,
          kind : EventKinds, cursor : Nat]

TypeOK ==
    /\ threads \in [Threads -> [status : ThreadStatus, key : Keys \cup {NoKey}]]
    /\ messages \in Seq(Message)
    /\ events \in Seq(Event)
    /\ blocks \subseteq Agents \X Agents
    /\ sequence \in 0..MaxCursor
    /\ tx \in [Slots -> {Idle} \cup [busy : {TRUE}, req : Request, held : 0..5,
                                     seq : Nat, cursor : 0..MaxCursor]]
    /\ checkpoint \in [Agents -> 0..MaxCursor]
    /\ consumed \in [Agents -> SUBSET (1..MaxCursor)]

-----------------------------------------------------------------------------
(* Locks *)

OtherParticipant(th, a) == IF a = Sender[th] THEN Recipient[th] ELSE Sender[th]

\* Who may send the request; only messages carry an idempotency key.
Participant(r) ==
    CASE r.op \in {"create", "cancel"} -> r.by = Sender[r.thread]
      [] r.op \in {"accept", "complete"} -> r.by = Recipient[r.thread]
      [] r.op = "append" -> r.by \in {Sender[r.thread], Recipient[r.thread]}
Keyed(r) == r.op \in {"create", "append"}

\* The mailbox the request's event goes to.
Target(r) == OtherParticipant(r.thread, r.by)

\* The directed pair <<blocker, blocked>> the request reads or changes.
BlockPair(r) ==
    CASE r.op = "accept" -> <<r.by, Target(r)>>
      [] r.op \in {"block", "unblock"} -> <<r.by, r.other>>
      [] OTHER -> <<Target(r), r.by>>

KeyLock(r) == <<"key", r.key>>
ThreadLock(r) == <<"thread", r.thread>>
PairLock(r) == <<"pair", BlockPair(r)>>
SequenceLock(r) == <<"sequence", r.thread>>
MailboxLock(r) == <<"mailbox", Target(r)>>

\* Mutant: a transition reserves its mailbox first.
MailboxFirst(r) ==
    CASE r.op = "create" /\ r.key = NoKey -> <<PairLock(r), MailboxLock(r)>>
      [] r.op = "create" /\ r.key # NoKey -> <<KeyLock(r), PairLock(r), MailboxLock(r)>>
      [] r.op = "append" /\ r.key = NoKey ->
            <<ThreadLock(r), PairLock(r), SequenceLock(r), MailboxLock(r)>>
      [] r.op = "append" /\ r.key # NoKey ->
            <<KeyLock(r), ThreadLock(r), PairLock(r), SequenceLock(r), MailboxLock(r)>>
      [] r.op \in {"accept", "complete"} -> <<MailboxLock(r), ThreadLock(r), PairLock(r)>>
      [] r.op = "cancel" -> <<ThreadLock(r), MailboxLock(r)>>
      [] r.op \in {"block", "unblock"} -> <<PairLock(r)>>

\* The locks of a request, in the order it takes them: the advisory lock of
\* its idempotency key, the handoff row FOR UPDATE, the block pair, the
\* thread's message sequence and the recipient's mailbox.
Plan(r) ==
    CASE r.op = "create" /\ r.key = NoKey -> <<PairLock(r), MailboxLock(r)>>
      [] r.op = "create" /\ r.key # NoKey -> <<KeyLock(r), PairLock(r), MailboxLock(r)>>
      [] r.op = "append" /\ r.key = NoKey ->
            <<ThreadLock(r), PairLock(r), SequenceLock(r), MailboxLock(r)>>
      [] r.op = "append" /\ r.key # NoKey ->
            <<KeyLock(r), ThreadLock(r), PairLock(r), SequenceLock(r), MailboxLock(r)>>
      [] r.op \in {"accept", "complete"} -> <<ThreadLock(r), PairLock(r), MailboxLock(r)>>
      [] r.op = "cancel" -> <<ThreadLock(r), MailboxLock(r)>>
      [] r.op \in {"block", "unblock"} -> <<PairLock(r)>>

Holds(t) == IF tx[t].busy THEN {Plan(tx[t].req)[i] : i \in 1..tx[t].held} ELSE {}

NextLock(t) == Plan(tx[t].req)[tx[t].held + 1]

\* Mutants: a lock of one kind is not taken.
SharedMailbox(t, lock) ==
    lock[1] = "mailbox" \/ \A u \in Slots \ {t} : lock \notin Holds(u)
SharedPair(t, lock) ==
    lock[1] = "pair" \/ \A u \in Slots \ {t} : lock \notin Holds(u)
SharedThread(t, lock) ==
    lock[1] = "thread" \/ \A u \in Slots \ {t} : lock \notin Holds(u)

Free(t, lock) == \A u \in Slots \ {t} : lock \notin Holds(u)

-----------------------------------------------------------------------------
(* What a transaction checks once it has the lock that protects it *)

KeyUsed(r) ==
    /\ r.key # NoKey
    /\ IF r.op = "create" THEN \E th \in Threads : threads[th].key = r.key
       ELSE \E i \in DOMAIN messages : messages[i].key = r.key

\* isSenderBlocked, for the pair the request has locked.
IsSenderBlocked(r) == BlockPair(r) \in blocks

\* The statuses from which a transition or a message is allowed.
AllowedFrom(op) ==
    CASE op = "append" -> {"pending", "accepted"}
      [] op = "complete" -> {"accepted"}
      [] op \in {"accept", "cancel"} -> {"pending"}

\* The request goes on after taking the lock; otherwise it is refused, or
\* answered from an earlier one, and nothing is written.
Admitted(r, lock) ==
    CASE lock[1] = "key" -> r.op = "create" => ~KeyUsed(r)
      [] lock[1] = "thread" -> ~KeyUsed(r) /\ threads[r.thread].status \in AllowedFrom(r.op)
      [] lock[1] = "pair" -> r.op \in ThreadOp => ~IsSenderBlocked(r)
      [] OTHER -> TRUE

\* nextSequenceNo: one more than the greatest of the thread.
NextSequenceNo(th) ==
    LET numbers == {messages[i].seq : i \in {j \in DOMAIN messages : messages[j].thread = th}}
    IN CHOOSE n \in 1..(Len(messages) + 1) :
          n - 1 \in numbers \cup {0} /\ \A m \in numbers : m < n

-----------------------------------------------------------------------------
(* Actions *)

\* A session starts a request.  A new thread has a fresh UUID.
Begin(t, r) ==
    /\ ~tx[t].busy
    /\ sequence < MaxCursor
    /\ r.op \in ThreadOp => Participant(r) /\ (Keyed(r) \/ r.key = NoKey)
    /\ r.op = "create" =>
          /\ threads[r.thread].status = "none"
          /\ \A u \in Slots : ~(/\ tx[u].busy /\ tx[u].req.op = "create"
                                 /\ tx[u].req.thread = r.thread)
    /\ r.op \in ThreadOp \ {"create"} => threads[r.thread].status # "none"
    /\ tx' = [tx EXCEPT ![t] = Busy(r, 0, 0, 0)]
    /\ UNCHANGED <<threads, messages, events, blocks, sequence, checkpoint, consumed>>

\* A session takes its next lock and reads what the lock protects.  The
\* mailbox lock is followed by the insert that draws the cursor.
Acquire(t) ==
    /\ tx[t].busy
    /\ tx[t].held < Len(Plan(tx[t].req))
    /\ LET r == tx[t].req
           lock == NextLock(t)
       IN
       /\ Free(t, lock)
       /\ lock[1] = "mailbox" => sequence < MaxCursor
       /\ sequence' = IF lock[1] = "mailbox" THEN sequence + 1 ELSE sequence
       /\ tx' = [tx EXCEPT ![t] =
             IF ~Admitted(r, lock) THEN Idle
             ELSE Busy(r, tx[t].held + 1,
                       IF lock[1] = "sequence" THEN NextSequenceNo(r.thread) ELSE tx[t].seq,
                       IF lock[1] = "mailbox" THEN sequence + 1 ELSE tx[t].cursor)]
    /\ UNCHANGED <<threads, messages, events, blocks, checkpoint, consumed>>

StatusAfter(op, status) ==
    CASE op = "create" -> "pending"
      [] op = "accept" -> "accepted"
      [] op = "complete" -> "completed"
      [] op = "cancel" -> "cancelled"
      [] OTHER -> status

\* What the transaction has written becomes visible.
WriteThread(t, r) ==
    /\ threads' = [threads EXCEPT
          ![r.thread].status = StatusAfter(r.op, @),
          ![r.thread].key = IF r.op = "create" THEN r.key ELSE @]
    /\ messages' =
          CASE r.op = "create" ->
                  Append(messages, [thread |-> r.thread, by |-> r.by, seq |-> 1,
                                    key |-> NoKey])
            [] r.op = "append" ->
                  Append(messages, [thread |-> r.thread, by |-> r.by, seq |-> tx[t].seq,
                                    key |-> r.key])
            [] OTHER -> messages
    /\ events' = Append(events, [to |-> Target(r), by |-> r.by, thread |-> r.thread,
                                 kind |-> EventKind(r.op), cursor |-> tx[t].cursor])
    /\ UNCHANGED blocks

WriteBlock(r) ==
    /\ blocks' = IF r.op = "block" THEN blocks \cup {BlockPair(r)}
                 ELSE blocks \ {BlockPair(r)}
    /\ UNCHANGED <<threads, messages, events>>

\* The commit releases every lock of the transaction.
Commit(t) ==
    /\ tx[t].busy
    /\ tx[t].held = Len(Plan(tx[t].req))
    /\ \/ tx[t].req.op \in ThreadOp /\ WriteThread(t, tx[t].req)
       \/ tx[t].req.op \notin ThreadOp /\ WriteBlock(tx[t].req)
    /\ tx' = [tx EXCEPT ![t] = Idle]
    /\ UNCHANGED <<sequence, checkpoint, consumed>>

\* A rollback at any point.
Rollback(t) ==
    /\ tx[t].busy
    /\ tx' = [tx EXCEPT ![t] = Idle]
    /\ UNCHANGED <<threads, messages, events, blocks, sequence, checkpoint, consumed>>

\* The cursors a listing after the reader's checkpoint can return.
Unread(a) ==
    {events[i].cursor : i \in {j \in DOMAIN events :
                                  events[j].to = a /\ events[j].cursor > checkpoint[a]}}

\* Mutant: the newest ones first.
LatestPage(a) == {c \in Unread(a) : Cardinality({d \in Unread(a) : d > c}) < PageSize}

\* The first PageSize of them in cursor order.
Page(a) == {c \in Unread(a) : Cardinality({d \in Unread(a) : d < c}) < PageSize}

\* listMailboxEvents, and the reader moves its checkpoint to next_cursor.
ListMailboxEvents(a) ==
    /\ Page(a) # {}
    /\ consumed' = [consumed EXCEPT ![a] = @ \cup Page(a)]
    /\ checkpoint' = [checkpoint EXCEPT ![a] =
          CHOOSE c \in Page(a) : \A d \in Page(a) : d <= c]
    /\ UNCHANGED <<threads, messages, events, blocks, sequence, tx>>

Init ==
    /\ threads = [th \in Threads |-> [status |-> "none", key |-> NoKey]]
    /\ messages = <<>>
    /\ events = <<>>
    /\ blocks = {}
    /\ sequence = 0
    /\ tx = [t \in Slots |-> Idle]
    /\ checkpoint = [a \in Agents |-> 0]
    /\ consumed = [a \in Agents |-> {}]

Next ==
    \/ \E t \in Slots :
          \/ \E r \in Request : Begin(t, r)
          \/ Acquire(t)
          \/ Commit(t)
          \/ Rollback(t)
    \/ \E a \in Agents : ListMailboxEvents(a)

Spec == Init /\ [][Next]_vars

-----------------------------------------------------------------------------
(* Properties *)

\* A replay checkpoint is safe: within one mailbox events become visible in
\* cursor order, though the cursors come from one sequence that concurrent
\* transactions draw from.  "A committed lower cursor cannot appear after a
\* consumed higher one."
CommitOrder ==
    \A i, j \in DOMAIN events :
        i < j /\ events[i].to = events[j].to => events[i].cursor < events[j].cursor

\* So a reader that only remembers a cursor is given every event of its
\* mailbox up to it.
NoEventSkipped ==
    \A i \in DOMAIN events :
        events[i].cursor <= checkpoint[events[i].to] =>
            events[i].cursor \in consumed[events[i].to]

\* "A successful block response is a hard commit fence": no content authored
\* by an agent commits into a mailbox whose owner blocks that agent, and no
\* recipient accepts a thread of a sender it blocks, whenever the request
\* began.
BlockFence ==
    [][\A i \in DOMAIN events' \ DOMAIN events :
          LET e == events'[i] IN
          /\ e.kind \in {"thread.created", "message.appended", "thread.completed"} =>
                <<e.to, e.by>> \notin blocks'
          /\ e.kind = "thread.accepted" => <<e.by, e.to>> \notin blocks']_vars

\* The events of a thread tell one life of it, in commit order, however its
\* requests overlap: created once and first, accepted before completed, never
\* both accepted and cancelled, and nothing after the end.
Lifecycle ==
    \A i, j \in DOMAIN events :
        i < j /\ events[i].thread = events[j].thread =>
            /\ events[j].kind # "thread.created"
            /\ events[i].kind \notin {"thread.completed", "thread.cancelled"}
            /\ events[j].kind = "thread.completed" =>
                  \E k \in 1..(j - 1) :
                     events[k].thread = events[j].thread /\ events[k].kind = "thread.accepted"
            /\ events[i].kind = "thread.accepted" =>
                  events[j].kind \notin {"thread.accepted", "thread.cancelled"}

\* A request repeated under one idempotency key, even while the first one is
\* still running, is committed once: the unique indexes never refuse a commit.
KeysCommitOnce ==
    \A k \in Keys :
        /\ Cardinality({th \in Threads : threads[th].key = k}) <= 1
        /\ Cardinality({i \in DOMAIN messages : messages[i].key = k}) <= 1

\* The messages of a thread are numbered 1, 2, 3... in the order in which they
\* commit; a live session resumes by that number.
DenseSequence ==
    \A i \in DOMAIN messages :
        messages[i].seq = Cardinality({j \in 1..i : messages[j].thread = messages[i].thread})

\* A thread is one history: transitions follow its lifecycle, a key is applied
\* once and its messages are numbered without gaps (handoff.ts:81, :117, :324).
ThreadsSound == Lifecycle /\ KeysCommitOnce /\ DenseSequence

\* No deadlock: while some transaction is busy, one of them can go on.
SomeoneProceeds ==
    (\E t \in Slots : tx[t].busy) =>
        \E t \in Slots :
            /\ tx[t].busy
            /\ \/ tx[t].held = Len(Plan(tx[t].req))
               \/ Free(t, NextLock(t))
=============================================================================
