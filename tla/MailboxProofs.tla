----------------------------- MODULE MailboxProofs -----------------------------
(***************************************************************************)
(* Proofs about Mailbox, for any number of agents, threads, keys and       *)
(* sessions: within a mailbox cursors become visible in order, so a reader *)
(* skips nothing; a block is a commit fence; the sessions never deadlock;  *)
(* and a thread is one history.  All rest on the mutual exclusion of the   *)
(* locks, which is proved and not assumed: a lock is what a session holds  *)
(* of its plan.                                                            *)
(***************************************************************************)
EXTENDS Mailbox, FiniteSetTheorems, WellFoundedInduction, TLAPS

\* What the proofs need of the types: sequence_no is not looked at.
Session(s) ==
    /\ s.busy \in BOOLEAN
    /\ s.busy => /\ s.req \in Request
                 /\ s.held \in 0..Len(Plan(s.req))
                 /\ s.cursor \in Nat

Shape ==
    /\ tx = [t \in Slots |-> tx[t]]
    /\ \A t \in Slots : Session(tx[t])
    /\ sequence \in Nat
    /\ events \in Seq(Event)

\* No lock has two holders.
Exclusion == \A t, u \in Slots : t # u => Holds(t) \cap Holds(u) = {}

\* A session about to commit an event.
Ready(t) ==
    /\ tx[t].busy
    /\ tx[t].req.op \in ThreadOp
    /\ tx[t].held = Len(Plan(tx[t].req))

\* The cursor of such a session is newer than all its mailbox shows.
Cursors ==
    /\ \A i \in DOMAIN events : events[i].cursor <= sequence
    /\ \A t \in Slots : Ready(t) =>
          /\ tx[t].cursor <= sequence
          /\ \A i \in DOMAIN events :
                events[i].to = Target(tx[t].req) => events[i].cursor < tx[t].cursor
    /\ CommitOrder

\* A session that holds its block pair found it unblocked, and it still is.
Checked ==
    \A t \in Slots :
        /\ tx[t].busy
        /\ tx[t].req.op \in ThreadOp
        /\ PairLock(tx[t].req) \in Holds(t)
        => BlockPair(tx[t].req) \notin blocks

MailInv == Shape /\ Exclusion /\ Cursors /\ Checked

\* Every plan of a thread request ends with its mailbox, and names no other
\* mailbox and no other block pair than the request's own.
LEMMA PlanFacts ==
    ASSUME NEW r \in Request
    PROVE  /\ Len(Plan(r)) \in 1..5
           /\ r.op \in ThreadOp => Plan(r)[Len(Plan(r))] = MailboxLock(r)
           /\ \A i \in 1..Len(Plan(r)) :
                 /\ Plan(r)[i][1] = "mailbox" =>
                       r.op \in ThreadOp /\ i = Len(Plan(r))
                 /\ Plan(r)[i][1] = "pair" => Plan(r)[i] = PairLock(r)
           /\ r.op # "cancel" => \E i \in 1..Len(Plan(r)) : Plan(r)[i] = PairLock(r)
           /\ r.op \notin ThreadOp => r.op \in {"block", "unblock"}
<1> DEFINE P == Plan(r)
<1>0. r.op \in ThreadOp \/ r.op \in {"block", "unblock"}
  BY DEF Request, ThreadRequest, BlockRequest
<1>1. /\ KeyLock(r)[1] = "key" /\ ThreadLock(r)[1] = "thread" /\ PairLock(r)[1] = "pair"
      /\ SequenceLock(r)[1] = "sequence" /\ MailboxLock(r)[1] = "mailbox"
  BY DEF KeyLock, ThreadLock, PairLock, SequenceLock, MailboxLock
<1>2. CASE r.op = "create" /\ r.key = NoKey
  <2>1. P = <<PairLock(r), MailboxLock(r)>>
    BY <1>2 DEF Plan
  <2> QED
    BY <1>1, <1>2, <2>1 DEF ThreadOp
<1>3. CASE r.op = "create" /\ r.key # NoKey
  <2>1. P = <<KeyLock(r), PairLock(r), MailboxLock(r)>>
    BY <1>3 DEF Plan
  <2> QED
    BY <1>1, <1>3, <2>1 DEF ThreadOp
<1>4. CASE r.op = "append" /\ r.key = NoKey
  <2>1. P = <<ThreadLock(r), PairLock(r), SequenceLock(r), MailboxLock(r)>>
    BY <1>4 DEF Plan
  <2> QED
    BY <1>1, <1>4, <2>1 DEF ThreadOp
<1>5. CASE r.op = "append" /\ r.key # NoKey
  <2>1. P = <<KeyLock(r), ThreadLock(r), PairLock(r), SequenceLock(r), MailboxLock(r)>>
    BY <1>5 DEF Plan
  <2> QED
    BY <1>1, <1>5, <2>1 DEF ThreadOp
<1>6. CASE r.op \in {"accept", "complete"}
  <2>1. P = <<ThreadLock(r), PairLock(r), MailboxLock(r)>>
    BY <1>6 DEF Plan
  <2> QED
    BY <1>1, <1>6, <2>1 DEF ThreadOp
<1>7. CASE r.op = "cancel"
  <2>1. P = <<ThreadLock(r), MailboxLock(r)>>
    BY <1>7 DEF Plan
  <2> QED
    BY <1>1, <1>7, <2>1 DEF ThreadOp
<1>8. CASE r.op \in {"block", "unblock"}
  <2>1. P = <<PairLock(r)>>
    BY <1>8 DEF Plan
  <2> QED
    BY <1>1, <1>8, <2>1 DEF ThreadOp
<1> QED
  BY <1>0, <1>2, <1>3, <1>4, <1>5, <1>6, <1>7, <1>8 DEF ThreadOp

\* The cursors of committed events are numbers.
LEMMA EventCursors ==
    ASSUME Shape
    PROVE  \A i \in DOMAIN events : events[i] \in Event /\ events[i].cursor \in Nat
<1>1. \A i \in DOMAIN events : events[i] \in Event
  BY DEF Shape
<1> QED
  BY <1>1 DEF Event

\* A step of session t that leaves it with record s touches no other session,
\* and keeps the locks apart when t now holds only what no other one does.
LEMMA SessionStep ==
    ASSUME Shape, Exclusion, NEW t \in Slots, NEW s, Session(s),
           tx' = [tx EXCEPT ![t] = s],
           \A u \in Slots \ {t} : Holds(u) \cap Holds(t)' = {}
    PROVE  /\ tx' = [u \in Slots |-> tx'[u]]
           /\ \A u \in Slots : Session(tx'[u])
           /\ tx'[t] = s
           /\ \A u \in Slots \ {t} : tx'[u] = tx[u] /\ Holds(u)' = Holds(u)
           /\ Exclusion'
<1>1. tx' = [u \in Slots |-> tx'[u]] /\ tx'[t] = s
  BY DEF Shape
<1>2. \A u \in Slots \ {t} : tx'[u] = tx[u]
  BY DEF Shape
<1>3. \A u \in Slots : Session(tx'[u])
  BY <1>1, <1>2 DEF Shape
<1>4. \A u \in Slots \ {t} : Holds(u)' = Holds(u)
  BY <1>2 DEF Holds
<1>5. Exclusion'
  <2> SUFFICES ASSUME NEW u \in Slots, NEW v \in Slots, u # v
               PROVE  Holds(u)' \cap Holds(v)' = {}
    BY DEF Exclusion
  <2>2. CASE u = t
    BY <1>4, <2>2
  <2>3. CASE v = t
    BY <1>4, <2>3
  <2>4. CASE u # t /\ v # t
    BY <1>4, <2>4 DEF Exclusion
  <2> QED
    BY <2>2, <2>3, <2>4
<1> QED
  BY <1>1, <1>2, <1>3, <1>4, <1>5

\* A session that gives everything up, or starts.
LEMMA EmptyStep ==
    ASSUME Shape, Exclusion, NEW t \in Slots, NEW s, Session(s),
           tx' = [tx EXCEPT ![t] = s],
           s.busy => s.held = 0
    PROVE  /\ tx' = [u \in Slots |-> tx'[u]]
           /\ \A u \in Slots : Session(tx'[u])
           /\ tx'[t] = s
           /\ \A u \in Slots \ {t} : tx'[u] = tx[u] /\ Holds(u)' = Holds(u)
           /\ Holds(t)' = {}
           /\ Exclusion'
<1>1. tx'[t] = s
  BY DEF Shape
<1>2. Holds(t)' = {}
  BY <1>1 DEF Holds
<1> QED
  BY <1>2, SessionStep

\* What a step changes outside the sessions decides the rest: nothing.
LEMMA QuietStep ==
    ASSUME MailInv, NEW t \in Slots, NEW s, Session(s),
           tx' = [tx EXCEPT ![t] = s], s.busy => s.held = 0,
           UNCHANGED <<events, blocks, sequence>>
    PROVE  MailInv'
<1>1. Shape'
  BY EmptyStep DEF MailInv, Shape
<1>2. Exclusion'
  BY EmptyStep DEF MailInv
<1>3. /\ tx'[t] = s
      /\ \A u \in Slots \ {t} : tx'[u] = tx[u] /\ Holds(u)' = Holds(u)
      /\ Holds(t)' = {}
  BY EmptyStep DEF MailInv
<1>4. \A u \in Slots : Ready(u)' => u # t
  BY <1>1, <1>3, PlanFacts DEF Ready, Shape, Session
<1>5. Cursors'
  <2>1. \A i \in DOMAIN events' : events'[i].cursor <= sequence'
    BY DEF MailInv, Cursors
  <2>2. CommitOrder'
    BY DEF MailInv, Cursors, CommitOrder
  <2>3. ASSUME NEW u \in Slots, Ready(u)'
        PROVE  /\ tx'[u].cursor <= sequence'
               /\ \A i \in DOMAIN events' :
                     events'[i].to = Target(tx'[u].req) => events'[i].cursor < tx'[u].cursor
    <3>1. tx'[u] = tx[u] /\ Ready(u)
      BY <1>3, <1>4, <2>3 DEF Ready
    <3> QED
      BY <3>1 DEF MailInv, Cursors
  <2> QED
    BY <2>1, <2>2, <2>3 DEF Cursors
<1>6. Checked'
  BY <1>3 DEF MailInv, Checked
<1> QED
  BY <1>1, <1>2, <1>5, <1>6 DEF MailInv
\* Taking a lock keeps the invariant: the cursor drawn under the mailbox lock
\* is the newest, and the block pair is read under its own lock.
LEMMA AcquireStep ==
    ASSUME MailInv, NEW t \in Slots, Acquire(t)
    PROVE  MailInv'
<1> DEFINE r == tx[t].req
           lock == NextLock(t)
           s == IF ~Admitted(r, lock) THEN Idle
                ELSE Busy(r, tx[t].held + 1,
                          IF lock[1] = "sequence" THEN NextSequenceNo(r.thread) ELSE tx[t].seq,
                          IF lock[1] = "mailbox" THEN sequence + 1 ELSE tx[t].cursor)
<1>0. /\ tx[t].busy /\ r \in Request /\ tx[t].held \in 0..Len(Plan(r))
      /\ tx[t].cursor \in Nat /\ sequence \in Nat
  BY DEF MailInv, Shape, Session, Acquire
<1>1. /\ tx[t].held < Len(Plan(r))
      /\ Free(t, lock)
      /\ sequence' = IF lock[1] = "mailbox" THEN sequence + 1 ELSE sequence
      /\ tx' = [tx EXCEPT ![t] = s]
      /\ UNCHANGED <<events, blocks>>
  BY DEF Acquire
<1>2. lock = Plan(r)[tx[t].held + 1] /\ tx[t].held + 1 \in 1..Len(Plan(r))
  BY <1>0, <1>1, PlanFacts DEF NextLock
<1>3. CASE ~Admitted(r, lock)
  <2>1. lock[1] # "mailbox"
    BY <1>3 DEF Admitted
  <2>2. s = Idle
    BY <1>3
  <2>3. Session(Idle) /\ ~Idle.busy
    BY DEF Session, Idle
  <2>4. tx' = [tx EXCEPT ![t] = Idle]
    BY <1>1, <2>2
  <2>5. UNCHANGED <<events, blocks, sequence>>
    BY <1>1, <2>1
  <2> HIDE DEF s
  <2> QED
    BY <2>3, <2>4, <2>5, QuietStep
<1>4. CASE Admitted(r, lock)
  <2>1. /\ s.busy = TRUE /\ s.req = r /\ s.held = tx[t].held + 1
        /\ s.cursor = IF lock[1] = "mailbox" THEN sequence + 1 ELSE tx[t].cursor
    BY <1>4 DEF Busy
  <2> HIDE DEF s
  <2>2. Session(s)
    <3>1. s.cursor \in Nat
      BY <1>0, <2>1
    <3>2. s.req \in Request /\ s.held \in 0..Len(Plan(s.req))
      BY <1>0, <1>2, <2>1
    <3>3. s.busy \in BOOLEAN
      BY <2>1
    <3> QED
      BY <3>1, <3>2, <3>3 DEF Session
  <2>3. tx'[t] = s
    BY <1>1 DEF MailInv, Shape
  <2>4. Holds(t)' = Holds(t) \cup {lock}
    <3>1. Holds(t)' = {Plan(r)[i] : i \in 1..(tx[t].held + 1)}
      BY <2>1, <2>3 DEF Holds
    <3>2. Holds(t) = {Plan(r)[i] : i \in 1..tx[t].held}
      BY <1>0 DEF Holds
    <3>3. 1..(tx[t].held + 1) = 1..tx[t].held \cup {tx[t].held + 1}
      BY <1>0
    <3> QED
      BY <1>2, <3>1, <3>2, <3>3
  <2>5. \A u \in Slots \ {t} : Holds(u) \cap Holds(t)' = {}
    BY <1>1, <2>4 DEF MailInv, Exclusion, Free
  <2>6. /\ tx' = [u \in Slots |-> tx'[u]]
        /\ \A u \in Slots : Session(tx'[u])
        /\ \A u \in Slots \ {t} : tx'[u] = tx[u] /\ Holds(u)' = Holds(u)
        /\ Exclusion'
    BY <1>1, <2>2, <2>5, SessionStep DEF MailInv
  <2>7. Shape'
    BY <1>0, <1>1, <2>6 DEF MailInv, Shape
  <2>8. Cursors'
    <3>1. sequence <= sequence' /\ events' = events
      BY <1>0, <1>1
    <3>2. \A i \in DOMAIN events : events[i].cursor \in Nat /\ events[i].cursor <= sequence
      BY EventCursors DEF MailInv, Cursors
    <3>3. CommitOrder'
      BY <1>1 DEF MailInv, Cursors, CommitOrder
    <3>4. ASSUME NEW u \in Slots, Ready(u)'
          PROVE  /\ tx'[u].cursor <= sequence'
                 /\ \A i \in DOMAIN events' :
                       events'[i].to = Target(tx'[u].req) => events'[i].cursor < tx'[u].cursor
      <4>1. CASE u = t
        <5>1. lock = MailboxLock(r)
          BY <1>0, <1>2, <2>1, <2>3, <3>4, <4>1, PlanFacts DEF Ready
        <5>2. lock[1] = "mailbox"
          BY <5>1 DEF MailboxLock
        <5> QED
          BY <1>0, <1>1, <2>1, <2>3, <3>1, <3>2, <4>1, <5>2
      <4>2. CASE u # t
        <5>1. tx'[u] = tx[u] /\ Ready(u) /\ tx[u].cursor \in Nat
          BY <2>6, <3>4, <4>2 DEF Ready, MailInv, Shape, Session
        <5> QED
          BY <1>0, <3>1, <5>1, <1>1 DEF MailInv, Cursors
      <4> QED
        BY <4>1, <4>2
    <3>5. \A i \in DOMAIN events' : events'[i].cursor <= sequence'
      BY <1>0, <1>1, <3>1, <3>2
    <3> QED
      BY <3>3, <3>4, <3>5 DEF Cursors
  <2>9. Checked'
    <3> SUFFICES ASSUME NEW u \in Slots, tx'[u].busy, tx'[u].req.op \in ThreadOp,
                        PairLock(tx'[u].req) \in Holds(u)'
                 PROVE  BlockPair(tx'[u].req) \notin blocks'
      BY DEF Checked
    <3>1. CASE u # t
      BY <1>1, <2>6, <3>1 DEF MailInv, Checked
    <3>2. CASE u = t /\ PairLock(r) \in Holds(t)
      BY <1>0, <1>1, <2>1, <2>3, <3>2 DEF MailInv, Checked
    <3>3. CASE u = t /\ PairLock(r) = lock
      <4>1. lock[1] = "pair" /\ r.op \in ThreadOp
        BY <2>1, <2>3, <3>3 DEF PairLock
      <4>2. ~IsSenderBlocked(r)
        BY <1>4, <4>1 DEF Admitted
      <4> QED
        BY <1>1, <2>1, <2>3, <3>3, <4>2 DEF IsSenderBlocked
    <3> QED
      BY <2>1, <2>3, <2>4, <3>1, <3>2, <3>3
  <2> QED
    BY <2>6, <2>7, <2>8, <2>9 DEF MailInv
<1> QED
  BY <1>3, <1>4
\* The session that commits a thread request: its event is well formed and
\* it holds its mailbox.
LEMMA ReadyFacts ==
    ASSUME Shape, NEW t \in Slots, Ready(t)
    PROVE  /\ tx[t].req \in ThreadRequest
           /\ tx[t].cursor \in Nat
           /\ Target(tx[t].req) \in Agents
           /\ MailboxLock(tx[t].req) \in Holds(t)
<1>1. tx[t].busy /\ tx[t].req \in Request /\ tx[t].cursor \in Nat
  BY DEF Ready, Shape, Session
<1>2. tx[t].req \in ThreadRequest
  BY <1>1 DEF Ready, Request, BlockRequest, ThreadOp
<1>3. Target(tx[t].req) \in Agents
  BY <1>2, MailboxAssumption DEF Target, OtherParticipant, ThreadRequest
<1>4. MailboxLock(tx[t].req) \in Holds(t)
  BY <1>1, PlanFacts DEF Ready, Holds
<1> QED
  BY <1>1, <1>2, <1>3, <1>4

\* Committing a thread request keeps the invariant: no other session is about
\* to commit into the same mailbox.
LEMMA CommitThreadStep ==
    ASSUME MailInv, NEW t \in Slots, Ready(t), WriteThread(t, tx[t].req),
           tx' = [tx EXCEPT ![t] = Idle], UNCHANGED sequence
    PROVE  MailInv'
<1> DEFINE r == tx[t].req
           e == [to |-> Target(r), by |-> r.by, thread |-> r.thread,
                 kind |-> EventKind(r.op), cursor |-> tx[t].cursor]
<1>0. Shape /\ Exclusion /\ Cursors /\ Checked
  BY DEF MailInv
<1>1. events' = Append(events, e) /\ UNCHANGED blocks
  BY DEF WriteThread
<1>2. /\ r \in ThreadRequest /\ tx[t].cursor \in Nat
      /\ Target(r) \in Agents /\ MailboxLock(r) \in Holds(t)
  BY <1>0, ReadyFacts
<1>3. e \in Event
  <2>1. r.by \in Agents /\ r.thread \in Threads /\ r.op \in ThreadOp
    BY <1>2 DEF ThreadRequest
  <2>2. EventKind(r.op) \in EventKinds
    BY <2>1 DEF EventKinds
  <2> QED
    BY <1>2, <2>1, <2>2 DEF Event
<1>4. e.to = Target(r) /\ e.cursor = tx[t].cursor
  OBVIOUS
<1> HIDE DEF e
<1>5. /\ tx' = [u \in Slots |-> tx'[u]]
      /\ \A u \in Slots : Session(tx'[u])
      /\ tx'[t] = Idle
      /\ \A u \in Slots \ {t} : tx'[u] = tx[u] /\ Holds(u)' = Holds(u)
      /\ Exclusion'
  <2>1. Session(Idle) /\ ~Idle.busy
    BY DEF Session, Idle
  <2> QED
    BY <1>0, <2>1, EmptyStep
<1>6. events \in Seq(Event) /\ sequence \in Nat
  BY <1>0 DEF Shape
<1>7. Shape'
  BY <1>1, <1>3, <1>5, <1>6 DEF Shape
<1>8. /\ DOMAIN events = 1..Len(events) /\ Len(events) \in Nat
      /\ DOMAIN events' = 1..(Len(events) + 1)
      /\ \A i \in DOMAIN events : events'[i] = events[i]
      /\ events'[Len(events) + 1] = e
  BY <1>1, <1>3, <1>6
<1>9. tx[t].cursor <= sequence
      /\ \A i \in DOMAIN events : events[i].to = Target(r) => events[i].cursor < tx[t].cursor
  BY <1>0 DEF Cursors
<1>10. \A i \in DOMAIN events : events[i].cursor \in Nat /\ events[i].cursor <= sequence
  BY <1>0, EventCursors DEF Cursors
<1>11. CommitOrder'
  <2> SUFFICES ASSUME NEW i \in DOMAIN events', NEW j \in DOMAIN events', i < j,
                      events'[i].to = events'[j].to
               PROVE  events'[i].cursor < events'[j].cursor
    BY DEF CommitOrder
  <2>1. CASE j \in DOMAIN events
    <3>1. i \in DOMAIN events
      BY <1>8, <2>1
    <3> QED
      BY <1>0, <1>8, <2>1, <3>1 DEF Cursors, CommitOrder
  <2>2. CASE j = Len(events) + 1
    <3>1. i \in DOMAIN events
      BY <1>8, <2>2
    <3> QED
      BY <1>4, <1>8, <1>9, <2>2, <3>1
  <2> QED
    BY <1>8, <2>1, <2>2
<1>12. Cursors'
  <2>1. ASSUME NEW u \in Slots, Ready(u)'
        PROVE  /\ tx'[u].cursor <= sequence'
               /\ \A i \in DOMAIN events' :
                     events'[i].to = Target(tx'[u].req) => events'[i].cursor < tx'[u].cursor
    <3>1. u # t
      BY <1>5, <2>1 DEF Ready, Idle
    <3>2. tx'[u] = tx[u] /\ Ready(u)
      BY <1>5, <2>1, <3>1 DEF Ready
    <3>3. MailboxLock(tx[u].req) \in Holds(u)
      BY <1>0, <3>2, ReadyFacts
    <3>4. MailboxLock(tx[u].req) # MailboxLock(r)
      BY <1>0, <1>2, <3>1, <3>3 DEF Exclusion
    <3>5. Target(tx[u].req) # Target(r)
      BY <3>4 DEF MailboxLock
    <3> QED
      BY <1>0, <1>4, <1>8, <3>2, <3>5 DEF Cursors
  <2>2. \A i \in DOMAIN events' : events'[i].cursor <= sequence'
    BY <1>4, <1>8, <1>9, <1>10
  <2> QED
    BY <1>11, <2>1, <2>2 DEF Cursors
<1>13. Checked'
  BY <1>0, <1>1, <1>5 DEF Checked, Idle
<1> QED
  BY <1>5, <1>7, <1>12, <1>13 DEF MailInv

\* Committing a block keeps the invariant: no other session holds its pair.
LEMMA CommitBlockStep ==
    ASSUME MailInv, NEW t \in Slots, tx[t].busy, tx[t].held = Len(Plan(tx[t].req)),
           tx[t].req.op \notin ThreadOp, WriteBlock(tx[t].req),
           tx' = [tx EXCEPT ![t] = Idle], UNCHANGED sequence
    PROVE  MailInv'
<1> DEFINE r == tx[t].req
<1>0. Shape /\ Exclusion /\ Cursors /\ Checked /\ r \in Request
  BY DEF MailInv, Shape, Session
<1>1. UNCHANGED events /\ blocks' \subseteq blocks \cup {BlockPair(r)}
  BY DEF WriteBlock
<1>2. PairLock(r) \in Holds(t)
  <2>1. r.op # "cancel"
    BY DEF ThreadOp
  <2> QED
    BY <1>0, <2>1, PlanFacts DEF Holds
<1>3. /\ tx' = [u \in Slots |-> tx'[u]]
      /\ \A u \in Slots : Session(tx'[u])
      /\ tx'[t] = Idle
      /\ \A u \in Slots \ {t} : tx'[u] = tx[u] /\ Holds(u)' = Holds(u)
      /\ Exclusion'
  <2>1. Session(Idle) /\ ~Idle.busy
    BY DEF Session, Idle
  <2> QED
    BY <1>0, <2>1, EmptyStep
<1>4. Shape'
  BY <1>0, <1>1, <1>3 DEF Shape
<1>5. Cursors'
  <2>1. \A u \in Slots : Ready(u)' => tx'[u] = tx[u] /\ Ready(u)
    BY <1>3 DEF Ready, Idle
  <2> QED
    BY <1>0, <1>1, <2>1 DEF Cursors, CommitOrder
<1>6. Checked'
  <2> SUFFICES ASSUME NEW u \in Slots, tx'[u].busy, tx'[u].req.op \in ThreadOp,
                      PairLock(tx'[u].req) \in Holds(u)'
               PROVE  BlockPair(tx'[u].req) \notin blocks'
    BY DEF Checked
  <2>1. u # t
    BY <1>3 DEF Idle
  <2>2. tx'[u] = tx[u] /\ PairLock(tx[u].req) \in Holds(u)
    BY <1>3, <2>1
  <2>3. BlockPair(tx[u].req) \notin blocks
    BY <1>0, <2>2 DEF Checked
  <2>4. PairLock(tx[u].req) # PairLock(r)
    BY <1>0, <1>2, <2>1, <2>2 DEF Exclusion
  <2>5. BlockPair(tx[u].req) # BlockPair(r)
    BY <2>4 DEF PairLock
  <2> QED
    BY <1>1, <2>2, <2>3, <2>5
<1> QED
  BY <1>3, <1>4, <1>5, <1>6 DEF MailInv
\* The invariant holds at first and is kept by every step.
LEMMA MailInit ==
    ASSUME Init
    PROVE  MailInv
<1>1. Shape
  <2>1. tx = [t \in Slots |-> tx[t]] /\ \A t \in Slots : tx[t] = Idle
    BY DEF Init
  <2>2. Session(Idle)
    BY DEF Session, Idle
  <2>3. sequence \in Nat /\ events \in Seq(Event)
    BY DEF Init
  <2> QED
    BY <2>1, <2>2, <2>3 DEF Shape
<1>2. \A t \in Slots : tx[t].busy = FALSE /\ Holds(t) = {}
  BY DEF Init, Idle, Holds
<1>3. Exclusion /\ Checked
  BY <1>2 DEF Exclusion, Checked
<1>4. Cursors
  BY <1>2 DEF Init, Cursors, CommitOrder, Ready
<1> QED
  BY <1>1, <1>3, <1>4 DEF MailInv

\* One step per action.
LEMMA MailStep ==
    ASSUME MailInv, [Next]_vars
    PROVE  MailInv'
<1>1. ASSUME UNCHANGED <<events, blocks, sequence, tx>> PROVE MailInv'
  <2>1. \A t \in Slots : Holds(t)' = Holds(t) /\ Ready(t)' = Ready(t)
    BY <1>1 DEF Holds, Ready
  <2>2. Shape'
    BY <1>1 DEF MailInv, Shape
  <2>3. Exclusion' /\ Checked'
    BY <1>1, <2>1 DEF MailInv, Exclusion, Checked
  <2>4. Cursors'
    BY <1>1, <2>1 DEF MailInv, Cursors, CommitOrder
  <2> QED
    BY <2>2, <2>3, <2>4 DEF MailInv
<1>2. ASSUME NEW t \in Slots, NEW r \in Request, Begin(t, r) PROVE MailInv'
  <2>1. tx' = [tx EXCEPT ![t] = Busy(r, 0, 0, 0)] /\ UNCHANGED <<events, blocks, sequence>>
    BY <1>2 DEF Begin
  <2>2. Session(Busy(r, 0, 0, 0)) /\ Busy(r, 0, 0, 0).held = 0
    BY PlanFacts DEF Session, Busy
  <2> QED
    BY <2>1, <2>2, QuietStep
<1>3. ASSUME NEW t \in Slots, Commit(t) PROVE MailInv'
  BY <1>3, CommitThreadStep, CommitBlockStep DEF Commit, Ready
<1>4. ASSUME NEW t \in Slots, Rollback(t) PROVE MailInv'
  <2>1. Session(Idle) /\ ~Idle.busy
    BY DEF Session, Idle
  <2> QED
    BY <1>4, <2>1, QuietStep DEF Rollback
<1>5. ASSUME NEW a \in Agents, ListMailboxEvents(a) PROVE MailInv'
  BY <1>1, <1>5 DEF ListMailboxEvents
<1>6. CASE UNCHANGED vars
  BY <1>1, <1>6 DEF vars
<1> QED
  BY <1>2, <1>3, <1>4, <1>5, <1>6, AcquireStep DEF Next

\* Within every mailbox events become visible in cursor order
\* (appendMailboxEvent allocates under the recipient's lock), for any number
\* of concurrent sessions: a checkpoint never hides a later commit.
THEOREM CursorsCommitInOrder == Spec => []CommitOrder
<1>1. MailInv => CommitOrder
  BY DEF MailInv, Cursors
<1> QED
  BY <1>1, MailInit, MailStep, PTL DEF Spec

\* A block is a commit fence (lockAgentBlockPair): no content commits into the
\* mailbox of an agent that blocks its author, however long ago the request
\* began and whatever the two agents do meanwhile.
THEOREM BlocksAreFences == Spec => BlockFence
<1> DEFINE Fenced ==
      \A i \in DOMAIN events' \ DOMAIN events :
          LET e == events'[i] IN
          /\ e.kind \in {"thread.created", "message.appended", "thread.completed"} =>
                <<e.to, e.by>> \notin blocks'
          /\ e.kind = "thread.accepted" => <<e.by, e.to>> \notin blocks'
<1>1. ASSUME MailInv, [Next]_vars PROVE Fenced
  <2>1. ASSUME UNCHANGED events PROVE Fenced
    BY <2>1
  <2>2. ASSUME NEW t \in Slots, Ready(t), WriteThread(t, tx[t].req) PROVE Fenced
    <3> DEFINE r == tx[t].req
               e == [to |-> Target(r), by |-> r.by, thread |-> r.thread,
                     kind |-> EventKind(r.op), cursor |-> tx[t].cursor]
    <3>1. events' = Append(events, e) /\ UNCHANGED blocks /\ events \in Seq(Event)
      BY <1>1, <2>2 DEF WriteThread, MailInv, Shape
    <3>2. r \in ThreadRequest /\ r \in Request
      BY <1>1, <2>2, ReadyFacts DEF MailInv, Request
    <3>3. r.op # "cancel" => BlockPair(r) \notin blocks
      <4> SUFFICES ASSUME r.op # "cancel" PROVE BlockPair(r) \notin blocks
        OBVIOUS
      <4>1. PairLock(r) \in Holds(t)
        BY <2>2, <3>2, PlanFacts DEF Ready, Holds
      <4> QED
        BY <1>1, <2>2, <4>1 DEF MailInv, Checked, Ready
    <3>4. /\ e.kind \in {"thread.created", "message.appended", "thread.completed"} =>
                <<e.to, e.by>> \notin blocks'
          /\ e.kind = "thread.accepted" => <<e.by, e.to>> \notin blocks'
      <4>1. r.op \in {"create", "append", "complete"} => BlockPair(r) = <<Target(r), r.by>>
        BY DEF BlockPair
      <4>2. r.op = "accept" => BlockPair(r) = <<r.by, Target(r)>>
        BY DEF BlockPair
      <4>3. e.kind = EventKind(r.op) /\ e.to = Target(r) /\ e.by = r.by
        OBVIOUS
      <4>4. /\ EventKind("create") = "thread.created"
            /\ EventKind("append") = "message.appended"
            /\ EventKind("accept") = "thread.accepted"
            /\ EventKind("complete") = "thread.completed"
            /\ EventKind("cancel") = "thread.cancelled"
        BY DEF EventKind
      <4>5. r.op \in {"create", "append", "accept", "complete", "cancel"}
        BY <3>2 DEF ThreadRequest, ThreadOp
      <4> HIDE DEF e
      <4> QED
        BY <3>1, <3>3, <4>1, <4>2, <4>3, <4>4, <4>5
    <3> HIDE DEF e
    <3>5. \A i \in DOMAIN events' \ DOMAIN events : events'[i] = e
      BY <3>1
    <3> QED
      BY <3>4, <3>5
  <2>3. ASSUME NEW t \in Slots, Commit(t) PROVE Fenced
    BY <2>1, <2>2, <2>3 DEF Commit, Ready, WriteBlock
  <2>4. ASSUME NEW t \in Slots, Acquire(t) PROVE UNCHANGED events
    BY <2>4 DEF Acquire
  <2>5. ASSUME NEW t \in Slots, NEW r \in Request, Begin(t, r) PROVE UNCHANGED events
    BY <2>5 DEF Begin
  <2>6. ASSUME NEW t \in Slots, Rollback(t) PROVE UNCHANGED events
    BY <2>6 DEF Rollback
  <2>7. ASSUME NEW a \in Agents, ListMailboxEvents(a) PROVE UNCHANGED events
    BY <2>7 DEF ListMailboxEvents
  <2>8. CASE UNCHANGED vars
    BY <2>1, <2>8 DEF vars
  <2> HIDE DEF Fenced
  <2> QED
    BY <1>1, <2>1, <2>3, <2>4, <2>5, <2>6, <2>7, <2>8 DEF Next
<1>2. MailInv /\ [Next]_vars => [Fenced]_vars
  BY <1>1
<1> QED
  BY <1>2, MailInit, MailStep, PTL DEF Spec, BlockFence

-----------------------------------------------------------------------------
(* No deadlock: every request takes its locks in one order of their kinds *)

Rank(lock) ==
    CASE lock[1] = "key" -> 1
      [] lock[1] = "thread" -> 2
      [] lock[1] = "pair" -> 3
      [] lock[1] = "sequence" -> 4
      [] lock[1] = "mailbox" -> 5

LEMMA PlanRises ==
    ASSUME NEW r \in Request
    PROVE  /\ \A i \in 1..Len(Plan(r)) : Rank(Plan(r)[i]) \in 1..5
           /\ \A i, j \in 1..Len(Plan(r)) : i < j => Rank(Plan(r)[i]) < Rank(Plan(r)[j])
<1> DEFINE P == Plan(r)
<1>0. r.op \in ThreadOp \/ r.op \in {"block", "unblock"}
  BY DEF Request, ThreadRequest, BlockRequest
<1>1. /\ Rank(KeyLock(r)) = 1 /\ Rank(ThreadLock(r)) = 2 /\ Rank(PairLock(r)) = 3
      /\ Rank(SequenceLock(r)) = 4 /\ Rank(MailboxLock(r)) = 5
  BY DEF KeyLock, ThreadLock, PairLock, SequenceLock, MailboxLock, Rank
<1>2. CASE r.op = "create" /\ r.key = NoKey
  <2>1. P = <<PairLock(r), MailboxLock(r)>>
    BY <1>2 DEF Plan
  <2> QED
    BY <1>1, <2>1
<1>3. CASE r.op = "create" /\ r.key # NoKey
  <2>1. P = <<KeyLock(r), PairLock(r), MailboxLock(r)>>
    BY <1>3 DEF Plan
  <2> QED
    BY <1>1, <2>1
<1>4. CASE r.op = "append" /\ r.key = NoKey
  <2>1. P = <<ThreadLock(r), PairLock(r), SequenceLock(r), MailboxLock(r)>>
    BY <1>4 DEF Plan
  <2> QED
    BY <1>1, <2>1
<1>5. CASE r.op = "append" /\ r.key # NoKey
  <2>1. P = <<KeyLock(r), ThreadLock(r), PairLock(r), SequenceLock(r), MailboxLock(r)>>
    BY <1>5 DEF Plan
  <2> QED
    BY <1>1, <2>1
<1>6. CASE r.op \in {"accept", "complete"}
  <2>1. P = <<ThreadLock(r), PairLock(r), MailboxLock(r)>>
    BY <1>6 DEF Plan
  <2> QED
    BY <1>1, <2>1
<1>7. CASE r.op = "cancel"
  <2>1. P = <<ThreadLock(r), MailboxLock(r)>>
    BY <1>7 DEF Plan
  <2> QED
    BY <1>1, <2>1
<1>8. CASE r.op \in {"block", "unblock"}
  <2>1. P = <<PairLock(r)>>
    BY <1>8 DEF Plan
  <2> QED
    BY <1>1, <2>1
<1> QED
  BY <1>0, <1>2, <1>3, <1>4, <1>5, <1>6, <1>7, <1>8 DEF ThreadOp

\* A session that cannot go on.
Waits(t) == /\ tx[t].busy
            /\ tx[t].held # Len(Plan(tx[t].req))
            /\ ~Free(t, NextLock(t))

\* It waits for a busy session which, if it waits too, waits for a lock of a
\* later kind.
LEMMA WaitsForLater ==
    ASSUME Shape, NEW t \in Slots, Waits(t)
    PROVE  /\ Rank(NextLock(t)) \in 1..5
           /\ \E u \in Slots : /\ tx[u].busy
                               /\ Waits(u) => Rank(NextLock(t)) < Rank(NextLock(u))
<1>1. /\ tx[t].req \in Request /\ tx[t].held \in 0..Len(Plan(tx[t].req))
      /\ Len(Plan(tx[t].req)) \in 1..5
  BY PlanFacts DEF Waits, Shape, Session
<1>2. tx[t].held + 1 \in 1..Len(Plan(tx[t].req))
  BY <1>1 DEF Waits
<1>3. Rank(NextLock(t)) \in 1..5
  BY <1>1, <1>2, PlanRises DEF NextLock
<1>4. PICK u \in Slots : NextLock(t) \in Holds(u)
  BY DEF Waits, Free
<1>5. /\ tx[u].busy /\ tx[u].req \in Request /\ tx[u].held \in 0..Len(Plan(tx[u].req))
      /\ Len(Plan(tx[u].req)) \in 1..5
  BY <1>4, PlanFacts DEF Shape, Session, Holds
<1>6. PICK i \in 1..tx[u].held : NextLock(t) = Plan(tx[u].req)[i]
  BY <1>4, <1>5 DEF Holds
<1>7. ASSUME Waits(u) PROVE Rank(NextLock(t)) < Rank(NextLock(u))
  <2>1. tx[u].held + 1 \in 1..Len(Plan(tx[u].req)) /\ i \in 1..Len(Plan(tx[u].req))
        /\ i < tx[u].held + 1
    BY <1>5, <1>7 DEF Waits
  <2>2. Rank(Plan(tx[u].req)[i]) < Rank(Plan(tx[u].req)[tx[u].held + 1])
    BY <1>5, <2>1, PlanRises
  <2> QED
    BY <1>6, <2>2 DEF NextLock
<1> QED
  BY <1>3, <1>5, <1>7

\* Transactions never wait for each other in a circle, whatever they lock and
\* however many they are: some busy one can take its next lock or commit
\* (handoff.ts, mailbox.ts and block.ts take key, thread, pair, sequence and
\* mailbox locks in this order).
THEOREM LocksNeverDeadlock == Spec => []SomeoneProceeds
<1>1. Shape => SomeoneProceeds
  <2> SUFFICES ASSUME Shape, NEW t \in Slots, tx[t].busy,
                      \A u \in Slots : tx[u].busy => Waits(u)
               PROVE  FALSE
    BY DEF SomeoneProceeds, Waits
  <2> DEFINE Later(n) == \E u \in Slots : Waits(u) /\ Rank(NextLock(u)) >= n
  <2>1. ASSUME NEW n \in Nat, Later(n) PROVE Later(n + 1)
    <3>1. PICK u \in Slots : Waits(u) /\ Rank(NextLock(u)) >= n
      BY <2>1
    <3>2. PICK v \in Slots : tx[v].busy /\ (Waits(v) => Rank(NextLock(u)) < Rank(NextLock(v)))
      BY <3>1, WaitsForLater
    <3>3. /\ Waits(v) /\ Rank(NextLock(u)) < Rank(NextLock(v))
          /\ Rank(NextLock(u)) \in 1..5 /\ Rank(NextLock(v)) \in 1..5
      BY <3>1, <3>2, WaitsForLater
    <3> QED
      BY <3>1, <3>3
  <2>2. Later(1)
    BY WaitsForLater
  <2>3. ~Later(6)
    BY WaitsForLater
  <2> HIDE DEF Later
  <2>4. Later(1 + 1) /\ Later(1 + 1 + 1) /\ Later(1 + 1 + 1 + 1)
    BY <2>1, <2>2
  <2>5. Later(1 + 1 + 1 + 1 + 1) /\ Later(1 + 1 + 1 + 1 + 1 + 1)
    BY <2>1, <2>4
  <2>6. 1 + 1 + 1 + 1 + 1 + 1 = 6
    OBVIOUS
  <2> QED
    BY <2>3, <2>5, <2>6
<1> QED
  BY <1>1, MailInit, MailStep, PTL DEF Spec, MailInv

-----------------------------------------------------------------------------
(* A reader that remembers only a cursor is given every event *)

\* The checkpoint is the cursor of an event of the mailbox, so what commits
\* later lies beyond it.
Reader ==
    /\ checkpoint \in [Agents -> Nat]
    /\ consumed = [a \in Agents |-> consumed[a]]
    /\ \A a \in Agents : checkpoint[a] # 0 =>
          \E i \in DOMAIN events : events[i].to = a /\ events[i].cursor = checkpoint[a]
    /\ \A t \in Slots : Ready(t) => tx[t].cursor > 0
    /\ NoEventSkipped

\* A nonempty bounded set of numbers has a greatest one.
LEMMA Greatest ==
    ASSUME NEW S, S # {}, NEW n \in Nat, \A x \in S : x \in Nat /\ x <= n
    PROVE  \E c \in S : \A d \in S : d <= c
<1> DEFINE T == {n - x : x \in S}
<1>1. T \subseteq Nat /\ T # {}
  OBVIOUS
<1>2. \E m \in T : \A k \in T : <<k, m>> \notin OpToRel(<, Nat)
  BY <1>1, WFMin, NatLessThanWellFounded, Zenon
<1>3. PICK m \in T : \A k \in T : <<k, m>> \notin OpToRel(<, Nat)
  BY <1>2
<1>4. \A k \in T : ~(k < m)
  BY <1>1, <1>3 DEF OpToRel
<1>5. PICK c \in S : m = n - c
  BY <1>3
<1>6. ASSUME NEW d \in S PROVE d <= c
  <2>1. n - d \in T
    OBVIOUS
  <2>2. ~(n - d < n - c)
    BY <1>4, <1>5, <2>1
  <2> QED
    BY <2>2
<1> QED
  BY <1>6

\* A page is a prefix of what is unread.
LEMMA PageIsPrefix ==
    ASSUME Shape, Cursors, NEW a \in Agents,
           NEW c \in Page(a), NEW d \in Unread(a), d <= c
    PROVE  d \in Page(a)
<1> DEFINE Below(x) == {e \in Unread(a) : e < x}
<1>1. Unread(a) \subseteq 0..sequence
  BY EventCursors DEF Unread, Cursors
<1>2. sequence \in Nat /\ c \in Unread(a) /\ Cardinality(Below(c)) < PageSize
  BY DEF Shape, Page
<1>3. IsFiniteSet(0..sequence)
  BY <1>2, FS_Interval
<1>4. IsFiniteSet(Below(c)) /\ Below(d) \subseteq Below(c)
  <2>1. Below(c) \subseteq 0..sequence
    BY <1>1
  <2>2. Below(d) \subseteq Below(c)
    BY <1>1, <1>2
  <2> QED
    BY <1>3, <2>1, <2>2, FS_Subset
<1>5. /\ Cardinality(Below(d)) <= Cardinality(Below(c))
      /\ Cardinality(Below(d)) \in Nat /\ Cardinality(Below(c)) \in Nat
  BY <1>4, FS_Subset, FS_CardinalityType
<1>6. Cardinality(Below(d)) < PageSize
  BY <1>2, <1>5, MailboxAssumption
<1> QED
  BY <1>6 DEF Page

LEMMA ListStep ==
    ASSUME MailInv, Reader, NEW a \in Agents, ListMailboxEvents(a)
    PROVE  Reader'
<1> DEFINE c == CHOOSE x \in Page(a) : \A d \in Page(a) : d <= x
<1>1. /\ Page(a) # {} /\ consumed' = [consumed EXCEPT ![a] = @ \cup Page(a)]
      /\ checkpoint' = [checkpoint EXCEPT ![a] = c]
      /\ UNCHANGED <<events, tx>>
  BY DEF ListMailboxEvents
<1>2. \A x \in Page(a) : /\ x \in Nat /\ x <= sequence
                         /\ \E i \in DOMAIN events : events[i].to = a /\ events[i].cursor = x
  BY EventCursors DEF MailInv, Cursors, Page, Unread
<1>3. c \in Page(a) /\ \A d \in Page(a) : d <= c
  <2>1. \E x \in Page(a) : \A d \in Page(a) : d <= x
    BY <1>1, <1>2, Greatest DEF MailInv, Shape
  <2> QED
    BY <2>1
<1> HIDE DEF c
<1>4. /\ checkpoint'[a] = c /\ consumed'[a] = consumed[a] \cup Page(a)
      /\ \A b \in Agents \ {a} : checkpoint'[b] = checkpoint[b] /\ consumed'[b] = consumed[b]
      /\ checkpoint' \in [Agents -> Nat] /\ consumed' = [b \in Agents |-> consumed'[b]]
  BY <1>1, <1>2, <1>3 DEF Reader
<1>5. ASSUME NEW b \in Agents, checkpoint'[b] # 0
      PROVE  \E i \in DOMAIN events' : events'[i].to = b /\ events'[i].cursor = checkpoint'[b]
  BY <1>1, <1>2, <1>3, <1>4, <1>5 DEF Reader
<1>6. NoEventSkipped'
  <2> SUFFICES ASSUME NEW i \in DOMAIN events, events[i].cursor <= checkpoint'[events[i].to]
               PROVE  events[i].cursor \in consumed'[events[i].to]
    BY <1>1 DEF NoEventSkipped
  <2>1. events[i].to \in Agents /\ events[i].cursor \in Nat
    BY EventCursors DEF MailInv, Event
  <2>2. CASE events[i].to # a
    BY <1>4, <2>1, <2>2 DEF Reader, NoEventSkipped
  <2>3. CASE events[i].to = a /\ events[i].cursor <= checkpoint[a]
    BY <1>4, <2>3 DEF Reader, NoEventSkipped
  <2>4. CASE events[i].to = a /\ events[i].cursor > checkpoint[a]
    <3>1. events[i].cursor \in Unread(a)
      BY <2>4 DEF Unread
    <3>2. events[i].cursor \in Page(a)
      BY <1>3, <1>4, <2>4, <3>1, PageIsPrefix DEF MailInv
    <3> QED
      BY <1>4, <2>4, <3>2
  <2>5. checkpoint[a] \in Nat
    BY DEF Reader
  <2> QED
    BY <2>1, <2>2, <2>3, <2>4, <2>5
<1>7. \A t \in Slots : Ready(t)' => tx'[t].cursor > 0
  BY <1>1 DEF Reader, Ready
<1> QED
  BY <1>4, <1>5, <1>6, <1>7 DEF Reader

\* A commit adds to a mailbox beyond its reader's checkpoint.
LEMMA CommitReader ==
    ASSUME MailInv, Reader, NEW t \in Slots, Ready(t), WriteThread(t, tx[t].req),
           tx' = [tx EXCEPT ![t] = Idle], UNCHANGED <<checkpoint, consumed>>
    PROVE  Reader'
<1> DEFINE r == tx[t].req
           e == [to |-> Target(r), by |-> r.by, thread |-> r.thread,
                 kind |-> EventKind(r.op), cursor |-> tx[t].cursor]
<1>1. events' = Append(events, e)
  BY DEF WriteThread
<1>2. Target(r) \in Agents /\ tx[t].cursor \in Nat /\ tx[t].cursor > 0
  BY ReadyFacts DEF MailInv, Reader
<1>3. e.to = Target(r) /\ e.cursor = tx[t].cursor
  OBVIOUS
<1> HIDE DEF e
<1>4. /\ DOMAIN events = 1..Len(events) /\ Len(events) \in Nat
      /\ DOMAIN events' = 1..(Len(events) + 1)
      /\ \A i \in DOMAIN events : events'[i] = events[i]
      /\ events'[Len(events) + 1] = e
  <2>1. events \in Seq(Event)
    BY DEF MailInv, Shape
  <2> QED
    BY <1>1, <2>1
<1>5. checkpoint[Target(r)] < tx[t].cursor
  <2>1. CASE checkpoint[Target(r)] = 0
    BY <1>2, <2>1
  <2>2. CASE checkpoint[Target(r)] # 0
    BY <1>2, <2>2 DEF MailInv, Cursors, Reader
  <2> QED
    BY <2>1, <2>2
<1>6. NoEventSkipped'
  <2> SUFFICES ASSUME NEW i \in DOMAIN events', events'[i].cursor <= checkpoint[events'[i].to]
               PROVE  events'[i].cursor \in consumed[events'[i].to]
    BY DEF NoEventSkipped
  <2>1. CASE i \in DOMAIN events
    BY <1>4, <2>1 DEF Reader, NoEventSkipped
  <2>2. CASE i = Len(events) + 1
    <3>1. checkpoint[Target(r)] \in Nat
      BY <1>2 DEF Reader
    <3> QED
      BY <1>2, <1>3, <1>4, <1>5, <2>2, <3>1
  <2> QED
    BY <1>4, <2>1, <2>2
<1>7. \A u \in Slots : Ready(u)' => tx'[u].cursor > 0
  BY DEF MailInv, Shape, Reader, Ready, Idle
<1>8. \A a \in Agents : checkpoint'[a] # 0 =>
         \E i \in DOMAIN events' : events'[i].to = a /\ events'[i].cursor = checkpoint'[a]
  <2>1. DOMAIN events \subseteq DOMAIN events'
    BY <1>4
  <2> QED
    BY <1>4, <2>1 DEF Reader
<1> QED
  BY <1>6, <1>7, <1>8 DEF Reader

LEMMA ReaderStep ==
    ASSUME MailInv, Reader, [Next]_vars
    PROVE  Reader'
<1>1. ASSUME UNCHANGED <<events, checkpoint, consumed>>,
             \A t \in Slots : Ready(t)' => tx'[t].cursor > 0
      PROVE  Reader'
  BY <1>1 DEF Reader, NoEventSkipped
<1>2. ASSUME NEW t \in Slots, NEW r \in Request, Begin(t, r) PROVE Reader'
  <2>1. ~Ready(t)'
    <3>1. tx'[t] = Busy(r, 0, 0, 0) /\ Busy(r, 0, 0, 0).req = r /\ Busy(r, 0, 0, 0).held = 0
      BY <1>2 DEF Begin, MailInv, Shape, Busy
    <3> QED
      BY <3>1, PlanFacts DEF Ready
  <2>2. \A u \in Slots \ {t} : tx'[u] = tx[u]
    BY <1>2 DEF Begin, MailInv, Shape
  <2>3. \A u \in Slots : Ready(u)' => tx'[u].cursor > 0
    BY <2>1, <2>2 DEF Reader, Ready
  <2> QED
    BY <1>1, <1>2, <2>3 DEF Begin
<1>3. ASSUME NEW t \in Slots, Acquire(t) PROVE Reader'
  <2> DEFINE r == tx[t].req
             lock == NextLock(t)
  <2>1. /\ \A u \in Slots \ {t} : tx'[u] = tx[u]
        /\ UNCHANGED <<events, checkpoint, consumed>>
    BY <1>3 DEF Acquire, MailInv, Shape
  <2>2. Ready(t)' => tx'[t].cursor > 0
    <3>1. r \in Request /\ tx[t].busy /\ tx[t].held \in 0..Len(Plan(r)) /\ sequence \in Nat
          /\ tx[t].held < Len(Plan(r))
      BY <1>3 DEF Acquire, MailInv, Shape, Session
    <3>2. CASE ~Admitted(r, lock)
      <4>1. tx'[t] = Idle
        BY <1>3, <3>2 DEF Acquire, MailInv, Shape
      <4> QED
        BY <4>1 DEF Ready, Idle
    <3>3. CASE Admitted(r, lock)
      <4>1. /\ tx'[t].req = r /\ tx'[t].held = tx[t].held + 1
            /\ lock[1] = "mailbox" => tx'[t].cursor = sequence + 1
        BY <1>3, <3>3 DEF Acquire, MailInv, Shape, Busy
      <4>2. ASSUME Ready(t)' PROVE lock[1] = "mailbox"
        <5>1. lock = MailboxLock(r)
          BY <3>1, <4>1, <4>2, PlanFacts DEF Ready, NextLock
        <5> QED
          BY <5>1 DEF MailboxLock
      <4> QED
        BY <3>1, <4>1, <4>2
    <3> QED
      BY <3>2, <3>3
  <2>3. \A u \in Slots : Ready(u)' => tx'[u].cursor > 0
    BY <2>1, <2>2 DEF Reader, Ready
  <2> QED
    BY <1>1, <2>1, <2>3
<1>4. ASSUME NEW t \in Slots, tx' = [tx EXCEPT ![t] = Idle],
             UNCHANGED <<events, checkpoint, consumed>>
      PROVE  Reader'
  <2>1. \A u \in Slots : Ready(u)' => tx'[u].cursor > 0
    BY <1>4 DEF MailInv, Shape, Reader, Ready, Idle
  <2> QED
    BY <1>1, <1>4, <2>1
<1>5. ASSUME NEW t \in Slots, Commit(t) PROVE Reader'
  BY <1>4, <1>5, CommitReader DEF Commit, Ready, WriteBlock
<1>6. ASSUME NEW t \in Slots, Rollback(t) PROVE Reader'
  BY <1>4, <1>6 DEF Rollback
<1>7. CASE UNCHANGED vars
  BY <1>1, <1>7 DEF vars, Reader, Ready
<1> QED
  BY <1>2, <1>3, <1>5, <1>6, <1>7, ListStep DEF Next

\* A reader that only remembers a cursor is given every event of its mailbox up
\* to it, whatever the page size and however the commits interleave
\* (listMailboxEvents).
THEOREM NothingIsSkipped == Spec => []NoEventSkipped
<1>1. Init => MailInv /\ Reader
  <2>1. Init => Reader
    BY DEF Init, Reader, Ready, Idle, NoEventSkipped
  <2> QED
    BY <2>1, MailInit
<1>2. MailInv /\ Reader /\ [Next]_vars => (MailInv /\ Reader)'
  BY MailStep, ReaderStep
<1>3. Reader => NoEventSkipped
  BY DEF Reader
<1> QED
  BY <1>1, <1>2, <1>3, PTL DEF Spec

-----------------------------------------------------------------------------
(* A thread is one history *)

Stored ==
    /\ threads \in [Threads -> [status : ThreadStatus, key : Keys \cup {NoKey}]]
    /\ messages \in Seq(Message)

\* What the status of a thread says about its events.
Story ==
    \A th \in Threads :
        /\ threads[th].status = "none" => \A i \in DOMAIN events : events[i].thread # th
        /\ threads[th].status = "pending" =>
              \A i \in DOMAIN events : events[i].thread = th =>
                 events[i].kind \in {"thread.created", "message.appended"}
        /\ threads[th].status = "accepted" =>
              /\ \A i \in DOMAIN events : events[i].thread = th =>
                    events[i].kind \in {"thread.created", "message.appended", "thread.accepted"}
              /\ \E i \in DOMAIN events :
                    events[i].thread = th /\ events[i].kind = "thread.accepted"

KeysOnce ==
    /\ \A x, y \in Threads : threads[x].key = threads[y].key /\ threads[x].key # NoKey => x = y
    /\ \A i, j \in DOMAIN messages :
          messages[i].key = messages[j].key /\ messages[i].key # NoKey => i = j

Count(th) == Cardinality({j \in DOMAIN messages : messages[j].thread = th})

Numbered ==
    /\ DenseSequence
    /\ \A th \in Threads : Count(th) # 0 =>
          \E i \in DOMAIN messages : messages[i].thread = th /\ messages[i].seq = Count(th)
    /\ \A i \in DOMAIN messages : threads[messages[i].thread].status # "none"

\* What a session has found under the locks it holds is still so.
AtSession(t) ==
    LET r == tx[t].req IN
    tx[t].busy =>
        /\ r.op = "create" => threads[r.thread].status = "none"
        /\ r.op = "create" /\ r.key # NoKey /\ KeyLock(r) \in Holds(t) =>
              \A th \in Threads : threads[th].key # r.key
        /\ r.op \in ThreadOp \ {"create"} /\ ThreadLock(r) \in Holds(t) =>
              threads[r.thread].status \in AllowedFrom(r.op)
        /\ r.op = "append" /\ r.key # NoKey /\ ThreadLock(r) \in Holds(t) =>
              \A i \in DOMAIN messages : messages[i].key # r.key
        /\ r.op = "append" /\ SequenceLock(r) \in Holds(t) => tx[t].seq = Count(r.thread) + 1

Creates(t) == tx[t].busy /\ tx[t].req.op = "create"

\* A new thread has a fresh id.
Alone ==
    \A t, u \in Slots :
        t # u /\ Creates(t) /\ Creates(u) => tx[t].req.thread # tx[u].req.thread

History ==
    /\ Stored /\ Story /\ Lifecycle /\ KeysOnce /\ Numbered /\ Alone
    /\ \A t \in Slots : AtSession(t)

\* What holding one lock says about the others.
LEMMA HeldLocks ==
    ASSUME Shape, NEW t \in Slots, tx[t].busy
    PROVE  LET r == tx[t].req IN
           /\ r.op = "append" /\ SequenceLock(r) \in Holds(t) => ThreadLock(r) \in Holds(t)
           /\ r.op = "append" /\ r.key # NoKey /\ ThreadLock(r) \in Holds(t) =>
                 KeyLock(r) \in Holds(t)
           /\ Ready(t) => /\ r.op # "create" => ThreadLock(r) \in Holds(t)
                          /\ r.op = "create" /\ r.key # NoKey => KeyLock(r) \in Holds(t)
                          /\ r.op = "append" => SequenceLock(r) \in Holds(t)
<1> DEFINE r == tx[t].req
           P == Plan(r)
           n == tx[t].held
<1>1. r \in Request /\ n \in 0..Len(P) /\ Holds(t) = {P[i] : i \in 1..n}
  BY DEF Shape, Session, Holds
<1>2. /\ KeyLock(r)[1] = "key" /\ ThreadLock(r)[1] = "thread" /\ PairLock(r)[1] = "pair"
      /\ SequenceLock(r)[1] = "sequence" /\ MailboxLock(r)[1] = "mailbox"
  BY DEF KeyLock, ThreadLock, PairLock, SequenceLock, MailboxLock
<1>3. CASE r.op = "append" /\ r.key = NoKey
  <2>1. P = <<ThreadLock(r), PairLock(r), SequenceLock(r), MailboxLock(r)>>
    BY <1>3 DEF Plan
  <2>2. Len(P) = 4 /\ P[1] = ThreadLock(r) /\ P[2] = PairLock(r) /\ P[3] = SequenceLock(r)
        /\ P[4] = MailboxLock(r)
    BY <2>1
  <2> HIDE DEF P, n
  <2>3. SequenceLock(r) \in Holds(t) => n >= 3
    BY <1>1, <1>2, <2>2
  <2>4. n >= 3 => ThreadLock(r) \in Holds(t) /\ SequenceLock(r) \in Holds(t)
    BY <1>1, <2>2
  <2>5. Ready(t) => n = 4
    BY <2>2 DEF Ready, P, n
  <2> QED
    BY <1>3, <2>3, <2>4, <2>5
<1>4. CASE r.op = "append" /\ r.key # NoKey
  <2>1. P = <<KeyLock(r), ThreadLock(r), PairLock(r), SequenceLock(r), MailboxLock(r)>>
    BY <1>4 DEF Plan
  <2>2. Len(P) = 5 /\ P[1] = KeyLock(r) /\ P[2] = ThreadLock(r) /\ P[3] = PairLock(r)
        /\ P[4] = SequenceLock(r) /\ P[5] = MailboxLock(r)
    BY <2>1
  <2> HIDE DEF P, n
  <2>3. /\ SequenceLock(r) \in Holds(t) => n >= 4
        /\ ThreadLock(r) \in Holds(t) => n >= 2
    BY <1>1, <1>2, <2>2
  <2>4. /\ n >= 4 => ThreadLock(r) \in Holds(t) /\ SequenceLock(r) \in Holds(t)
        /\ n >= 2 => KeyLock(r) \in Holds(t)
    BY <1>1, <2>2
  <2>5. Ready(t) => n = 5
    BY <2>2 DEF Ready, P, n
  <2> QED
    BY <1>4, <2>3, <2>4, <2>5
<1>5. CASE r.op = "create"
  <2>1. r.key # NoKey => P[1] = KeyLock(r)
    BY <1>5 DEF Plan
  <2>2. Ready(t) => 1 \in 1..n
    <3>1. Len(P) \in 1..5
      BY <1>1, PlanFacts
    <3>2. Ready(t) => n = Len(P)
      BY DEF Ready
    <3> HIDE DEF P, n
    <3> QED
      BY <3>1, <3>2
  <2> HIDE DEF P, n
  <2> QED
    BY <1>1, <1>5, <2>1, <2>2
<1>6. CASE r.op \in {"accept", "complete", "cancel"}
  <2>1. P[1] = ThreadLock(r)
    BY <1>6 DEF Plan
  <2>2. Ready(t) => 1 \in 1..n
    <3>1. Len(P) \in 1..5
      BY <1>1, PlanFacts
    <3>2. Ready(t) => n = Len(P)
      BY DEF Ready
    <3> HIDE DEF P, n
    <3> QED
      BY <3>1, <3>2
  <2> HIDE DEF P, n
  <2> QED
    BY <1>1, <1>6, <2>1, <2>2
<1>7. CASE r.op \notin ThreadOp
  BY <1>7 DEF Ready, ThreadOp
<1> QED
  BY <1>3, <1>4, <1>5, <1>6, <1>7 DEF ThreadOp

\* Messages are counted.
LEMMA Counts ==
    ASSUME Stored, NEW th
    PROVE  /\ Count(th) \in Nat /\ Count(th) <= Len(messages) /\ Len(messages) \in Nat
           /\ IsFiniteSet({j \in DOMAIN messages : messages[j].thread = th})
           /\ Count(th) = 0 <=> \A j \in DOMAIN messages : messages[j].thread # th
<1> DEFINE S == {j \in DOMAIN messages : messages[j].thread = th}
<1>1. DOMAIN messages = 1..Len(messages) /\ Len(messages) \in Nat
  BY DEF Stored
<1>2. IsFiniteSet(1..Len(messages)) /\ Cardinality(1..Len(messages)) = Len(messages)
  <2> DEFINE n == Len(messages)
  <2>1. n \in Nat
    BY <1>1
  <2> HIDE DEF n
  <2>2. IsFiniteSet(1..n) /\ Cardinality(1..n) = IF 1 > n THEN 0 ELSE n - 1 + 1
    BY <2>1, FS_Interval
  <2>3. Cardinality(1..n) = n
    BY <2>1, <2>2
  <2> QED
    BY <2>2, <2>3 DEF n
<1>3. S \subseteq 1..Len(messages)
  BY <1>1
<1>4. IsFiniteSet(S) /\ Cardinality(S) <= Len(messages)
  BY <1>2, <1>3, FS_Subset
<1>5. Cardinality(S) \in Nat
  BY <1>4, FS_CardinalityType
<1>6. Cardinality(S) = 0 <=> S = {}
  BY <1>4, FS_EmptySet
<1> QED
  BY <1>1, <1>4, <1>5, <1>6 DEF Count

\* nextSequenceNo continues a dense numbering.
LEMMA NextNumber ==
    ASSUME Stored, Numbered, NEW th \in Threads
    PROVE  NextSequenceNo(th) = Count(th) + 1
<1> DEFINE S == {j \in DOMAIN messages : messages[j].thread = th}
           numbers == {messages[i].seq : i \in S}
           Fits(n) == n - 1 \in numbers \cup {0} /\ \A m \in numbers : m < n
<1>1. /\ Count(th) \in Nat /\ Count(th) <= Len(messages) /\ Len(messages) \in Nat
      /\ IsFiniteSet(S) /\ (Count(th) = 0 <=> S = {})
  BY Counts
<1>2. ASSUME NEW i \in S PROVE messages[i].seq \in Nat /\ messages[i].seq <= Count(th)
  <2> DEFINE T == {j \in 1..i : messages[j].thread = messages[i].thread}
  <2>1. messages[i].seq = Cardinality(T) /\ messages[i].thread = th
    BY <1>2 DEF Numbered, DenseSequence
  <2>2. i \in 1..Len(messages) /\ DOMAIN messages = 1..Len(messages)
    BY DEF Stored
  <2>3. T \subseteq S
    BY <1>1, <2>1, <2>2
  <2>4. Cardinality(T) <= Cardinality(S) /\ IsFiniteSet(T)
    BY <1>1, <2>3, FS_Subset
  <2>5. Cardinality(T) \in Nat
    BY <2>4, FS_CardinalityType
  <2> QED
    BY <2>1, <2>4, <2>5 DEF Count
<1>3. \A m \in numbers : m \in Nat /\ m <= Count(th)
  BY <1>2
<1>4. Count(th) # 0 => Count(th) \in numbers
  BY DEF Numbered
<1>5. Count(th) = 0 => numbers = {}
  BY <1>1
<1>6. NextSequenceNo(th) = CHOOSE n \in 1..(Len(messages) + 1) : Fits(n)
  BY DEF NextSequenceNo
<1> HIDE DEF S, numbers
<1>7. Count(th) + 1 \in 1..(Len(messages) + 1) /\ Fits(Count(th) + 1)
  BY <1>1, <1>3, <1>4
<1>8. \A n \in 1..(Len(messages) + 1) : Fits(n) => n = Count(th) + 1
  <2> SUFFICES ASSUME NEW n \in 1..(Len(messages) + 1), Fits(n) PROVE n = Count(th) + 1
    OBVIOUS
  <2>1. CASE Count(th) = 0
    BY <1>1, <1>5, <2>1
  <2>2. CASE Count(th) # 0
    <3>1. Count(th) < n /\ n - 1 <= Count(th)
      BY <1>1, <1>3, <1>4, <2>2
    <3> QED
      BY <1>1, <3>1
  <2> QED
    BY <2>1, <2>2
<1> HIDE DEF Fits
<1> QED
  BY <1>6, <1>7, <1>8

\* Only a session has moved.
LEMMA SessionOnly ==
    ASSUME History, NEW t \in Slots, UNCHANGED <<threads, messages, events>>,
           \A u \in Slots \ {t} : tx'[u] = tx[u] /\ Holds(u)' = Holds(u),
           AtSession(t)',
           \A u \in Slots \ {t} : Creates(t)' /\ Creates(u) =>
                                     tx'[t].req.thread # tx[u].req.thread
    PROVE  History'
<1>1. Stored' /\ Story' /\ Lifecycle' /\ KeysOnce'
  BY DEF History, Stored, Story, Lifecycle, KeysOnce
<1>2. \A th : Count(th)' = Count(th)
  BY DEF Count
<1>3. Numbered'
  BY <1>2 DEF History, Numbered, DenseSequence
<1>4. Alone'
  BY DEF History, Alone, Creates
<1>5. ASSUME NEW u \in Slots \ {t} PROVE AtSession(u)'
  BY <1>2, <1>5 DEF History, AtSession
<1> QED
  BY <1>1, <1>3, <1>4, <1>5 DEF History

LEMMA IdleHistory ==
    ASSUME Shape, Exclusion, History, NEW t \in Slots, tx' = [tx EXCEPT ![t] = Idle],
           UNCHANGED <<threads, messages, events>>
    PROVE  History'
<1>1. Session(Idle) /\ ~Idle.busy
  BY DEF Session, Idle
<1>2. /\ tx'[t] = Idle
      /\ \A u \in Slots \ {t} : tx'[u] = tx[u] /\ Holds(u)' = Holds(u)
  BY <1>1, EmptyStep
<1>3. AtSession(t)' /\ ~Creates(t)'
  BY <1>1, <1>2 DEF AtSession, Creates
<1> QED
  BY <1>2, <1>3, SessionOnly

LEMMA BeginHistory ==
    ASSUME Shape, Exclusion, History, NEW t \in Slots, NEW r \in Request, Begin(t, r)
    PROVE  History'
<1> DEFINE s == Busy(r, 0, 0, 0)
<1>1. s.busy = TRUE /\ s.req = r /\ s.held = 0 /\ s.cursor = 0
  BY DEF Busy
<1>2. tx' = [tx EXCEPT ![t] = s] /\ UNCHANGED <<threads, messages, events>>
  BY DEF Begin
<1>3. r.op = "create" => /\ threads[r.thread].status = "none"
                         /\ \A u \in Slots : ~(Creates(u) /\ tx[u].req.thread = r.thread)
  BY DEF Begin, Creates
<1> HIDE DEF s
<1>4. Session(s)
  <2>1. Len(Plan(r)) \in 1..5
    BY PlanFacts
  <2>2. s.held \in 0..Len(Plan(s.req))
    BY <1>1, <2>1
  <2>3. s.busy \in BOOLEAN
    BY <1>1
  <2>4. s.req \in Request /\ s.cursor \in Nat
    BY <1>1
  <2> QED
    BY <2>2, <2>3, <2>4 DEF Session
<1>5. /\ tx'[t] = s /\ Holds(t)' = {}
      /\ \A u \in Slots \ {t} : tx'[u] = tx[u] /\ Holds(u)' = Holds(u)
  BY <1>1, <1>2, <1>4, EmptyStep
<1>6. AtSession(t)'
  BY <1>1, <1>2, <1>3, <1>5 DEF AtSession
<1>7. \A u \in Slots \ {t} : Creates(t)' /\ Creates(u) => tx'[t].req.thread # tx[u].req.thread
  BY <1>1, <1>3, <1>5 DEF Creates
<1> QED
  BY <1>2, <1>5, <1>6, <1>7, SessionOnly

\* A lock is taken, and what it protects is read.
LEMMA AcquireHistory ==
    ASSUME Shape, Exclusion, History, NEW t \in Slots, Acquire(t)
    PROVE  History'
<1> DEFINE r == tx[t].req
           lock == NextLock(t)
           s == Busy(r, tx[t].held + 1,
                     IF lock[1] = "sequence" THEN NextSequenceNo(r.thread) ELSE tx[t].seq,
                     IF lock[1] = "mailbox" THEN sequence + 1 ELSE tx[t].cursor)
<1>1. /\ tx[t].busy /\ r \in Request /\ tx[t].held \in 0..Len(Plan(r))
      /\ UNCHANGED <<threads, messages, events>>
  BY DEF Acquire, Shape, Session
<1>2. CASE ~Admitted(r, lock)
  <2>1. tx' = [tx EXCEPT ![t] = Idle]
    BY <1>2 DEF Acquire
  <2> QED
    BY <1>1, <2>1, IdleHistory
<1>3. CASE Admitted(r, lock)
  <2>1. tx' = [tx EXCEPT ![t] = s]
    BY <1>3 DEF Acquire
  <2>2. /\ s.busy /\ s.req = r /\ s.held = tx[t].held + 1
        /\ s.seq = IF lock[1] = "sequence" THEN NextSequenceNo(r.thread) ELSE tx[t].seq
    BY DEF Busy
  <2> HIDE DEF s
  <2>3. tx'[t] = s /\ \A u \in Slots \ {t} : tx'[u] = tx[u]
    BY <2>1 DEF Shape
  <2>4. \A u \in Slots \ {t} : Holds(u)' = Holds(u)
    BY <2>3 DEF Holds
  <2>5. Holds(t)' = Holds(t) \cup {lock}
    <3>1. Holds(t)' = {Plan(r)[i] : i \in 1..(tx[t].held + 1)}
      BY <2>2, <2>3 DEF Holds
    <3>2. Holds(t) = {Plan(r)[i] : i \in 1..tx[t].held}
      BY <1>1 DEF Holds
    <3>3. 1..(tx[t].held + 1) = 1..tx[t].held \cup {tx[t].held + 1}
      BY <1>1
    <3> QED
      BY <3>1, <3>2, <3>3 DEF NextLock
  <2>6. AtSession(t)
    BY DEF History
  <2>7. \A th : Count(th)' = Count(th)
    BY <1>1 DEF Count
  <2>8. /\ KeyLock(r) = lock => lock[1] = "key"
        /\ ThreadLock(r) = lock => lock[1] = "thread"
        /\ SequenceLock(r) = lock => lock[1] = "sequence"
    BY DEF KeyLock, ThreadLock, SequenceLock
  <2>9. /\ lock[1] = "key" => (r.op = "create" => ~KeyUsed(r))
        /\ lock[1] = "thread" => ~KeyUsed(r) /\ threads[r.thread].status \in AllowedFrom(r.op)
    BY <1>3 DEF Admitted
  <2>10. /\ r.op = "create" /\ r.key # NoKey /\ ~KeyUsed(r) =>
               \A th \in Threads : threads[th].key # r.key
         /\ r.op = "append" /\ r.key # NoKey /\ ~KeyUsed(r) =>
               \A i \in DOMAIN messages : messages[i].key # r.key
    BY DEF KeyUsed
  <2>11. r.op = "append" => NextSequenceNo(r.thread) = Count(r.thread) + 1
    <3>1. r.op = "append" => r.thread \in Threads
      BY <1>1 DEF Request, ThreadRequest, BlockRequest
    <3> QED
      BY <3>1, NextNumber DEF History
  <2> HIDE DEF lock, r
  <2>12. AtSession(t)'
    <3>1. tx'[t].busy /\ tx'[t].req = r /\ tx[t].req = r /\ tx[t].busy
      BY <1>1, <2>2, <2>3 DEF r
    <3>2. /\ r.op = "create" => threads[r.thread].status = "none"
          /\ r.op = "create" /\ r.key # NoKey /\ KeyLock(r) \in Holds(t)' =>
                \A th \in Threads : threads[th].key # r.key
      BY <2>5, <2>6, <2>8, <2>9, <2>10, <3>1 DEF AtSession
    <3>3. /\ r.op \in ThreadOp \ {"create"} /\ ThreadLock(r) \in Holds(t)' =>
                threads[r.thread].status \in AllowedFrom(r.op)
          /\ r.op = "append" /\ r.key # NoKey /\ ThreadLock(r) \in Holds(t)' =>
                \A i \in DOMAIN messages : messages[i].key # r.key
      BY <2>5, <2>6, <2>8, <2>9, <2>10, <3>1 DEF AtSession
    <3>4. r.op = "append" /\ SequenceLock(r) \in Holds(t)' => tx'[t].seq = Count(r.thread) + 1
      BY <2>2, <2>3, <2>5, <2>6, <2>8, <2>11, <3>1 DEF AtSession
    <3> QED
      BY <1>1, <2>7, <3>1, <3>2, <3>3, <3>4 DEF AtSession
  <2>13. \A u \in Slots \ {t} : Creates(t)' /\ Creates(u) =>
                                   tx'[t].req.thread # tx[u].req.thread
    BY <1>1, <2>2, <2>3 DEF History, Alone, Creates, r
  <2> QED
    BY <1>1, <2>3, <2>4, <2>12, <2>13, SessionOnly
<1> QED
  BY <1>2, <1>3

\* What a session about to commit knows about its thread.
LEMMA ReadyHistory ==
    ASSUME Shape, History, NEW t \in Slots, Ready(t)
    PROVE  LET r == tx[t].req
               th == r.thread
           IN  /\ r \in ThreadRequest /\ th \in Threads /\ tx[t].busy
               /\ r.op = "create" =>
                     /\ threads[th].status = "none" /\ Count(th) = 0
                     /\ r.key # NoKey => \A x \in Threads : threads[x].key # r.key
               /\ r.op # "create" =>
                     /\ ThreadLock(r) \in Holds(t)
                     /\ threads[th].status \in AllowedFrom(r.op)
               /\ r.op = "append" =>
                     /\ tx[t].seq = Count(th) + 1
                     /\ r.key # NoKey => \A i \in DOMAIN messages : messages[i].key # r.key
               /\ r.op \in {"create", "append"} /\ r.key # NoKey => KeyLock(r) \in Holds(t)
<1> DEFINE r == tx[t].req
<1>1. r \in ThreadRequest /\ r.thread \in Threads /\ tx[t].busy /\ r.op \in ThreadOp
  BY ReadyFacts DEF Ready, ThreadRequest
<1>2. AtSession(t)
  BY DEF History
<1>3. /\ r.op = "append" /\ r.key # NoKey /\ ThreadLock(r) \in Holds(t) => KeyLock(r) \in Holds(t)
      /\ r.op # "create" => ThreadLock(r) \in Holds(t)
      /\ r.op = "create" /\ r.key # NoKey => KeyLock(r) \in Holds(t)
      /\ r.op = "append" => SequenceLock(r) \in Holds(t)
  BY <1>1, HeldLocks
<1>4. threads[r.thread].status = "none" => Count(r.thread) = 0
  BY Counts DEF History, Numbered
<1> QED
  BY <1>1, <1>2, <1>3, <1>4 DEF AtSession

\* The thread after the commit.
LEMMA ThreadAfter ==
    ASSUME Stored, NEW t, NEW r \in ThreadRequest, WriteThread(t, r)
    PROVE  /\ threads'[r.thread].status = StatusAfter(r.op, threads[r.thread].status)
           /\ threads'[r.thread].key = IF r.op = "create" THEN r.key ELSE threads[r.thread].key
           /\ \A x \in Threads \ {r.thread} : threads'[x] = threads[x]
           /\ threads' \in [Threads -> [status : ThreadStatus, key : Keys \cup {NoKey}]]
<1> DEFINE th == r.thread
           old == threads[th]
           new == [old EXCEPT !.status = StatusAfter(r.op, @),
                              !.key = IF r.op = "create" THEN r.key ELSE @]
<1>1. th \in Threads /\ r.op \in ThreadOp /\ r.key \in Keys \cup {NoKey}
  BY DEF ThreadRequest
<1>2. old \in [status : ThreadStatus, key : Keys \cup {NoKey}]
  BY <1>1 DEF Stored
<1>3. threads' = [threads EXCEPT ![th] = new]
  BY DEF WriteThread
<1>4. /\ new.status = StatusAfter(r.op, old.status)
      /\ new.key = IF r.op = "create" THEN r.key ELSE old.key
  BY <1>2
<1>5. StatusAfter(r.op, old.status) \in ThreadStatus
  BY <1>1, <1>2 DEF StatusAfter, ThreadStatus, ThreadOp
<1>6. new \in [status : ThreadStatus, key : Keys \cup {NoKey}]
  BY <1>1, <1>2, <1>5
<1> HIDE DEF new
<1> QED
  BY <1>1, <1>3, <1>4, <1>6 DEF Stored

\* The commit adds to one thread's history what its status allows.
LEMMA CommitStory ==
    ASSUME Shape, History, NEW t \in Slots, Ready(t), WriteThread(t, tx[t].req)
    PROVE  Story' /\ Lifecycle'
<1> DEFINE r == tx[t].req
           th == r.thread
           e == [to |-> Target(r), by |-> r.by, thread |-> th,
                 kind |-> EventKind(r.op), cursor |-> tx[t].cursor]
           n == Len(events) + 1
<1>1. /\ r \in ThreadRequest /\ th \in Threads
      /\ r.op = "create" => threads[th].status = "none"
      /\ r.op # "create" => threads[th].status \in AllowedFrom(r.op)
  BY ReadyHistory
<1>2. r.op \in {"create", "append", "accept", "complete", "cancel"}
  BY <1>1 DEF ThreadRequest, ThreadOp
<1>3. /\ threads'[th].status = StatusAfter(r.op, threads[th].status)
      /\ \A x \in Threads \ {th} : threads'[x] = threads[x]
  BY <1>1, ThreadAfter DEF History
<1>4. events' = Append(events, e) /\ events \in Seq(Event)
  BY DEF WriteThread, Shape
<1>5. e.thread = th /\ e.kind = EventKind(r.op)
  OBVIOUS
<1> HIDE DEF e
<1>6. /\ DOMAIN events = 1..Len(events) /\ Len(events) \in Nat /\ DOMAIN events' = 1..n
      /\ \A i \in DOMAIN events : events'[i] = events[i]
      /\ events'[n] = e
  BY <1>4
<1>7. /\ n \in DOMAIN events' /\ DOMAIN events \subseteq DOMAIN events'
      /\ \A i \in DOMAIN events' : i \in DOMAIN events \/ i = n
      /\ \A i \in DOMAIN events : i < n /\ i \in 1..(n - 1)
  BY <1>6
<1> HIDE DEF n
<1>8. /\ r.op = "create" => e.kind = "thread.created" /\ threads'[th].status = "pending"
      /\ r.op = "append" => /\ e.kind = "message.appended"
                            /\ threads'[th].status = threads[th].status
                            /\ threads[th].status \in {"pending", "accepted"}
      /\ r.op = "accept" => /\ e.kind = "thread.accepted" /\ threads'[th].status = "accepted"
                            /\ threads[th].status = "pending"
      /\ r.op = "complete" => /\ e.kind = "thread.completed" /\ threads'[th].status = "completed"
                              /\ threads[th].status = "accepted"
      /\ r.op = "cancel" => /\ e.kind = "thread.cancelled" /\ threads'[th].status = "cancelled"
                            /\ threads[th].status = "pending"
  BY <1>1, <1>3, <1>5 DEF EventKind, StatusAfter, AllowedFrom
<1>9. Story
  BY DEF History
<1>10. Story'
  <2> SUFFICES ASSUME NEW x \in Threads
               PROVE  /\ threads'[x].status = "none" =>
                            \A i \in DOMAIN events' : events'[i].thread # x
                      /\ threads'[x].status = "pending" =>
                            \A i \in DOMAIN events' : events'[i].thread = x =>
                               events'[i].kind \in {"thread.created", "message.appended"}
                      /\ threads'[x].status = "accepted" =>
                            /\ \A i \in DOMAIN events' : events'[i].thread = x =>
                                  events'[i].kind \in {"thread.created", "message.appended",
                                                       "thread.accepted"}
                            /\ \E i \in DOMAIN events' :
                                  events'[i].thread = x /\ events'[i].kind = "thread.accepted"
    BY DEF Story
  <2>1. CASE x # th
    BY <1>3, <1>5, <1>6, <1>7, <1>9, <2>1 DEF Story
  <2>2. CASE x = th /\ r.op = "create"
    BY <1>1, <1>5, <1>6, <1>7, <1>8, <1>9, <2>2 DEF Story
  <2>3. CASE x = th /\ r.op = "append"
    BY <1>1, <1>5, <1>6, <1>7, <1>8, <1>9, <2>3 DEF Story
  <2>4. CASE x = th /\ r.op = "accept"
    BY <1>1, <1>5, <1>6, <1>7, <1>8, <1>9, <2>4 DEF Story
  <2>5. CASE x = th /\ r.op \in {"complete", "cancel"}
    BY <1>8, <2>5
  <2> QED
    BY <1>2, <2>1, <2>2, <2>3, <2>4, <2>5
<1>11. Lifecycle'
  <2> SUFFICES ASSUME NEW i \in DOMAIN events', NEW j \in DOMAIN events', i < j,
                      events'[i].thread = events'[j].thread
               PROVE  /\ events'[j].kind # "thread.created"
                      /\ events'[i].kind \notin {"thread.completed", "thread.cancelled"}
                      /\ events'[j].kind = "thread.completed" =>
                            \E k \in 1..(j - 1) : /\ events'[k].thread = events'[j].thread
                                                  /\ events'[k].kind = "thread.accepted"
                      /\ events'[i].kind = "thread.accepted" =>
                            events'[j].kind \notin {"thread.accepted", "thread.cancelled"}
    BY DEF Lifecycle
  <2>1. i \in DOMAIN events
    BY <1>6, <1>7 DEF n
  <2>2. CASE j \in DOMAIN events
    <3>1. \A k \in 1..(j - 1) : events'[k] = events[k]
      BY <1>6, <2>2
    <3>2. events'[i] = events[i] /\ events'[j] = events[j]
      BY <1>6, <2>1, <2>2
    <3>3. Lifecycle
      BY DEF History
    <3> QED
      BY <2>1, <2>2, <3>1, <3>2, <3>3 DEF Lifecycle
  <2>3. CASE j = n
    <3>1. events'[i] = events[i] /\ events'[j] = e /\ events[i].thread = th
      BY <1>5, <1>6, <2>1, <2>3
    <3>2. r.op # "create"
      BY <1>1, <1>9, <2>1, <3>1 DEF Story
    <3>3. /\ events[i].kind \in {"thread.created", "message.appended", "thread.accepted"}
          /\ threads[th].status = "pending" => events[i].kind # "thread.accepted"
      BY <1>1, <1>2, <1>8, <1>9, <2>1, <3>1, <3>2 DEF Story
    <3>4. r.op = "complete" =>
             \E k \in DOMAIN events : events[k].thread = th /\ events[k].kind = "thread.accepted"
      BY <1>1, <1>8, <1>9 DEF Story
    <3>5. r.op = "complete" =>
             \E k \in 1..(j - 1) : /\ events'[k].thread = events'[j].thread
                                   /\ events'[k].kind = "thread.accepted"
      BY <1>5, <1>6, <1>7, <2>3, <3>1, <3>4
    <3> QED
      BY <1>2, <1>8, <3>1, <3>2, <3>3, <3>5
  <2> QED
    BY <1>7, <2>2, <2>3
<1> QED
  BY <1>10, <1>11

\* The message a commit adds, if any, is the next of its thread.
LEMMA MessageAfter ==
    ASSUME Shape, History, NEW t \in Slots, Ready(t), WriteThread(t, tx[t].req)
    PROVE  LET r == tx[t].req IN
           \/ r.op \notin {"create", "append"} /\ messages' = messages
           \/ /\ r.op \in {"create", "append"}
              /\ \E m \in Message :
                    /\ messages' = Append(messages, m)
                    /\ m.thread = r.thread /\ m.seq = Count(r.thread) + 1
                    /\ m.key = IF r.op = "append" THEN r.key ELSE NoKey
<1> DEFINE r == tx[t].req
           th == r.thread
           first == [thread |-> th, by |-> r.by, seq |-> 1, key |-> NoKey]
           next == [thread |-> th, by |-> r.by, seq |-> tx[t].seq, key |-> r.key]
<1>1. /\ r \in ThreadRequest /\ th \in Threads
      /\ r.op = "create" => Count(th) = 0
      /\ r.op = "append" => tx[t].seq = Count(th) + 1
  BY ReadyHistory
<1>2. r.by \in Agents /\ r.key \in Keys \cup {NoKey} /\ Count(th) \in Nat
  BY <1>1, Counts DEF ThreadRequest, History
<1>3. CASE r.op = "create"
  <2>1. messages' = Append(messages, first)
    BY <1>3 DEF WriteThread
  <2>2. first \in Message
    BY <1>1, <1>2 DEF Message
  <2> QED
    BY <1>1, <1>3, <2>1, <2>2
<1>4. CASE r.op = "append"
  <2>1. messages' = Append(messages, next)
    BY <1>4 DEF WriteThread
  <2>2. next \in Message
    BY <1>1, <1>2, <1>4 DEF Message
  <2> QED
    BY <1>1, <1>4, <2>1, <2>2
<1>5. CASE r.op \notin {"create", "append"}
  <2>1. messages' = messages
    BY <1>5 DEF WriteThread
  <2> QED
    BY <1>5, <2>1
<1> QED
  BY <1>3, <1>4, <1>5

\* One more message of a thread.
LEMMA OneMore ==
    ASSUME Stored, NEW m \in Message, messages' = Append(messages, m)
    PROVE  LET n == Len(messages) + 1 IN
           /\ DOMAIN messages = 1..(n - 1) /\ DOMAIN messages' = 1..n /\ n \in Nat
           /\ messages'[n] = m
           /\ \A i \in DOMAIN messages : messages'[i] = messages[i]
           /\ messages' \in Seq(Message)
           /\ \A x : Count(x)' = IF x = m.thread THEN Count(x) + 1 ELSE Count(x)
<1> DEFINE n == Len(messages) + 1
<1>1. /\ DOMAIN messages = 1..(n - 1) /\ DOMAIN messages' = 1..n /\ n \in Nat
      /\ messages'[n] = m
      /\ \A i \in DOMAIN messages : messages'[i] = messages[i]
      /\ messages' \in Seq(Message)
  BY DEF Stored
<1> HIDE DEF n
<1>2. 1..n = 1..(n - 1) \cup {n} /\ n \notin 1..(n - 1)
  BY <1>1
<1>3. ASSUME NEW x PROVE Count(x)' = IF x = m.thread THEN Count(x) + 1 ELSE Count(x)
  <2> DEFINE S == {j \in DOMAIN messages : messages[j].thread = x}
             T == {j \in DOMAIN messages' : messages'[j].thread = x}
  <2>1. IsFiniteSet(S) /\ Count(x) = Cardinality(S) /\ Count(x)' = Cardinality(T)
    BY Counts DEF Count
  <2>2. CASE x = m.thread
    <3>1. T = S \cup {n} /\ n \notin S
      BY <1>1, <1>2, <2>2
    <3> HIDE DEF S, T
    <3>2. Cardinality(S \cup {n}) = Cardinality(S) + 1
      BY <2>1, <3>1, FS_AddElement
    <3> QED
      BY <2>1, <2>2, <3>1, <3>2
  <2>3. CASE x # m.thread
    <3>1. T = S
      BY <1>1, <1>2, <2>3
    <3> QED
      BY <2>1, <2>3, <3>1
  <2> QED
    BY <2>2, <2>3
<1> QED
  BY <1>1, <1>3 DEF n

\* The numbering stays dense.
LEMMA CommitNumbered ==
    ASSUME Shape, History, NEW t \in Slots, Ready(t), WriteThread(t, tx[t].req)
    PROVE  Numbered' /\ Stored'
<1> DEFINE r == tx[t].req
           th == r.thread
<1>1. Stored /\ Numbered
  BY DEF History
<1>2. /\ r \in ThreadRequest /\ th \in Threads
      /\ r.op # "create" => threads[th].status \in AllowedFrom(r.op)
  BY ReadyHistory
<1>3. /\ threads'[th].status = StatusAfter(r.op, threads[th].status)
      /\ \A x \in Threads \ {th} : threads'[x] = threads[x]
      /\ threads' \in [Threads -> [status : ThreadStatus, key : Keys \cup {NoKey}]]
  BY <1>1, <1>2, ThreadAfter
<1>4. threads'[th].status # "none"
  BY <1>2, <1>3 DEF StatusAfter, AllowedFrom, ThreadRequest, ThreadOp
<1>5. \A x \in Threads : threads[x].status # "none" => threads'[x].status # "none"
  BY <1>3, <1>4
<1>6. \A i \in DOMAIN messages : messages[i].thread \in Threads
  <2>1. \A i \in DOMAIN messages : messages[i] \in Message
    BY <1>1 DEF Stored
  <2> QED
    BY <2>1 DEF Message
<1>7. CASE messages' = messages
  <2>1. \A x : Count(x)' = Count(x)
    BY <1>7 DEF Count
  <2>2. DenseSequence'
    BY <1>1, <1>7 DEF Numbered, DenseSequence
  <2>3. \A i \in DOMAIN messages : threads'[messages[i].thread].status # "none"
    BY <1>1, <1>5, <1>6 DEF Numbered
  <2>4. \A x \in Threads : Count(x) # 0 =>
           \E i \in DOMAIN messages : messages[i].thread = x /\ messages[i].seq = Count(x)
    BY <1>1 DEF Numbered
  <2>5. Numbered'
    BY <1>7, <2>1, <2>2, <2>3, <2>4 DEF Numbered
  <2> QED
    BY <1>1, <1>3, <1>7, <2>5 DEF Stored
<1>8. CASE \E m \in Message : /\ messages' = Append(messages, m)
                              /\ m.thread = th /\ m.seq = Count(th) + 1
  <2> DEFINE n == Len(messages) + 1
  <2>1. PICK m \in Message : /\ messages' = Append(messages, m)
                             /\ m.thread = th /\ m.seq = Count(th) + 1
    BY <1>8
  <2>2. /\ DOMAIN messages = 1..(n - 1) /\ DOMAIN messages' = 1..n /\ n \in Nat
        /\ messages'[n] = m
        /\ \A i \in DOMAIN messages : messages'[i] = messages[i]
        /\ messages' \in Seq(Message)
        /\ \A x : Count(x)' = IF x = m.thread THEN Count(x) + 1 ELSE Count(x)
    BY <1>1, <2>1, OneMore
  <2> HIDE DEF n
  <2>3. /\ \A i \in DOMAIN messages' : i \in DOMAIN messages \/ i = n
        /\ n \in DOMAIN messages'
        /\ \A i \in DOMAIN messages : i \in DOMAIN messages'
    <3>1. 1..n = 1..(n - 1) \cup {n}
      BY <1>1, <2>2, Counts DEF n
    <3> QED
      BY <2>2, <3>1
  <2>4. \A i \in DOMAIN messages : \A j \in 1..i : j \in DOMAIN messages
    BY <2>2
  <2>5. DenseSequence'
    <3> SUFFICES ASSUME NEW i \in DOMAIN messages'
                 PROVE  messages'[i].seq =
                           Cardinality({j \in 1..i : messages'[j].thread = messages'[i].thread})
      BY DEF DenseSequence
    <3>1. CASE i \in DOMAIN messages
      <4>1. messages'[i] = messages[i] /\ \A j \in 1..i : messages'[j] = messages[j]
        BY <2>2, <2>4, <3>1
      <4>2. {j \in 1..i : messages'[j].thread = messages'[i].thread}
              = {j \in 1..i : messages[j].thread = messages[i].thread}
        BY <4>1
      <4>3. messages[i].seq = Cardinality({j \in 1..i : messages[j].thread = messages[i].thread})
        BY <1>1, <3>1 DEF Numbered, DenseSequence
      <4> QED
        BY <4>1, <4>2, <4>3
    <3>2. CASE i = n
      <4>1. messages'[n].seq = Count(th) + 1 /\ messages'[n].thread = th
        BY <2>1, <2>2
      <4>2. Cardinality({j \in 1..n : messages'[j].thread = th}) = Count(th) + 1
        <5>1. \A x : Count(x)' = Cardinality({j \in 1..n : messages'[j].thread = x})
          BY <2>2 DEF Count
        <5>2. \A x : x = th => Count(x)' = Count(x) + 1
          BY <2>1, <2>2
        <5> QED
          BY <5>1, <5>2
      <4> QED
        BY <3>2, <4>1, <4>2
    <3> QED
      BY <2>3, <3>1, <3>2
  <2>6. ASSUME NEW x \in Threads, Count(x)' # 0
        PROVE  \E i \in DOMAIN messages' :
                  messages'[i].thread = x /\ messages'[i].seq = Count(x)'
    <3>1. CASE x = th
      BY <2>1, <2>2, <2>3, <3>1
    <3>2. CASE x # th
      <4>1. Count(x)' = Count(x)
        BY <2>1, <2>2, <3>2
      <4>2. PICK i \in DOMAIN messages : messages[i].thread = x /\ messages[i].seq = Count(x)
        BY <1>1, <2>6, <4>1 DEF Numbered
      <4> QED
        BY <2>2, <2>3, <4>1, <4>2
    <3> QED
      BY <3>1, <3>2
  <2>7. ASSUME NEW i \in DOMAIN messages' PROVE threads'[messages'[i].thread].status # "none"
    <3>1. CASE i \in DOMAIN messages
      BY <1>1, <1>5, <1>6, <2>2, <3>1 DEF Numbered
    <3>2. CASE i = n
      BY <1>4, <2>1, <2>2, <3>2
    <3> QED
      BY <2>3, <3>1, <3>2
  <2>8. Numbered'
    BY <2>5, <2>6, <2>7 DEF Numbered
  <2> QED
    BY <1>3, <2>2, <2>8 DEF Stored
<1> QED
  BY <1>7, <1>8, MessageAfter

\* A key commits once.
LEMMA CommitKeys ==
    ASSUME Shape, History, NEW t \in Slots, Ready(t), WriteThread(t, tx[t].req)
    PROVE  KeysOnce'
<1> DEFINE r == tx[t].req
           th == r.thread
<1>1. Stored /\ KeysOnce
  BY DEF History
<1>2. /\ r \in ThreadRequest /\ th \in Threads
      /\ r.op = "create" /\ r.key # NoKey => \A x \in Threads : threads[x].key # r.key
      /\ r.op = "append" /\ r.key # NoKey => \A i \in DOMAIN messages : messages[i].key # r.key
  BY ReadyHistory
<1>3. /\ threads'[th].key = IF r.op = "create" THEN r.key ELSE threads[th].key
      /\ \A x \in Threads \ {th} : threads'[x] = threads[x]
  BY <1>1, <1>2, ThreadAfter
<1>4. ASSUME NEW x \in Threads, NEW y \in Threads,
             threads'[x].key = threads'[y].key, threads'[x].key # NoKey
      PROVE  x = y
  <2>1. CASE r.op = "create"
    BY <1>1, <1>2, <1>3, <1>4, <2>1 DEF KeysOnce
  <2>2. CASE r.op # "create"
    <3>1. \A z \in Threads : threads'[z].key = threads[z].key
      BY <1>3, <2>2
    <3> QED
      BY <1>1, <1>4, <3>1 DEF KeysOnce
  <2> QED
    BY <2>1, <2>2
<1>5. ASSUME NEW i \in DOMAIN messages', NEW j \in DOMAIN messages',
             messages'[i].key = messages'[j].key, messages'[i].key # NoKey
      PROVE  i = j
  <2>1. CASE messages' = messages
    BY <1>1, <1>5, <2>1 DEF KeysOnce
  <2>2. CASE \E m \in Message : /\ messages' = Append(messages, m)
                                /\ m.key = IF r.op = "append" THEN r.key ELSE NoKey
    <3> DEFINE n == Len(messages) + 1
    <3>1. PICK m \in Message : /\ messages' = Append(messages, m)
                               /\ m.key = IF r.op = "append" THEN r.key ELSE NoKey
      BY <2>2
    <3>2. /\ DOMAIN messages = 1..(n - 1) /\ DOMAIN messages' = 1..n /\ n \in Nat
          /\ messages'[n] = m
          /\ \A k \in DOMAIN messages : messages'[k] = messages[k]
      BY <1>1, <3>1, OneMore
    <3> HIDE DEF n
    <3>3. \A k \in DOMAIN messages' : k \in DOMAIN messages \/ k = n
      BY <3>2
    <3>4. \A k \in DOMAIN messages : messages'[k].key # m.key \/ m.key = NoKey
      BY <1>2, <3>1, <3>2
    <3> QED
      BY <1>1, <1>5, <3>2, <3>3, <3>4 DEF KeysOnce
  <2> QED
    BY <2>1, <2>2, MessageAfter
<1> QED
  BY <1>4, <1>5 DEF KeysOnce

\* What another session has found under its locks, the commit does not change.
LEMMA CommitOthers ==
    ASSUME Shape, Exclusion, History, NEW t \in Slots, Ready(t), WriteThread(t, tx[t].req),
           NEW u \in Slots \ {t}, tx'[u] = tx[u], Holds(u)' = Holds(u)
    PROVE  AtSession(u)'
<1> DEFINE r == tx[t].req
           th == r.thread
           q == tx[u].req
<1>1. Stored /\ AtSession(u) /\ AtSession(t) /\ Alone
  BY DEF History
<1>2. /\ r \in ThreadRequest /\ th \in Threads /\ tx[t].busy
      /\ r.op = "create" => threads[th].status = "none"
      /\ r.op # "create" => ThreadLock(r) \in Holds(t) /\ threads[th].status \in AllowedFrom(r.op)
      /\ r.op \in {"create", "append"} /\ r.key # NoKey => KeyLock(r) \in Holds(t)
  BY ReadyHistory
<1>3. /\ threads'[th].key = IF r.op = "create" THEN r.key ELSE threads[th].key
      /\ \A x \in Threads \ {th} : threads'[x] = threads[x]
  BY <1>1, <1>2, ThreadAfter
<1>4. Holds(t) \cap Holds(u) = {}
  BY DEF Exclusion
<1>5. r.op # "create" => threads[th].status # "none"
  BY <1>2 DEF AllowedFrom, ThreadRequest, ThreadOp
<1> SUFFICES ASSUME tx[u].busy PROVE AtSession(u)'
  BY DEF AtSession
<1>6. /\ q \in Request
      /\ q.op \in ThreadOp => q.thread \in Threads
  BY DEF Shape, Session, Request, ThreadRequest, BlockRequest, ThreadOp
<1>7. q.op = "create" => q.thread # th
  <2>1. CASE r.op = "create"
    BY <1>1, <1>2, <2>1 DEF Alone, Creates
  <2>2. CASE r.op # "create"
    BY <1>1, <1>5, <2>2 DEF AtSession
  <2> QED
    BY <2>1, <2>2
<1>8. q.op \in ThreadOp \ {"create"} /\ ThreadLock(q) \in Holds(u) => q.thread # th
  <2>1. CASE r.op = "create"
    <3>1. q.op \in ThreadOp \ {"create"} /\ ThreadLock(q) \in Holds(u) =>
             threads[q.thread].status \in AllowedFrom(q.op)
      BY <1>1 DEF AtSession
    <3>2. q.op \in ThreadOp \ {"create"} => "none" \notin AllowedFrom(q.op)
      BY DEF ThreadOp, AllowedFrom
    <3> QED
      BY <1>2, <2>1, <3>1, <3>2
  <2>2. CASE r.op # "create"
    <3>1. ThreadLock(q) \in Holds(u) => ThreadLock(q) # ThreadLock(r)
      BY <1>2, <1>4, <2>2
    <3> QED
      BY <3>1 DEF ThreadLock
  <2> QED
    BY <2>1, <2>2
<1>9. r.op \in {"create", "append"} /\ r.key # NoKey /\ KeyLock(q) \in Holds(u) => q.key # r.key
  <2>1. r.op \in {"create", "append"} /\ r.key # NoKey /\ KeyLock(q) \in Holds(u) =>
           KeyLock(q) # KeyLock(r)
    BY <1>2, <1>4
  <2> QED
    BY <2>1 DEF KeyLock
<1>10. /\ q.op = "append" /\ SequenceLock(q) \in Holds(u) => ThreadLock(q) \in Holds(u)
       /\ q.op = "append" /\ q.key # NoKey /\ ThreadLock(q) \in Holds(u) => KeyLock(q) \in Holds(u)
  BY HeldLocks
<1>11. \A x : x # th => Count(x)' = Count(x)
  <2>1. CASE messages' = messages
    BY <2>1 DEF Count
  <2>2. CASE \E m \in Message : messages' = Append(messages, m) /\ m.thread = th
    BY <1>1, <2>2, OneMore
  <2> QED
    BY <2>1, <2>2, MessageAfter
<1>12. ASSUME q.op = "append", q.key # NoKey, ThreadLock(q) \in Holds(u)
       PROVE  \A i \in DOMAIN messages' : messages'[i].key # q.key
  <2>1. \A i \in DOMAIN messages : messages[i].key # q.key
    BY <1>1, <1>12 DEF AtSession
  <2>2. CASE messages' = messages
    BY <2>1, <2>2
  <2>3. CASE /\ r.op \in {"create", "append"}
             /\ \E m \in Message : /\ messages' = Append(messages, m)
                                   /\ m.key = IF r.op = "append" THEN r.key ELSE NoKey
    <3> DEFINE n == Len(messages) + 1
    <3>1. PICK m \in Message : /\ messages' = Append(messages, m)
                               /\ m.key = IF r.op = "append" THEN r.key ELSE NoKey
      BY <2>3
    <3>2. /\ DOMAIN messages = 1..(n - 1) /\ DOMAIN messages' = 1..n /\ n \in Nat
          /\ messages'[n] = m
          /\ \A k \in DOMAIN messages : messages'[k] = messages[k]
      BY <1>1, <3>1, OneMore
    <3> HIDE DEF n
    <3>3. \A k \in DOMAIN messages' : k \in DOMAIN messages \/ k = n
      BY <3>2
    <3>4. m.key # q.key
      BY <1>9, <1>10, <1>12, <2>3, <3>1
    <3> QED
      BY <2>1, <3>2, <3>3, <3>4
  <2> QED
    BY <2>2, <2>3, MessageAfter
<1>13. /\ q.op = "create" => threads'[q.thread].status = "none"
       /\ q.op \in ThreadOp \ {"create"} /\ ThreadLock(q) \in Holds(u) =>
             threads'[q.thread].status \in AllowedFrom(q.op)
  BY <1>1, <1>3, <1>6, <1>7, <1>8 DEF AtSession, ThreadOp
<1>14. ASSUME q.op = "create", q.key # NoKey, KeyLock(q) \in Holds(u)
       PROVE  \A x \in Threads : threads'[x].key # q.key
  <2>1. \A x \in Threads : threads[x].key # q.key
    BY <1>1, <1>14 DEF AtSession
  <2> QED
    BY <1>2, <1>3, <1>9, <1>14, <2>1
<1>15. q.op = "append" /\ SequenceLock(q) \in Holds(u) =>
          tx[u].seq = Count(q.thread)' + 1
  <2>1. q.op = "append" /\ SequenceLock(q) \in Holds(u) => q.thread # th
    BY <1>8, <1>10 DEF ThreadOp
  <2> QED
    BY <1>1, <1>11, <2>1 DEF AtSession
<1> QED
  BY <1>12, <1>13, <1>14, <1>15 DEF AtSession

LEMMA CommitHistory ==
    ASSUME Shape, Exclusion, History, NEW t \in Slots, Ready(t), WriteThread(t, tx[t].req),
           tx' = [tx EXCEPT ![t] = Idle]
    PROVE  History'
<1>1. Session(Idle) /\ ~Idle.busy
  BY DEF Session, Idle
<1>2. /\ tx'[t] = Idle
      /\ \A u \in Slots \ {t} : tx'[u] = tx[u] /\ Holds(u)' = Holds(u)
  BY <1>1, EmptyStep
<1>3. AtSession(t)' /\ ~Creates(t)'
  BY <1>1, <1>2 DEF AtSession, Creates
<1>4. \A u \in Slots : AtSession(u)'
  BY <1>2, <1>3, CommitOthers
<1>5. Alone'
  BY <1>2, <1>3 DEF History, Alone, Creates
<1> QED
  BY <1>4, <1>5, CommitStory, CommitNumbered, CommitKeys DEF History

LEMMA HistoryStep ==
    ASSUME MailInv, History, [Next]_vars
    PROVE  History'
<1>1. Shape /\ Exclusion
  BY DEF MailInv
<1>2. ASSUME UNCHANGED <<threads, messages, events, tx>> PROVE History'
  <2>1. \A t \in Slots : Holds(t)' = Holds(t)
    BY <1>2 DEF Holds
  <2>2. \A th : Count(th)' = Count(th)
    BY <1>2 DEF Count
  <2>3. \A t \in Slots : AtSession(t)'
    BY <1>2, <2>1, <2>2 DEF History, AtSession
  <2>4. Stored' /\ Story' /\ Lifecycle' /\ KeysOnce' /\ Alone'
    BY <1>2 DEF History, Stored, Story, Lifecycle, KeysOnce, Alone, Creates
  <2>5. Numbered'
    BY <1>2, <2>2 DEF History, Numbered, DenseSequence
  <2> QED
    BY <2>3, <2>4, <2>5 DEF History
<1>3. ASSUME NEW t \in Slots, Commit(t) PROVE History'
  <2>1. CASE tx[t].req.op \in ThreadOp /\ WriteThread(t, tx[t].req)
    BY <1>1, <1>3, <2>1, CommitHistory DEF Commit, Ready
  <2>2. CASE WriteBlock(tx[t].req)
    BY <1>1, <1>3, <2>2, IdleHistory DEF Commit, WriteBlock
  <2> QED
    BY <1>3, <2>1, <2>2 DEF Commit
<1>4. ASSUME NEW t \in Slots, Rollback(t) PROVE History'
  BY <1>1, <1>4, IdleHistory DEF Rollback
<1>5. ASSUME NEW a \in Agents, ListMailboxEvents(a) PROVE History'
  BY <1>2, <1>5 DEF ListMailboxEvents
<1>6. CASE UNCHANGED vars
  BY <1>2, <1>6 DEF vars
<1> QED
  BY <1>1, <1>3, <1>4, <1>5, <1>6, BeginHistory, AcquireHistory DEF Next

\* At most one element is at most one in number.
LEMMA AtMostOneElement ==
    ASSUME NEW S, \A x, y \in S : x = y
    PROVE  Cardinality(S) <= 1
<1>1. CASE S = {}
  BY <1>1, FS_EmptySet
<1>2. CASE S # {}
  <2>1. PICK x \in S : TRUE
    BY <1>2
  <2>2. S = {x}
    BY <2>1
  <2> QED
    BY <2>2, FS_Singleton
<1> QED
  BY <1>1, <1>2

\* A thread is one history, for any number of sessions (handoff.ts:81, :117,
\* :324): its events follow its lifecycle, a request repeated under one
\* idempotency key commits once and its messages are numbered without gaps.
THEOREM ThreadsAreSound == Spec => []ThreadsSound
<1>1. Init => MailInv /\ History
  <2> SUFFICES ASSUME Init PROVE MailInv /\ History
    OBVIOUS
  <2>1. messages = <<>> /\ events = <<>> /\ DOMAIN messages = {} /\ DOMAIN events = {}
    BY DEF Init
  <2>2. /\ threads = [th \in Threads |-> [status |-> "none", key |-> NoKey]]
        /\ \A t \in Slots : ~tx[t].busy
    BY DEF Init, Idle
  <2>3. Stored
    BY <2>1, <2>2 DEF Stored, ThreadStatus
  <2>4. Story /\ Lifecycle /\ KeysOnce
    BY <2>1, <2>2 DEF Story, Lifecycle, KeysOnce
  <2>5. \A th : Count(th) = 0
    BY <2>1, <2>3, Counts
  <2>6. Numbered
    BY <2>1, <2>5 DEF Numbered, DenseSequence
  <2>7. Alone /\ \A t \in Slots : AtSession(t)
    BY <2>2 DEF Alone, Creates, AtSession
  <2> QED
    BY <2>3, <2>4, <2>6, <2>7, MailInit DEF History
<1>2. MailInv /\ History /\ [Next]_vars => (MailInv /\ History)'
  BY MailStep, HistoryStep
<1>3. History => ThreadsSound
  <2> SUFFICES ASSUME History PROVE ThreadsSound
    OBVIOUS
  <2>1. NoKey \notin Keys
    BY MailboxAssumption
  <2>2. ASSUME NEW k \in Keys
        PROVE  /\ Cardinality({th \in Threads : threads[th].key = k}) <= 1
               /\ Cardinality({i \in DOMAIN messages : messages[i].key = k}) <= 1
    <3>1. \A x, y \in {th \in Threads : threads[th].key = k} : x = y
      BY <2>1 DEF History, KeysOnce
    <3>2. \A x, y \in {i \in DOMAIN messages : messages[i].key = k} : x = y
      BY <2>1 DEF History, KeysOnce
    <3> QED
      BY <3>1, <3>2, AtMostOneElement
  <2> QED
    BY <2>2 DEF History, Numbered, KeysCommitOnce, ThreadsSound
<1> QED
  BY <1>1, <1>2, <1>3, PTL DEF Spec
=============================================================================
