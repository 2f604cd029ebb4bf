---------------------------- MODULE RecipientProofs ----------------------------
(***************************************************************************)
(* Proofs about the two programs of a recipient: its live session          *)
(* (LiveBridge) and its connector with the Relay's wake-up stream          *)
(* (MailboxWatch).                                                         *)
(*                                                                         *)
(* LiveBridge, for every turn limit and every number of messages, errors    *)
(* and restarts: no message is given to the model twice and the turn limit  *)
(* holds, the thread holds one reply per message in the order of the        *)
(* messages, and no save is refused.                                       *)
(*                                                                         *)
(* MailboxWatch, for any number of threads, events and failures and every  *)
(* page size: no event is passed without attention, attention is repeated  *)
(* only for a failure, and no stream slot leaks.  A pickup is saved after  *)
(* it was queued, so what is repeated is the event at the cursor: once it  *)
(* is queued and not saved, one repetition is owed to the failure between. *)
(***************************************************************************)
EXTENDS LiveBridge, MailboxWatch, FiniteSetTheorems, WellFoundedInduction, TLAPS

\* What the proofs need of the types: sequences and keys are numbers.
AnyMessage == [from : {"peer", "local"}, source : Nat, key : Nat]
AnyReceipt == [sequence : Nat, disposition : {"replied", "no_reply"}]
AnyJournal == [lastSequence : Nat, turnsStarted : Nat, phase : Phase,
               sequence : Nat, receipts : Seq(AnyReceipt)]

Shape ==
    /\ thread \in Seq(AnyMessage)
    /\ requests \subseteq [source : Nat, key : Nat]
    /\ journal \in AnyJournal
    /\ pc \in Step
    /\ snapshot \in Nat
    /\ started \in [1..MaxMessages -> Nat]

\* Which journal the process can be at which step with.
Stage ==
    /\ snapshot <= Len(thread)
    /\ pc \in {"read", "scan", "prepared"} => journal.phase = "none"
    /\ pc \in {"start", "turn"} => journal.phase = "running"
    /\ pc \in {"send", "answer"} => journal.phase \in {"reply_ready", "no_reply_ready"}
    /\ pc = "prepared" => /\ Current \in DOMAIN thread
                          /\ thread[Current].from = "peer"
                          /\ journal.turnsStarted < MaxTurns

\* The journal's accounting, and what its pending turn is about.
Accounts ==
    /\ journal.turnsStarted <= MaxTurns
    /\ journal.turnsStarted = Len(journal.receipts)
                              + (IF journal.phase = "none" THEN 0 ELSE 1)
    /\ journal.phase # "none" => /\ journal.sequence = Current
                                 /\ journal.sequence \in DOMAIN thread
                                 /\ thread[journal.sequence].from = "peer"

\* The journal knows every message that was given to the model.
Given ==
    \A s \in 1..MaxMessages :
        /\ started[s] <= 1
        /\ started[s] > 0 =>
              \/ /\ s <= journal.lastSequence
                 /\ \E i \in DOMAIN journal.receipts : journal.receipts[i].sequence = s
              \/ journal.phase # "none" /\ s = journal.sequence
        /\ pc = "start" /\ s = journal.sequence => started[s] = 0

\* A request that the Relay has not seen is the pending turn's.
Outbox ==
    \A r \in requests :
        \/ ~KeyUnused(r.key)
        \/ /\ journal.phase = "reply_ready"
           /\ r.key = journal.turnsStarted
           /\ r.source = journal.sequence

\* A reply in the thread is the pending turn's or to a message before it.
Replied ==
    \A i \in Replies :
        /\ thread[i].source \in DOMAIN thread
        /\ \/ thread[i].source <= journal.lastSequence
           \/ /\ journal.phase = "reply_ready"
              /\ thread[i].key = journal.turnsStarted
              /\ thread[i].source = journal.sequence

LiveInv == Shape /\ Stage /\ Accounts /\ Given /\ Outbox /\ Replied /\ RepliesInOrder

-----------------------------------------------------------------------------
\* The invariant holds of a thread's first message and an empty journal.
LEMMA LiveInit == ASSUME Init PROVE LiveInv
<1>1. PICK side \in {"peer", "local"} :
          thread = <<[from |-> side, source |-> 0, key |-> 0]>>
  BY DEF Init
<1>2. /\ thread \in Seq(AnyMessage)
      /\ Len(thread) = 1
      /\ DOMAIN thread = {1}
      /\ thread[1] = [from |-> side, source |-> 0, key |-> 0]
  BY <1>1 DEF AnyMessage
<1>3. Replies = {}
  BY <1>2 DEF Replies
<1>4. Shape
  BY <1>2, LiveAssumption DEF Init, Shape, AnyJournal, Phase, Step, MaxMessages
<1>5. Stage /\ Accounts /\ Given
  BY <1>2, LiveAssumption DEF Init, Stage, Accounts, Given
<1> QED  BY <1>3, <1>4, <1>5 DEF Init, LiveInv, Outbox, Replied, RepliesInOrder

\* No save of the bridge is refused: liveJournalSchema's accounting is what the
\* process keeps.
LEMMA SavesAreAccepted == ASSUME LiveInv PROVE SavesAccepted
<1> USE DEF LiveInv, Shape, AnyJournal, Accounts, Acceptable
<1>1. ASSUME pc = "answer" PROVE Acceptable(Settled)
  <2>1. journal.phase # "none"
    BY <1>1 DEF Stage
  <2>2. Len(Settled.receipts) = Len(journal.receipts) + 1
    BY DEF Settled, AnyReceipt
  <2> QED  BY <2>1, <2>2 DEF Settled, Current
<1>2. ASSUME pc = "prepared" PROVE Acceptable(Intended)
  BY <1>2, LiveAssumption DEF Stage, Intended, Current
<1>3. ASSUME pc = "turn" PROVE Acceptable([journal EXCEPT !.phase = "reply_ready"])
  BY <1>3 DEF Stage, Current
<1>4. ASSUME pc = "scan" PROVE Acceptable(Passed)
  BY <1>4 DEF Stage, Passed, Current
<1> QED  BY <1>1, <1>2, <1>3, <1>4 DEF SavesAccepted

-----------------------------------------------------------------------------
(* One lemma per kind of step *)

\* A step that leaves the thread, the journal and the model alone.
LEMMA QuietStep ==
    ASSUME LiveInv, UNCHANGED <<thread, journal, started>>,
           requests' \subseteq requests, Shape', Stage', pc' # "start"
    PROVE  LiveInv'
<1>1. Accounts' /\ Given' /\ Replied' /\ RepliesInOrder'
  BY DEF LiveInv, Accounts, Given, Replied, RepliesInOrder, Replies, Current
<1>2. Outbox'
  BY DEF LiveInv, Outbox, KeyUnused
<1> QED  BY <1>1, <1>2 DEF LiveInv

\* The steps of that kind.
LEMMA QuietSteps ==
    ASSUME LiveInv,
           \/ Open \/ Drain \/ Publish \/ Uncertain \/ Read \/ Prepare \/ DrainEnds
           \/ Connect \/ TakeHint \/ Retry \/ Stop \/ Close \/ Expire
           \/ \E r \in Request : Lose(r)
    PROVE  LiveInv'
<1> USE DEF relay, stream
<1>1. UNCHANGED <<thread, journal, started>> /\ requests' \subseteq requests
  BY DEF Open, Drain, Publish, Uncertain, Read, Prepare, DrainEnds, Connect,
         TakeHint, Retry, Stop, Close, Expire, Lose
<1>2. Shape'
  BY <1>1 DEF LiveInv, Shape, Step, Open, Drain, Publish, Uncertain, Read, Prepare,
         DrainEnds, Connect, TakeHint, Retry, Stop, Close, Expire, Lose
<1>3. (Stage' /\ pc' # "start") \/ UNCHANGED <<pc, snapshot>>
  BY <1>1 DEF LiveInv, Shape, AnyJournal, Stage, Current, Step, Open, Drain, Publish,
         Uncertain, Read, Prepare, DrainEnds, Connect, TakeHint, Retry, Stop, Close,
         Expire, Lose
<1>4. CASE UNCHANGED <<pc, snapshot>>
  BY <1>1, <1>2, <1>4 DEF LiveInv, Stage, Accounts, Given, Outbox, Replied,
         RepliesInOrder, Replies, Current, KeyUnused
<1> QED  BY <1>1, <1>2, <1>3, <1>4, QuietStep

\* A reply sent again is the pending turn's.
LEMMA SendStep == ASSUME LiveInv, SendReply PROVE LiveInv'
<1> USE DEF SendReply, stream
<1>1. Shape'
  BY DEF LiveInv, Shape, AnyJournal, Step, PendingKey
<1>2. Stage' /\ Accounts' /\ Given' /\ Replied' /\ RepliesInOrder'
  BY DEF LiveInv, Stage, Accounts, Given, Replied, RepliesInOrder, Replies, Current
<1>3. Outbox'
  BY DEF LiveInv, Outbox, KeyUnused, PendingKey
<1> QED  BY <1>1, <1>2, <1>3 DEF LiveInv

\* The receipt takes the pending turn's place, and its request has arrived.
LEMMA SettleStep == ASSUME LiveInv, Settle PROVE LiveInv'
<1> USE DEF relay, stream
<1>1. /\ journal' = Settled
      /\ pc = "answer"
      /\ pc' \in {"read", "scan"}
      /\ UNCHANGED <<thread, requests, snapshot, started>>
  BY SavesAreAccepted DEF Settle, Save, SavesAccepted
<1> DEFINE rec == [sequence |-> journal.sequence,
                   disposition |-> IF journal.phase = "reply_ready" THEN "replied"
                                   ELSE "no_reply"]
<1>2. /\ journal \in AnyJournal
      /\ journal.receipts \in Seq(AnyReceipt)
      /\ rec \in AnyReceipt
      /\ journal.phase # "none"
      /\ journal.sequence = journal.lastSequence + 1
      /\ journal.lastSequence \in Nat
  BY <1>1 DEF LiveInv, Shape, Stage, Accounts, AnyJournal, AnyReceipt, Current
<1>3. /\ journal'.receipts = Append(journal.receipts, rec)
      /\ journal'.lastSequence = journal.sequence
      /\ journal'.phase = "none"
      /\ journal'.turnsStarted = journal.turnsStarted
      /\ journal' \in AnyJournal
  <2>1. Append(journal.receipts, rec) \in Seq(AnyReceipt)
    BY <1>2
  <2>2. journal' = [journal EXCEPT !.lastSequence = journal.sequence, !.phase = "none",
                                   !.sequence = 0, !.receipts = Append(journal.receipts, rec)]
    BY <1>1 DEF Settled
  <2> HIDE DEF rec
  <2> QED  BY <1>2, <2>1, <2>2 DEF AnyJournal, Phase
<1>4. /\ Len(journal'.receipts) = Len(journal.receipts) + 1
      /\ \A i \in DOMAIN journal.receipts :
             i \in DOMAIN journal'.receipts /\ journal'.receipts[i] = journal.receipts[i]
      /\ Len(journal'.receipts) \in DOMAIN journal'.receipts
      /\ journal'.receipts[Len(journal'.receipts)] = rec
  BY <1>2, <1>3
<1>5. Shape' /\ Stage'
  BY <1>1, <1>3 DEF LiveInv, Shape, Stage, Step
<1>6. Accounts'
  BY <1>1, <1>2, <1>3, <1>4 DEF LiveInv, Accounts
<1>7. Given'
  <2> SUFFICES ASSUME NEW s \in 1..MaxMessages, started[s] > 0
               PROVE  /\ s <= journal'.lastSequence
                      /\ \E i \in DOMAIN journal'.receipts : journal'.receipts[i].sequence = s
    BY <1>1 DEF LiveInv, Given
  <2>1. CASE s = journal.sequence
    BY <1>2, <1>3, <1>4, <2>1
  <2>2. CASE s # journal.sequence
    BY <1>2, <1>3, <1>4, <2>2, LiveAssumption DEF LiveInv, Given, MaxMessages
  <2> QED  BY <2>1, <2>2
<1>8. Outbox'
  <2> SUFFICES ASSUME NEW r \in requests, KeyUnused(r.key) PROVE FALSE
    BY <1>1 DEF Outbox, KeyUnused
  <2> QED  BY DEF LiveInv, Outbox, KeyUnused, Settle, Answered, PendingKey
<1>9. Replied'
  <2> SUFFICES ASSUME NEW i \in Replies
               PROVE  thread[i].source \in DOMAIN thread /\ thread[i].source <= journal.sequence
    BY <1>1, <1>3 DEF Replied, Replies
  <2>1. Answered
    BY DEF Settle
  <2> QED  BY <1>2, <2>1 DEF LiveInv, Shape, AnyMessage, Replied, Replies, Answered
<1>10. RepliesInOrder'
  BY <1>1 DEF LiveInv, RepliesInOrder, Replies
<1> QED  BY <1>5, <1>6, <1>7, <1>8, <1>9, <1>10 DEF LiveInv

\* A message of the local agent was never given to the model.
LEMMA PassStep == ASSUME LiveInv, PassLocal PROVE LiveInv'
<1> USE DEF relay, stream
<1>1. /\ journal' = Passed
      /\ pc = "scan"
      /\ pc' = "scan"
      /\ journal.phase = "none"
      /\ UNCHANGED <<thread, requests, snapshot, started>>
  BY SavesAreAccepted DEF PassLocal, Save, SavesAccepted, LiveInv, Stage
<1>2. /\ journal' \in AnyJournal
      /\ journal'.lastSequence = journal.lastSequence + 1
      /\ journal'.phase = journal.phase
      /\ journal'.turnsStarted = journal.turnsStarted
      /\ journal'.sequence = journal.sequence
      /\ journal'.receipts = journal.receipts
      /\ journal.lastSequence \in Nat
  BY <1>1 DEF LiveInv, Shape, AnyJournal, Passed, Current
<1>3. Shape' /\ Stage' /\ Accounts'
  BY <1>1, <1>2 DEF LiveInv, Shape, Stage, Accounts, Step
<1>4. Given' /\ Outbox'
  BY <1>1, <1>2, LiveAssumption DEF LiveInv, Given, Outbox, KeyUnused, MaxMessages
<1>5. Replied' /\ RepliesInOrder'
  BY <1>1, <1>2 DEF LiveInv, Shape, AnyMessage, Replied, RepliesInOrder, Replies
<1> QED  BY <1>3, <1>4, <1>5 DEF LiveInv

\* The intent is about the next message, which no turn was started for.
LEMMA IntendStep == ASSUME LiveInv, Intend PROVE LiveInv'
<1> USE DEF relay, stream
<1>1. /\ journal' = Intended
      /\ pc = "prepared"
      /\ pc' = "start"
      /\ journal.phase = "none"
      /\ UNCHANGED <<thread, requests, snapshot, started>>
  BY SavesAreAccepted DEF Intend, Save, SavesAccepted, LiveInv, Stage
<1>2. /\ journal' \in AnyJournal
      /\ journal'.lastSequence = journal.lastSequence
      /\ journal'.phase = "running"
      /\ journal'.turnsStarted = journal.turnsStarted + 1
      /\ journal'.sequence = journal.lastSequence + 1
      /\ journal'.receipts = journal.receipts
      /\ journal.lastSequence \in Nat
      /\ journal.turnsStarted \in Nat
  <2>1. /\ journal \in AnyJournal
        /\ journal.lastSequence \in Nat
        /\ journal.turnsStarted \in Nat
    BY DEF LiveInv, Shape, AnyJournal
  <2>2. journal' = [journal EXCEPT !.phase = "running",
                                   !.sequence = journal.lastSequence + 1,
                                   !.turnsStarted = journal.turnsStarted + 1]
    BY <1>1 DEF Intended, Current
  <2>3. journal.lastSequence + 1 \in Nat /\ journal.turnsStarted + 1 \in Nat
    BY <2>1
  <2>4. "running" \in Phase
    BY DEF Phase
  <2> HIDE DEF Phase
  <2> QED  BY <2>1, <2>2, <2>3, <2>4 DEF AnyJournal
<1>3. Shape' /\ Stage'
  BY <1>1, <1>2 DEF LiveInv, Shape, Stage, Step
<1>4. Accounts'
  <2>1. Len(journal.receipts) \in Nat
    BY DEF LiveInv, Shape, AnyJournal
  <2> QED  BY <1>1, <1>2, <2>1, LiveAssumption DEF LiveInv, Stage, Accounts, Current
<1>5. Given'
  BY <1>1, <1>2, LiveAssumption DEF LiveInv, Shape, Given, MaxMessages
<1>6. Outbox' /\ Replied' /\ RepliesInOrder'
  BY <1>1, <1>2 DEF LiveInv, Outbox, KeyUnused, Replied, RepliesInOrder, Replies
<1> QED  BY <1>3, <1>4, <1>5, <1>6 DEF LiveInv

\* The turn starts once for its intent.
LEMMA StartStep == ASSUME LiveInv, StartTurn PROVE LiveInv'
<1> USE DEF relay, stream, StartTurn
<1>1. Shape'
  <2>1. started' \in [1..MaxMessages -> Nat]
    <3>1. started \in [1..MaxMessages -> Nat]
      BY DEF LiveInv, Shape
    <3>2. CASE journal.sequence \in 1..MaxMessages
      BY <3>1, <3>2
    <3>3. CASE journal.sequence \notin 1..MaxMessages
      BY <3>1, <3>3
    <3> QED  BY <3>2, <3>3
  <2> QED  BY <2>1 DEF LiveInv, Shape, Step
<1>2. Stage' /\ Accounts' /\ Outbox' /\ Replied' /\ RepliesInOrder'
  BY DEF LiveInv, Stage, Accounts, Current, Outbox, KeyUnused, Replied,
         RepliesInOrder, Replies
<1>3. journal.phase # "none"
  BY DEF LiveInv, Stage
<1>4. Given'
  BY <1>3 DEF LiveInv, Shape, Given
<1> QED  BY <1>1, <1>2, <1>4 DEF LiveInv

\* The turn's result changes only the phase of the journal.
LEMMA EndStep == ASSUME LiveInv, TurnEnds PROVE LiveInv'
<1> USE DEF relay, stream
<1>1. PICK phase \in {"reply_ready", "no_reply_ready"} :
          Save([journal EXCEPT !.phase = phase], "publish")
  BY DEF TurnEnds
<1>2. /\ pc = "turn"
      /\ pc' \in {"publish", "down"}
      /\ journal.phase = "running"
      /\ UNCHANGED <<thread, requests, snapshot, started>>
  BY <1>1 DEF TurnEnds, Save, LiveInv, Stage
<1>3. /\ journal' \in AnyJournal
      /\ journal'.phase # "none"
      /\ \A f \in {"lastSequence", "turnsStarted", "sequence", "receipts"} :
             journal'[f] = journal[f]
  BY <1>1, <1>2 DEF Save, LiveInv, Shape, AnyJournal, Phase
<1>4. /\ journal'.lastSequence = journal.lastSequence
      /\ journal'.turnsStarted = journal.turnsStarted
      /\ journal'.sequence = journal.sequence
      /\ journal'.receipts = journal.receipts
  BY <1>3
<1>5. Shape' /\ Stage' /\ Accounts' /\ Given'
  BY <1>2, <1>3, <1>4 DEF LiveInv, Shape, Stage, Accounts, Given, Current, Step
<1>6. Outbox' /\ Replied' /\ RepliesInOrder'
  BY <1>2, <1>4 DEF LiveInv, Outbox, KeyUnused, Replied, RepliesInOrder, Replies
<1> QED  BY <1>5, <1>6 DEF LiveInv

-----------------------------------------------------------------------------
(* Messages *)

\* A message is added to the thread's end; a reply has its place there.
LEMMA AppendStep ==
    ASSUME LiveInv, NEW m \in AnyMessage, thread' = Append(thread, m),
           UNCHANGED <<requests, journal, pc, snapshot, started>>,
           m.source # 0 =>
               /\ m.source = journal.sequence
               /\ m.key = journal.turnsStarted
               /\ journal.phase = "reply_ready"
               /\ KeyUnused(m.key)
    PROVE  LiveInv'
<1>1. /\ thread' \in Seq(AnyMessage)
      /\ Len(thread') = Len(thread) + 1
      /\ Len(thread) \in Nat
      /\ DOMAIN thread = 1..Len(thread)
      /\ DOMAIN thread' = 1..(Len(thread) + 1)
      /\ \A i \in DOMAIN thread : i \in DOMAIN thread' /\ thread'[i] = thread[i]
      /\ thread'[Len(thread) + 1] = m
  BY DEF LiveInv, Shape
<1>2. \A i \in Replies' : i \in Replies \/ (i = Len(thread) + 1 /\ m.source # 0)
  BY <1>1 DEF Replies
<1>3. Shape' /\ Stage' /\ Accounts' /\ Given'
  <2>1. Shape' /\ Given'
    BY <1>1 DEF LiveInv, Shape, Given
  <2>2. Stage'
    BY <1>1 DEF LiveInv, Shape, Stage, Current
  <2>3. Accounts'
    BY <1>1 DEF LiveInv, Accounts, Current
  <2> QED  BY <2>1, <2>2, <2>3
<1>4. Outbox'
  BY <1>1 DEF LiveInv, Outbox, KeyUnused
<1>5. Replied'
  <2> SUFFICES ASSUME NEW i \in Replies'
               PROVE  /\ thread'[i].source \in DOMAIN thread'
                      /\ \/ thread'[i].source <= journal.lastSequence
                         \/ /\ journal.phase = "reply_ready"
                            /\ thread'[i].key = journal.turnsStarted
                            /\ thread'[i].source = journal.sequence
    BY DEF Replied
  <2>1. CASE i \in Replies
    BY <1>1, <2>1 DEF LiveInv, Replied, Replies
  <2>2. CASE i = Len(thread) + 1 /\ m.source # 0
    BY <1>1, <2>2 DEF LiveInv, Accounts
  <2> QED  BY <1>2, <2>1, <2>2
<1>6. \A i \in Replies : m.source # 0 => thread[i].source < m.source
  <2> SUFFICES ASSUME NEW i \in Replies, m.source # 0 PROVE thread[i].source < m.source
    OBVIOUS
  <2>1. thread[i].key # journal.turnsStarted
    <3>1. i \in DOMAIN thread /\ KeyUnused(m.key) /\ m.key = journal.turnsStarted
      BY DEF Replies
    <3> QED  BY <3>1 DEF KeyUnused
  <2>2. thread[i].source <= journal.lastSequence
    BY <2>1 DEF LiveInv, Replied
  <2>3. m.source = journal.lastSequence + 1
    BY DEF LiveInv, Accounts, Current
  <2>4. thread[i].source \in Nat /\ journal.lastSequence \in Nat
    <3>1. thread \in Seq(AnyMessage) /\ i \in DOMAIN thread
      BY DEF LiveInv, Shape, Replies
    <3>2. thread[i] \in AnyMessage
      BY <3>1
    <3> QED  BY <3>2 DEF LiveInv, Shape, AnyMessage, AnyJournal
  <2> QED  BY <2>2, <2>3, <2>4
<1>7. RepliesInOrder'
  <2>1. ASSUME NEW i \in Replies', NEW j \in Replies', i < j
        PROVE  thread'[i].source < thread'[j].source
    <3>1. i \in Replies
      BY <1>1, <1>2, <2>1 DEF Replies
    <3>2. CASE j \in Replies
      BY <1>1, <2>1, <3>1, <3>2 DEF LiveInv, RepliesInOrder, Replies
    <3>3. CASE j = Len(thread) + 1 /\ m.source # 0
      BY <1>1, <1>6, <3>1, <3>3 DEF Replies
    <3> QED  BY <1>2, <3>2, <3>3
  <2>2. ASSUME NEW i \in Replies' PROVE thread'[thread'[i].source].from = "peer"
    <3>1. CASE i \in Replies
      BY <1>1, <3>1 DEF LiveInv, Replied, RepliesInOrder, Replies
    <3>2. CASE i = Len(thread) + 1 /\ m.source # 0
      BY <1>1, <3>2 DEF LiveInv, Accounts
    <3> QED  BY <1>2, <3>1, <3>2
  <2> QED  BY <2>1, <2>2 DEF RepliesInOrder
<1> QED  BY <1>3, <1>4, <1>5, <1>7 DEF LiveInv

\* A fresh key is the pending turn's, whatever process sent the request.
LEMMA DeliverStep == ASSUME LiveInv, NEW r \in Request, Deliver(r) PROVE LiveInv'
<1> DEFINE m == [from |-> "local", source |-> r.source, key |-> r.key]
<1>1. m \in AnyMessage
  BY DEF LiveInv, Shape, Deliver, AnyMessage
<1>2. m.source = journal.sequence /\ m.key = journal.turnsStarted /\ journal.phase = "reply_ready"
  BY DEF LiveInv, Outbox, Deliver
<1> QED  BY <1>1, <1>2, AppendStep DEF Deliver, Appended

\* Other messages are no replies.
LEMMA PostStep == ASSUME LiveInv, NEW side \in {"peer", "local"}, Post(side) PROVE LiveInv'
<1> DEFINE m == [from |-> side, source |-> 0, key |-> 0]
<1>1. m \in AnyMessage
  BY DEF AnyMessage
<1> QED  BY <1>1, AppendStep DEF Post, Appended

\* Every step keeps the invariant.
LEMMA LiveStep == ASSUME LiveInv, [Next]_vars PROVE LiveInv'
<1>1. CASE Next
  BY <1>1, QuietSteps, SendStep, SettleStep, PassStep, IntendStep, StartStep, EndStep,
     DeliverStep, PostStep DEF Next, Progress
<1>2. CASE UNCHANGED vars
  BY <1>2 DEF vars, LiveInv, Shape, Stage, Accounts, Given, Outbox, Replied,
     RepliesInOrder, Replies, Current, KeyUnused
<1> QED  BY <1>1, <1>2

\* The journal names at most turnsStarted messages, and no other was given to
\* the model.
LEMMA TurnsAreBounded == ASSUME LiveInv PROVE TurnsOnce
<1> DEFINE n == journal.turnsStarted
           named == [i \in 1..n |-> IF i \in DOMAIN journal.receipts
                                    THEN journal.receipts[i].sequence
                                    ELSE journal.sequence]
           image == {named[i] : i \in 1..n}
           S == {s \in 1..MaxMessages : started[s] > 0}
<1>1. n \in Nat /\ n <= MaxTurns
  BY DEF LiveInv, Shape, AnyJournal, Accounts
<1>2. S \subseteq image
  <2> SUFFICES ASSUME NEW s \in 1..MaxMessages, started[s] > 0
               PROVE  \E i \in 1..n : named[i] = s
    OBVIOUS
  <2>1. /\ DOMAIN journal.receipts = 1..Len(journal.receipts)
        /\ Len(journal.receipts) \in Nat
    BY DEF LiveInv, Shape, AnyJournal
  <2>2. CASE \E i \in DOMAIN journal.receipts : journal.receipts[i].sequence = s
    <3>1. PICK i \in DOMAIN journal.receipts : journal.receipts[i].sequence = s
      BY <2>2
    <3>2. Len(journal.receipts) <= n
      <4>1. \/ n = Len(journal.receipts)
            \/ n = Len(journal.receipts) + 1
        <5>1. n = Len(journal.receipts) + (IF journal.phase = "none" THEN 0 ELSE 1)
          BY DEF LiveInv, Accounts
        <5>2. CASE journal.phase = "none"
          BY <2>1, <5>1, <5>2
        <5>3. CASE journal.phase # "none"
          BY <5>1, <5>3
        <5> QED  BY <5>2, <5>3
      <4> QED  BY <1>1, <2>1, <4>1
    <3>3. i \in 1..n
      BY <1>1, <2>1, <3>1, <3>2
    <3> QED  BY <3>1, <3>3
  <2>3. CASE journal.phase # "none" /\ s = journal.sequence
    <3>1. n \in 1..n /\ n \notin DOMAIN journal.receipts
      BY <1>1, <2>1, <2>3 DEF LiveInv, Accounts
    <3> QED  BY <2>3, <3>1
  <2> QED  BY <2>2, <2>3 DEF LiveInv, Given
<1>3. IsFiniteSet(image) /\ Cardinality(image) <= n
  <2>1. IsFiniteSet(1..n) /\ Cardinality(1..n) = n
    BY <1>1, FS_Interval
  <2>2. named \in Surjection(1..n, image)
    BY DEF Surjection
  <2> HIDE DEF named, image
  <2> QED  BY <1>1, <2>1, <2>2, FS_Surjection
<1>4. Cardinality(S) <= Cardinality(image) /\ Cardinality(S) \in Nat /\ Cardinality(image) \in Nat
  <2> HIDE DEF S, image
  <2> QED  BY <1>2, <1>3, FS_Subset, FS_CardinalityType
<1>5. Cardinality(S) <= MaxTurns
  <2> HIDE DEF S, image, n
  <2> QED  BY <1>1, <1>3, <1>4, LiveAssumption
<1> QED  BY <1>5 DEF TurnsOnce, LiveInv, Given

-----------------------------------------------------------------------------
\* The invariant of the whole session.
LEMMA LiveInvariant == Spec => []LiveInv
<1>1. Init => LiveInv
  BY LiveInit
<1>2. LiveInv /\ [Next]_vars => LiveInv'
  BY LiveStep
<1> QED  BY <1>1, <1>2, PTL DEF Spec

\* runLiveBridge, through any number of crashes, errors and restarts: no
\* message is given to the model twice, and the turn limit of the journal holds.
THEOREM TurnsRunOnce == Spec => []TurnsOnce
<1>1. LiveInv => TurnsOnce
  BY TurnsAreBounded
<1> QED  BY <1>1, LiveInvariant, PTL

\* publishPending: the thread holds at most one reply to a peer message and the
\* replies are in the order of the messages, however requests are repeated,
\* delayed or lost.
THEOREM RepliesAreOrdered == Spec => []RepliesInOrder
<1>1. LiveInv => RepliesInOrder
  BY DEF LiveInv
<1> QED  BY <1>1, LiveInvariant, PTL

\* ownedStore.save: the store accepts every journal the bridge offers it, so a
\* finished turn is never stranded by its own accounting.
THEOREM SavesNeverRefused == Spec => []SavesAccepted
<1>1. LiveInv => SavesAccepted
  BY SavesAreAccepted
<1> QED  BY <1>1, LiveInvariant, PTL

-----------------------------------------------------------------------------
(* Sums over the events of a mailbox (MailboxWatch) *)

\* What an event that was queued q[e] times was queued too often.
Extra(q, e) == IF q[e] > 1 THEN q[e] - 1 ELSE 0

\* The same over sets of events, element by element.
SumStep(q, f, s) == IF s = {} THEN 0
                    ELSE LET x == CHOOSE x \in s : TRUE IN Extra(q, x) + f[s \ {x}]

ExtraSum(q) == CHOOSE f : f = [s \in SUBSET (1 .. MaxEvents) |-> SumStep(q, f, s)]

\* AttentionRepeats is about this sum.
LEMMA RepeatsAre == AttentionRepeats <=> ExtraSum(queued)[1 .. MaxEvents] <= breaks
BY DEF AttentionRepeats, MapThenSumSet, MapThenFoldSet, ExtraSum, SumStep, Extra

\* A set of naturals has a least element.
LEMMA LeastNatural ==
    ASSUME NEW S \in SUBSET Nat, S # {}
    PROVE  \E m \in S : \A n \in S : m <= n
<1>1. \E m \in S : \A n \in S : ~ (<<n, m>> \in OpToRel(<, Nat))
  BY WFMin, NatLessThanWellFounded, Zenon
<1>2. \A m, n \in Nat : n < m => <<n, m>> \in OpToRel(<, Nat)
  BY DEF OpToRel
<1>3. PICK m \in S : \A n \in S : ~ (<<n, m>> \in OpToRel(<, Nat))
  BY <1>1
<1>4. \A n \in S : ~(n < m)
  BY <1>2, <1>3
<1> QED
  BY <1>4

\* The subsets of the events have at most MaxEvents of them, and lose one
\* with an element.
LEMMA EventSets ==
    ASSUME NEW s \in SUBSET (1 .. MaxEvents)
    PROVE  /\ Cardinality(s) \in 0 .. MaxEvents
           /\ \A x \in s : Cardinality(s \ {x}) = Cardinality(s) - 1
<1>1. MaxEvents \in Nat BY WatchAssumption
<1>2. IsFiniteSet(1 .. MaxEvents) /\ Cardinality(1 .. MaxEvents) = MaxEvents
  BY <1>1, FS_Interval
<1>3. IsFiniteSet(s) /\ Cardinality(s) \in Nat /\ Cardinality(s) <= MaxEvents
  BY <1>2, FS_Subset, FS_CardinalityType
<1>4. \A x \in s : Cardinality(s \ {x}) = Cardinality(s) - 1
  BY <1>3, FS_RemoveElement
<1> QED BY <1>1, <1>3, <1>4

\* Induction over sets of events.
LEMMA EventSetInduction ==
    ASSUME NEW T, {} \in T,
           \A s \in SUBSET (1 .. MaxEvents) : s # {} /\ (\A x \in s : s \ {x} \in T) => s \in T
    PROVE  SUBSET (1 .. MaxEvents) \subseteq T
<1> DEFINE Missing == {Cardinality(s) : s \in {u \in SUBSET (1 .. MaxEvents) : u \notin T}}
<1> SUFFICES ASSUME Missing # {} PROVE FALSE OBVIOUS
<1>1. Missing \in SUBSET Nat BY EventSets
<1>2. PICK m \in Missing : \A n \in Missing : m <= n BY <1>1, LeastNatural
<1>3. PICK s \in SUBSET (1 .. MaxEvents) : s \notin T /\ m = Cardinality(s) BY <1>2
<1>4. PICK x \in s : s \ {x} \notin T BY <1>3
<1>5. s \ {x} \in SUBSET (1 .. MaxEvents) OBVIOUS
<1>6. Cardinality(s \ {x}) \in Missing BY <1>4, <1>5
<1>7. Cardinality(s \ {x}) = m - 1 /\ m \in Nat BY <1>1, <1>3, EventSets
<1>8. m <= m - 1 BY <1>2, <1>6, <1>7
<1> QED BY <1>7, <1>8

\* The sum is well defined: a function that is right on the sets of n events
\* makes one that is right on those of n + 1.
LEMMA SumExists ==
    ASSUME NEW q
    PROVE  \E f : f = [s \in SUBSET (1 .. MaxEvents) |-> SumStep(q, f, s)]
<1> DEFINE Sets == SUBSET (1 .. MaxEvents)
           Right(f, n) == \A s \in Sets : Cardinality(s) <= n => f[s] = SumStep(q, f, s)
           Next_(f) == [s \in Sets |-> SumStep(q, f, s)]
           Wrong == {n \in Nat : ~ \E f : f = [s \in Sets |-> f[s]] /\ Right(f, n)}
<1>1. 0 \notin Wrong
  <2> DEFINE z == [s \in Sets |-> 0]
  <2>1. \A s \in Sets : Cardinality(s) <= 0 => s = {}
    <3> SUFFICES ASSUME NEW s \in Sets, Cardinality(s) <= 0, NEW x \in s PROVE FALSE OBVIOUS
    <3>1. Cardinality(s \ {x}) = Cardinality(s) - 1 BY EventSets
    <3>2. s \ {x} \in Sets OBVIOUS
    <3>3. Cardinality(s \ {x}) \in 0 .. MaxEvents BY <3>2, EventSets
    <3>4. Cardinality(s) \in 0 .. MaxEvents BY EventSets
    <3> QED BY <3>1, <3>3, <3>4, WatchAssumption
  <2>2. Right(z, 0) BY <2>1 DEF SumStep
  <2> QED BY <2>2
<1>2. \A n \in Nat : n \notin Wrong => n + 1 \notin Wrong
  <2> TAKE n \in Nat
  <2> HAVE n \notin Wrong
  <2>1. PICK f : f = [s \in Sets |-> f[s]] /\ Right(f, n) OBVIOUS
  <2>2. \A s \in Sets : Cardinality(s) <= n + 1 => SumStep(q, f, s) = SumStep(q, Next_(f), s)
    <3> SUFFICES ASSUME NEW s \in Sets, Cardinality(s) <= n + 1
                 PROVE  SumStep(q, f, s) = SumStep(q, Next_(f), s)
      OBVIOUS
    <3>1. CASE s = {} BY <3>1 DEF SumStep
    <3>2. CASE s # {}
      <4> DEFINE x == CHOOSE x \in s : TRUE
      <4>1. x \in s BY <3>2
      <4>2. s \ {x} \in Sets OBVIOUS
      <4>3. Cardinality(s \ {x}) = Cardinality(s) - 1 /\ Cardinality(s) \in 0 .. MaxEvents
        BY <4>1, EventSets
      <4>4. Cardinality(s \ {x}) <= n BY <4>3, WatchAssumption
      <4>5. f[s \ {x}] = Next_(f)[s \ {x}] BY <2>1, <4>2, <4>4
      <4> HIDE DEF Next_
      <4> QED BY <3>2, <4>5 DEF SumStep
    <3> QED BY <3>1, <3>2
  <2>3. \A s \in Sets : Next_(f)[s] = SumStep(q, f, s) OBVIOUS
  <2>4. Next_(f) = [s \in Sets |-> Next_(f)[s]] OBVIOUS
  <2> HIDE DEF Next_
  <2>5. Right(Next_(f), n + 1) BY <2>2, <2>3
  <2> HIDE DEF Right
  <2> QED BY <2>4, <2>5
<1> HIDE DEF Wrong
<1>3. \A n \in Nat : n \notin Wrong
  <2> SUFFICES ASSUME Wrong # {} PROVE FALSE OBVIOUS
  <2>1. Wrong \in SUBSET Nat BY DEF Wrong
  <2>2. PICK m \in Wrong : \A n \in Wrong : m <= n BY <2>1, LeastNatural
  <2>3. m \in Nat /\ m # 0 BY <1>1, <2>1
  <2>4. m - 1 \in Nat /\ (m - 1) + 1 = m /\ ~(m <= m - 1) BY <2>3
  <2> QED BY <1>2, <2>2, <2>4
<1>4. PICK f : f = [s \in Sets |-> f[s]] /\ Right(f, MaxEvents)
  BY <1>3, WatchAssumption DEF Wrong
<1>5. \A s \in Sets : f[s] = SumStep(q, f, s)
  <2> TAKE s \in Sets
  <2>1. Cardinality(s) <= MaxEvents BY EventSets, WatchAssumption
  <2> QED BY <1>4, <2>1
<1>6. f = [s \in Sets |-> SumStep(q, f, s)] BY <1>4, <1>5
<1> QED BY <1>6

\* The sum of no events, and of some.
LEMMA SumIs ==
    ASSUME NEW q, NEW s \in SUBSET (1 .. MaxEvents)
    PROVE  ExtraSum(q)[s] = SumStep(q, ExtraSum(q), s)
<1>1. ExtraSum(q) = [u \in SUBSET (1 .. MaxEvents) |-> SumStep(q, ExtraSum(q), u)]
  BY SumExists, Zenon DEF ExtraSum
<1> QED BY <1>1, Zenon

\* It is 0 for no events; for others an event's part and the rest's sum.
LEMMA SumOf ==
    ASSUME NEW q
    PROVE  /\ ExtraSum(q)[{}] = 0
           /\ \A s \in SUBSET (1 .. MaxEvents) :
                 s # {} => LET x == CHOOSE x \in s : TRUE
                           IN  ExtraSum(q)[s] = Extra(q, x) + ExtraSum(q)[s \ {x}]
<1>1. ExtraSum(q)[{}] = 0
  <2>1. ExtraSum(q)[{}] = SumStep(q, ExtraSum(q), {}) BY SumIs
  <2>2. SumStep(q, ExtraSum(q), {}) = 0 BY Zenon DEF SumStep
  <2> QED BY <2>1, <2>2
<1>2. ASSUME NEW s \in SUBSET (1 .. MaxEvents), s # {}
      PROVE  LET x == CHOOSE x \in s : TRUE
             IN  ExtraSum(q)[s] = Extra(q, x) + ExtraSum(q)[s \ {x}]
  <2>1. ExtraSum(q)[s] = SumStep(q, ExtraSum(q), s) BY SumIs
  <2> QED BY <1>2, <2>1, Zenon DEF SumStep
<1> QED BY <1>1, <1>2, Zenon

\* The sum is a number.
LEMMA SumIsNatural ==
    ASSUME NEW q \in [1 .. MaxEvents -> Nat]
    PROVE  ExtraSum(q)[1 .. MaxEvents] \in Nat
<1> DEFINE Sets == SUBSET (1 .. MaxEvents)
           T == {s \in Sets : ExtraSum(q)[s] \in Nat}
<1>1. {} \in T
  BY SumOf
<1>2. \A s \in Sets : s # {} /\ (\A x \in s : s \ {x} \in T) => s \in T
  <2> SUFFICES ASSUME NEW s \in Sets, s # {}, \A x \in s : s \ {x} \in T PROVE ExtraSum(q)[s] \in Nat
    OBVIOUS
  <2> DEFINE x == CHOOSE x \in s : TRUE
  <2>1. x \in s OBVIOUS
  <2>2. ExtraSum(q)[s] = Extra(q, x) + ExtraSum(q)[s \ {x}] BY SumOf
  <2>3. ExtraSum(q)[s \ {x}] \in Nat BY <2>1
  <2>4. Extra(q, x) \in Nat
    <3>1. q[x] \in Nat BY <2>1
    <3> HIDE DEF x
    <3> QED BY <3>1 DEF Extra
  <2> HIDE DEF x
  <2> QED BY <2>2, <2>3, <2>4
<1> HIDE DEF T
<1>3. Sets \subseteq T BY <1>1, <1>2, EventSetInduction
<1> QED BY <1>3 DEF T

\* Nothing is queued too often at first.
LEMMA SumOfNothing ==
    ExtraSum([e \in 1 .. MaxEvents |-> 0])[1 .. MaxEvents] = 0
<1> DEFINE Sets == SUBSET (1 .. MaxEvents)
           z == [e \in 1 .. MaxEvents |-> 0]
           T == {s \in Sets : ExtraSum(z)[s] = 0}
<1>1. {} \in T
  BY SumOf
<1>2. \A s \in Sets : s # {} /\ (\A x \in s : s \ {x} \in T) => s \in T
  <2> SUFFICES ASSUME NEW s \in Sets, s # {}, \A x \in s : s \ {x} \in T PROVE ExtraSum(z)[s] = 0
    OBVIOUS
  <2> DEFINE x == CHOOSE x \in s : TRUE
  <2>1. x \in s OBVIOUS
  <2>2. ExtraSum(z)[s] = Extra(z, x) + ExtraSum(z)[s \ {x}] BY SumOf
  <2>3. ExtraSum(z)[s \ {x}] = 0 BY <2>1
  <2>4. Extra(z, x) = 0
    <3>1. z[x] = 0 BY <2>1
    <3> QED BY <3>1 DEF Extra
  <2> HIDE DEF x
  <2> QED BY <2>2, <2>3, <2>4
<1> HIDE DEF T
<1>3. Sets \subseteq T BY <1>1, <1>2, EventSetInduction
<1> QED BY <1>3 DEF T

\* One more queueing of an event adds one if the event was queued before.
LEMMA SumGrows ==
    ASSUME NEW q \in [1 .. MaxEvents -> Nat], NEW e \in 1 .. MaxEvents
    PROVE  ExtraSum([q EXCEPT ![e] = @ + 1])[1 .. MaxEvents] =
             ExtraSum(q)[1 .. MaxEvents] + (IF q[e] > 0 THEN 1 ELSE 0)
<1> DEFINE Sets == SUBSET (1 .. MaxEvents)
           r == [q EXCEPT ![e] = @ + 1]
           d(s) == IF e \in s /\ q[e] > 0 THEN 1 ELSE 0
           T == {s \in Sets : ExtraSum(q)[s] \in Nat /\ ExtraSum(r)[s] = ExtraSum(q)[s] + d(s)}
<1>1. {} \in T
  BY SumOf
<1>2. \A s \in Sets : s # {} /\ (\A x \in s : s \ {x} \in T) => s \in T
  <2> SUFFICES ASSUME NEW s \in Sets, s # {}, \A x \in s : s \ {x} \in T PROVE s \in T
    OBVIOUS
  <2> DEFINE x == CHOOSE x \in s : TRUE
  <2>1. x \in s OBVIOUS
  <2>2. ExtraSum(q)[s] = Extra(q, x) + ExtraSum(q)[s \ {x}] BY SumOf
  <2>3. ExtraSum(r)[s] = Extra(r, x) + ExtraSum(r)[s \ {x}] BY SumOf
  <2>4. /\ ExtraSum(q)[s \ {x}] \in Nat
        /\ ExtraSum(r)[s \ {x}] = ExtraSum(q)[s \ {x}] + d(s \ {x})
    BY <2>1
  <2>5. /\ Extra(q, x) \in Nat
        /\ Extra(r, x) = Extra(q, x) + (IF x = e /\ q[e] > 0 THEN 1 ELSE 0)
    <3>1. q[x] \in Nat /\ r[x] = IF x = e THEN q[x] + 1 ELSE q[x] BY <2>1
    <3> HIDE DEF x, r
    <3> QED BY <3>1 DEF Extra
  <2> HIDE DEF x, r
  <2>6. d(s) = (IF x = e /\ q[e] > 0 THEN 1 ELSE 0) + d(s \ {x}) BY <2>1
  <2>7. d(s \ {x}) \in Nat OBVIOUS
  <2> HIDE DEF d
  <2>8. ExtraSum(q)[s] \in Nat /\ ExtraSum(r)[s] = ExtraSum(q)[s] + d(s)
    <3> DEFINE i == IF x = e /\ q[e] > 0 THEN 1 ELSE 0
               a == Extra(q, x)
               b == ExtraSum(q)[s \ {x}]
               c == d(s \ {x})
    <3>1. a \in Nat /\ b \in Nat /\ c \in Nat /\ i \in Nat BY <2>4, <2>5, <2>7
    <3>2. ExtraSum(q)[s] = a + b /\ ExtraSum(r)[s] = (a + i) + (b + c) /\ d(s) = i + c
      BY <2>2, <2>3, <2>4, <2>5, <2>6
    <3> HIDE DEF a, b, c, i
    <3> QED BY <3>1, <3>2
  <2> QED BY <2>8
<1> HIDE DEF T
<1>3. Sets \subseteq T BY <1>1, <1>2, EventSetInduction
<1> QED BY <1>3 DEF T

-----------------------------------------------------------------------------
(* Attention for mailbox events (MailboxWatch) *)

\* The cursor in memory is the saved one, and the page lies behind it.
Positions == /\ cursor = saved.cursor /\ cursor <= Len(log) /\ page.hi <= Len(log)
             /\ task \in {"event", "persist"} => cursor < page.hi

\* The last pickup of a thread is an event of it that was queued.
Picked == \A t \in Threads : saved.pickup[t] # 0 =>
             /\ saved.pickup[t] <= cursor
             /\ log[saved.pickup[t]] = t
             /\ queued[saved.pickup[t]] > 0

\* What is about to be saved as a pickup has been queued.
QueuedFirst == task = "persist" => Thread # Quiet /\ queued[Event] > 0

\* Nothing is queued before its turn.
NotYet == \A e \in 1 .. MaxEvents : e > Event => queued[e] = 0

\* A connector that is to open a stream has none.
Streamless == \/ task \in {"off", "connect", "sleep"}
              \/ task # "stream" /\ back = "connect"
              => feed = "none"

\* The event at the cursor has been queued by an attempt that went wrong: the
\* next attempt repeats it.
Owed == IF Event \in 1 .. MaxEvents /\ task # "persist" /\ queued[Event] > 0 THEN 1 ELSE 0

Paid == ExtraSum(queued)[1 .. MaxEvents] + Owed <= breaks

WatchInv == /\ WatchTypeOK /\ Positions /\ Picked /\ QueuedFirst /\ NotYet
            /\ NoEventLost /\ Paid

\* An event at the cursor is in the log.
LEMMA EventIsLogged ==
    ASSUME WatchInv, task \in {"event", "persist"}
    PROVE  /\ Event \in 1 .. MaxEvents /\ Event \in DOMAIN log /\ Event <= Len(log)
           /\ Event <= page.hi
           /\ Thread \in Threads \cup {Quiet}
<1>1. log \in Seq(Threads \cup {Quiet}) /\ Len(log) \in Nat /\ Len(log) <= MaxEvents
  BY DEF WatchInv, WatchTypeOK
<1>2. MaxEvents \in Nat /\ cursor \in Nat /\ page.hi \in Nat
  BY WatchAssumption DEF WatchInv, WatchTypeOK
<1>3. cursor < page.hi /\ page.hi <= Len(log)
  BY DEF WatchInv, Positions
<1>4. Event \in 1 .. Len(log) /\ Event <= MaxEvents /\ Event <= page.hi
  BY <1>1, <1>2, <1>3 DEF Event
<1> QED BY <1>1, <1>2, <1>4 DEF Thread

\* The initial state.
LEMMA WatchInits == ASSUME WatchInit PROVE WatchInv
<1>1. WatchTypeOK
  <2>1. log \in Seq(Threads \cup {Quiet}) /\ Len(log) = 0 BY DEF WatchInit
  <2>2. wire \in Seq({"ready", "changed", "resync", "heartbeat"}) BY DEF WatchInit
  <2>3. MaxEvents \in Nat /\ MaxBreaks \in Nat BY WatchAssumption
  <2>4. saved \in [cursor : 0 .. MaxEvents, pickup : [Threads -> 0 .. MaxEvents]]
    BY <2>3 DEF WatchInit
  <2>5. page \in [hi : 0 .. MaxEvents, full : BOOLEAN] BY <2>3 DEF WatchInit
  <2>6. /\ queued \in [1 .. MaxEvents -> Nat]
        /\ covered \in [1 .. MaxEvents -> 0 .. MaxEvents]
    BY <2>3 DEF WatchInit
  <2>7. cursor \in 0 .. MaxEvents /\ breaks \in 0 .. MaxBreaks BY <2>3 DEF WatchInit
  <2>8. /\ feed = "none" /\ task = "off" /\ back = "connect" /\ first = TRUE
        /\ notice = FALSE /\ listen = FALSE /\ pending = {} /\ fresh = {}
        /\ active = 0 /\ stale = 0
    BY DEF WatchInit
  <2>9. Len(log) <= MaxEvents BY <2>1, <2>3
  <2> QED BY <2>1, <2>2, <2>4, <2>5, <2>6, <2>7, <2>8, <2>9 DEF WatchTypeOK
<1>2. Positions /\ QueuedFirst /\ NotYet /\ NoEventLost
  BY WatchAssumption DEF WatchInit, Positions, QueuedFirst, NotYet, NoEventLost, Event
<1>3. Picked BY DEF WatchInit, Picked
<1>4. Paid
  <2>1. Owed = 0 BY WatchAssumption DEF WatchInit, Owed, Event
  <2>2. ExtraSum(queued)[1 .. MaxEvents] = 0 BY SumOfNothing, Zenon DEF WatchInit
  <2> QED BY <2>1, <2>2 DEF WatchInit, Paid
<1> QED BY <1>1, <1>2, <1>3, <1>4 DEF WatchInv

\* What goes wrong is counted up to the bound.
LEMMA BreakCounts == ASSUME WatchInv, Break PROVE breaks' \in 0 .. MaxBreaks /\ breaks' = breaks + 1
BY WatchAssumption DEF Break, WatchInv, WatchTypeOK

\* A stream that is left to the Relay is counted as stale.
LEMMA AbandonTyped ==
    ASSUME WatchInv, Abandon
    PROVE  /\ feed' \in {"none", feed} /\ pending' \in {{}, pending} /\ stale' \in Nat
           /\ wire' \in Seq({"ready", "changed", "resync", "heartbeat"})
<1>1. wire' = wire \/ wire' = <<>> BY DEF Abandon, Unsubscribed
<1>2. wire \in Seq({"ready", "changed", "resync", "heartbeat"}) /\ stale \in Nat
  BY DEF WatchInv, WatchTypeOK
<1>e. <<>> \in Seq({"ready", "changed", "resync", "heartbeat"}) OBVIOUS
<1>3. wire' \in Seq({"ready", "changed", "resync", "heartbeat"}) BY <1>1, <1>2, <1>e
<1> QED BY <1>2, <1>3 DEF Abandon, Unsubscribed

\* The log is only appended to.
LogGrows == Len(log) <= Len(log') /\ \A e \in 1 .. Len(log) : log'[e] = log[e]

\* A step that queues and saves nothing keeps the invariant if the connector
\* leaves a pickup unsaved only when something goes wrong.
LEMMA CalmStep ==
    ASSUME WatchInv, WatchTypeOK', LogGrows,
           cursor' = cursor, saved' = saved, queued' = queued, covered' = covered,
           breaks' \in {breaks, breaks + 1}, page'.hi <= Len(log'),
           task' \in {"event", "persist"} => cursor < page'.hi,
           task' = "persist" => task = "persist",
           task = "persist" /\ task' # "persist" => breaks' = breaks + 1
    PROVE  WatchInv'
<1>1. Len(log) \in Nat /\ Len(log') \in Nat /\ cursor \in Nat /\ cursor <= Len(log)
  BY DEF WatchInv, WatchTypeOK, Positions
<1>2. Positions'
  BY <1>1 DEF WatchInv, Positions, LogGrows
<1>3. Picked'
  <2> SUFFICES ASSUME NEW t \in Threads, saved.pickup[t] # 0
               PROVE  log'[saved.pickup[t]] = t
    BY DEF Picked, WatchInv
  <2>1. saved.pickup[t] \in Nat /\ saved.pickup[t] <= cursor /\ log[saved.pickup[t]] = t
    BY DEF WatchInv, WatchTypeOK, Picked
  <2>2. saved.pickup[t] \in 1 .. Len(log) BY <1>1, <2>1
  <2> QED BY <2>1, <2>2 DEF LogGrows
<1>4. QueuedFirst'
  <2> SUFFICES ASSUME task' = "persist" PROVE Thread' # Quiet /\ queued[Event] > 0
    BY DEF QueuedFirst, Event
  <2>1. task = "persist" OBVIOUS
  <2>2. Event \in 1 .. Len(log) BY <1>1, <2>1, EventIsLogged
  <2> QED BY <2>1, <2>2 DEF WatchInv, QueuedFirst, LogGrows, Thread, Event, Quiet
<1>5. NotYet' BY DEF WatchInv, NotYet, Event
<1>6. NoEventLost'
  <2> SUFFICES ASSUME NEW e \in 1 .. saved.cursor, log'[e] # Quiet
               PROVE  \/ queued[e] > 0
                      \/ /\ covered[e] \in 1 .. (e - 1)
                         /\ log'[covered[e]] = log'[e] /\ queued[covered[e]] > 0
    BY DEF NoEventLost, Quiet
  <2>1. saved.cursor = cursor BY DEF WatchInv, Positions
  <2>2. e \in 1 .. Len(log) BY <1>1, <2>1
  <2>3. log'[e] = log[e] BY <2>2 DEF LogGrows
  <2>4. CASE queued[e] > 0 BY <2>4
  <2>5. CASE ~(queued[e] > 0)
    <3>1. covered[e] \in 1 .. (e - 1) /\ log[covered[e]] = log[e] /\ queued[covered[e]] > 0
      BY <2>3, <2>5 DEF WatchInv, NoEventLost
    <3>2. covered[e] \in 1 .. Len(log) BY <3>1, <2>2, <1>1
    <3> QED BY <2>3, <3>1, <3>2 DEF LogGrows
  <2> QED BY <2>4, <2>5
<1>7. Paid'
  <2>1. queued \in [1 .. MaxEvents -> Nat] /\ breaks \in Nat BY DEF WatchInv, WatchTypeOK
  <2>2. ExtraSum(queued)[1 .. MaxEvents] \in Nat BY <2>1, SumIsNatural
  <2>3. ExtraSum(queued)[1 .. MaxEvents] + Owed <= breaks BY DEF WatchInv, Paid
  <2>4. Owed \in {0, 1} /\ Owed' \in {0, 1} BY DEF Owed
  <2>5. Owed' = Owed \/ breaks' = breaks + 1
    <3>1. Event' = Event BY DEF Event
    <3> QED BY <3>1 DEF Owed
  <2>6. ExtraSum(queued')[1 .. MaxEvents] = ExtraSum(queued)[1 .. MaxEvents] OBVIOUS
  <2> HIDE DEF Owed
  <2>7. Paid' <=> ExtraSum(queued)[1 .. MaxEvents] + Owed' <= breaks' BY <2>6, Zenon DEF Paid
  <2>8. \A a, o, p, b, c : /\ a \in Nat /\ b \in Nat /\ o \in {0, 1} /\ p \in {0, 1}
                           /\ a + o <= b /\ c \in {b, b + 1} /\ (p = o \/ c = b + 1)
                           => a + p <= c
    OBVIOUS
  <2> QED BY <2>1, <2>2, <2>3, <2>4, <2>5, <2>7, <2>8
<1> QED BY <1>2, <1>3, <1>4, <1>5, <1>6, <1>7 DEF WatchInv

\* The log does not change, or one event is appended.
LEMMA GrownLog ==
    ASSUME WatchInv, log' = log \/ \E t \in Threads \cup {Quiet} : log' = Append(log, t)
    PROVE  LogGrows
<1>1. log \in Seq(Threads \cup {Quiet}) BY DEF WatchInv, WatchTypeOK
<1> QED BY <1>1 DEF LogGrows

\* Commits and the Relay's signals.
LEMMA SignalSteps ==
    ASSUME WatchInv,
           (\E t \in Threads \cup {Quiet} : Append_(t)) \/ Notify \/ Listen \/ ListenLost
    PROVE  WatchInv'
<1>1. WatchTypeOK'
  <2>1. ASSUME NEW t \in Threads \cup {Quiet}, Append_(t) PROVE WatchTypeOK'
    <3>1. log' \in Seq(Threads \cup {Quiet}) /\ Len(log') = Len(log) + 1 /\ Len(log) \in Nat
      BY <2>1 DEF Append_, WatchInv, WatchTypeOK
    <3>2. Len(log') <= MaxEvents BY <2>1, <3>1, WatchAssumption DEF Append_
    <3> QED BY <2>1, <3>1, <3>2 DEF Append_, WatchInv, WatchTypeOK, conn, disk
  <2>2. CASE Notify BY <2>2 DEF Notify, Wake, WatchInv, WatchTypeOK, conn, disk
  <2>3. CASE Listen BY <2>3 DEF Listen, Wake, WatchInv, WatchTypeOK, conn, disk
  <2>4. CASE ListenLost BY <2>4, BreakCounts DEF ListenLost, WatchInv, WatchTypeOK, conn, disk
  <2> QED BY <2>1, <2>2, <2>3, <2>4
<1>2. /\ UNCHANGED <<task, cursor, page, saved, queued, covered>>
      /\ breaks' \in {breaks, breaks + 1}
      /\ log' = log \/ \E t \in Threads \cup {Quiet} : log' = Append(log, t)
  BY DEF Append_, Notify, Listen, ListenLost, conn, disk, Break
<1>3. LogGrows BY <1>2, GrownLog
<1>4. page.hi <= Len(log') /\ (task \in {"event", "persist"} => cursor < page.hi)
  <2>1. page.hi <= Len(log) /\ page.hi \in Nat /\ log \in Seq(Threads \cup {Quiet})
    BY DEF WatchInv, WatchTypeOK, Positions
  <2>2. log' \in Seq(Threads \cup {Quiet}) BY <1>1 DEF WatchTypeOK
  <2>3. Len(log) \in Nat /\ Len(log') \in Nat BY <2>1, <2>2
  <2> QED BY <1>3, <2>1, <2>3 DEF LogGrows, WatchInv, Positions
<1> QED BY <1>1, <1>2, <1>3, <1>4, CalmStep

\* The Relay's stream.
LEMMA StreamSteps ==
    ASSUME WatchInv,
           WriteReady \/ StreamLoop \/ WriteSignal \/ Heartbeat \/ WriteHeartbeat
             \/ (StreamEnds /\ active' \in Nat) \/ (StaleEnds /\ active' \in Nat) \/ RelayRestarts
    PROVE  WatchInv'
<1>1. WatchTypeOK'
  <2> USE DEF WatchInv, WatchTypeOK, conn, disk
  <2>e. <<>> \in Seq({"ready", "changed", "resync", "heartbeat"}) OBVIOUS
  <2>1. CASE WriteReady BY <2>1 DEF WriteReady
  <2>2. CASE StreamLoop BY <2>2 DEF StreamLoop
  <2>3. CASE WriteSignal BY <2>3 DEF WriteSignal
  <2>4. CASE Heartbeat BY <2>4 DEF Heartbeat
  <2>5. CASE WriteHeartbeat
    <3>1. wire' \in Seq({"ready", "changed", "resync", "heartbeat"}) BY <2>5 DEF WriteHeartbeat
    <3> QED BY <2>5, <3>1 DEF WriteHeartbeat
  <2>6. CASE StreamEnds /\ active' \in Nat BY <2>6, <2>e, BreakCounts DEF StreamEnds, Unsubscribed
  <2>7. CASE StaleEnds /\ active' \in Nat BY <2>7 DEF StaleEnds
  <2>8. CASE RelayRestarts BY <2>8, <2>e, BreakCounts DEF RelayRestarts, Unsubscribed
  <2> QED BY <2>1, <2>2, <2>3, <2>4, <2>5, <2>6, <2>7, <2>8
<1>2. UNCHANGED <<log, task, cursor, page, saved, queued, covered>> /\ breaks' \in {breaks, breaks + 1}
  BY DEF WriteReady, StreamLoop, WriteSignal, Heartbeat, WriteHeartbeat, StreamEnds, StaleEnds,
         RelayRestarts, conn, disk, Break
<1>3. LogGrows BY <1>2, GrownLog
<1>4. page.hi <= Len(log) /\ (task \in {"event", "persist"} => cursor < page.hi)
  BY DEF WatchInv, Positions
<1> QED BY <1>1, <1>2, <1>3, <1>4, CalmStep

\* The connector's steps that process no event.
LEMMA ConnectorSteps ==
    ASSUME WatchInv,
           \/ StartWatch \/ List \/ \E t \in Threads : IntervalEnds(t)
           \/ ConnectStream \/ Receive \/ SeesEnd \/ RetryDrain \/ ConnectorDies
           \/ DrainFails /\ UNCHANGED queued
    PROVE  WatchInv'
<1> USE DEF relaySide
<1>1. cursor \in Nat /\ cursor <= Len(log) /\ cursor = saved.cursor /\ Len(log) \in Nat
      /\ page.hi \in Nat /\ page.hi <= Len(log) /\ Len(log) <= MaxEvents
      /\ log \in Seq(Threads \cup {Quiet})
  BY DEF WatchInv, WatchTypeOK, Positions
<1>2. CASE List
  <2>1. /\ page' \in [hi : 0 .. MaxEvents, full : BOOLEAN]
        /\ page'.hi <= Len(log) /\ cursor <= page'.hi
    BY <1>1, <1>2, WatchAssumption DEF List
  <2>2. task' # "event" \/ cursor < page'.hi
    BY <1>1, <1>2, <2>1 DEF List, Drained, WatchInv, WatchTypeOK
  <2>3. WatchTypeOK'
    BY <1>2, <2>1 DEF List, Drained, WatchInv, WatchTypeOK, disk
  <2>4. task' # "persist" /\ task # "persist"
    BY <1>2 DEF List, Drained, WatchInv, WatchTypeOK
  <2>5. UNCHANGED <<log, cursor, saved, queued, covered, breaks>> BY <1>2 DEF List, disk
  <2>6. LogGrows BY <2>5, GrownLog
  <2> QED BY <1>1, <2>1, <2>2, <2>3, <2>4, <2>5, <2>6, CalmStep
<1>3. CASE ~List
  <2>1. WatchTypeOK'
    <3> USE DEF WatchInv, WatchTypeOK, conn, disk
    <3>e. <<>> \in Seq({"ready", "changed", "resync", "heartbeat"}) OBVIOUS
    <3>1. CASE StartWatch BY <3>1 DEF StartWatch
    <3>2. ASSUME NEW t \in Threads, IntervalEnds(t) PROVE WatchTypeOK' BY <3>2 DEF IntervalEnds
    <3>3. CASE ConnectStream
      <4>1. active' \in Nat BY <3>3 DEF ConnectStream
      <4>2. wire' = wire \/ wire' = <<>> BY <3>3 DEF ConnectStream
      <4>3. wire' \in Seq({"ready", "changed", "resync", "heartbeat"}) BY <4>2, <3>e
      <4> QED BY <3>3, <4>1, <4>3 DEF ConnectStream
    <3>4. CASE Receive BY <3>4 DEF Receive
    <3>5. CASE SeesEnd BY <3>5 DEF SeesEnd
    <3>6. CASE RetryDrain BY <3>6 DEF RetryDrain
    <3>7. CASE ConnectorDies BY <3>7, AbandonTyped, BreakCounts DEF ConnectorDies
    <3>8. CASE DrainFails /\ UNCHANGED queued BY <3>8, AbandonTyped, BreakCounts DEF DrainFails
    <3> QED BY <1>3, <3>1, <3>2, <3>3, <3>4, <3>5, <3>6, <3>7, <3>8
  <2>2. /\ UNCHANGED <<log, cursor, page, saved, queued, covered>>
        /\ breaks' \in {breaks, breaks + 1}
    BY <1>1, <1>3 DEF StartWatch, IntervalEnds, ConnectStream, Receive, SeesEnd, RetryDrain,
                      ConnectorDies, DrainFails, conn, disk, Break
  <2>3. /\ task' \in {"event", "persist"} => task' = task
        /\ task = "persist" /\ task' # "persist" => breaks' = breaks + 1
    BY <1>3 DEF StartWatch, IntervalEnds, ConnectStream, Receive, SeesEnd, RetryDrain,
                ConnectorDies, DrainFails, conn, disk, Break
  <2>4. LogGrows BY <2>2, GrownLog
  <2>5. task \in {"event", "persist"} => cursor < page.hi BY DEF WatchInv, Positions
  <2> QED BY <1>1, <2>1, <2>2, <2>3, <2>4, <2>5, CalmStep
<1> QED BY <1>2, <1>3

\* Persisting an event moves the cursor past it; the rest of its page, or the
\* next page, follows.
LEMMA PersistMoves ==
    ASSUME WatchInv, task \in {"event", "persist"},
           NEW p \in [Threads -> 0 .. MaxEvents], Persist(p), UNCHANGED <<page, log, back>>
    PROVE  /\ cursor' = cursor + 1 /\ cursor' = saved'.cursor /\ cursor' <= Len(log)
           /\ saved' \in [cursor : 0 .. MaxEvents, pickup : [Threads -> 0 .. MaxEvents]]
           /\ saved'.pickup = p /\ cursor' \in 0 .. MaxEvents
           /\ task' = "event" => cursor' < page.hi
           /\ task' \in {"event", "list", "connect", "stream"} /\ first' \in BOOLEAN
<1>1. /\ Event \in 1 .. MaxEvents /\ Event <= Len(log) /\ Event <= page.hi /\ Event = cursor + 1
      /\ MaxEvents \in Nat /\ page.hi \in Nat
  BY EventIsLogged, WatchAssumption DEF Event, WatchInv, WatchTypeOK
<1>2. saved' = [cursor |-> Event, pickup |-> p] /\ cursor' = Event BY DEF Persist
<1>3. /\ task' = "event" => Event < page.hi
      /\ task' \in {"event", "list", "connect", "stream"} /\ first' \in BOOLEAN
  BY DEF Persist, NextEvent, Drained, WatchInv, WatchTypeOK
<1> QED BY <1>1, <1>2, <1>3

\* Nothing is owed for an event that has not been queued.
LEMMA OwedForNew ==
    ASSUME WatchInv, queued' = queued, cursor' = cursor + 1
    PROVE  Owed' = 0
<1>1. Event' = Event + 1 /\ Event \in Nat BY DEF Event, WatchInv, WatchTypeOK
<1>2. Event' \in 1 .. MaxEvents => queued[Event'] = 0
  BY <1>1 DEF WatchInv, NotYet
<1> QED BY <1>2 DEF Owed

\* Nor is it for anything while the cursor moves on.
LEMMA PaidOnward ==
    ASSUME WatchInv, queued' = queued, cursor' = cursor + 1, breaks' = breaks
    PROVE  Paid'
<1>1. Owed' = 0 BY OwedForNew
<1>2. ExtraSum(queued)[1 .. MaxEvents] \in Nat /\ breaks \in Nat
  BY SumIsNatural DEF WatchInv, WatchTypeOK
<1>3. ExtraSum(queued)[1 .. MaxEvents] + Owed <= breaks BY DEF WatchInv, Paid
<1>4. Owed \in {0, 1} BY DEF Owed
<1>5. Paid' <=> ExtraSum(queued)[1 .. MaxEvents] + 0 <= breaks BY <1>1, Zenon DEF Paid
<1> HIDE DEF Owed
<1> QED BY <1>2, <1>3, <1>4, <1>5

\* An event that needs no attention, or has it.
LEMMA SkipStep == ASSUME WatchInv, Skip PROVE WatchInv'
<1>1. task = "event" /\ UNCHANGED <<log, page, back, queued, breaks, fresh>>
  BY DEF Skip, relaySide
<1>2. /\ Event \in 1 .. MaxEvents /\ Event \in DOMAIN log /\ Event = cursor + 1
      /\ Thread \in Threads \cup {Quiet} /\ cursor \in Nat
  BY <1>1, EventIsLogged DEF Event, WatchInv, WatchTypeOK
<1>3. saved.pickup \in [Threads -> 0 .. MaxEvents] /\ Persist(saved.pickup)
  BY DEF Skip, WatchInv, WatchTypeOK
<1>4. /\ cursor' = cursor + 1 /\ cursor' = saved'.cursor /\ cursor' <= Len(log)
      /\ saved' \in [cursor : 0 .. MaxEvents, pickup : [Threads -> 0 .. MaxEvents]]
      /\ saved'.pickup = saved.pickup /\ cursor' \in 0 .. MaxEvents
      /\ task' = "event" => cursor' < page.hi
      /\ task' \in {"event", "list", "connect", "stream"} /\ first' \in BOOLEAN
  BY <1>1, <1>3, PersistMoves
<1>5. /\ \A e \in 1 .. MaxEvents : e # Event => covered'[e] = covered[e]
      /\ covered' \in [1 .. MaxEvents -> 0 .. MaxEvents]
  <2>1. CASE Thread = Quiet BY <2>1 DEF Skip, WatchInv, WatchTypeOK
  <2>2. CASE Thread # Quiet
    <3>1. covered' = [covered EXCEPT ![Event] = saved.pickup[Thread]] BY <2>2 DEF Skip
    <3>2. saved.pickup[Thread] \in 0 .. MaxEvents BY <1>2, <1>3, <2>2
    <3> QED BY <3>1, <3>2 DEF WatchInv, WatchTypeOK
  <2> QED BY <2>1, <2>2
<1>6. Thread # Quiet => /\ covered'[Event] \in 1 .. cursor
                        /\ log[covered'[Event]] = Thread /\ queued[covered'[Event]] > 0
  <2> SUFFICES ASSUME Thread # Quiet
               PROVE  /\ saved.pickup[Thread] \in 1 .. cursor
                      /\ log[saved.pickup[Thread]] = Thread /\ queued[saved.pickup[Thread]] > 0
    BY <1>2 DEF Skip, WatchInv, WatchTypeOK
  <2>1. saved.pickup[Thread] # 0 BY <1>2 DEF Skip, Duplicate, Coalesced
  <2>2. Thread \in Threads /\ saved.pickup[Thread] \in Nat BY <1>2, <1>3
  <2> QED BY <1>2, <2>1, <2>2 DEF WatchInv, Picked
<1>7. WatchTypeOK'
  BY <1>1, <1>4, <1>5 DEF Skip, relaySide, WatchInv, WatchTypeOK
<1>8. Positions' BY <1>1, <1>4 DEF WatchInv, Positions
<1>9. Picked' BY <1>1, <1>2, <1>3, <1>4 DEF WatchInv, WatchTypeOK, Picked
<1>10. QueuedFirst' BY <1>4 DEF QueuedFirst
<1>11. NotYet'
  <2>1. Event' = Event + 1 BY <1>4 DEF Event
  <2> QED BY <1>1, <1>2, <2>1 DEF WatchInv, NotYet
<1>12. NoEventLost'
  <2> SUFFICES ASSUME NEW e \in 1 .. (cursor + 1), log[e] # Quiet
               PROVE  \/ queued[e] > 0
                      \/ /\ covered'[e] \in 1 .. (e - 1)
                         /\ log[covered'[e]] = log[e] /\ queued[covered'[e]] > 0
    BY <1>1, <1>4 DEF NoEventLost
  <2>1. CASE e = Event
    <3>1. log[e] = Thread BY <2>1 DEF Thread
    <3> QED BY <1>2, <1>6, <2>1, <3>1
  <2>2. CASE e # Event
    <3>1. e \in 1 .. cursor /\ e \in 1 .. MaxEvents BY <1>2, <2>2, WatchAssumption
    <3>2. e \in 1 .. saved.cursor BY <3>1 DEF WatchInv, Positions
    <3>3. covered'[e] = covered[e] BY <1>5, <2>2, <3>1
    <3> QED BY <3>2, <3>3 DEF WatchInv, NoEventLost
  <2> QED BY <2>1, <2>2
<1>13. Paid' BY <1>1, <1>4, PaidOnward
<1> QED BY <1>7, <1>8, <1>9, <1>10, <1>11, <1>12, <1>13 DEF WatchInv

\* A pickup is saved after it was queued.
LEMMA PickupStep == ASSUME WatchInv, PersistPickup PROVE WatchInv'
<1>1. task = "persist" /\ UNCHANGED <<log, page, back, queued, covered, breaks>>
  BY DEF PersistPickup, relaySide
<1>2. /\ Event \in 1 .. MaxEvents /\ Event \in DOMAIN log /\ Event = cursor + 1
      /\ Thread \in Threads /\ cursor \in Nat /\ Thread # Quiet /\ queued[Event] > 0
  BY <1>1, EventIsLogged DEF Event, WatchInv, WatchTypeOK, QueuedFirst
<1> DEFINE p == [saved.pickup EXCEPT ![Thread] = Event]
<1>3. /\ saved.pickup \in [Threads -> 0 .. MaxEvents] /\ p \in [Threads -> 0 .. MaxEvents]
      /\ Persist(p)
  <2>1. saved.pickup \in [Threads -> 0 .. MaxEvents] BY DEF WatchInv, WatchTypeOK
  <2>2. Event \in 0 .. MaxEvents BY <1>2, WatchAssumption
  <2> QED BY <2>1, <2>2 DEF PersistPickup
<1>4. /\ cursor' = cursor + 1 /\ cursor' = saved'.cursor /\ cursor' <= Len(log)
      /\ saved' \in [cursor : 0 .. MaxEvents, pickup : [Threads -> 0 .. MaxEvents]]
      /\ saved'.pickup = p /\ cursor' \in 0 .. MaxEvents
      /\ task' = "event" => cursor' < page.hi
      /\ task' \in {"event", "list", "connect", "stream"} /\ first' \in BOOLEAN
  BY <1>1, <1>3, PersistMoves
<1>5. fresh' \subseteq Threads BY <1>2 DEF PersistPickup, WatchInv, WatchTypeOK
<1>6. WatchTypeOK'
  BY <1>1, <1>4, <1>5 DEF PersistPickup, relaySide, WatchInv, WatchTypeOK
<1>7. Positions' BY <1>1, <1>4 DEF WatchInv, Positions
<1>8. Picked'
  <2> SUFFICES ASSUME NEW t \in Threads, p[t] # 0
               PROVE  p[t] <= cursor + 1 /\ log[p[t]] = t /\ queued[p[t]] > 0
    BY <1>1, <1>4, Zenon DEF Picked
  <2>1. CASE t = Thread
    <3>1. p[t] = Event BY <1>3, <2>1
    <3>2. log[Event] = t BY <2>1 DEF Thread
    <3> QED BY <1>2, <3>1, <3>2
  <2>2. CASE t # Thread
    <3>1. p[t] = saved.pickup[t] /\ p[t] \in Nat BY <1>3, <2>2
    <3> QED BY <1>2, <3>1 DEF WatchInv, Picked
  <2> QED BY <2>1, <2>2
<1>9. QueuedFirst' BY <1>4 DEF QueuedFirst
<1>10. NotYet'
  <2>1. Event' = Event + 1 BY <1>4 DEF Event
  <2> QED BY <1>1, <1>2, <2>1 DEF WatchInv, NotYet
<1>11. NoEventLost'
  <2> SUFFICES ASSUME NEW e \in 1 .. (cursor + 1), log[e] # Quiet
               PROVE  \/ queued[e] > 0
                      \/ /\ covered[e] \in 1 .. (e - 1)
                         /\ log[covered[e]] = log[e] /\ queued[covered[e]] > 0
    BY <1>1, <1>4 DEF NoEventLost
  <2>1. CASE e = Event BY <1>2, <2>1
  <2>2. CASE e # Event
    <3>1. e \in 1 .. saved.cursor BY <1>2, <2>2 DEF WatchInv, Positions
    <3> QED BY <3>1 DEF WatchInv, NoEventLost
  <2> QED BY <2>1, <2>2
<1>12. Paid' BY <1>1, <1>4, PaidOnward
<1> QED BY <1>6, <1>7, <1>8, <1>9, <1>10, <1>11, <1>12 DEF WatchInv

\* Queueing the event at the cursor: once for itself, or once more for what
\* was owed or for what goes wrong now.
LEMMA QueueStep ==
    ASSUME WatchInv, WatchTypeOK', task = "event", Wanted,
           queued' = [queued EXCEPT ![Event] = @ + 1],
           UNCHANGED <<log, cursor, page, saved, covered>>,
           \/ task' = "persist" /\ breaks' = breaks
           \/ task' = "sleep" /\ breaks' = breaks + 1
    PROVE  WatchInv'
<1>1. /\ Event \in 1 .. MaxEvents /\ Event' = Event
      /\ queued \in [1 .. MaxEvents -> Nat] /\ breaks \in Nat
  BY EventIsLogged DEF Event, WatchInv, WatchTypeOK
<1>2. /\ \A e \in 1 .. MaxEvents : queued[e] > 0 => queued'[e] > 0
      /\ \A e \in 1 .. MaxEvents : e # Event => queued'[e] = queued[e]
      /\ queued'[Event] = queued[Event] + 1 /\ queued[Event] \in Nat
  BY <1>1
<1>3. MaxEvents \in Nat /\ Len(log) \in Nat /\ Len(log) <= MaxEvents /\ cursor \in Nat
      /\ cursor <= Len(log) /\ cursor = saved.cursor
  BY WatchAssumption DEF WatchInv, WatchTypeOK, Positions
<1>4. Positions' BY DEF WatchInv, Positions
<1>5. Picked'
  <2> SUFFICES ASSUME NEW t \in Threads, saved.pickup[t] # 0
               PROVE  queued'[saved.pickup[t]] > 0
    BY DEF Picked, WatchInv
  <2>1. saved.pickup[t] \in 0 .. MaxEvents BY DEF WatchInv, WatchTypeOK
  <2>2. saved.pickup[t] \in 1 .. MaxEvents BY <1>3, <2>1
  <2>3. queued[saved.pickup[t]] > 0 BY DEF WatchInv, Picked
  <2> QED BY <1>2, <2>2, <2>3
<1>6. QueuedFirst' BY <1>1, <1>2 DEF QueuedFirst, Thread, Wanted, Event
<1>7. NotYet'
  <2>1. \A e \in 1 .. MaxEvents : e > Event => e # Event BY <1>1
  <2> QED BY <1>1, <1>2, <2>1 DEF WatchInv, NotYet
<1>8. NoEventLost'
  <2> SUFFICES ASSUME NEW e \in 1 .. saved.cursor, log[e] # Quiet
               PROVE  \/ queued'[e] > 0
                      \/ /\ covered[e] \in 1 .. (e - 1)
                         /\ log[covered[e]] = log[e] /\ queued'[covered[e]] > 0
    BY DEF NoEventLost
  <2>1. e \in 1 .. MaxEvents BY <1>3
  <2>2. CASE queued[e] > 0 BY <1>2, <2>1, <2>2
  <2>3. CASE ~(queued[e] > 0)
    <3>1. covered[e] \in 1 .. (e - 1) /\ log[covered[e]] = log[e] /\ queued[covered[e]] > 0
      BY <2>3 DEF WatchInv, NoEventLost
    <3>2. covered[e] \in 1 .. MaxEvents BY <1>3, <2>1, <3>1
    <3> QED BY <1>2, <3>1, <3>2
  <2> QED BY <2>2, <2>3
<1>9. Paid'
  <2> DEFINE a == ExtraSum(queued)[1 .. MaxEvents]
             o == IF queued[Event] > 0 THEN 1 ELSE 0
  <2>1. a \in Nat BY <1>1, SumIsNatural
  <2>2. ExtraSum(queued')[1 .. MaxEvents] = a + o BY <1>1, SumGrows
  <2>3. Owed = o BY <1>1 DEF Owed
  <2>4. Owed' = IF task' = "persist" THEN 0 ELSE 1
    BY <1>1, <1>2 DEF Owed
  <2>5. a + Owed <= breaks BY DEF WatchInv, Paid
  <2>6. Paid' <=> (a + o) + Owed' <= breaks' BY <2>2, Zenon DEF Paid
  <2>7. o \in {0, 1} OBVIOUS
  <2> HIDE DEF a, o
  <2> QED BY <1>1, <2>1, <2>3, <2>4, <2>5, <2>6, <2>7
<1> QED BY <1>4, <1>5, <1>6, <1>7, <1>8, <1>9 DEF WatchInv

\* enqueueAttention, whether it returns or fails.
LEMMA EnqueueSteps ==
    ASSUME WatchInv, Enqueue \/ (DrainFails /\ ~UNCHANGED queued)
    PROVE  WatchInv'
<1>1. task = "event" /\ Wanted /\ queued' = [queued EXCEPT ![Event] = @ + 1]
      /\ UNCHANGED <<log, cursor, page, saved, covered>>
  BY DEF Enqueue, DrainFails, relaySide
<1>2. queued' \in [1 .. MaxEvents -> Nat]
  <2>1. queued \in [1 .. MaxEvents -> Nat] BY DEF WatchInv, WatchTypeOK
  <2>2. queued[Event] + 1 \in Nat BY <1>1, <2>1, EventIsLogged
  <2> QED BY <1>1, <2>1, <2>2
<1>3. CASE Enqueue
  <2>1. WatchTypeOK' BY <1>2, <1>3 DEF Enqueue, relaySide, WatchInv, WatchTypeOK
  <2>2. task' = "persist" /\ breaks' = breaks BY <1>3 DEF Enqueue
  <2> QED BY <1>1, <2>1, <2>2, QueueStep
<1>4. CASE DrainFails
  <2>1. task' = "sleep" /\ breaks' = breaks + 1 BY <1>4 DEF DrainFails, Break
  <2>2. WatchTypeOK'
    BY <1>2, <1>4, AbandonTyped, BreakCounts DEF DrainFails, WatchInv, WatchTypeOK
  <2> QED BY <1>1, <2>1, <2>2, QueueStep
<1> QED BY <1>3, <1>4

-----------------------------------------------------------------------------
(* Streams of a credential (MailboxWatch) *)

SlotsInv == Streamless /\ SlotsAccounted

\* The count never falls below the streams there are.
LEMMA SlotsStep ==
    ASSUME WatchInv, SlotsInv, [WatchNext]_watchVars
    PROVE  SlotsInv' /\ (StreamEnds \/ StaleEnds => active' \in Nat)
<1> USE DEF SlotsInv, Streamless, SlotsAccounted, relaySide, conn, disk
<1>1. /\ active \in Nat /\ stale \in Nat
      /\ task \in {"off", "list", "event", "persist", "connect", "stream", "sleep"}
      /\ back \in {"connect", "stream"}
  BY DEF WatchInv, WatchTypeOK
<1>2. CASE UNCHANGED watchVars
  BY <1>1, <1>2 DEF watchVars, StreamEnds, StaleEnds, Released
<1>3. CASE RelayNext
  <2> USE DEF Wake, Unsubscribed, Released
  <2>1. ASSUME NEW t \in Threads \cup {Quiet}, Append_(t) PROVE SlotsInv' BY <1>1, <2>1 DEF Append_
  <2>2. CASE Notify BY <1>1, <2>2 DEF Notify
  <2>3. CASE Listen BY <1>1, <2>3 DEF Listen
  <2>4. CASE ListenLost BY <1>1, <2>4 DEF ListenLost
  <2>5. CASE WriteReady BY <1>1, <2>5 DEF WriteReady
  <2>6. CASE StreamLoop BY <1>1, <2>6 DEF StreamLoop
  <2>7. CASE WriteSignal BY <1>1, <2>7 DEF WriteSignal
  <2>8. CASE Heartbeat BY <1>1, <2>8 DEF Heartbeat
  <2>9. CASE WriteHeartbeat BY <1>1, <2>9 DEF WriteHeartbeat
  <2>10. CASE StreamEnds BY <1>1, <2>10 DEF StreamEnds
  <2>11. CASE StaleEnds BY <1>1, <2>11 DEF StaleEnds
  <2>12. CASE RelayRestarts BY <1>1, <2>12 DEF RelayRestarts
  <2>13. StreamEnds \/ StaleEnds => active' \in Nat BY <1>1 DEF StreamEnds, StaleEnds
  <2> QED
    BY <1>3, <2>1, <2>2, <2>3, <2>4, <2>5, <2>6, <2>7, <2>8, <2>9, <2>10, <2>11, <2>12, <2>13
       DEF RelayNext
<1>4. CASE ConnectorNext
  <2> USE DEF Abandon, Unsubscribed, Persist, NextEvent, Drained
  <2>1. CASE StartWatch BY <1>1, <2>1 DEF StartWatch
  <2>2. CASE List BY <1>1, <2>2 DEF List
  <2>3. CASE Skip BY <1>1, <2>3 DEF Skip
  <2>4. CASE Enqueue BY <1>1, <2>4 DEF Enqueue
  <2>5. CASE PersistPickup BY <1>1, <2>5 DEF PersistPickup
  <2>6. ASSUME NEW t \in Threads, IntervalEnds(t) PROVE SlotsInv' BY <1>1, <2>6 DEF IntervalEnds
  <2>7. CASE ConnectStream BY <1>1, <2>7 DEF ConnectStream
  <2>8. CASE Receive BY <1>1, <2>8 DEF Receive
  <2>9. CASE SeesEnd BY <1>1, <2>9 DEF SeesEnd
  <2>10. CASE DrainFails BY <1>1, <2>10 DEF DrainFails
  <2>11. CASE RetryDrain BY <1>1, <2>11 DEF RetryDrain
  <2>12. CASE ConnectorDies BY <1>1, <2>12 DEF ConnectorDies
  <2>13. StreamEnds \/ StaleEnds => active' \in Nat
    BY <1>1 DEF StreamEnds, StaleEnds, Released
  <2> QED
    BY <1>4, <2>1, <2>2, <2>3, <2>4, <2>5, <2>6, <2>7, <2>8, <2>9, <2>10, <2>11, <2>12, <2>13
       DEF ConnectorNext
<1> QED BY <1>2, <1>3, <1>4 DEF WatchNext

\* The steps of the Relay and the connector keep the invariant.
LEMMA WatchStep ==
    ASSUME WatchInv, SlotsInv, [WatchNext]_watchVars
    PROVE  WatchInv' /\ SlotsInv'
<1>1. SlotsInv' /\ (StreamEnds \/ StaleEnds => active' \in Nat) BY SlotsStep
<1>2. CASE UNCHANGED watchVars
  <2>1. UNCHANGED <<log, task, cursor, page, saved, queued, covered, breaks>> BY <1>2 DEF watchVars
  <2>2. WatchTypeOK' BY <1>2 DEF watchVars, WatchInv, WatchTypeOK
  <2>3. LogGrows BY <2>1, GrownLog
  <2>4. page.hi <= Len(log) /\ (task \in {"event", "persist"} => cursor < page.hi)
    BY DEF WatchInv, Positions
  <2>5. breaks' \in {breaks, breaks + 1} BY <2>1
  <2>6. WatchInv' BY <2>1, <2>2, <2>3, <2>4, <2>5, CalmStep
  <2> QED BY <1>1, <2>6
<1>3. CASE RelayNext BY <1>1, <1>3, SignalSteps, StreamSteps DEF RelayNext
<1>4. CASE ConnectorNext
  <2>1. CASE DrainFails /\ UNCHANGED queued BY <1>1, <2>1, ConnectorSteps
  <2>2. CASE Enqueue \/ (DrainFails /\ ~UNCHANGED queued) BY <1>1, <2>2, EnqueueSteps
  <2>3. CASE Skip BY <1>1, <2>3, SkipStep
  <2>4. CASE PersistPickup BY <1>1, <2>4, PickupStep
  <2>5. CASE \/ StartWatch \/ List \/ \E t \in Threads : IntervalEnds(t)
             \/ ConnectStream \/ Receive \/ SeesEnd \/ RetryDrain \/ ConnectorDies
    BY <1>1, <2>5, ConnectorSteps
  <2> QED BY <1>4, <2>1, <2>2, <2>3, <2>4, <2>5 DEF ConnectorNext
<1> QED BY <1>1, <1>2, <1>3, <1>4 DEF WatchNext

\* The invariant and the types hold in every reachable state.
LEMMA WatchInvariant == WatchSpec => [](WatchInv /\ SlotsInv)
<1>1. WatchInit => WatchInv /\ SlotsInv
  <2> SUFFICES ASSUME WatchInit PROVE WatchInv /\ SlotsInv OBVIOUS
  <2>1. WatchInv BY WatchInits
  <2>2. SlotsInv BY DEF WatchInit, SlotsInv, Streamless, SlotsAccounted
  <2> QED BY <2>1, <2>2
<1>2. WatchInv /\ SlotsInv /\ [WatchNext]_watchVars => (WatchInv /\ SlotsInv)' BY WatchStep
<1> QED BY <1>1, <1>2, PTL DEF WatchSpec

\* No event is passed without attention, attention is repeated only for a
\* failure and stream slots do not leak, for any number of threads, events,
\* page sizes, streams and failures (watch.ts:128, event-client.ts:140).
THEOREM AttentionIsSound == WatchSpec => []EventsAccounted
<1>1. WatchInv /\ SlotsInv => EventsAccounted
  <2> SUFFICES ASSUME WatchInv, SlotsInv PROVE EventsAccounted OBVIOUS
  <2>1. ExtraSum(queued)[1 .. MaxEvents] \in Nat /\ breaks \in Nat
    BY SumIsNatural DEF WatchInv, WatchTypeOK
  <2>2. ExtraSum(queued)[1 .. MaxEvents] + Owed <= breaks /\ Owed \in {0, 1}
    BY DEF WatchInv, Paid, Owed
  <2> HIDE DEF Owed
  <2>3. AttentionRepeats BY <2>1, <2>2, RepeatsAre
  <2> QED BY <2>3 DEF EventsAccounted, WatchInv, SlotsInv
<1> QED BY <1>1, WatchInvariant, PTL
================================================================================
