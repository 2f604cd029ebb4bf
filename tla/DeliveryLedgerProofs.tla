------------------------- MODULE DeliveryLedgerProofs -------------------------
(***************************************************************************)
(* Proofs about the delivery ledger, for every number of Nodes, deliveries *)
(* and attempts, every lease duration and every coordinator; then about    *)
(* the Mission coordinator, for every manifest, and about the two composed *)
(* in the Mission ledger, which implements the delivery ledger.            *)
(***************************************************************************)
EXTENDS DeliveryLedger, FiniteSetTheorems, SequenceTheorems, WellFoundedInduction, TLAPS

\* What every row satisfies.
RowOK(r) == r \in Row /\ RowCheck(r) /\ r.expires <= MissionExpiry

RowsOK(rs) == rs \in Seq(Row) /\ \A d \in DOMAIN rs : RowOK(rs[d])

\* The inductive invariant: the types, the CHECK constraints and the bound on
\* leases need each other.  A renewal needs a lease that is bounded; a retry
\* needs an attempt count that the CHECK ties to the lease.
RowInv == TypeOK /\ RowChecks /\ LeaseWithinMission

-----------------------------------------------------------------------------
(* Rows *)

\* Ending a lease keeps a row well formed when the new status suits it.
LEMMA EndLeaseOK ==
    ASSUME NEW r, RowOK(r), NEW s \in (Live \cup Closed) \ Held, NEW e \in Nat,
           s = "stored" /\ e = 0 => r.attempt < MaxAttempts,
           s = "acknowledged" => r.attempt > 0 /\ e # 0
    PROVE  RowOK([EndLease(r, s) EXCEPT !.settled = e])
<1> DEFINE new == [EndLease(r, s) EXCEPT !.settled = e]
<1>0. r \in Row /\ s \in Live \cup Closed /\ 0 \in 0..MaxAttempts
  BY LedgerAssumption DEF RowOK
<1>1. new \in Row
  BY <1>0 DEF Row, EndLease
<1>2. /\ new.status = s /\ new.lease = 0 /\ new.expires = 0 /\ new.settled = e
      /\ new.attempt = r.attempt /\ new.token = r.token
  BY DEF RowOK, Row, EndLease
<1> HIDE DEF new
<1>3. RowCheck(new) /\ new.expires <= MissionExpiry
  BY <1>2, LedgerAssumption DEF RowOK, RowCheck, Held, Live, Closed
<1> QED
  BY <1>1, <1>3 DEF RowOK, new

\* The same without a settlement.
LEMMA EndLeaseUnsettled ==
    ASSUME NEW r, RowOK(r), NEW s \in (Live \cup Closed) \ Held,
           s = "stored" /\ r.settled = 0 => r.attempt < MaxAttempts,
           s # "acknowledged"
    PROVE  RowOK(EndLease(r, s))
<1>1. r.settled \in Nat
  BY DEF RowOK, Row
<1>2. EndLease(r, s) = [EndLease(r, s) EXCEPT !.settled = r.settled]
  BY DEF RowOK, Row, EndLease
<1> QED
  BY <1>1, <1>2, EndLeaseOK

\* A lease deadline is a positive time within the Mission.
LEMMA LeaseExpiryOK ==
    ASSUME clock \in Nat
    PROVE  /\ BoundedLeaseExpiry \in Nat \ {0}
           /\ BoundedLeaseExpiry <= MissionExpiry
BY LedgerAssumption DEF BoundedLeaseExpiry, Minimum

\* Granting a lease to a free or an expired row.
LEMMA GrantOK ==
    ASSUME clock \in Nat, NEW r, RowOK(r), r.attempt < MaxAttempts
    PROVE  RowOK(Grant(r))
<1> DEFINE next == r.attempt + 1
<1>1. r \in Row /\ r.attempt \in Nat /\ next \in 0..MaxAttempts /\ next > 0
  BY LedgerAssumption DEF RowOK, Row
<1>2. Grant(r) \in Row
  BY <1>1, LeaseExpiryOK, LedgerAssumption DEF Row, Grant, Live, Held
<1>3. /\ Grant(r).status = "leased" /\ Grant(r).lease = next
      /\ Grant(r).expires = BoundedLeaseExpiry
      /\ Grant(r).attempt = next /\ Grant(r).token = next
  BY <1>1 DEF Row, Grant
<1>4. RowCheck(Grant(r)) /\ Grant(r).expires <= MissionExpiry
  BY <1>1, <1>3, LeaseExpiryOK, LedgerAssumption DEF RowCheck, Held
<1> QED
  BY <1>2, <1>4 DEF RowOK

\* New work.
LEMMA NewRowOK ==
    ASSUME clock \in Nat, NEW target \in [node : Nodes, work : Work]
    PROVE  RowOK(NewRow(target))
BY LedgerAssumption DEF RowOK, RowCheck, Row, NewRow, Held, Live, Closed

\* Replacing one row.
LEMMA UpdateOK ==
    ASSUME NEW rs, RowsOK(rs), NEW d \in DOMAIN rs, NEW r, RowOK(r)
    PROVE  /\ RowsOK([rs EXCEPT ![d] = r])
           /\ DOMAIN [rs EXCEPT ![d] = r] = DOMAIN rs
BY DEF RowsOK, RowOK

\* Creating work after the existing rows.
LEMMA ExtendOK ==
    ASSUME clock \in Nat, NEW rs, RowsOK(rs),
           NEW n \in Nat, NEW targets \in [1..n -> [node : Nodes, work : Work]]
    PROVE  RowsOK(rs \o NewRows(targets))
<1>1. Len(targets) = n
  OBVIOUS
<1>2. NewRows(targets) \in Seq(Row) /\ \A i \in 1..n : RowOK(NewRows(targets)[i])
  BY <1>1, NewRowOK DEF NewRows, RowOK
<1>3. Len(NewRows(targets)) = n
  BY <1>1 DEF NewRows
<1> QED
  BY <1>2, <1>3 DEF RowsOK

\* Reconciliation keeps the rows well formed.
LEMMA CancelOpenOK ==
    ASSUME NEW rs, RowsOK(rs), NEW entry \in Nat \ {0}
    PROVE  RowsOK(CancelOpenRows(rs, entry))
<1>1. \A d \in DOMAIN rs : RowOK(CancelOpenRows(rs, entry)[d])
  BY EndLeaseOK DEF CancelOpenRows, RowsOK, Live, Closed, Held
<1> QED
  BY <1>1 DEF CancelOpenRows, RowsOK, RowOK

\* So does revocation.
LEMMA CancelLiveOK ==
    ASSUME NEW rs, RowsOK(rs)
    PROVE  RowsOK(CancelLive(rs))
<1>1. \A d \in DOMAIN rs : RowOK(CancelLive(rs)[d])
  BY EndLeaseUnsettled DEF CancelLive, RowsOK, Live, Closed, Held
<1> QED
  BY <1>1 DEF CancelLive, RowsOK, RowOK

-----------------------------------------------------------------------------
(* Receipts and reconciliation *)

\* A receipt built from a row is well formed.
LEMMA ReceiptOfOK ==
    ASSUME NEW op \in {"claim", "start", "renew", "complete", "release",
                       "lease_expired", "cancel"},
           NEW d \in Nat, NEW key \in Nat \X Nat, NEW r \in Row,
           NEW lease \in 0..MaxAttempts, NEW after \in Live \cup Closed
    PROVE  ReceiptOf(op, d, key, r, lease, after) \in Receipt
BY DEF ReceiptOf, Receipt, Row

\* So are the receipts of cancelled rows.
LEMMA CancelReceiptsOK ==
    ASSUME NEW rs \in Seq(Row), NEW ds \in SUBSET DOMAIN rs
    PROVE  CancelReceipts(rs, ds) \subseteq Receipt
<1>1. \A d \in ds : ReceiptOf("cancel", d, <<0, 0>>, rs[d], rs[d].lease, "cancelled") \in Receipt
  <2> SUFFICES ASSUME NEW d \in ds
               PROVE  ReceiptOf("cancel", d, <<0, 0>>, rs[d], rs[d].lease, "cancelled") \in Receipt
    OBVIOUS
  <2>1. d \in Nat /\ rs[d] \in Row
    OBVIOUS
  <2>2. rs[d].lease \in 0..MaxAttempts
    BY <2>1 DEF Row
  <2> QED
    BY <2>1, <2>2, ReceiptOfOK DEF Closed
<1> QED
  BY <1>1 DEF CancelReceipts

\* Every non-empty set of naturals has a least element.
LEMMA LeastNatural ==
    ASSUME NEW S \in SUBSET Nat, S # {}
    PROVE  \E m \in S : \A n \in S : m <= n
<1>1. \E m \in S : \A n \in S : ~ (<<n, m>> \in OpToRel(<, Nat))
  BY WFMin, NatLessThanWellFounded, Zenon
<1>2. \A m, n \in Nat : n < m => <<n, m>> \in OpToRel(<, Nat)
  BY DEF OpToRel
<1>3. PICK m \in S : \A n \in S : ~ (<<n, m>> \in OpToRel(<, Nat))
  BY <1>1
<1>4. \A n \in S : ~(n < m)
  BY <1>2, <1>3
<1> QED
  BY <1>4

\* The terminal event has a source that is a row, or none.
LEMMA TerminalSourceOK ==
    ASSUME NEW rs \in Seq(Row), TerminalCause(rs) # "none"
    PROVE  TerminalSource(rs) \in Nat
<1>1. CASE MissionExpiry <= clock
  BY <1>1 DEF TerminalSource
<1>2. CASE ~(MissionExpiry <= clock)
  <2> DEFINE S == UnresolvedDeadLetters(rs)
  <2>1. S # {} /\ S \in SUBSET Nat
    BY <1>2 DEF TerminalCause, UnresolvedDeadLetters
  <2>2. \E m \in S : \A n \in S : m <= n
    BY <2>1, LeastNatural
  <2> QED
    BY <1>2, <2>1, <2>2 DEF TerminalSource
<1> QED
  BY <1>1, <1>2

\* Reconciliation keeps everything well formed.
LEMMA ReconcileOK ==
    ASSUME TypeOK, NEW rs, RowsOK(rs), NEW new \in SUBSET Receipt, Reconcile(rs, new)
    PROVE  /\ RowsOK(rows')
           /\ receipts' \in SUBSET Receipt
           /\ ledger' \in Seq(Entry)
           /\ mission' \in MissionStatus
<1>1. CASE TerminalCause(rs) = "none"
  BY <1>1 DEF Reconcile, TypeOK
<1>2. CASE TerminalCause(rs) # "none"
  <2>1. rs \in Seq(Row) /\ OpenRows(rs) \in SUBSET DOMAIN rs
    BY DEF RowsOK, OpenRows
  <2>2. Len(ledger) + 1 \in Nat \ {0} /\ ledger \in Seq(Entry)
    BY DEF TypeOK
  <2>3. RowsOK(rows')
    BY <1>2, <2>2, CancelOpenOK DEF Reconcile
  <2>4. receipts' \in SUBSET Receipt
    BY <1>2, <2>1, CancelReceiptsOK DEF Reconcile, TypeOK
  <2>5. mission' \in MissionStatus
    BY <1>2 DEF Reconcile, TerminalCause, MissionStatus, Terminal
  <2>6. [source |-> TerminalSource(rs), token |-> 0, kind |-> "terminal"] \in Entry
    BY <1>2, <2>1, TerminalSourceOK, LedgerAssumption DEF Entry
  <2>7. ledger' \in Seq(Entry)
    BY <1>2, <2>2, <2>6 DEF Reconcile
  <2> QED
    BY <2>3, <2>4, <2>5, <2>7
<1> QED
  BY <1>1, <1>2

-----------------------------------------------------------------------------
(* The row invariant *)

\* Everything else that a step must keep typed.
RestOK ==
    /\ clock \in Nat
    /\ mission \in MissionStatus
    /\ receipts \in SUBSET Receipt
    /\ ledger \in Seq(Entry)
    /\ binding \in [Nodes -> Binding]
    /\ blocked \in BOOLEAN

\* RowInv is the types of the other variables and well-formed rows, now
LEMMA RowInvSplit == RowInv <=> RestOK /\ RowsOK(rows)
BY DEF RowInv, RowsOK, RowOK, RowChecks, LeaseWithinMission, TypeOK, Deliveries, RestOK

\* and after a step.
LEMMA RowInvNext == RestOK' /\ RowsOK(rows') => RowInv'
BY DEF RowInv, RowsOK, RowOK, RowChecks, LeaseWithinMission, TypeOK, Deliveries, RestOK

\* A held row has a positive attempt count, which its lease and token name.
LEMMA HeldRow ==
    ASSUME NEW r, RowOK(r), r.status \in Held
    PROVE  /\ r.attempt \in 1..MaxAttempts
           /\ r.lease = r.attempt /\ r.token = r.attempt
BY LedgerAssumption DEF RowOK, RowCheck, Row, Held

\* Each action of a Node keeps the invariant.
LEMMA ClaimKeepsRows ==
    ASSUME RowInv, NEW d \in Deliveries, NEW key \in Nat \X Nat, ClaimDelivery(d, key)
    PROVE  RowInv'
<1>0. /\ RestOK /\ RowsOK(rows) /\ TypeOK
      /\ d \in DOMAIN rows /\ d \in Nat
      /\ RowOK(rows[d]) /\ rows[d] \in Row /\ clock \in Nat
  BY RowInvSplit DEF RowsOK, RowOK, Deliveries, RowInv, RestOK
<1>a. \A r : RowOK(r) /\ r.attempt < MaxAttempts => ClaimReceipt(d, key, r) \in Receipt
  <2> SUFFICES ASSUME NEW r, RowOK(r), r.attempt < MaxAttempts
               PROVE  ClaimReceipt(d, key, r) \in Receipt
    OBVIOUS
  <2>1. r \in Row /\ r.attempt + 1 \in 0..MaxAttempts
    BY LedgerAssumption DEF RowOK, Row
  <2>2. [r EXCEPT !.attempt = @ + 1] \in Row
    BY <2>1 DEF Row
  <2> QED
    BY <1>0, <2>1, <2>2, ReceiptOfOK DEF ClaimReceipt, Live, Held
<1>1. CASE ClaimStored(d, key)
  <2>1. RowsOK(rows')
    BY <1>0, <1>1, GrantOK, UpdateOK DEF ClaimStored
  <2>2. RestOK'
    BY <1>0, <1>1, <1>a DEF ClaimStored, RestOK
  <2> QED
    BY <2>1, <2>2, RowInvNext
<1>2. CASE ClaimExpired(d, key)
  <2> DEFINE expired == [EndLease(rows[d], "stored") EXCEPT !.available = clock]
  <2>0. rows[d].attempt < MaxAttempts /\ rows[d].status \in Held /\ rows[d].settled = 0
    BY <1>2 DEF ClaimExpired, LeaseLapsed
  <2>1. RowOK(EndLease(rows[d], "stored"))
    BY <1>0, <2>0, EndLeaseUnsettled DEF Live, Held, Closed
  <2>2. RowOK(expired) /\ expired.attempt = rows[d].attempt
    BY <1>0, <2>1 DEF RowOK, RowCheck, Row, EndLease
  <2>3. RowsOK(rows')
    BY <1>0, <1>2, <2>0, <2>2, GrantOK, UpdateOK DEF ClaimExpired
  <2>4. ClaimReceipt(d, key, expired) \in Receipt
    BY <2>0, <2>2, <1>a
  <2>5. ReceiptOf("lease_expired", d, <<rows[d].attempt, 0>>, rows[d],
                  rows[d].lease, "stored") \in Receipt
    <3>1. rows[d].lease \in 0..MaxAttempts /\ rows[d].attempt \in Nat
      BY <1>0 DEF Row
    <3> QED
      BY <1>0, <3>1, ReceiptOfOK DEF Live
  <2>6. RestOK'
    BY <1>0, <1>2, <2>4, <2>5 DEF ClaimExpired, RestOK
  <2> QED
    BY <2>3, <2>6, RowInvNext
<1>3. CASE ClaimExhausted(d, key)
  <2> DEFINE dead == EndLease(rows[d], "dead_lettered")
             rs == [rows EXCEPT ![d] = dead]
             new == {ReceiptOf("claim", d, key, rows[d], 0, "dead_lettered")}
  <2>1. RowOK(dead)
    BY <1>0, EndLeaseUnsettled DEF Live, Held, Closed
  <2>2. RowsOK(rs)
    BY <1>0, <2>1, UpdateOK
  <2>3. new \in SUBSET Receipt
    BY <1>0, ReceiptOfOK, LedgerAssumption DEF Closed
  <2>4. Reconcile(rs, new) /\ UNCHANGED <<clock, binding, blocked>>
    BY <1>3 DEF ClaimExhausted
  <2> HIDE DEF rs, new
  <2> QED
    BY <1>0, <2>2, <2>3, <2>4, ReconcileOK, RowInvNext DEF RestOK
<1> QED
  BY <1>1, <1>2, <1>3 DEF ClaimDelivery

\* A start only changes the status within the held ones.
LEMMA StartKeepsRows ==
    ASSUME RowInv, NEW d \in Deliveries, NEW t \in Nat, StartDelivery(d, t)
    PROVE  RowInv'
<1>0. /\ RestOK /\ RowsOK(rows) /\ d \in DOMAIN rows /\ d \in Nat
      /\ RowOK(rows[d]) /\ rows[d] \in Row
  BY RowInvSplit DEF RowsOK, RowOK, Deliveries
<1>1. rows[d].status = "leased" /\ rows[d].lease = t
  BY DEF StartDelivery, LeaseAuthority
<1>2. RowOK([rows[d] EXCEPT !.status = "executing"])
  BY <1>0, <1>1 DEF RowOK, RowCheck, Row, Held, Live
<1>3. rows' = [rows EXCEPT ![d] = [rows[d] EXCEPT !.status = "executing"]]
  BY DEF StartDelivery
<1>4. RowsOK(rows')
  BY <1>0, <1>2, <1>3, UpdateOK
<1>5. ReceiptOf("start", d, <<t, 0>>, rows[d], t, "executing") \in Receipt
  <2>1. t \in 0..MaxAttempts
    BY <1>0, <1>1 DEF Row
  <2> QED
    BY <1>0, <2>1, ReceiptOfOK DEF Live, Held
<1>6. RestOK'
  BY <1>0, <1>5 DEF StartDelivery, RestOK
<1> QED
  BY <1>4, <1>6, RowInvNext

\* A renewal only moves the deadline, within the Mission.
LEMMA RenewKeepsRows ==
    ASSUME RowInv, NEW d \in Deliveries, NEW t \in Nat, NEW count \in Nat,
           RenewDelivery(d, t, count)
    PROVE  RowInv'
<1>0. /\ RestOK /\ RowsOK(rows) /\ d \in DOMAIN rows /\ d \in Nat
      /\ RowOK(rows[d]) /\ rows[d] \in Row /\ clock \in Nat
  BY RowInvSplit DEF RowsOK, RowOK, Deliveries, RestOK
<1>1. rows[d].status \in Held /\ rows[d].lease = t
  BY DEF RenewDelivery, LeaseAuthority
<1>2. RowOK([rows[d] EXCEPT !.expires = BoundedLeaseExpiry])
  BY <1>0, <1>1, LeaseExpiryOK DEF RowOK, RowCheck, Row
<1>3. rows' = [rows EXCEPT ![d] = [rows[d] EXCEPT !.expires = BoundedLeaseExpiry]]
  BY DEF RenewDelivery
<1>4. RowsOK(rows')
  BY <1>0, <1>2, <1>3, UpdateOK
<1>5. ReceiptOf("renew", d, <<t, count>>, rows[d], t, rows[d].status) \in Receipt
  <2>1. t \in 0..MaxAttempts /\ rows[d].status \in Live \cup Closed
    BY <1>0, <1>1 DEF Row
  <2> QED
    BY <1>0, <2>1, ReceiptOfOK
<1>6. RestOK'
  BY <1>0, <1>5 DEF RenewDelivery, RestOK
<1> QED
  BY <1>4, <1>6, RowInvNext

\* A release goes back to the queue only with attempts left.
LEMMA ReleaseKeepsRows ==
    ASSUME RowInv, NEW d \in Deliveries, NEW t \in Nat, NEW class,
           ReleaseDelivery(d, t, class)
    PROVE  RowInv'
<1> DEFINE retryAt == clock + RetryBackoff(rows[d].attempt)
           dead == \/ class # "transient"
                   \/ rows[d].attempt >= MaxAttempts
                   \/ retryAt >= MissionExpiry
           released == IF dead THEN EndLease(rows[d], "dead_lettered")
                       ELSE [EndLease(rows[d], "stored") EXCEPT !.available = retryAt]
           rs == [rows EXCEPT ![d] = released]
           new == {ReceiptOf("release", d, <<t, 0>>, rows[d], t, released.status)}
<1>0. /\ RestOK /\ RowsOK(rows) /\ TypeOK /\ d \in DOMAIN rows /\ d \in Nat
      /\ RowOK(rows[d]) /\ rows[d] \in Row /\ clock \in Nat
  BY RowInvSplit DEF RowsOK, RowOK, Deliveries, RestOK, RowInv
<1>1. rows[d].status \in Held /\ rows[d].lease = t
  BY DEF ReleaseDelivery, LeaseAuthority
<1>2. rows[d].attempt \in 1..MaxAttempts /\ t \in 0..MaxAttempts
  BY <1>0, <1>1, HeldRow, LedgerAssumption DEF Row
<1>3. retryAt \in Nat
  BY <1>0, <1>2, BackoffAssumption
<1>4. RowOK(released)
  <2>1. CASE dead
    BY <2>1, <1>0, EndLeaseUnsettled DEF Live, Held, Closed
  <2>2. CASE ~dead
    <3>1. rows[d].attempt < MaxAttempts
      BY <2>2, <1>2, LedgerAssumption
    <3>2. RowOK(EndLease(rows[d], "stored"))
      BY <1>0, <3>1, EndLeaseUnsettled DEF Live, Held, Closed
    <3> HIDE DEF dead, retryAt
    <3>3. RowOK([EndLease(rows[d], "stored") EXCEPT !.available = retryAt])
      BY <1>0, <1>3, <3>2 DEF RowOK, RowCheck, Row, EndLease
    <3> QED
      BY <2>2, <3>3
  <2> QED
    BY <2>1, <2>2
<1>5. RowsOK(rs)
  BY <1>0, <1>4, UpdateOK
<1>6. new \in SUBSET Receipt
  <2> HIDE DEF released
  <2>1. released.status \in Live \cup Closed
    BY <1>4 DEF RowOK, Row
  <2> QED
    BY <1>0, <1>2, <2>1, ReceiptOfOK
<1>7. Reconcile(rs, new) /\ UNCHANGED <<clock, binding, blocked>>
  BY DEF ReleaseDelivery
<1> HIDE DEF rs, new
<1> QED
  BY <1>0, <1>5, <1>6, <1>7, ReconcileOK, RowInvNext DEF RestOK

\* The rows a completion leaves, before the derived work is added.
SettledRows(d, out) ==
    [e \in Deliveries |->
        IF e = d
        THEN [EndLease(rows[e], "acknowledged") EXCEPT !.settled = Len(ledger) + 1]
        ELSE IF e \in out.settles /\ rows[e].status \in Live
        THEN [EndLease(rows[e], "cancelled") EXCEPT !.settled = Len(ledger) + 1]
        ELSE IF e \in out.settles
        THEN [rows[e] EXCEPT !.settled = Len(ledger) + 1]
        ELSE rows[e]]

\* What a completion writes, with its local names spelled out.
LEMMA CompleteRows ==
    ASSUME NEW d \in Deliveries, NEW t, NEW out, CompleteDelivery(d, t, out)
    PROVE  rows' = SettledRows(d, out) \o NewRows(out.creates)
BY DEF CompleteDelivery, SettledRows

\* They are well formed.
LEMMA SettledRowsOK ==
    ASSUME RowsOK(rows), ledger \in Seq(Entry), NEW d \in Deliveries, NEW out,
           rows[d].status \in Held
    PROVE  RowsOK(SettledRows(d, out)) /\ DOMAIN SettledRows(d, out) = Deliveries
<1>0. /\ rows \in Seq(Row) /\ Deliveries = DOMAIN rows
      /\ Len(ledger) + 1 \in Nat \ {0}
      /\ \A e \in Deliveries : RowOK(rows[e])
  BY DEF RowsOK, Deliveries
<1>1. ASSUME NEW e \in Deliveries
      PROVE  RowOK(SettledRows(d, out)[e])
  <2>1. CASE e = d
    <3>1. rows[e].attempt > 0
      BY <1>0, <2>1, HeldRow
    <3>2. RowOK([EndLease(rows[e], "acknowledged") EXCEPT !.settled = Len(ledger) + 1])
      BY <1>0, <3>1, EndLeaseOK DEF Live, Held, Closed
    <3> QED
      BY <2>1, <3>2 DEF SettledRows
  <2>2. CASE e # d /\ e \in out.settles /\ rows[e].status \in Live
    <3>1. RowOK([EndLease(rows[e], "cancelled") EXCEPT !.settled = Len(ledger) + 1])
      BY <1>0, EndLeaseOK DEF Live, Held, Closed
    <3> QED
      BY <2>2, <3>1 DEF SettledRows
  <2>3. CASE e # d /\ e \in out.settles /\ rows[e].status \notin Live
    <3>1. RowOK([rows[e] EXCEPT !.settled = Len(ledger) + 1])
      BY <1>0, <2>3 DEF RowOK, RowCheck, Row, Live
    <3> QED
      BY <2>3, <3>1 DEF SettledRows
  <2>4. CASE e # d /\ e \notin out.settles
    BY <1>0, <2>4 DEF SettledRows
  <2> QED
    BY <2>1, <2>2, <2>3, <2>4
<1>2. \A e \in Deliveries : SettledRows(d, out)[e] \in Row
  BY <1>1 DEF RowOK
<1>3. SettledRows(d, out) = [e \in DOMAIN rows |-> SettledRows(d, out)[e]]
  BY <1>0 DEF SettledRows
<1>4. SettledRows(d, out) \in Seq(Row) /\ DOMAIN SettledRows(d, out) = DOMAIN rows
  <2> DEFINE f == SettledRows(d, out)
  <2>1. f = [e \in DOMAIN rows |-> f[e]] /\ \A e \in DOMAIN rows : f[e] \in Row
    BY <1>0, <1>2, <1>3
  <2> HIDE DEF f
  <2>2. f \in Seq(Row) /\ DOMAIN f = DOMAIN rows
    BY <1>0, <2>1
  <2> QED
    BY <2>2 DEF f
<1> QED
  BY <1>0, <1>1, <1>4 DEF RowsOK

\* A completion keeps the rows well formed.
LEMMA CompleteKeepsRows ==
    ASSUME RowInv, NEW d \in Deliveries, NEW t \in Nat, NEW out \in Outcome(d),
           CompleteDelivery(d, t, out)
    PROVE  RowInv'
<1>0. /\ RestOK /\ RowsOK(rows) /\ d \in DOMAIN rows /\ d \in Nat
      /\ RowOK(rows[d]) /\ rows[d] \in Row /\ clock \in Nat /\ ledger \in Seq(Entry)
  BY RowInvSplit DEF RowsOK, RowOK, Deliveries, RestOK
<1>1. rows[d].status = "executing" /\ rows[d].lease = t
  BY DEF CompleteDelivery, LeaseAuthority
<1>2. t \in 0..MaxAttempts
  BY <1>0, <1>1 DEF Row
<1>3. PICK n \in 0..MaxCreated : out.creates \in [1..n -> [node : Nodes, work : Work]]
  BY DEF Outcome
<1>4. RowsOK(rows')
  <2>1. RowsOK(SettledRows(d, out))
    BY <1>0, <1>1, SettledRowsOK DEF Held
  <2>2. n \in Nat
    BY LedgerAssumption
  <2>3. rows' = SettledRows(d, out) \o NewRows(out.creates)
    BY CompleteRows
  <2>4. RowsOK(SettledRows(d, out) \o NewRows(out.creates))
    BY <1>0, <1>3, <2>1, <2>2, ExtendOK
  <2> QED
    BY <2>3, <2>4
<1>5. ReceiptOf("complete", d, <<t, 0>>, rows[d], t, "acknowledged") \in Receipt
  BY <1>0, <1>2, ReceiptOfOK DEF Closed
<1>6. \A S \in SUBSET Deliveries : CancelReceipts(rows, S) \subseteq Receipt
  BY <1>0, CancelReceiptsOK DEF RowsOK, Deliveries
<1>7. {e \in out.settles \ {d} : rows[e].status \in Live} \in SUBSET Deliveries
  BY DEF Outcome
<1>8. receipts' \in SUBSET Receipt
  BY <1>0, <1>5, <1>6, <1>7 DEF CompleteDelivery, RestOK
<1>9. [source |-> d, token |-> t, kind |-> "result"] \in Entry
  BY <1>0, <1>2 DEF Entry
<1>10. ledger' \in Seq(Entry)
  BY <1>0, <1>9 DEF CompleteDelivery
<1>11. mission' \in MissionStatus
  BY DEF CompleteDelivery, Outcome, MissionStatus, Running, Terminal
<1> QED
  BY <1>0, <1>4, <1>8, <1>10, <1>11, RowInvNext DEF CompleteDelivery, RestOK

\* A revocation keeps the rows well formed.
LEMMA RevokeKeepsRows ==
    ASSUME RowInv, NEW n \in Nodes, NEW reason \in Binding, Revoke(n, reason)
    PROVE  RowInv'
<1>0. RestOK /\ RowsOK(rows) /\ rows \in Seq(Row)
  BY RowInvSplit DEF RowsOK
<1>1. RowsOK(rows')
  BY <1>0, CancelLiveOK DEF Revoke
<1>2. CancelReceipts(rows, {d \in Deliveries : rows[d].status \in Live}) \subseteq Receipt
  BY <1>0, CancelReceiptsOK DEF Deliveries
<1>3. RestOK'
  BY <1>0, <1>2 DEF Revoke, RestOK
<1> QED
  BY <1>1, <1>3, RowInvNext

\* The first work is well formed.
LEMMA ActivateKeepsRows ==
    ASSUME RowInv, NEW n \in 1..MaxCreated,
           NEW targets \in [1..n -> [node : Nodes, work : Work]], Activate(targets)
    PROVE  RowInv'
<1>0. RestOK /\ RowsOK(rows) /\ clock \in Nat /\ n \in Nat
  BY RowInvSplit, LedgerAssumption DEF RestOK
<1>1. RowsOK(rows')
  BY <1>0, ExtendOK DEF Activate
<1>2. [source |-> 0, token |-> 0, kind |-> "activation"] \in Entry
  BY LedgerAssumption DEF Entry
<1>3. RestOK'
  BY <1>0, <1>2 DEF Activate, RestOK, MissionStatus, Running
<1> QED
  BY <1>1, <1>3, RowInvNext

\* Reconciliation keeps the rows well formed.
LEMMA ReconcileKeepsRows == RowInv /\ ReconcileMission => RowInv'
<1> SUFFICES ASSUME RowInv, ReconcileMission PROVE RowInv'
  OBVIOUS
<1>0. RestOK /\ RowsOK(rows) /\ TypeOK
  BY RowInvSplit DEF RowInv
<1>1. Reconcile(rows, {}) /\ UNCHANGED <<clock, binding, blocked>>
  BY DEF ReconcileMission
<1> QED
  BY <1>0, <1>1, ReconcileOK, RowInvNext DEF RestOK

\* A request of a Node.
LEMMA NodeRequestKeepsRows ==
    ASSUME RowInv, NEW d \in Deliveries, NodeRequest(d)
    PROVE  RowInv'
<1>a. rows[d] \in Row
  BY DEF RowInv, TypeOK, Deliveries
<1>0. rows[d].attempt \in Nat
  BY <1>a, LedgerAssumption DEF Row
<1>1. ASSUME NEW k \in 1..(rows[d].attempt + 1), ClaimDelivery(d, <<k, 0>>)
      PROVE  RowInv'
  BY <1>0, <1>1, ClaimKeepsRows
<1>2. ASSUME NEW t \in GrantedTokens(d), StartDelivery(d, t)
      PROVE  RowInv'
  BY <1>0, <1>2, StartKeepsRows DEF GrantedTokens
<1>3. ASSUME NEW t \in GrantedTokens(d), NEW count \in 1..MaxRenewals,
             RenewDelivery(d, t, count)
      PROVE  RowInv'
  BY <1>0, <1>3, RenewKeepsRows, LedgerAssumption DEF GrantedTokens
<1>4. ASSUME NEW t \in GrantedTokens(d), NEW class, ReleaseDelivery(d, t, class)
      PROVE  RowInv'
  BY <1>0, <1>4, ReleaseKeepsRows DEF GrantedTokens
<1>5. ASSUME NEW t \in GrantedTokens(d), NEW out \in Outcome(d),
             CompleteDelivery(d, t, out)
      PROVE  RowInv'
  BY <1>0, <1>5, CompleteKeepsRows DEF GrantedTokens
<1> QED
  BY <1>1, <1>2, <1>3, <1>4, <1>5 DEF NodeRequest

\* Every step keeps the row invariant.
LEMMA RowInvStep == RowInv /\ [Next]_vars => RowInv'
<1> SUFFICES ASSUME RowInv, [Next]_vars PROVE RowInv'
  OBVIOUS
<1>0. RestOK /\ RowsOK(rows)
  BY RowInvSplit
<1>1. ASSUME NEW n \in 1..MaxCreated,
             NEW targets \in [1..n -> [node : Nodes, work : Work]], Activate(targets)
      PROVE  RowInv'
  BY <1>1, ActivateKeepsRows
<1>2. CASE ReconcileMission
  BY <1>2, ReconcileKeepsRows
<1>3. ASSUME NEW d \in Deliveries, NodeRequest(d) PROVE RowInv'
  BY <1>3, NodeRequestKeepsRows
<1>4. ASSUME NEW n \in Nodes, RevokeNode(n) \/ RevokeWorkspace(n) PROVE RowInv'
  BY <1>4, RevokeKeepsRows DEF RevokeNode, RevokeWorkspace, Binding
<1>5. CASE SetBlock
  BY <1>0, <1>5, RowInvNext DEF SetBlock, RestOK
<1>6. CASE Tick
  BY <1>0, <1>6, RowInvNext DEF Tick, RestOK
<1>7. CASE UNCHANGED vars
  BY <1>0, <1>7, RowInvNext DEF vars, RestOK
<1> QED
  BY <1>1, <1>2, <1>3, <1>4, <1>5, <1>6, <1>7 DEF Next

\* The invariant holds of the empty ledger.
LEMMA RowInvInit == Init => RowInv
<1> SUFFICES ASSUME Init PROVE RowInv
  OBVIOUS
<1>1. rows = <<>> /\ ledger = <<>>
  BY DEF Init
<1>2. RowsOK(rows) /\ ledger \in Seq(Entry)
  BY <1>1 DEF RowsOK
<1>3. RestOK
  BY <1>2 DEF Init, RestOK, MissionStatus, Binding
<1> QED
  BY <1>2, <1>3, RowInvSplit

\* The delivery ledger keeps its types.
THEOREM TypeCorrect == Spec => []TypeOK
<1>1. RowInv => TypeOK
  BY DEF RowInv
<1> QED
  BY <1>1, RowInvInit, RowInvStep, PTL DEF Spec

\* No handler ever writes a row that the CHECK constraints of node_deliveries
\* reject, for any number of attempts and any coordinator.
THEOREM RowChecksHold == Spec => []RowChecks
<1>1. RowInv => RowChecks
  BY DEF RowInv
<1> QED
  BY <1>1, RowInvInit, RowInvStep, PTL DEF Spec

\* No lease is granted or renewed past the Mission's deadline.
THEOREM LeasesWithinMission == Spec => []LeaseWithinMission
<1>1. RowInv => LeaseWithinMission
  BY DEF RowInv
<1> QED
  BY <1>1, RowInvInit, RowInvStep, PTL DEF Spec

-----------------------------------------------------------------------------
(* How one row may change in one step *)

\* A closed row and a settlement are final; a fencing token only grows, and
\* never under an unexpired lease.
Evolves(r, s) ==
    /\ r.status \in Closed =>
          s.status = r.status /\ s.token = r.token /\ s.lease = r.lease
    /\ r.settled # 0 => s.settled = r.settled
    /\ s.token >= r.token
    /\ s.token # r.token => ~(r.status \in Held /\ r.expires > clock)

AllEvolve(rs) ==
    /\ Deliveries \subseteq DOMAIN rs
    /\ \A d \in Deliveries : Evolves(rows[d], rs[d])

\* A row that keeps its token, while open, may change in any way; a row that
\* does not change evolves.
LEMMA OpenEvolves ==
    ASSUME NEW r \in Row, NEW s \in Row, r.status \in Live, s.token = r.token,
           r.settled = 0 \/ s.settled = r.settled
    PROVE  Evolves(r, s)
BY LedgerAssumption DEF Evolves, Row, Live, Held, Closed

\* A step that leaves the rows alone is an evolution of them.
LEMMA SameEvolves ==
    ASSUME NEW r \in Row
    PROVE  Evolves(r, r)
BY LedgerAssumption DEF Evolves, Row

\* Changing one row.
LEMMA UpdateEvolves ==
    ASSUME RowInv, NEW d \in Deliveries, NEW r, Evolves(rows[d], r)
    PROVE  AllEvolve([rows EXCEPT ![d] = r])
<1>1. rows \in Seq(Row) /\ Deliveries = DOMAIN rows
  BY DEF RowInv, TypeOK, Deliveries
<1>2. \A e \in Deliveries : rows[e] \in Row
  BY <1>1
<1> QED
  BY <1>1, <1>2, SameEvolves DEF AllEvolve

\* What EndLease leaves alone.
LEMMA EndLeaseFields ==
    ASSUME NEW r \in Row, NEW s \in Live \cup Closed, NEW e \in Nat
    PROVE  /\ EndLease(r, s) \in Row
           /\ EndLease(r, s).token = r.token /\ EndLease(r, s).settled = r.settled
           /\ EndLease(r, s).status = s
           /\ [EndLease(r, s) EXCEPT !.settled = e] \in Row
           /\ [EndLease(r, s) EXCEPT !.settled = e].token = r.token
           /\ [EndLease(r, s) EXCEPT !.settled = e].status = s
           /\ [EndLease(r, s) EXCEPT !.settled = e].settled = e
<1>0. 0 \in 0..MaxAttempts
  BY LedgerAssumption
<1>1. EndLease(r, s) \in Row
  BY <1>0 DEF Row, EndLease
<1>2. /\ EndLease(r, s).token = r.token /\ EndLease(r, s).settled = r.settled
      /\ EndLease(r, s).status = s
  BY DEF Row, EndLease
<1> QED
  BY <1>1, <1>2 DEF Row

\* A row whose lease ends is for the same work.
LEMMA EndedWork ==
    ASSUME NEW r \in Row, NEW s \in Live \cup Closed
    PROVE  /\ EndLease(r, s) \in Row
           /\ EndLease(r, s).node = r.node /\ EndLease(r, s).work = r.work
           /\ EndLease(r, s).settled = r.settled /\ EndLease(r, s).status = s
           /\ EndLease(r, s).token = r.token
<1>1. PICK e \in Nat : e = 0
  OBVIOUS
<1>2. EndLease(r, s) \in Row /\ EndLease(r, s).settled = r.settled /\ EndLease(r, s).status = s
      /\ EndLease(r, s).token = r.token
  BY <1>1, EndLeaseFields
<1>3. EndLease(r, s).node = r.node /\ EndLease(r, s).work = r.work
  BY DEF EndLease, Row
<1> QED
  BY <1>2, <1>3

\* Reconciliation only closes open rows.
LEMMA ReconcileEvolves ==
    ASSUME RowInv, NEW rs, RowsOK(rs), AllEvolve(rs), NEW new, Reconcile(rs, new)
    PROVE  AllEvolve(rows')
<1>1. CASE TerminalCause(rs) = "none"
  BY <1>1 DEF Reconcile
<1>2. CASE TerminalCause(rs) # "none"
  <2> DEFINE e == Len(ledger) + 1
  <2>1. rows' = CancelOpenRows(rs, e) /\ e \in Nat
    BY <1>2 DEF Reconcile, RowInv, TypeOK
  <2>2. ASSUME NEW d \in Deliveries
        PROVE  Evolves(rows[d], rows'[d])
    <3>1. d \in DOMAIN rs /\ Evolves(rows[d], rs[d])
      BY DEF AllEvolve
    <3>2. rs[d] \in Row
      BY <3>1 DEF RowsOK
    <3>3. CASE d \notin OpenRows(rs)
      BY <3>1, <3>3, <2>1 DEF CancelOpenRows
    <3>4. CASE d \in OpenRows(rs)
      <4>1. rows'[d] = [EndLease(rs[d], "cancelled") EXCEPT !.settled = e]
        BY <3>1, <3>4, <2>1 DEF CancelOpenRows
      <4>a. [EndLease(rs[d], "cancelled") EXCEPT !.settled = e].token = rs[d].token
        BY <3>2 DEF Row, EndLease
      <4>2. rows'[d].token = rs[d].token
        BY <4>1, <4>a
      <4>3. rs[d].status \in Live /\ rs[d].settled = 0
        BY <3>4 DEF OpenRows
      <4>4. rows[d].status \notin Closed /\ rows[d].settled = 0
        BY <3>1, <4>3 DEF Evolves, Live, Held, Closed
      <4> QED
        BY <3>1, <4>2, <4>4 DEF Evolves
    <3> QED
      BY <3>3, <3>4
  <2>3. DOMAIN rows' = DOMAIN rs
    BY <2>1 DEF CancelOpenRows
  <2> QED
    BY <2>2, <2>3 DEF AllEvolve
<1> QED
  BY <1>1, <1>2

\* A claim that finds no attempt left, and a release, give up a held row and
\* then reconcile.
GivesUp(d) ==
    \E r \in Row : \E new :
        /\ RowOK(r)
        /\ r.status \in {"stored", "dead_lettered"}
        /\ r.token = rows[d].token /\ r.settled = rows[d].settled
        /\ rows[d].status \in Held
        /\ Reconcile([rows EXCEPT ![d] = r], new)

\* The row that deadLetterExpiredFinalClaim writes.
LEMMA ExhaustedRow ==
    ASSUME RowInv, NEW d \in Deliveries, NEW key, ClaimExhausted(d, key)
    PROVE  GivesUp(d)
<1> DEFINE r == EndLease(rows[d], "dead_lettered")
<1>0. RowOK(rows[d]) /\ rows[d] \in Row
  BY RowInvSplit DEF RowsOK, RowOK, Deliveries
<1>1. r \in Row /\ r.token = rows[d].token /\ r.settled = rows[d].settled
      /\ r.status = "dead_lettered"
  BY <1>0, EndedWork DEF Closed
<1>2. RowOK(r)
  BY <1>0, EndLeaseUnsettled DEF Live, Held, Closed
<1>3. /\ rows[d].status \in Held
      /\ \E new : Reconcile([rows EXCEPT ![d] = r], new)
  BY DEF ClaimExhausted, LeaseLapsed
<1> QED
  BY <1>1, <1>2, <1>3 DEF GivesUp

\* The row that releaseDelivery writes.
LEMMA ReleasedRow ==
    ASSUME RowInv, NEW d \in Deliveries, NEW t, NEW class, ReleaseDelivery(d, t, class)
    PROVE  GivesUp(d)
<1> DEFINE retryAt == clock + RetryBackoff(rows[d].attempt)
           dead == \/ class # "transient"
                   \/ rows[d].attempt >= MaxAttempts
                   \/ retryAt >= MissionExpiry
           kept == [EndLease(rows[d], "stored") EXCEPT !.available = retryAt]
<1>0. RowOK(rows[d]) /\ rows[d] \in Row /\ clock \in Nat
  BY RowInvSplit DEF RowsOK, RowOK, Deliveries, RestOK
<1>1. rows[d].status \in Held
  BY DEF ReleaseDelivery
<1>2. rows[d].attempt \in 1..MaxAttempts /\ retryAt \in Nat
  BY <1>0, <1>1, HeldRow, BackoffAssumption
<1>3. CASE dead
  <2> DEFINE r == EndLease(rows[d], "dead_lettered")
  <2>1. r \in Row /\ r.token = rows[d].token /\ r.settled = rows[d].settled
        /\ r.status = "dead_lettered"
    BY <1>0, EndedWork DEF Closed
  <2>2. RowOK(r)
    BY <1>0, EndLeaseUnsettled DEF Live, Held, Closed
  <2>3. \E new : Reconcile([rows EXCEPT ![d] = r], new)
    BY <1>3 DEF ReleaseDelivery
  <2> QED
    BY <1>1, <2>1, <2>2, <2>3 DEF GivesUp
<1>4. CASE ~dead
  <2>0. rows[d].attempt < MaxAttempts
    BY <1>2, <1>4, LedgerAssumption
  <2>1. RowOK(EndLease(rows[d], "stored"))
    BY <1>0, <2>0, EndLeaseUnsettled DEF Live, Held, Closed
  <2>2. \E new : Reconcile([rows EXCEPT ![d] = kept], new)
    BY <1>4 DEF ReleaseDelivery
  <2> HIDE DEF dead, retryAt
  <2>3. /\ kept \in Row /\ RowOK(kept) /\ kept.token = rows[d].token
        /\ kept.settled = rows[d].settled /\ kept.status = "stored"
    BY <1>0, <1>2, <2>1 DEF RowOK, RowCheck, Row, EndLease
  <2> HIDE DEF kept
  <2> QED
    BY <1>1, <2>2, <2>3 DEF GivesUp
<1> QED
  BY <1>3, <1>4

\* Every row evolves in every step.
LEMMA NodeRequestEvolves ==
    ASSUME RowInv, NEW d \in Deliveries, NodeRequest(d)
    PROVE  AllEvolve(rows')
<1> USE DEF Deliveries
<1>0. /\ RowsOK(rows) /\ rows \in Seq(Row) /\ ledger \in Seq(Entry) /\ clock \in Nat
      /\ rows[d] \in Row /\ RowOK(rows[d]) /\ TypeOK
  BY RowInvSplit DEF RowsOK, RestOK, RowInv
<1>1. ASSUME NEW key, ClaimStored(d, key) PROVE AllEvolve(rows')
  <2>1. /\ Grant(rows[d]).token = rows[d].attempt + 1
        /\ Grant(rows[d]).settled = rows[d].settled
    BY <1>0 DEF Grant, Row
  <2>2. /\ rows[d].status = "stored" /\ rows[d].token = rows[d].attempt
        /\ rows[d].attempt \in Nat
    BY <1>0, <1>1, LedgerAssumption DEF ClaimStored, RowOK, RowCheck, Row
  <2>3. Evolves(rows[d], Grant(rows[d]))
    BY <2>1, <2>2 DEF Evolves, Held, Closed
  <2> QED
    BY <1>1, <2>3, UpdateEvolves DEF ClaimStored
<1>2. ASSUME NEW key, ClaimExpired(d, key) PROVE AllEvolve(rows')
  <2> DEFINE expired == [EndLease(rows[d], "stored") EXCEPT !.available = clock]
  <2>1. /\ Grant(expired).token = rows[d].attempt + 1
        /\ Grant(expired).settled = rows[d].settled
    BY <1>0 DEF Grant, Row, EndLease
  <2>2. /\ rows[d].status \in Held /\ rows[d].expires <= clock
        /\ rows[d].token = rows[d].attempt
        /\ rows[d].attempt \in Nat /\ rows[d].expires \in Nat
    BY <1>0, <1>2, LedgerAssumption DEF ClaimExpired, LeaseLapsed, RowOK, RowCheck, Row
  <2>3. Evolves(rows[d], Grant(expired))
    BY <1>0, <2>1, <2>2 DEF Evolves, Held, Closed
  <2> QED
    BY <1>2, <2>3, UpdateEvolves DEF ClaimExpired
<1>3. ASSUME GivesUp(d) PROVE AllEvolve(rows')
  <2>0. PICK r \in Row : \E new :
          /\ RowOK(r)
          /\ r.token = rows[d].token /\ r.settled = rows[d].settled
          /\ rows[d].status \in Held
          /\ Reconcile([rows EXCEPT ![d] = r], new)
    BY <1>3 DEF GivesUp
  <2>1. Evolves(rows[d], r)
    BY <1>0, <2>0, OpenEvolves DEF Live
  <2>2. RowsOK([rows EXCEPT ![d] = r]) /\ AllEvolve([rows EXCEPT ![d] = r])
    BY <1>0, <2>0, <2>1, UpdateOK, UpdateEvolves
  <2> QED
    BY <2>0, <2>2, ReconcileEvolves
<1>4. ASSUME NEW key, ClaimExhausted(d, key) PROVE AllEvolve(rows')
  BY <1>3, <1>4, ExhaustedRow
<1>5. ASSUME NEW t, StartDelivery(d, t) PROVE AllEvolve(rows')
  <2>1. Evolves(rows[d], [rows[d] EXCEPT !.status = "executing"])
    BY <1>0, <1>5, LedgerAssumption
    DEF StartDelivery, Evolves, Row, Closed
  <2> QED
    BY <1>5, <2>1, UpdateEvolves DEF StartDelivery
<1>6. ASSUME NEW t, NEW count, RenewDelivery(d, t, count) PROVE AllEvolve(rows')
  <2>1. rows[d].status \in Held
    BY <1>6 DEF RenewDelivery
  <2>2. Evolves(rows[d], [rows[d] EXCEPT !.expires = BoundedLeaseExpiry])
    BY <1>0, <2>1, LedgerAssumption DEF Evolves, Row, Held, Closed
  <2> QED
    BY <1>6, <2>2, UpdateEvolves DEF RenewDelivery
<1>7. ASSUME NEW t, NEW class, ReleaseDelivery(d, t, class) PROVE AllEvolve(rows')
  BY <1>3, <1>7, ReleasedRow
<1>8. ASSUME NEW t, NEW out \in Outcome(d), CompleteDelivery(d, t, out)
      PROVE  AllEvolve(rows')
  <2>0. rows[d].status = "executing" /\ rows[d].settled = 0 /\ Len(ledger) + 1 \in Nat
    BY <1>0, <1>8 DEF CompleteDelivery
  <2>1. RowsOK(SettledRows(d, out)) /\ DOMAIN SettledRows(d, out) = DOMAIN rows
    BY <1>0, <2>0, SettledRowsOK DEF Held
  <2>2. \A e \in DOMAIN rows : SettledRows(d, out)[e] \in Row /\ rows[e] \in Row
    BY <1>0, <2>1 DEF RowsOK
  <2>3. ASSUME NEW e \in DOMAIN rows
        PROVE  Evolves(rows[e], SettledRows(d, out)[e])
    <3>1. CASE e = d
      <4>1. SettledRows(d, out)[e].token = rows[e].token
        BY <1>0, <3>1 DEF SettledRows, Row, EndLease
      <4> QED
        BY <2>0, <2>2, <3>1, <4>1, OpenEvolves DEF Live, Held
    <3>2. CASE e # d /\ e \in out.settles
      <4>1. rows[e].settled = 0
        BY <3>2 DEF Outcome
      <4>2. SettledRows(d, out)[e].token = rows[e].token
        BY <2>2, <3>2 DEF SettledRows, Row, EndLease
      <4>3. CASE rows[e].status \in Live
        BY <2>2, <4>1, <4>2, <4>3, OpenEvolves
      <4>4. CASE rows[e].status \notin Live
        <5>1. SettledRows(d, out)[e] = [rows[e] EXCEPT !.settled = Len(ledger) + 1]
          BY <3>2, <4>4 DEF SettledRows
        <5>2. /\ SettledRows(d, out)[e].status = rows[e].status
              /\ SettledRows(d, out)[e].lease = rows[e].lease
              /\ rows[e].token \in Nat
          BY <2>2, <5>1, LedgerAssumption DEF Row
        <5> QED
          BY <4>1, <4>2, <5>2 DEF Evolves
      <4> QED
        BY <4>3, <4>4
    <3>3. CASE e # d /\ e \notin out.settles
      BY <2>2, <3>3, SameEvolves DEF SettledRows
    <3> QED
      BY <3>1, <3>2, <3>3
  <2>4. rows' = SettledRows(d, out) \o NewRows(out.creates)
    BY <1>8, CompleteRows
  <2>5. PICK n \in 0..MaxCreated : out.creates \in [1..n -> [node : Nodes, work : Work]]
    BY DEF Outcome
  <2>6. n \in Nat /\ Len(out.creates) = n
    BY <2>5, LedgerAssumption
  <2>7. NewRows(out.creates) \in Seq(Row)
    BY <1>0, <2>5, <2>6, NewRowOK DEF NewRows, RowOK
  <2>8. /\ DOMAIN rows \subseteq DOMAIN rows'
        /\ \A e \in DOMAIN rows : rows'[e] = SettledRows(d, out)[e]
    BY <1>0, <2>1, <2>4, <2>7 DEF RowsOK
  <2> QED
    BY <2>3, <2>8 DEF AllEvolve
<1> QED
  BY <1>1, <1>2, <1>4, <1>5, <1>6, <1>7, <1>8 DEF NodeRequest, ClaimDelivery

\* Every step of the ledger evolves every row.
LEMMA StepEvolves == RowInv /\ [Next]_vars => AllEvolve(rows')
<1> SUFFICES ASSUME RowInv, [Next]_vars PROVE AllEvolve(rows')
  OBVIOUS
<1> USE DEF Deliveries
<1>0. /\ RowsOK(rows) /\ rows \in Seq(Row) /\ clock \in Nat
      /\ \A d \in DOMAIN rows : rows[d] \in Row
  BY RowInvSplit DEF RowsOK, RestOK
<1>same. AllEvolve(rows)
  BY <1>0, SameEvolves DEF AllEvolve
<1>1. ASSUME NEW n \in 1..MaxCreated,
             NEW targets \in [1..n -> [node : Nodes, work : Work]], Activate(targets)
      PROVE  AllEvolve(rows')
  <2>1. n \in Nat /\ Len(targets) = n
    BY LedgerAssumption
  <2>2. NewRows(targets) \in Seq(Row)
    BY <1>0, <2>1, NewRowOK DEF NewRows, RowOK
  <2>3. /\ DOMAIN rows \subseteq DOMAIN rows'
        /\ \A e \in DOMAIN rows : rows'[e] = rows[e]
    BY <1>0, <1>1, <2>2 DEF Activate
  <2> QED
    BY <1>same, <2>3 DEF AllEvolve
<1>2. CASE ReconcileMission
  BY <1>0, <1>2, <1>same, ReconcileEvolves DEF ReconcileMission
<1>3. ASSUME NEW d \in Deliveries, NodeRequest(d) PROVE AllEvolve(rows')
  BY <1>3, NodeRequestEvolves
<1>4. ASSUME NEW n, NEW reason, Revoke(n, reason) PROVE AllEvolve(rows')
  <2>1. ASSUME NEW d \in DOMAIN rows
        PROVE  Evolves(rows[d], CancelLive(rows)[d])
    <3>1. CASE rows[d].status \in Live
      <4>1. /\ EndLease(rows[d], "cancelled") \in Row
            /\ EndLease(rows[d], "cancelled").token = rows[d].token
            /\ EndLease(rows[d], "cancelled").settled = rows[d].settled
        BY <1>0, EndedWork DEF Closed
      <4> QED
        BY <1>0, <3>1, <4>1, OpenEvolves DEF CancelLive
    <3>2. CASE rows[d].status \notin Live
      BY <1>0, <3>2, SameEvolves DEF CancelLive
    <3> QED
      BY <3>1, <3>2
  <2> QED
    BY <1>4, <2>1 DEF Revoke, AllEvolve, CancelLive
<1>5. CASE SetBlock \/ Tick \/ UNCHANGED vars
  BY <1>5, <1>same DEF SetBlock, Tick, vars
<1> QED
  BY <1>1, <1>2, <1>3, <1>4, <1>5 DEF Next, RevokeNode, RevokeWorkspace

\* No step takes a row from the holder of an unexpired lease or moves a
\* fencing token backwards, whoever asks and in whatever order.
THEOREM LeasesAreExclusive == Spec => NoGrantOverLiveLease
<1>1. RowInv /\ [Next]_vars =>
        [\A d \in Deliveries :
            /\ rows'[d].token >= rows[d].token
            /\ rows'[d].token # rows[d].token =>
                  ~(rows[d].status \in Held /\ rows[d].expires > clock)]_vars
  BY StepEvolves DEF AllEvolve, Evolves
<1> QED
  BY <1>1, RowInvInit, RowInvStep, PTL DEF Spec, NoGrantOverLiveLease

\* Acknowledged, cancelled and dead-lettered deliveries stay what they are.
THEOREM ClosedRowsAreFinal == Spec => ClosedIsFinal
<1>1. RowInv /\ [Next]_vars =>
        [\A d \in Deliveries :
            /\ rows[d].status \in Closed =>
                  /\ rows'[d].status = rows[d].status
                  /\ rows'[d].token = rows[d].token
                  /\ rows'[d].lease = rows[d].lease
            /\ rows[d].settled # 0 => rows'[d].settled = rows[d].settled]_vars
  BY StepEvolves DEF AllEvolve, Evolves
<1> QED
  BY <1>1, RowInvInit, RowInvStep, PTL DEF Spec, ClosedIsFinal

-----------------------------------------------------------------------------
(* Publication *)

\* What a step may add to the ledger: nothing, or one entry; a result belongs
\* to the row that the same step acknowledges.
LEMMA LedgerStep ==
    ASSUME RowInv, [Next]_vars
    PROVE  \/ ledger' = ledger
           \/ \E e \in Entry :
                /\ ledger' = Append(ledger, e)
                /\ e.kind = "result" =>
                     /\ e.source \in Deliveries
                     /\ rows'[e.source].status = "acknowledged"
                     /\ rows'[e.source].token = e.token
                     /\ rows'[e.source].settled = Len(ledger) + 1
<1> USE DEF Deliveries
<1> DEFINE Goal == \/ ledger' = ledger
                   \/ \E e \in Entry :
                        /\ ledger' = Append(ledger, e)
                        /\ e.kind = "result" =>
                             /\ e.source \in Deliveries
                             /\ rows'[e.source].status = "acknowledged"
                             /\ rows'[e.source].token = e.token
                             /\ rows'[e.source].settled = Len(ledger) + 1
<1>0. /\ RowsOK(rows) /\ rows \in Seq(Row) /\ ledger \in Seq(Entry) /\ clock \in Nat
      /\ \A d \in DOMAIN rows : RowOK(rows[d]) /\ rows[d] \in Row
  BY RowInvSplit DEF RowsOK, RestOK
<1>1. ASSUME NEW rs \in Seq(Row), NEW new, Reconcile(rs, new) PROVE Goal
  <2>1. CASE TerminalCause(rs) = "none"
    BY <1>1, <2>1 DEF Reconcile
  <2>2. CASE TerminalCause(rs) # "none"
    <3> DEFINE e == [source |-> TerminalSource(rs), token |-> 0, kind |-> "terminal"]
    <3>1. e \in Entry
      BY <2>2, TerminalSourceOK, LedgerAssumption DEF Entry
    <3>2. ledger' = Append(ledger, e) /\ e.kind # "result"
      BY <1>1, <2>2 DEF Reconcile
    <3> QED
      BY <3>1, <3>2
  <2> QED
    BY <2>1, <2>2
<1>2. ASSUME NEW targets, Activate(targets) PROVE Goal
  <2> DEFINE e == [source |-> 0, token |-> 0, kind |-> "activation"]
  <2>1. e \in Entry /\ e.kind # "result"
    BY LedgerAssumption DEF Entry
  <2> QED
    BY <1>2, <2>1 DEF Activate
<1>3. CASE ReconcileMission
  BY <1>0, <1>1, <1>3 DEF ReconcileMission
<1>4. ASSUME NEW d \in Deliveries, NEW t, NEW out \in Outcome(d), CompleteDelivery(d, t, out)
      PROVE  Goal
  <2> DEFINE e == [source |-> d, token |-> t, kind |-> "result"]
             row == [EndLease(rows[d], "acknowledged") EXCEPT !.settled = Len(ledger) + 1]
  <2>1. rows[d].status = "executing" /\ rows[d].token = t /\ d \in Nat
    BY <1>0, <1>4 DEF CompleteDelivery, LeaseAuthority
  <2>2. e \in Entry
    <3>1. t \in 0..MaxAttempts
      BY <1>0, <2>1 DEF Row
    <3> QED
      BY <2>1, <3>1 DEF Entry
  <2>3. RowsOK(SettledRows(d, out)) /\ DOMAIN SettledRows(d, out) = DOMAIN rows
    BY <1>0, <2>1, SettledRowsOK DEF Held
  <2>4. PICK n \in 0..MaxCreated : out.creates \in [1..n -> [node : Nodes, work : Work]]
    BY DEF Outcome
  <2>5. n \in Nat /\ Len(out.creates) = n
    BY <2>4, LedgerAssumption
  <2>6. NewRows(out.creates) \in Seq(Row)
    BY <1>0, <2>4, <2>5, NewRowOK DEF NewRows, RowOK
  <2>7. rows' = SettledRows(d, out) \o NewRows(out.creates)
    BY <1>4, CompleteRows
  <2>8. rows'[d] = SettledRows(d, out)[d]
    BY <2>3, <2>6, <2>7 DEF RowsOK
  <2>9. SettledRows(d, out)[d] = row
    BY DEF SettledRows
  <2>10. row.status = "acknowledged" /\ row.token = t /\ row.settled = Len(ledger) + 1
    BY <1>0, <2>1 DEF Row, EndLease
  <2>11. ledger' = Append(ledger, e)
    BY <1>4 DEF CompleteDelivery
  <2> QED
    BY <2>2, <2>8, <2>9, <2>10, <2>11
<1>5. ASSUME NEW d \in Deliveries, NodeRequest(d) PROVE Goal
  <2>1. \A key : ClaimStored(d, key) \/ ClaimExpired(d, key) => Goal
    BY DEF ClaimStored, ClaimExpired
  <2>2. \A r \in Row : [rows EXCEPT ![d] = r] \in Seq(Row)
    BY <1>0
  <2>3. GivesUp(d) => Goal
    BY <1>1, <2>2 DEF GivesUp
  <2>4. \A t : StartDelivery(d, t) => Goal
    BY DEF StartDelivery
  <2>5. \A t, count : RenewDelivery(d, t, count) => Goal
    BY DEF RenewDelivery
  <2> HIDE DEF Goal
  <2> QED
    BY <1>4, <1>5, <2>1, <2>3, <2>4, <2>5, ExhaustedRow, ReleasedRow
    DEF NodeRequest, ClaimDelivery
<1>6. ASSUME NEW n, NEW reason, Revoke(n, reason) PROVE Goal
  BY <1>6 DEF Revoke
<1>7. CASE SetBlock \/ Tick \/ UNCHANGED vars
  BY <1>7 DEF SetBlock, Tick, vars
<1> QED
  BY <1>2, <1>3, <1>5, <1>6, <1>7 DEF Next, RevokeNode, RevokeWorkspace

\* A published result stays with the last lease granted on its delivery.
LEMMA PublicationStep ==
    ASSUME RowInv, FencedPublication, [Next]_vars
    PROVE  FencedPublication'
<1> USE DEF Deliveries
<1>0. ledger \in Seq(Entry)
  BY DEF RowInv, TypeOK
<1>1. \A d \in Deliveries :
        /\ d \in DOMAIN rows'
        /\ rows[d].status = "acknowledged" =>
              rows'[d].status = "acknowledged" /\ rows'[d].token = rows[d].token
        /\ rows[d].settled # 0 => rows'[d].settled = rows[d].settled
  BY StepEvolves DEF AllEvolve, Evolves, Closed
<1>2. ASSUME NEW i \in DOMAIN ledger, ledger[i].kind = "result"
      PROVE  /\ ledger[i].source \in DOMAIN rows'
             /\ rows'[ledger[i].source].status = "acknowledged"
             /\ rows'[ledger[i].source].token = ledger[i].token
             /\ rows'[ledger[i].source].settled = i
  <2>1. i \in Nat \ {0}
    BY <1>0
  <2> QED
    BY <1>1, <1>2, <2>1 DEF FencedPublication
<1>3. CASE ledger' = ledger
  BY <1>2, <1>3 DEF FencedPublication
<1>4. ASSUME NEW e \in Entry, ledger' = Append(ledger, e),
             e.kind = "result" =>
                 /\ e.source \in Deliveries
                 /\ rows'[e.source].status = "acknowledged"
                 /\ rows'[e.source].token = e.token
                 /\ rows'[e.source].settled = Len(ledger) + 1
      PROVE  FencedPublication'
  <2>1. SUFFICES ASSUME NEW i \in DOMAIN ledger', ledger'[i].kind = "result"
                 PROVE  /\ ledger'[i].source \in DOMAIN rows'
                        /\ rows'[ledger'[i].source].status = "acknowledged"
                        /\ rows'[ledger'[i].source].token = ledger'[i].token
                        /\ rows'[ledger'[i].source].settled = i
    BY DEF FencedPublication
  <2>2. CASE i \in DOMAIN ledger
    <3>1. ledger'[i] = ledger[i]
      BY <1>0, <1>4, <2>2
    <3> QED
      BY <1>2, <2>1, <2>2, <3>1
  <2>3. CASE i \notin DOMAIN ledger
    <3>1. i = Len(ledger) + 1 /\ ledger'[i] = e
      BY <1>0, <1>4, <2>3
    <3> QED
      BY <1>1, <1>4, <2>1, <3>1
  <2> QED
    BY <2>2, <2>3
<1> QED
  BY <1>3, <1>4, LedgerStep

\* Only the holder of the last lease ever granted on a delivery can have
\* published its result, and no later request changes what was published.
THEOREM PublicationIsFenced == Spec => []FencedPublication
<1>1. Init => FencedPublication
  BY DEF Init, FencedPublication
<1> QED
  BY <1>1, RowInvInit, RowInvStep, PublicationStep, PTL DEF Spec

-----------------------------------------------------------------------------
(* Revocation and dead letters *)

\* Before activation there is no row; this carries the other two.
FenceInv ==
    /\ RowInv
    /\ mission = "awaiting_acceptance" => rows = <<>>
    /\ DeadLetterEndsMission
    /\ RevocationFence

\* The fence in terms of a sequence of rows and a set of bindings.
Dead(rs) == \A d \in DOMAIN rs : rs[d].status \notin Live

\* After reconciliation a running Mission has no unresolved dead letter, a
\* Mission does not go back to acceptance, and no row comes to life.
LEMMA ReconcileFence ==
    ASSUME RowInv, NEW rs \in Seq(Row), NEW new, Reconcile(rs, new),
           mission = "awaiting_acceptance" => rs = <<>>
    PROVE  /\ mission' \in Running => UnresolvedDeadLetters(rows') = {}
           /\ mission' = "awaiting_acceptance" => rows' = <<>>
           /\ Dead(rs) => Dead(rows')
<1>1. CASE TerminalCause(rs) = "none"
  <2>1. rows' = rs /\ mission' = mission
    BY <1>1 DEF Reconcile
  <2>2. mission \in Running => UnresolvedDeadLetters(rs) = {}
    BY <1>1 DEF TerminalCause
  <2> QED
    BY <2>1, <2>2
<1>2. CASE TerminalCause(rs) # "none"
  <2>1. mission' \in {"expired", "failed"}
    BY <1>2 DEF Reconcile, TerminalCause
  <2>2. rows' = CancelOpenRows(rs, Len(ledger) + 1)
    BY <1>2 DEF Reconcile
  <2>3. Dead(rs) => rows' = rs
    BY <2>2 DEF CancelOpenRows, OpenRows, Dead
  <2> QED
    BY <2>1, <2>3 DEF Running
<1> QED
  BY <1>1, <1>2

\* The three parts of FenceInv after a step, from what the step leaves.
LEMMA FenceNext ==
    ASSUME RowInv',
           mission' = "awaiting_acceptance" => rows' = <<>>,
           mission' \in Running => UnresolvedDeadLetters(rows') = {},
           RoutingAuthority' \/ Dead(rows')
    PROVE  FenceInv'
BY DEF FenceInv, DeadLetterEndsMission, RevocationFence, Dead, Deliveries

\* Changing one row to anything but a dead letter creates no dead letter.
LEMMA UpdateNoDeadLetter ==
    ASSUME NEW rs \in Seq(Row), UnresolvedDeadLetters(rs) = {},
           NEW d \in DOMAIN rs, NEW r \in Row, r.status # "dead_lettered"
    PROVE  UnresolvedDeadLetters([rs EXCEPT ![d] = r]) = {}
BY DEF UnresolvedDeadLetters

\* New work is no dead letter.
LEMMA ExtendNoDeadLetter ==
    ASSUME clock \in Nat, NEW rs \in Seq(Row), UnresolvedDeadLetters(rs) = {},
           NEW n \in Nat, NEW targets \in [1..n -> [node : Nodes, work : Work]]
    PROVE  UnresolvedDeadLetters(rs \o NewRows(targets)) = {}
<1>1. Len(targets) = n
  OBVIOUS
<1>2. NewRows(targets) \in Seq(Row) /\ Len(NewRows(targets)) = n
  BY <1>1, NewRowOK DEF NewRows, RowOK
<1>3. \A k \in 1..n : NewRows(targets)[k].status = "stored"
  BY <1>1 DEF NewRows, NewRow
<1>4. ASSUME NEW d \in DOMAIN (rs \o NewRows(targets))
      PROVE  ~((rs \o NewRows(targets))[d].status = "dead_lettered"
               /\ (rs \o NewRows(targets))[d].settled = 0)
  <2>1. CASE d \in DOMAIN rs
    <3>1. (rs \o NewRows(targets))[d] = rs[d]
      BY <1>2, <2>1
    <3> QED
      BY <2>1, <3>1 DEF UnresolvedDeadLetters
  <2>2. CASE d \notin DOMAIN rs
    <3>1. d - Len(rs) \in 1..n /\ (rs \o NewRows(targets))[d] = NewRows(targets)[d - Len(rs)]
      BY <1>2, <2>2
    <3> QED
      BY <1>3, <3>1
  <2> QED
    BY <2>1, <2>2
<1> QED
  BY <1>4 DEF UnresolvedDeadLetters

\* Every request of a Node needs routing authority, so only the dead letters
\* matter.
LEMMA NodeRequestFence ==
    ASSUME FenceInv, RowInv', NEW d \in Deliveries, NodeRequest(d)
    PROVE  FenceInv'
<1> USE DEF Deliveries
<1>0. /\ RowInv /\ RowsOK(rows) /\ rows \in Seq(Row) /\ clock \in Nat
      /\ ledger \in Seq(Entry) /\ rows[d] \in Row /\ RowOK(rows[d])
  BY RowInvSplit DEF FenceInv, RowsOK, RestOK
<1>1. RoutingAuthority /\ mission \in Running /\ UNCHANGED binding
  BY DEF NodeRequest, ClaimDelivery, ClaimStored, ClaimExpired, ClaimExhausted,
     StartDelivery, RenewDelivery, ReleaseDelivery, CompleteDelivery, Mutable, Authorized,
     Runnable
<1>2. RoutingAuthority' /\ mission # "awaiting_acceptance"
      /\ UnresolvedDeadLetters(rows) = {}
  BY <1>1 DEF RoutingAuthority, Running, FenceInv, DeadLetterEndsMission
<1>3. ASSUME NEW r \in Row, r.status # "dead_lettered", rows' = [rows EXCEPT ![d] = r],
             mission' = mission
      PROVE  FenceInv'
  BY <1>0, <1>2, <1>3, UpdateNoDeadLetter, FenceNext
<1>4. ASSUME NEW key, ClaimStored(d, key) PROVE FenceInv'
  <2>1. Grant(rows[d]) \in Row /\ Grant(rows[d]).status = "leased"
    <3>1. RowOK(Grant(rows[d]))
      BY <1>0, <1>4, GrantOK DEF ClaimStored
    <3> QED
      BY <1>0, <3>1 DEF RowOK, Grant, Row
  <2> QED
    BY <1>3, <1>4, <2>1 DEF ClaimStored
<1>5. ASSUME NEW key, ClaimExpired(d, key) PROVE FenceInv'
  <2> DEFINE expired == [EndLease(rows[d], "stored") EXCEPT !.available = clock]
             r == Grant(expired)
  <2>1. rows' = [rows EXCEPT ![d] = r] /\ mission' = mission
    BY <1>5 DEF ClaimExpired
  <2>2. r.status = "leased"
    BY <1>0 DEF Grant, Row, EndLease
  <2>3. r \in Row
    <3>1. rows' \in Seq(Row) /\ rows'[d] = r /\ DOMAIN rows' = DOMAIN rows
      BY <1>0, <2>1 DEF RowInv, TypeOK
    <3> QED
      BY <3>1
  <2> HIDE DEF r
  <2> QED
    BY <1>3, <2>1, <2>2, <2>3
<1>6. ASSUME NEW t, StartDelivery(d, t) PROVE FenceInv'
  <2>1. [rows[d] EXCEPT !.status = "executing"] \in Row
        /\ [rows[d] EXCEPT !.status = "executing"].status = "executing"
    BY <1>0 DEF Row, Live, Held
  <2> QED
    BY <1>3, <1>6, <2>1 DEF StartDelivery
<1>7. ASSUME NEW t, NEW count, RenewDelivery(d, t, count) PROVE FenceInv'
  <2>1. rows[d].status \in Held
    BY <1>7 DEF RenewDelivery
  <2>2. [rows[d] EXCEPT !.expires = BoundedLeaseExpiry] \in Row
        /\ [rows[d] EXCEPT !.expires = BoundedLeaseExpiry].status # "dead_lettered"
    BY <1>0, <2>1, LeaseExpiryOK DEF Row, Held
  <2> QED
    BY <1>3, <1>7, <2>2 DEF RenewDelivery
<1>8. ASSUME GivesUp(d) PROVE FenceInv'
  <2>1. PICK r \in Row : \E new : Reconcile([rows EXCEPT ![d] = r], new)
    BY <1>8 DEF GivesUp
  <2>2. [rows EXCEPT ![d] = r] \in Seq(Row)
    BY <1>0
  <2> QED
    BY <1>0, <1>2, <2>1, <2>2, ReconcileFence, FenceNext
<1>9. ASSUME NEW t, NEW out \in Outcome(d), CompleteDelivery(d, t, out)
      PROVE  FenceInv'
  <2>0. rows[d].status = "executing" /\ Len(ledger) + 1 \in Nat \ {0}
    BY <1>0, <1>9 DEF CompleteDelivery
  <2>1. RowsOK(SettledRows(d, out)) /\ DOMAIN SettledRows(d, out) = DOMAIN rows
    BY <1>0, <2>0, SettledRowsOK DEF Held
  <2>2. ASSUME NEW e \in DOMAIN rows, SettledRows(d, out)[e].status = "dead_lettered",
               SettledRows(d, out)[e].settled = 0
        PROVE  FALSE
    <3>0. rows[e] \in Row
      BY <1>0
    <3>1. SettledRows(d, out)[e] = rows[e]
      BY <2>0, <2>2, <3>0 DEF SettledRows, Row, EndLease
    <3> QED
      BY <1>2, <2>2, <3>1 DEF UnresolvedDeadLetters
  <2>3. UnresolvedDeadLetters(SettledRows(d, out)) = {}
    BY <2>1, <2>2 DEF UnresolvedDeadLetters
  <2>4. PICK n \in 0..MaxCreated : out.creates \in [1..n -> [node : Nodes, work : Work]]
    BY DEF Outcome
  <2>5. n \in Nat
    BY LedgerAssumption
  <2>6. UnresolvedDeadLetters(rows') = {}
    BY <1>0, <1>9, <2>1, <2>3, <2>4, <2>5, CompleteRows, ExtendNoDeadLetter DEF RowsOK
  <2>7. mission' # "awaiting_acceptance"
    BY <1>9 DEF CompleteDelivery, Outcome, Running
  <2> QED
    BY <1>2, <2>6, <2>7, FenceNext
<1> QED
  BY <1>0, <1>4, <1>5, <1>6, <1>7, <1>8, <1>9, ExhaustedRow, ReleasedRow
  DEF NodeRequest, ClaimDelivery

\* Every step keeps the fences.
LEMMA FenceStep == FenceInv /\ [Next]_vars => FenceInv'
<1> SUFFICES ASSUME FenceInv, [Next]_vars PROVE FenceInv'
  OBVIOUS
<1> USE DEF Deliveries
<1>0. /\ RowInv /\ RowInv' /\ rows \in Seq(Row) /\ clock \in Nat
      /\ mission = "awaiting_acceptance" => rows = <<>>
      /\ mission \in Running => UnresolvedDeadLetters(rows) = {}
      /\ RoutingAuthority \/ Dead(rows)
  BY RowInvStep DEF FenceInv, RowInv, TypeOK, DeadLetterEndsMission, RevocationFence, Dead
<1>1. ASSUME NEW n \in 1..MaxCreated,
             NEW targets \in [1..n -> [node : Nodes, work : Work]], Activate(targets)
      PROVE  FenceInv'
  <2>1. RoutingAuthority' /\ rows = <<>> /\ mission' = "active"
    BY <1>0, <1>1 DEF Activate, Authorized, RoutingAuthority
  <2>2. n \in Nat /\ UnresolvedDeadLetters(rows) = {}
    BY <2>1, LedgerAssumption DEF UnresolvedDeadLetters
  <2>3. UnresolvedDeadLetters(rows') = {}
    BY <1>0, <1>1, <2>2, ExtendNoDeadLetter DEF Activate
  <2> QED
    BY <1>0, <2>1, <2>3, FenceNext
<1>2. CASE ReconcileMission
  <2>1. Reconcile(rows, {}) /\ RoutingAuthority' = RoutingAuthority
    BY <1>2 DEF ReconcileMission, RoutingAuthority
  <2> QED
    BY <1>0, <2>1, ReconcileFence, FenceNext
<1>3. ASSUME NEW d \in Deliveries, NodeRequest(d) PROVE FenceInv'
  BY <1>0, <1>3, NodeRequestFence
<1>4. ASSUME NEW n, NEW reason, Revoke(n, reason) PROVE FenceInv'
  <2>1. rows' = CancelLive(rows) /\ mission' = mission
    BY <1>4 DEF Revoke
  <2>2. \A d \in DOMAIN rows : rows[d] \in Row
    BY <1>0
  <2>3. Dead(rows')
    BY <2>1, <2>2 DEF Dead, CancelLive, EndLease, Row, Live, Held
  <2>4. UnresolvedDeadLetters(rows) = {} => UnresolvedDeadLetters(rows') = {}
    BY <2>1, <2>2 DEF UnresolvedDeadLetters, CancelLive, EndLease, Row, Live, Held
  <2>5. rows = <<>> => rows' = <<>>
    <3> SUFFICES ASSUME rows = <<>> PROVE rows' = <<>>
      OBVIOUS
    <3>1. rows' \in Seq(Row) /\ DOMAIN rows' = {}
      BY <1>0, <2>1 DEF CancelLive, RowInv, TypeOK
    <3> QED
      BY <3>1
  <2> QED
    BY <1>0, <2>1, <2>3, <2>4, <2>5, FenceNext
<1>5. CASE SetBlock \/ Tick \/ UNCHANGED vars
  <2>1. UNCHANGED <<mission, rows, binding>>
    BY <1>5 DEF SetBlock, Tick, vars
  <2> QED
    BY <1>0, <2>1, FenceNext DEF RoutingAuthority
<1> QED
  BY <1>1, <1>2, <1>3, <1>4, <1>5 DEF Next, RevokeNode, RevokeWorkspace

\* The fences hold of the empty ledger.
LEMMA FenceInit == Init => FenceInv
BY RowInvInit DEF Init, FenceInv, DeadLetterEndsMission, RevocationFence, Running, Deliveries,
   RoutingAuthority

\* Once any participant's route is revoked, no delivery of the Mission is live
\* again, whatever requests were under way.
THEOREM RevocationIsFence == Spec => []RevocationFence
<1>1. FenceInv => RevocationFence
  BY DEF FenceInv
<1> QED
  BY <1>1, FenceInit, FenceStep, PTL DEF Spec

\* A running Mission never has unresolved dead work.
THEOREM DeadLettersEndMissions == Spec => []DeadLetterEndsMission
<1>1. FenceInv => DeadLetterEndsMission
  BY DEF FenceInv
<1> QED
  BY <1>1, FenceInit, FenceStep, PTL DEF Spec

-----------------------------------------------------------------------------
(* Receipts account for leases *)

IsGrant(r) == r.op = "claim" /\ r.after = "leased"
IsCloser(r) ==
    \/ r.op \in {"lease_expired", "release", "complete"}
    \/ r.op = "cancel" /\ r.lease # 0
    \/ r.op = "claim" /\ r.after = "dead_lettered"

Granting(N, d) == {r \in N : r.delivery = d /\ IsGrant(r)}
Closing(N, d) == {r \in N : r.delivery = d /\ IsCloser(r)}

Ends(old, new) == old.status \in Held /\ (new.status \notin Held \/ new.attempt # old.attempt)

\* The receipts N of one step are the books of row d, old before it and new
\* after it.
Booked(N, d, old, new) ==
    /\ \/ /\ new.attempt = old.attempt
          /\ new.status \in Held => old.status \in Held
          /\ Granting(N, d) = {}
       \/ /\ new.attempt = old.attempt + 1 /\ new.status \in Held
          /\ \E g : Granting(N, d) = {g} /\ g.attempt = new.attempt
    /\ Ends(old, new) => \E c : Closing(N, d) = {c} /\ c.attempt = old.attempt
    /\ ~Ends(old, new) => Closing(N, d) = {}

\* The strengthening of AttemptsAccounted: no receipt is about an attempt
\* that no row has had yet.
Account ==
    /\ \A r \in receipts : IsGrant(r) \/ IsCloser(r) =>
          r.delivery \in Deliveries /\ r.attempt \in 1..rows[r.delivery].attempt
    /\ \A d \in Deliveries : \A a \in 1..rows[d].attempt :
          /\ \E g : Grants(d, a) = {g}
          /\ IF a = rows[d].attempt /\ rows[d].status \in Held
             THEN Closers(d, a) = {} ELSE \E c : Closers(d, a) = {c}

\* A step that keeps the books of every row keeps the account.
LEMMA AccountKept ==
    ASSUME RowInv, RowInv', Account, NEW N, receipts' = receipts \cup N,
           Deliveries \subseteq Deliveries',
           \A r \in N : IsGrant(r) \/ IsCloser(r) => r.delivery \in Deliveries,
           \A d \in Deliveries : Booked(N, d, rows[d], rows'[d]),
           \A d \in Deliveries' \ Deliveries : rows'[d].attempt = 0
    PROVE  Account'
<1>1. \A d \in Deliveries : rows[d].attempt \in Nat
  <2>1. \A d \in Deliveries : rows[d] \in Row
    BY DEF RowInv, TypeOK, Deliveries
  <2> QED
    BY <2>1, LedgerAssumption DEF Row
<1>2. \A d, a : /\ Grants(d, a)' = Grants(d, a) \cup {r \in Granting(N, d) : r.attempt = a}
                /\ Closers(d, a)' = Closers(d, a) \cup {r \in Closing(N, d) : r.attempt = a}
  BY DEF Grants, Closers, Granting, Closing, IsGrant, IsCloser
<1>3. \A d \in Deliveries : rows'[d].attempt \in {rows[d].attempt, rows[d].attempt + 1}
  BY DEF Booked
<1>4. ASSUME NEW r \in receipts', IsGrant(r) \/ IsCloser(r)
      PROVE  r.delivery \in Deliveries' /\ r.attempt \in 1..rows'[r.delivery].attempt
  <2>1. CASE r \in receipts
    <3>1. r.delivery \in Deliveries /\ r.attempt \in 1..rows[r.delivery].attempt
      BY <1>4, <2>1 DEF Account
    <3> QED
      BY <1>1, <1>3, <3>1
  <2>2. CASE r \in N
    <3> DEFINE d == r.delivery
    <3>1. d \in Deliveries /\ Booked(N, d, rows[d], rows'[d])
      BY <1>4, <2>2
    <3>2. r \in Granting(N, d) \/ r \in Closing(N, d)
      BY <1>4, <2>2 DEF Granting, Closing
    <3>3. CASE r \in Granting(N, d)
      BY <1>1, <3>1, <3>3 DEF Booked
    <3>4. CASE r \in Closing(N, d)
      <4>1. Ends(rows[d], rows'[d]) /\ r.attempt = rows[d].attempt
        BY <3>1, <3>4 DEF Booked
      <4>2. rows[d].attempt \in 1..MaxAttempts
        <5>1. RowOK(rows[d])
          BY <3>1, RowInvSplit DEF RowsOK, Deliveries
        <5> QED
          BY <4>1, <5>1, HeldRow DEF Ends
      <4> QED
        BY <1>1, <1>3, <3>1, <4>1, <4>2
    <3> QED
      BY <3>2, <3>3, <3>4
  <2> QED
    BY <2>1, <2>2
<1>5. ASSUME NEW d \in Deliveries', NEW a \in 1..rows'[d].attempt
      PROVE  /\ \E g : Grants(d, a)' = {g}
             /\ IF a = rows'[d].attempt /\ rows'[d].status \in Held
                THEN Closers(d, a)' = {} ELSE \E c : Closers(d, a)' = {c}
  <2>1. d \in Deliveries
    <3>1. CASE d \in Deliveries' \ Deliveries
      <4>1. rows'[d].attempt = 0
        BY <3>1
      <4> QED
        BY <1>5, <4>1
    <3> QED
      BY <3>1
  <2> DEFINE old == rows[d]
             new == rows'[d]
  <2>2. /\ old.attempt \in Nat /\ Booked(N, d, old, new)
        /\ new.attempt \in {old.attempt, old.attempt + 1} /\ a \in 1..new.attempt
    BY <1>1, <1>3, <1>5, <2>1
  <2>3. a \in 1..old.attempt =>
           /\ \E g : Grants(d, a) = {g}
           /\ IF a = old.attempt /\ old.status \in Held
              THEN Closers(d, a) = {} ELSE \E c : Closers(d, a) = {c}
    BY <2>1 DEF Account
  <2>4. a \notin 1..old.attempt => Grants(d, a) = {} /\ Closers(d, a) = {}
    <3>1. a \notin 1..old.attempt =>
             \A r \in receipts : r.delivery = d /\ r.attempt = a => ~IsGrant(r) /\ ~IsCloser(r)
      BY DEF Account
    <3> QED
      BY <3>1 DEF Grants, Closers, IsGrant, IsCloser
  <2> HIDE DEF old, new
  <2>5. CASE new.attempt = old.attempt /\ Granting(N, d) = {}
    <3>1. a \in 1..old.attempt
      BY <2>2, <2>5
    <3>2. Grants(d, a)' = Grants(d, a)
      BY <1>2, <2>5
    <3>3. CASE Ends(old, new)
      <4>1. PICK c : Closing(N, d) = {c} /\ c.attempt = old.attempt
        BY <2>2, <3>3 DEF Booked
      <4>2. new.status \notin Held /\ old.status \in Held
        BY <2>5, <3>3 DEF Ends
      <4>3. CASE a = old.attempt
        <5>1. Closers(d, a)' = {c}
          BY <1>2, <2>3, <3>1, <4>1, <4>2, <4>3
        <5> QED
          BY <2>3, <3>1, <3>2, <4>2, <5>1 DEF new
      <4>4. CASE a # old.attempt
        <5>1. Closers(d, a)' = Closers(d, a)
          BY <1>2, <4>1, <4>4
        <5> QED
          BY <2>3, <3>1, <3>2, <4>2, <4>4, <5>1 DEF new
      <4> QED
        BY <4>3, <4>4
    <3>4. CASE ~Ends(old, new)
      <4>1. Closers(d, a)' = Closers(d, a)
        BY <1>2, <2>2, <3>4 DEF Booked
      <4>2. new.status \in Held <=> old.status \in Held
        BY <2>2, <2>5, <3>4 DEF Booked, Ends
      <4> QED
        BY <2>3, <2>5, <3>1, <3>2, <4>1, <4>2 DEF new
    <3> QED
      BY <3>3, <3>4
  <2>6. CASE /\ new.attempt = old.attempt + 1 /\ new.status \in Held
             /\ \E g : Granting(N, d) = {g} /\ g.attempt = new.attempt
    <3>1. PICK g : Granting(N, d) = {g} /\ g.attempt = new.attempt
      BY <2>6
    <3>2. Ends(old, new) <=> old.status \in Held
      BY <2>2, <2>6 DEF Ends
    <3>3. CASE a = new.attempt
      <4>1. a \notin 1..old.attempt
        BY <2>2, <2>6, <3>3
      <4>2. Grants(d, a)' = {g}
        BY <1>2, <2>4, <3>1, <3>3, <4>1
      <4>3. {r \in Closing(N, d) : r.attempt = a} = {}
        BY <2>2, <2>6, <3>2, <3>3 DEF Booked
      <4>4. Closers(d, a)' = {}
        BY <1>2, <2>4, <4>1, <4>3
      <4> QED
        BY <2>6, <3>3, <4>2, <4>4 DEF new
    <3>4. CASE a # new.attempt
      <4>1. a \in 1..old.attempt
        BY <2>2, <2>6, <3>4
      <4>2. Grants(d, a)' = Grants(d, a)
        BY <1>2, <3>1, <3>4
      <4>3. \E c : Closers(d, a)' = {c}
        <5>1. CASE old.status \in Held /\ a = old.attempt
          <6>1. PICK c : Closing(N, d) = {c} /\ c.attempt = old.attempt
            BY <2>2, <3>2, <5>1 DEF Booked
          <6>2. Closers(d, a)' = {c}
            BY <1>2, <2>3, <4>1, <5>1, <6>1
          <6> QED
            BY <6>2
        <5>2. CASE ~(old.status \in Held /\ a = old.attempt)
          <6>1. {r \in Closing(N, d) : r.attempt = a} = {}
            BY <2>2, <3>2, <5>2 DEF Booked
          <6>2. Closers(d, a)' = Closers(d, a)
            BY <1>2, <6>1
          <6> QED
            BY <2>3, <4>1, <5>2, <6>2
        <5> QED
          BY <5>1, <5>2
      <4> QED
        BY <2>3, <3>4, <4>1, <4>2, <4>3 DEF new
    <3> QED
      BY <3>3, <3>4
  <2> QED
    BY <2>2, <2>5, <2>6 DEF Booked
<1> QED
  BY <1>4, <1>5 DEF Account

\* The fields of a receipt.
LEMMA ReceiptFields ==
    ASSUME NEW op, NEW d, NEW key, NEW row, NEW lease, NEW after
    PROVE  LET r == ReceiptOf(op, d, key, row, lease, after) IN
           /\ r.op = op /\ r.delivery = d /\ r.attempt = row.attempt
           /\ r.lease = lease /\ r.after = after
BY DEF ReceiptOf

\* A row that keeps its attempt and its holder has no books to keep.
LEMMA BookedSame ==
    ASSUME NEW N, NEW d, NEW old, NEW new, new.attempt = old.attempt,
           new.status \in Held <=> old.status \in Held,
           Granting(N, d) = {}, Closing(N, d) = {}
    PROVE  Booked(N, d, old, new)
BY DEF Booked, Ends

\* A row whose lease ends.
LEMMA BookedEnd ==
    ASSUME NEW N, NEW d, NEW old, NEW new, new.attempt = old.attempt,
           old.status \in Held, new.status \notin Held,
           Granting(N, d) = {}, NEW c, Closing(N, d) = {c}, c.attempt = old.attempt
    PROVE  Booked(N, d, old, new)
BY DEF Booked, Ends

\* The receipt of a cancelled row closes its lease, if it has one.
LEMMA CancelBooks ==
    ASSUME NEW rs, NEW ds, NEW d
    PROVE  LET N == CancelReceipts(rs, ds)
               c == ReceiptOf("cancel", d, <<0, 0>>, rs[d], rs[d].lease, "cancelled")
           IN  /\ Granting(N, d) = {}
               /\ Closing(N, d) = IF d \in ds /\ rs[d].lease # 0 THEN {c} ELSE {}
               /\ c.attempt = rs[d].attempt
               /\ \A r \in N : r.delivery \in ds
<1> DEFINE R(e) == ReceiptOf("cancel", e, <<0, 0>>, rs[e], rs[e].lease, "cancelled")
           N == CancelReceipts(rs, ds)
<1>1. \A e : /\ R(e).op = "cancel" /\ R(e).delivery = e /\ R(e).lease = rs[e].lease
             /\ R(e).attempt = rs[e].attempt
  BY DEF ReceiptOf
<1>2. N = {R(e) : e \in ds}
  BY DEF CancelReceipts
<1> HIDE DEF R
<1>3. Granting(N, d) = {}
  BY <1>1, <1>2 DEF Granting, IsGrant
<1>4. \A r \in N : r.delivery = d => r = R(d) /\ d \in ds
  BY <1>1, <1>2
<1>5. IsCloser(R(d)) <=> rs[d].lease # 0
  BY <1>1 DEF IsCloser
<1>6. Closing(N, d) = IF d \in ds /\ rs[d].lease # 0 THEN {R(d)} ELSE {}
  BY <1>1, <1>2, <1>4, <1>5 DEF Closing
<1> QED
  BY <1>1, <1>2, <1>3, <1>6 DEF R

\* A cancelled row.
LEMMA CancelBooked ==
    ASSUME NEW rs, NEW ds, NEW d, NEW new, RowOK(rs[d]), new.attempt = rs[d].attempt,
           d \in ds => new.status = "cancelled",
           d \notin ds => new.status = rs[d].status
    PROVE  Booked(CancelReceipts(rs, ds), d, rs[d], new)
<1>1. rs[d].status \in Held <=> rs[d].lease # 0
  BY DEF RowOK, RowCheck
<1>2. "cancelled" \notin Held
  BY DEF Held
<1>3. CASE d \in ds /\ rs[d].lease # 0
  BY <1>1, <1>2, <1>3, CancelBooks, BookedEnd
<1>4. CASE ~(d \in ds /\ rs[d].lease # 0)
  BY <1>1, <1>2, <1>4, CancelBooks, BookedSame
<1> QED
  BY <1>3, <1>4

\* Fields that ending a lease and a settlement leave or set.
LEMMA EndedFields ==
    ASSUME NEW r \in Row, NEW s, NEW e
    PROVE  /\ EndLease(r, s).attempt = r.attempt /\ EndLease(r, s).status = s
           /\ [EndLease(r, s) EXCEPT !.settled = e].attempt = r.attempt
           /\ [EndLease(r, s) EXCEPT !.settled = e].status = s
           /\ [EndLease(r, s) EXCEPT !.available = e].attempt = r.attempt
           /\ [EndLease(r, s) EXCEPT !.available = e].status = s
           /\ [r EXCEPT !.settled = e].attempt = r.attempt
           /\ [r EXCEPT !.settled = e].status = r.status
BY DEF EndLease, Row

\* A Node gives up row d, or nothing happens to any row, and the transaction
\* reconciles.
LEMMA ReconcileAccount ==
    ASSUME RowInv, RowInv', Account, NEW rs, RowsOK(rs), DOMAIN rs = Deliveries,
           NEW new, Reconcile(rs, new),
           \A r \in new : r.delivery \in Deliveries,
           \A d \in Deliveries : /\ Booked(new, d, rows[d], rs[d])
                                 /\ rs[d].attempt = rows[d].attempt
                                 /\ \/ Granting(new, d) = {} /\ Closing(new, d) = {}
                                    \/ rs[d].status \notin Held
    PROVE  Account'
<1>1. CASE TerminalCause(rs) = "none"
  <2>1. rows' = rs /\ receipts' = receipts \cup new
    BY <1>1 DEF Reconcile
  <2>2. Deliveries' = Deliveries
    BY <2>1 DEF Deliveries
  <2> QED
    BY <2>1, <2>2, AccountKept
<1>2. CASE TerminalCause(rs) # "none"
  <2> DEFINE C == CancelReceipts(rs, OpenRows(rs))
             N == new \cup C
  <2>1. /\ rows' = CancelOpenRows(rs, Len(ledger) + 1)
        /\ receipts' = receipts \cup N
    BY <1>2 DEF Reconcile
  <2>2. Deliveries' = Deliveries
    BY <2>1 DEF Deliveries, CancelOpenRows
  <2>3. \A d \in Deliveries : rs[d] \in Row /\ RowOK(rs[d])
    BY DEF RowsOK, RowOK
  <2>4. \A d \in Deliveries :
           /\ rows'[d].attempt = rs[d].attempt
           /\ d \in OpenRows(rs) => rows'[d].status = "cancelled"
           /\ d \notin OpenRows(rs) => rows'[d].status = rs[d].status
    BY <2>1, <2>3, EndedFields DEF CancelOpenRows
  <2>5. \A r \in N : r.delivery \in Deliveries
    <3>1. \A r \in C : r.delivery \in OpenRows(rs)
      BY CancelBooks
    <3>2. OpenRows(rs) \subseteq Deliveries
      BY DEF OpenRows
    <3> QED
      BY <3>1, <3>2
  <2>6. ASSUME NEW d \in Deliveries PROVE Booked(N, d, rows[d], rows'[d])
    <3>1. Booked(C, d, rs[d], rows'[d])
      BY <2>3, <2>4, CancelBooked
    <3>2. /\ Booked(new, d, rows[d], rs[d]) /\ rs[d].attempt = rows[d].attempt
          /\ (Granting(new, d) = {} /\ Closing(new, d) = {}) \/ rs[d].status \notin Held
      OBVIOUS
    <3>3. rs[d].attempt \in Nat /\ rows'[d].attempt = rs[d].attempt
      BY <2>3, <2>4, LedgerAssumption DEF Row
    <3>4. Granting(new, d) = {} /\ Granting(C, d) = {}
      BY <3>2, <3>3, CancelBooks DEF Booked
    <3>5. Granting(N, d) = {} /\ Closing(N, d) = Closing(new, d) \cup Closing(C, d)
      <4> HIDE DEF C
      <4>1. /\ Granting(N, d) = Granting(new, d) \cup Granting(C, d)
            /\ Closing(N, d) = Closing(new, d) \cup Closing(C, d)
        BY DEF Granting, Closing
      <4> QED
        BY <3>4, <4>1
    <3>6. CASE rs[d].status \in Held
      <4>1. Closing(new, d) = {} /\ rows[d].status \in Held
        BY <3>2, <3>3, <3>6 DEF Booked
      <4> QED
        BY <3>1, <3>2, <3>3, <3>5, <3>6, <4>1 DEF Booked, Ends
    <3>7. CASE rs[d].status \notin Held
      <4>1. rows'[d].status \notin Held
        BY <2>4, <3>7 DEF Held
      <4>2. Closing(C, d) = {}
        BY <3>1, <3>7 DEF Booked, Ends
      <4> QED
        BY <3>2, <3>3, <3>5, <3>7, <4>1, <4>2 DEF Booked, Ends
    <3> QED
      BY <3>6, <3>7
  <2> HIDE DEF N
  <2> QED
    BY <2>1, <2>2, <2>5, <2>6, AccountKept
<1> QED
  BY <1>1, <1>2

\* One receipt, on one row.
LEMMA OneReceipt ==
    ASSUME NEW r, NEW d
    PROVE  /\ Granting({r}, d) = IF r.delivery = d /\ IsGrant(r) THEN {r} ELSE {}
           /\ Closing({r}, d) = IF r.delivery = d /\ IsCloser(r) THEN {r} ELSE {}
BY DEF Granting, Closing

\* A claim.
LEMMA ClaimAccount ==
    ASSUME RowInv, RowInv', Account, NEW d \in Deliveries, NEW key, ClaimDelivery(d, key)
    PROVE  Account'
<1> USE DEF Deliveries
<1>0. /\ RowsOK(rows) /\ rows \in Seq(Row) /\ d \in DOMAIN rows
      /\ \A e \in DOMAIN rows : RowOK(rows[e]) /\ rows[e] \in Row /\ rows[e].attempt \in Nat
  <2>1. RowsOK(rows)
    BY RowInvSplit
  <2>2. \A e \in DOMAIN rows : RowOK(rows[e]) /\ rows[e] \in Row
    BY <2>1 DEF RowsOK, RowOK
  <2> QED
    BY <2>1, <2>2, LedgerAssumption DEF RowsOK, Row
<1> DEFINE row == rows[d]
<1>1. ASSUME NEW old \in Row, old.attempt = row.attempt
      PROVE  /\ Grant(old).attempt = row.attempt + 1 /\ Grant(old).status = "leased"
             /\ LET r == ClaimReceipt(d, key, old) IN
                /\ r.delivery = d /\ r.attempt = row.attempt + 1
                /\ IsGrant(r) /\ ~IsCloser(r)
  <2>1. [old EXCEPT !.attempt = @ + 1].attempt = row.attempt + 1
    BY <1>1 DEF Row
  <2>2. Grant(old).attempt = row.attempt + 1 /\ Grant(old).status = "leased"
    BY <1>1 DEF Row, Grant
  <2> QED
    BY <2>1, <2>2 DEF ClaimReceipt, ReceiptOf, IsGrant, IsCloser
<1>2. CASE ClaimStored(d, key)
  <2> DEFINE r == ClaimReceipt(d, key, row)
             N == {r}
  <2>1. /\ rows' = [rows EXCEPT ![d] = Grant(row)] /\ receipts' = receipts \cup N
        /\ row.status = "stored"
    BY <1>2 DEF ClaimStored
  <2>2. /\ Grant(row).attempt = row.attempt + 1 /\ Grant(row).status = "leased"
        /\ r.delivery = d /\ r.attempt = row.attempt + 1 /\ IsGrant(r) /\ ~IsCloser(r)
    BY <1>0, <1>1
  <2>3. /\ DOMAIN rows' = DOMAIN rows /\ rows'[d] = Grant(row)
        /\ \A e \in DOMAIN rows \ {d} : rows'[e] = rows[e]
    BY <1>0, <2>1
  <2> HIDE DEF r
  <2>4. /\ \A e : Closing(N, e) = {}
        /\ Granting(N, d) = {r} /\ \A e \in DOMAIN rows \ {d} : Granting(N, e) = {}
    BY <2>2, OneReceipt
  <2>5. ASSUME NEW e \in DOMAIN rows PROVE Booked(N, e, rows[e], rows'[e])
    <3>1. CASE e = d
      <4>1. row.status \notin Held /\ Grant(row).status \in Held
        BY <2>1, <2>2 DEF Held
      <4> HIDE DEF N
      <4> QED
        BY <2>2, <2>3, <2>4, <3>1, <4>1 DEF Booked, Ends
    <3>2. CASE e # d
      BY <2>3, <2>4, <3>2, BookedSame
    <3> QED
      BY <3>1, <3>2
  <2>6. \A x \in N : x.delivery \in DOMAIN rows
    BY <2>2
  <2> HIDE DEF N
  <2> QED
    BY <2>1, <2>3, <2>5, <2>6, AccountKept
<1>3. CASE ClaimExpired(d, key)
  <2> DEFINE expired == [EndLease(row, "stored") EXCEPT !.available = clock]
             r == ClaimReceipt(d, key, expired)
             c == ReceiptOf("lease_expired", d, <<row.attempt, 0>>, row, row.lease, "stored")
             N == {c} \cup {r}
  <2>1. /\ rows' = [rows EXCEPT ![d] = Grant(expired)] /\ receipts' = receipts \cup N
        /\ row.status \in Held
    BY <1>3 DEF ClaimExpired, LeaseLapsed
  <2>a. expired.attempt = row.attempt /\ expired \in Row
    <3>1. clock \in Nat /\ 0 \in 0..MaxAttempts /\ "stored" \in Live
      BY LedgerAssumption DEF RowInv, TypeOK, Live
    <3> QED
      BY <1>0, <3>1 DEF EndLease, Row
  <2>2. /\ Grant(expired).attempt = row.attempt + 1 /\ Grant(expired).status = "leased"
        /\ r.delivery = d /\ r.attempt = row.attempt + 1 /\ IsGrant(r) /\ ~IsCloser(r)
    BY <1>1, <2>a
  <2>b. c.delivery = d /\ c.attempt = row.attempt /\ ~IsGrant(c) /\ IsCloser(c)
    BY DEF ReceiptOf, IsGrant, IsCloser
  <2>3. /\ DOMAIN rows' = DOMAIN rows /\ rows'[d] = Grant(expired)
        /\ \A e \in DOMAIN rows \ {d} : rows'[e] = rows[e]
    BY <1>0, <2>1
  <2> HIDE DEF r, c, expired
  <2>4. /\ Closing(N, d) = {c} /\ Granting(N, d) = {r}
        /\ \A e \in DOMAIN rows \ {d} : Granting(N, e) = {} /\ Closing(N, e) = {}
    BY <2>2, <2>b DEF Granting, Closing
  <2>5. ASSUME NEW e \in DOMAIN rows PROVE Booked(N, e, rows[e], rows'[e])
    <3> HIDE DEF N
    <3>1. CASE e = d
      <4>1. Grant(expired).status \in Held /\ row.attempt \in Nat
        BY <1>0, <2>2 DEF Held
      <4>2. Ends(row, Grant(expired))
        BY <2>1, <2>2, <4>1 DEF Ends
      <4> QED
        BY <2>2, <2>b, <2>3, <2>4, <3>1, <4>1, <4>2 DEF Booked
    <3>2. CASE e # d
      BY <2>3, <2>4, <3>2, BookedSame
    <3> QED
      BY <3>1, <3>2
  <2>6. \A x \in N : x.delivery \in DOMAIN rows
    BY <2>2, <2>b
  <2> HIDE DEF N
  <2> QED
    BY <2>1, <2>3, <2>5, <2>6, AccountKept
<1>4. CASE ClaimExhausted(d, key)
  <2> DEFINE dead == EndLease(row, "dead_lettered")
             c == ReceiptOf("claim", d, key, row, 0, "dead_lettered")
             rs == [rows EXCEPT ![d] = dead]
             N == {c}
  <2>1. Reconcile(rs, N) /\ row.status \in Held
    BY <1>4 DEF ClaimExhausted, LeaseLapsed
  <2>2. RowOK(dead)
    BY <1>0, EndLeaseUnsettled DEF Live, Closed, Held
  <2>3. dead.attempt = row.attempt /\ dead.status = "dead_lettered"
    BY <1>0, EndedFields
  <2>4. c.delivery = d /\ c.attempt = row.attempt /\ ~IsGrant(c) /\ IsCloser(c)
    BY DEF ReceiptOf, IsGrant, IsCloser
  <2> HIDE DEF dead, c
  <2>5. RowsOK(rs) /\ DOMAIN rs = DOMAIN rows
    BY <1>0, <2>2, UpdateOK
  <2>6. rs[d] = dead /\ \A e \in DOMAIN rows \ {d} : rs[e] = rows[e]
    BY <1>0
  <2>7. /\ Closing(N, d) = {c} /\ Granting(N, d) = {}
        /\ \A e \in DOMAIN rows \ {d} : Granting(N, e) = {} /\ Closing(N, e) = {}
    BY <2>4, OneReceipt
  <2>8. dead.status \notin Held
    BY <2>3 DEF Held
  <2>9. \A x \in N : x.delivery \in DOMAIN rows
    BY <2>4
  <2> HIDE DEF N, rs
  <2>10. ASSUME NEW e \in DOMAIN rows
         PROVE  /\ Booked(N, e, rows[e], rs[e])
                /\ rs[e].attempt = rows[e].attempt
                /\ (Granting(N, e) = {} /\ Closing(N, e) = {}) \/ rs[e].status \notin Held
    <3>1. CASE e = d
      <4>1. Booked(N, d, row, dead)
        BY <2>1, <2>3, <2>4, <2>7, <2>8, BookedEnd
      <4> QED
        BY <2>3, <2>6, <2>8, <3>1, <4>1
    <3>2. CASE e # d
      BY <2>6, <2>7, <3>2, BookedSame
    <3> QED
      BY <3>1, <3>2
  <2> QED
    BY <2>1, <2>5, <2>9, <2>10, ReconcileAccount
<1> QED
  BY <1>2, <1>3, <1>4 DEF ClaimDelivery

\* A release.
LEMMA ReleaseAccount ==
    ASSUME RowInv, RowInv', Account, NEW d \in Deliveries, NEW t, NEW class,
           ReleaseDelivery(d, t, class)
    PROVE  Account'
<1> USE DEF Deliveries
<1>0. /\ RowsOK(rows) /\ rows \in Seq(Row) /\ d \in DOMAIN rows
      /\ RowOK(rows[d]) /\ rows[d] \in Row
  BY RowInvSplit DEF RowsOK, RowOK
<1> DEFINE row == rows[d]
           retryAt == clock + RetryBackoff(row.attempt)
           dead == class # "transient" \/ row.attempt >= MaxAttempts \/ retryAt >= MissionExpiry
           released == IF dead THEN EndLease(row, "dead_lettered")
                       ELSE [EndLease(row, "stored") EXCEPT !.available = retryAt]
           c == ReceiptOf("release", d, <<t, 0>>, row, t, released.status)
           rs == [rows EXCEPT ![d] = released]
           N == {c}
<1>1. Reconcile(rs, N) /\ row.status \in Held
  BY DEF ReleaseDelivery
<1>2. released.attempt = row.attempt /\ released.status \notin Held
  BY <1>0, EndedFields DEF Held
<1>3. c.delivery = d /\ c.attempt = row.attempt /\ ~IsGrant(c) /\ IsCloser(c)
  BY DEF ReceiptOf, IsGrant, IsCloser
<1>4. RowOK(released)
  <2>1. CASE dead
    BY <1>0, <2>1, EndLeaseUnsettled DEF Live, Closed, Held
  <2>2. CASE ~dead
    <3>1. row.attempt \in 1..MaxAttempts /\ clock \in Nat
      BY <1>0, <1>1, HeldRow DEF RowInv, TypeOK
    <3>2. retryAt \in Nat
      BY <3>1, BackoffAssumption
    <3>3. row.attempt < MaxAttempts
      BY <2>2, <3>1, LedgerAssumption
    <3> HIDE DEF retryAt
    <3>4. RowOK(EndLease(row, "stored"))
      BY <1>0, <3>3, EndLeaseUnsettled DEF Live, Closed, Held
    <3>5. RowOK([EndLease(row, "stored") EXCEPT !.available = retryAt])
      BY <3>2, <3>4 DEF RowOK, Row, RowCheck
    <3> QED
      BY <2>2, <3>5
  <2> QED
    BY <2>1, <2>2
<1> HIDE DEF released, c
<1>5. RowsOK(rs) /\ DOMAIN rs = DOMAIN rows
  BY <1>0, <1>4, UpdateOK
<1>6. rs[d] = released /\ \A e \in DOMAIN rows \ {d} : rs[e] = rows[e]
  BY <1>0
<1>7. /\ Closing(N, d) = {c} /\ Granting(N, d) = {}
      /\ \A e \in DOMAIN rows \ {d} : Granting(N, e) = {} /\ Closing(N, e) = {}
  BY <1>3, OneReceipt
<1>8. \A x \in N : x.delivery \in DOMAIN rows
  BY <1>0, <1>3
<1> HIDE DEF N, rs
<1>9. ASSUME NEW e \in DOMAIN rows
      PROVE  /\ Booked(N, e, rows[e], rs[e])
             /\ rs[e].attempt = rows[e].attempt
             /\ (Granting(N, e) = {} /\ Closing(N, e) = {}) \/ rs[e].status \notin Held
  <2>1. CASE e = d
    <3>1. Booked(N, d, row, released)
      BY <1>1, <1>2, <1>3, <1>7, BookedEnd
    <3> QED
      BY <1>2, <1>6, <2>1, <3>1
  <2>2. CASE e # d
    BY <1>6, <1>7, <2>2, BookedSame
  <2> QED
    BY <2>1, <2>2
<1> QED
  BY <1>1, <1>5, <1>8, <1>9, ReconcileAccount

\* A start or a renewal changes neither the attempt nor the holder.
LEMMA KeepAccount ==
    ASSUME RowInv, RowInv', Account, NEW d \in Deliveries, NEW row,
           rows' = [rows EXCEPT ![d] = row], row.attempt = rows[d].attempt,
           row.status \in Held <=> rows[d].status \in Held,
           NEW r, receipts' = receipts \cup {r}, r.op \in {"start", "renew"}
    PROVE  Account'
<1> DEFINE N == {r}
<1>1. rows \in Seq(Row) /\ d \in DOMAIN rows
  BY DEF RowInv, TypeOK, Deliveries
<1>2. /\ DOMAIN rows' = DOMAIN rows /\ rows'[d] = row
      /\ \A e \in DOMAIN rows \ {d} : rows'[e] = rows[e]
  BY <1>1
<1>3. ~IsGrant(r) /\ ~IsCloser(r)
  BY DEF IsGrant, IsCloser
<1>4. \A e : Granting(N, e) = {} /\ Closing(N, e) = {}
  BY <1>3, OneReceipt
<1>5. \A x \in N : ~(IsGrant(x) \/ IsCloser(x))
  BY <1>3
<1> HIDE DEF N
<1>6. \A e \in DOMAIN rows : Booked(N, e, rows[e], rows'[e])
  BY <1>2, <1>4, BookedSame
<1> QED
  BY <1>2, <1>5, <1>6, AccountKept DEF Deliveries, N

\* New rows have had no attempt.
LEMMA NewRowsFacts ==
    ASSUME RowInv, NEW rs \in Seq(Row), NEW n \in Nat,
           NEW targets \in [1..n -> [node : Nodes, work : Work]]
    PROVE  /\ DOMAIN rs \subseteq DOMAIN (rs \o NewRows(targets))
           /\ \A d \in DOMAIN rs : (rs \o NewRows(targets))[d] = rs[d]
           /\ \A d \in DOMAIN (rs \o NewRows(targets)) \ DOMAIN rs :
                 (rs \o NewRows(targets))[d].attempt = 0
<1> DEFINE new == NewRows(targets)
<1>1. clock \in Nat /\ Len(targets) = n
  BY DEF RowInv, TypeOK
<1>2. new \in Seq(Row) /\ Len(new) = n /\ \A i \in 1..n : new[i].attempt = 0
  <2>1. new = [i \in 1..n |-> NewRow(targets[i])]
    BY <1>1 DEF NewRows
  <2>2. \A i \in 1..n : NewRow(targets[i]) \in Row /\ NewRow(targets[i]).attempt = 0
    BY <1>1, NewRowOK DEF RowOK, NewRow
  <2> QED
    BY <2>1, <2>2
<1> HIDE DEF new
<1>3. /\ DOMAIN (rs \o new) = 1..(Len(rs) + n) /\ DOMAIN rs = 1..Len(rs) /\ Len(rs) \in Nat
      /\ \A d \in 1..(Len(rs) + n) :
            (rs \o new)[d] = IF d <= Len(rs) THEN rs[d] ELSE new[d - Len(rs)]
  <2> DEFINE both == rs \o new
  <2>1. /\ both \in Seq(Row) /\ Len(both) = Len(rs) + Len(new)
        /\ \A d \in 1..(Len(rs) + Len(new)) :
              both[d] = IF d <= Len(rs) THEN rs[d] ELSE new[d - Len(rs)]
    BY <1>2, ConcatProperties
  <2> HIDE DEF both
  <2>2. DOMAIN both = 1..Len(both)
    BY <2>1
  <2> QED
    BY <1>2, <2>1, <2>2 DEF both
<1>4. \A d \in 1..(Len(rs) + n) : ~(d <= Len(rs)) => d - Len(rs) \in 1..n
  BY <1>3
<1>5. \A d \in 1..Len(rs) : d \in 1..(Len(rs) + n) /\ d <= Len(rs)
  BY <1>3
<1> QED
  BY <1>2, <1>3, <1>4, <1>5 DEF new

\* A completion acknowledges its row and cancels its siblings.
LEMMA CompleteAccount ==
    ASSUME RowInv, RowInv', Account, NEW d \in Deliveries, NEW t, NEW out \in Outcome(d),
           CompleteDelivery(d, t, out)
    PROVE  Account'
<1> USE DEF Deliveries
<1> DEFINE ds == {e \in out.settles \ {d} : rows[e].status \in Live}
           c == ReceiptOf("complete", d, <<t, 0>>, rows[d], t, "acknowledged")
           C == CancelReceipts(rows, ds)
           N == C \cup {c}
           S == SettledRows(d, out)
<1>0. /\ RowsOK(rows) /\ rows \in Seq(Row) /\ ledger \in Seq(Entry) /\ d \in DOMAIN rows
      /\ \A e \in DOMAIN rows : RowOK(rows[e]) /\ rows[e] \in Row
  <2>1. RowsOK(rows) /\ ledger \in Seq(Entry)
    BY RowInvSplit DEF RestOK
  <2> QED
    BY <2>1 DEF RowsOK, RowOK
<1>1. rows[d].status = "executing" /\ receipts' = receipts \cup N
  BY DEF CompleteDelivery
<1>2. rows[d].status \in Held
  BY <1>1 DEF Held
<1>3. rows' = S \o NewRows(out.creates)
  BY CompleteRows
<1>4. RowsOK(S) /\ DOMAIN S = DOMAIN rows
  BY <1>0, <1>2, SettledRowsOK
<1>5. PICK n \in 0..MaxCreated : out.creates \in [1..n -> [node : Nodes, work : Work]]
  BY DEF Outcome
<1>6. n \in Nat /\ S \in Seq(Row)
  BY <1>4, <1>5, LedgerAssumption DEF RowsOK
<1> HIDE DEF S
<1>7. /\ DOMAIN rows \subseteq DOMAIN rows'
      /\ \A e \in DOMAIN rows : rows'[e] = S[e]
      /\ \A e \in DOMAIN rows' \ DOMAIN rows : rows'[e].attempt = 0
  <2>1. /\ DOMAIN S \subseteq DOMAIN rows'
        /\ \A e \in DOMAIN S : rows'[e] = S[e]
        /\ \A e \in DOMAIN rows' \ DOMAIN S : rows'[e].attempt = 0
    BY <1>3, <1>5, <1>6, NewRowsFacts
  <2> QED
    BY <1>4, <2>1
<1>8. ds \subseteq DOMAIN rows /\ d \notin ds
  BY DEF Outcome
<1>9. ASSUME NEW e \in DOMAIN rows
      PROVE  /\ S[e].attempt = rows[e].attempt
             /\ e = d => S[e].status = "acknowledged"
             /\ e \in ds => S[e].status = "cancelled"
             /\ e # d /\ e \notin ds => S[e].status = rows[e].status
  <2>1. rows[e] \in Row
    BY <1>0
  <2> QED
    BY <2>1, EndedFields DEF S, SettledRows
<1>10. c.delivery = d /\ c.attempt = rows[d].attempt /\ ~IsGrant(c) /\ IsCloser(c)
  BY DEF ReceiptOf, IsGrant, IsCloser
<1> HIDE DEF c, C, ds
<1>11. /\ \A r \in C : r.delivery \in ds
       /\ \A e : Granting(C, e) = {}
  BY CancelBooks DEF C
<1>12. \A e : /\ Granting(N, e) = Granting(C, e) \cup Granting({c}, e)
              /\ Closing(N, e) = Closing(C, e) \cup Closing({c}, e)
  BY DEF Granting, Closing
<1>13. \A r \in N : r.delivery \in DOMAIN rows
  BY <1>0, <1>8, <1>10, <1>11
<1> HIDE DEF N
<1>14. ASSUME NEW e \in DOMAIN rows PROVE Booked(N, e, rows[e], rows'[e])
  <2>1. CASE e = d
    <3>1. Closing(C, d) = {}
      BY <1>8, <1>11 DEF Closing
    <3>2. Granting(N, d) = {} /\ Closing(N, d) = {c}
      BY <1>10, <1>11, <1>12, <3>1, OneReceipt
    <3>3. rows'[d].attempt = rows[d].attempt /\ rows'[d].status \notin Held
      BY <1>0, <1>7, <1>9 DEF Held
    <3> QED
      BY <1>2, <1>10, <2>1, <3>2, <3>3, BookedEnd
  <2>2. CASE e # d
    <3>1. Granting(N, e) = Granting(C, e) /\ Closing(N, e) = Closing(C, e)
      BY <1>10, <1>12, <2>2, OneReceipt
    <3>2. /\ RowOK(rows[e]) /\ rows'[e].attempt = rows[e].attempt
          /\ e \in ds => rows'[e].status = "cancelled"
          /\ e \notin ds => rows'[e].status = rows[e].status
      BY <1>0, <1>7, <1>9, <2>2
    <3>3. Booked(C, e, rows[e], rows'[e])
      BY <3>2, CancelBooked DEF C
    <3> QED
      BY <3>1, <3>3 DEF Booked
  <2> QED
    BY <2>1, <2>2
<1> QED
  BY <1>1, <1>7, <1>13, <1>14, AccountKept

\* A revocation cancels every live row.
LEMMA RevokeAccount ==
    ASSUME RowInv, RowInv', Account, NEW n, NEW reason, Revoke(n, reason)
    PROVE  Account'
<1> USE DEF Deliveries
<1> DEFINE ds == {d \in DOMAIN rows : rows[d].status \in Live}
           N == CancelReceipts(rows, ds)
<1>1. rows' = CancelLive(rows) /\ receipts' = receipts \cup N
  BY DEF Revoke
<1>2. \A d \in DOMAIN rows : RowOK(rows[d]) /\ rows[d] \in Row
  BY RowInvSplit DEF RowsOK, RowOK
<1>3. DOMAIN rows' = DOMAIN rows
  BY <1>1 DEF CancelLive
<1>4. \A d \in DOMAIN rows : /\ rows'[d].attempt = rows[d].attempt
                             /\ d \in ds => rows'[d].status = "cancelled"
                             /\ d \notin ds => rows'[d].status = rows[d].status
  BY <1>1, <1>2, EndedFields DEF CancelLive
<1> HIDE DEF ds
<1>5. \A r \in N : r.delivery \in ds
  BY CancelBooks
<1>6. \A d \in DOMAIN rows : Booked(N, d, rows[d], rows'[d])
  BY <1>2, <1>4, CancelBooked
<1>7. \A r \in N : r.delivery \in DOMAIN rows
  BY <1>5 DEF ds
<1> HIDE DEF N
<1> QED
  BY <1>1, <1>3, <1>6, <1>7, AccountKept

LEMMA AccountStep == RowInv /\ Account /\ [Next]_vars => Account'
<1> SUFFICES ASSUME RowInv, Account, [Next]_vars PROVE Account'
  OBVIOUS
<1>0. RowInv' /\ rows \in Seq(Row) /\ \A d \in Deliveries : RowOK(rows[d]) /\ rows[d] \in Row
  BY RowInvStep, RowInvSplit DEF RowsOK, RowOK, Deliveries
<1>1. ASSUME NEW n \in 1..MaxCreated,
             NEW targets \in [1..n -> [node : Nodes, work : Work]], Activate(targets)
      PROVE  Account'
  <2> DEFINE N == {}
  <2>1. n \in Nat
    BY LedgerAssumption
  <2>2. rows' = rows \o NewRows(targets) /\ receipts' = receipts \cup N
    BY <1>1 DEF Activate
  <2>3. /\ DOMAIN rows \subseteq DOMAIN rows'
        /\ \A d \in DOMAIN rows : rows'[d] = rows[d]
        /\ \A d \in DOMAIN rows' \ DOMAIN rows : rows'[d].attempt = 0
    <3> DEFINE all == rows \o NewRows(targets)
    <3>1. /\ DOMAIN rows \subseteq DOMAIN all
          /\ \A d \in DOMAIN rows : all[d] = rows[d]
          /\ \A d \in DOMAIN all \ DOMAIN rows : all[d].attempt = 0
      BY <1>0, <1>1, <2>1, NewRowsFacts
    <3> HIDE DEF all
    <3> QED
      BY <2>2, <3>1 DEF all
  <2>4. \A r \in N : r.delivery \in DOMAIN rows
    OBVIOUS
  <2>5. \A d : Granting(N, d) = {} /\ Closing(N, d) = {}
    BY DEF Granting, Closing
  <2> HIDE DEF N
  <2>6. \A d \in DOMAIN rows : Booked(N, d, rows[d], rows'[d])
    BY <2>3, <2>5, BookedSame
  <2> QED
    BY <1>0, <2>2, <2>3, <2>4, <2>6, AccountKept DEF Deliveries
<1>2. CASE ReconcileMission
  <2>1. Reconcile(rows, {}) /\ RowsOK(rows)
    BY <1>2, RowInvSplit DEF ReconcileMission
  <2>2. \A d : Granting({}, d) = {} /\ Closing({}, d) = {}
    BY DEF Granting, Closing
  <2>3. \A d \in Deliveries : Booked({}, d, rows[d], rows[d])
    BY <2>2, BookedSame
  <2> QED
    BY <1>0, <2>1, <2>2, <2>3, ReconcileAccount DEF Deliveries
<1>3. ASSUME NEW d \in Deliveries, NodeRequest(d) PROVE Account'
  <2>1. ASSUME NEW t, StartDelivery(d, t) PROVE Account'
    <3> DEFINE row == [rows[d] EXCEPT !.status = "executing"]
               r == ReceiptOf("start", d, <<t, 0>>, rows[d], t, "executing")
    <3>1. /\ rows' = [rows EXCEPT ![d] = row] /\ rows[d].status = "leased"
          /\ receipts' = receipts \cup {r}
      BY <2>1 DEF StartDelivery
    <3>2. row.attempt = rows[d].attempt /\ row.status = "executing"
      BY <1>0 DEF Row
    <3>4. r.op = "start"
      BY ReceiptFields
    <3> HIDE DEF row, r
    <3>3. row.status \in Held /\ rows[d].status \in Held
      BY <3>1, <3>2 DEF Held
    <3> QED
      BY <1>0, <3>1, <3>2, <3>3, <3>4, KeepAccount
  <2>2. ASSUME NEW t, NEW count, RenewDelivery(d, t, count) PROVE Account'
    <3> DEFINE row == [rows[d] EXCEPT !.expires = BoundedLeaseExpiry]
               r == ReceiptOf("renew", d, <<t, count>>, rows[d], t, rows[d].status)
    <3>1. rows' = [rows EXCEPT ![d] = row] /\ receipts' = receipts \cup {r}
      BY <2>2 DEF RenewDelivery
    <3>2. row.attempt = rows[d].attempt /\ row.status = rows[d].status
      BY <1>0 DEF Row
    <3>3. r.op = "renew"
      BY ReceiptFields
    <3> HIDE DEF row, r
    <3> QED
      BY <1>0, <3>1, <3>2, <3>3, KeepAccount
  <2> QED
    BY <1>0, <1>3, <2>1, <2>2, ClaimAccount, ReleaseAccount, CompleteAccount DEF NodeRequest
<1>4. ASSUME NEW n, NEW reason, Revoke(n, reason) PROVE Account'
  BY <1>0, <1>4, RevokeAccount
<1>5. CASE SetBlock \/ Tick \/ UNCHANGED vars
  <2>1. UNCHANGED <<rows, receipts>>
    BY <1>5 DEF SetBlock, Tick, vars
  <2> QED
    <3>1. \A d, a : Grants(d, a)' = Grants(d, a) /\ Closers(d, a)' = Closers(d, a)
      BY <2>1 DEF Grants, Closers
    <3>2. ASSUME NEW d \in Deliveries', NEW a \in 1..rows'[d].attempt
          PROVE  /\ \E g : Grants(d, a)' = {g}
                 /\ IF a = rows'[d].attempt /\ rows'[d].status \in Held
                    THEN Closers(d, a)' = {} ELSE \E c : Closers(d, a)' = {c}
      BY <2>1, <3>1, <3>2 DEF Account, Deliveries
    <3>3. \A r \in receipts' : IsGrant(r) \/ IsCloser(r) =>
             r.delivery \in Deliveries' /\ r.attempt \in 1..rows'[r.delivery].attempt
      BY <2>1 DEF Account, Deliveries
    <3> QED
      BY <3>2, <3>3 DEF Account
<1> QED
  BY <1>1, <1>2, <1>3, <1>4, <1>5 DEF Next, RevokeNode, RevokeWorkspace

\* The receipts account for every lease, for any number of rows and attempts:
\* each attempt was granted by one claim and, unless it is the one that holds
\* the row, closed by exactly one receipt, whichever of a release, a
\* completion, an expiry, a dead letter, a revocation or the end of the
\* Mission came first.
THEOREM LeasesAreAccounted == Spec => []AttemptsAccounted
<1>1. Init => Account
  BY DEF Init, Account, Deliveries
<1>2. Account => AttemptsAccounted
  <2>1. \A S : (S = {} => Cardinality(S) = 0) /\ ((\E x : S = {x}) => Cardinality(S) = 1)
    BY FS_Singleton, FS_EmptySet
  <2> QED
    BY <2>1 DEF Account, AttemptsAccounted
<1> QED
  BY <1>1, <1>2, RowInvInit, RowInvStep, AccountStep, PTL DEF Spec

-----------------------------------------------------------------------------
(* The Mission coordinator *)

CONSTANTS First, Second, Commands, MaxTurns, BaseVersion     \* see MissionCoordinator

VARIABLES coord, accepted     \* see MissionLedger

Missions == INSTANCE MissionLedger

Reducer == INSTANCE MissionCoordinator WITH state <- coord

\* The events of a log a.
Turn(a, i) == a[i].type = "turn_completed"
TurnOf(a, i, kind) == Turn(a, i) /\ a[i].kind = kind
Failure(a, i) == a[i].type = "verification_recorded" /\ a[i].outcome = "failed"
Acknowledged(a, i, p, version) ==
    a[i].type = "contract_acknowledged" /\ a[i].by = p /\ a[i].version = version
After(a, i) == (i + 1)..Len(a)

\* Schedule, of a state s.
Scheduled(s) ==
    /\ s.status = "active" =>
         /\ (s.current # Reducer!None) = (s.pending = 0)
         /\ s.turns < MaxTurns
         /\ Len(s.ready) <= 1
         /\ \A i \in DOMAIN s.ready : s.current = Reducer!OtherParticipant(s.ready[i])
         /\ s.pending # 0 => s.acks # Reducer!Participants
         /\ s.records = {}
    /\ s.status = "verifying" =>
         /\ s.current = Reducer!None /\ s.pending = 0
         /\ Reducer!AllParticipants(s.ready)
         /\ \E p \in Reducer!Participants : ~Reducer!AllParticipantCommandsRecorded(s.records, p)
         /\ \A r \in s.records : r.version = s.version /\ r.round = s.round
    /\ s.status \notin Reducer!Running => s.current = Reducer!None /\ s.pending = 0

\* The evidence of the round: of a required command, one record each, kept in
\* the log since the last turn.  A participant that is done has not failed.
Evidence(s) ==
    /\ \A r \in s.records :
          /\ r.command \in Commands[r.by]
          /\ \E k \in 1..Len(s.applied) :
                /\ s.applied[k].type = "verification_recorded"
                /\ s.applied[k].by = r.by /\ s.applied[k].command = r.command
                /\ s.applied[k].version = r.version /\ s.applied[k].round = r.round
                /\ s.applied[k].outcome = r.outcome
                /\ \A j \in After(s.applied, k) : ~Turn(s.applied, j)
    /\ \A r, q \in s.records : r.by = q.by /\ r.command = q.command => r = q
    /\ s.status = "verifying" => \A p \in Reducer!Participants :
          Reducer!AllParticipantCommandsRecorded(s.records, p) =>
              \A r \in Reducer!RecordsOf(s.records, p) : r.outcome = "passed"
    /\ s.status = "completed" =>
          Reducer!AllRequiredCommandsPassed(s, s.records) /\ Reducer!AllParticipants(s.ready)

\* Who is ready has said so, and nothing but evidence has followed.
Readied(s) ==
    \A m \in DOMAIN s.ready : \E i \in 1..Len(s.applied) :
        /\ TurnOf(s.applied, i, "ready") /\ s.applied[i].by = s.ready[m]
        /\ \A j \in After(s.applied, i) :
              /\ ~TurnOf(s.applied, j, "reply") /\ ~TurnOf(s.applied, j, "propose_contract")
              /\ s.applied[j].type # "contract_acknowledged"
              /\ Failure(s.applied, j) => \E r \in s.records : r.outcome = "failed"

\* The contract in force is the first one or both have acknowledged it.
Agreed(s) ==
    /\ s.version # BaseVersion => \A p \in Reducer!Participants :
          \E j \in 1..Len(s.applied) : Acknowledged(s.applied, j, p, s.version)
    /\ s.pending # 0 => \A p \in s.acks :
          \E j \in 1..Len(s.applied) : Acknowledged(s.applied, j, p, s.pending)
    /\ \A i \in 1..Len(s.applied) :
          /\ s.applied[i].type \in {"turn_completed", "verification_recorded"}
          /\ s.applied[i].version # BaseVersion
          => \A p \in Reducer!Participants : \E j \in 1..(i - 1) :
                Acknowledged(s.applied, j, p, s.applied[i].version)

\* Whose turn it is has not had the last one, unless its verification failed.
Alternating(s) ==
    /\ \A i \in 1..Len(s.applied) :
          /\ Turn(s.applied, i) /\ \A k \in After(s.applied, i) : ~Turn(s.applied, k)
          => /\ s.status = "active" /\ s.pending = 0 =>
                   \/ s.applied[i].by # s.current
                   \/ \E k \in After(s.applied, i) :
                         Failure(s.applied, k) /\ s.applied[k].by = s.current
             /\ s.status = "active" /\ s.pending # 0 => s.applied[i].by = s.proposer
    /\ \A i, j \in 1..Len(s.applied) :
          /\ i < j /\ Turn(s.applied, i) /\ Turn(s.applied, j)
          /\ \A k \in (i + 1)..(j - 1) : ~Turn(s.applied, k)
          /\ s.applied[i].by = s.applied[j].by
          => \E k \in (i + 1)..(j - 1) :
                Failure(s.applied, k) /\ s.applied[k].by = s.applied[j].by

\* The events that the turns taken so far still pay for, counted twice.
Missing(s, p) == Commands[p] \ {r.command : r \in Reducer!RecordsOf(s.records, p)}
CommandCount == Cardinality(Commands[First]) + Cardinality(Commands[Second])
PerTurn == IF CommandCount <= 4 THEN 6 ELSE 2 + CommandCount
Credit(s) ==
    CASE s.status = "active" /\ s.pending = 0 -> CommandCount * Len(s.ready)
      [] s.status = "active" /\ s.pending # 0 -> IF s.acks = {} THEN 4 ELSE 2
      [] s.status = "verifying" ->
            2 * (Cardinality(Missing(s, First)) + Cardinality(Missing(s, Second)))
      [] OTHER -> 0
Budgeted(s) ==
    /\ s.status = "awaiting_acceptance" => s = Reducer!CreateMissionCoordinatorState
    /\ 2 * Len(s.applied) + Credit(s) <=
          (IF s.status \in Reducer!Running THEN 2 ELSE 4) + s.turns * PerTurn

\* The inductive invariant of the reducer: what Agreement says of the log cannot
\* be seen from the log alone, so every part relates the log to the state that
\* goes on from it.
ReducerInv(s) ==
    /\ s \in Reducer!State /\ Scheduled(s) /\ Evidence(s) /\ Readied(s) /\ Agreed(s)
    /\ Alternating(s) /\ Budgeted(s)

\* The reducer counts as the proofs do.
LEMMA SameFinite ==
    ASSUME NEW S
    PROVE  Reducer!IsFiniteSet(S) <=> IsFiniteSet(S)
BY Zenon DEF Reducer!IsFiniteSet, IsFiniteSet

\* and so is its cardinality.
LEMMA SameCardinality ==
    ASSUME NEW S
    PROVE  Reducer!Cardinality(S) = Cardinality(S)
BY Zenon DEF Reducer!Cardinality, Cardinality, Reducer!IsFiniteSet, IsFiniteSet

\* The two participants, and the numbers of the configuration.
LEMMA Roles ==
    ASSUME Reducer!Configured
    PROVE  /\ First # Second /\ Reducer!None \notin Reducer!Participants /\ First \in Reducer!Participants
           /\ Second \in Reducer!Participants
           /\ \A p \in Reducer!Participants :
                 /\ Reducer!OtherParticipant(p) \in Reducer!Participants /\ Reducer!OtherParticipant(p) # p
                 /\ Reducer!Participants = {p, Reducer!OtherParticipant(p)}
                 /\ \A q \in Reducer!Participants : q # p => q = Reducer!OtherParticipant(p)
           /\ MaxTurns \in Nat /\ MaxTurns > 0 /\ BaseVersion \in Nat
BY DEF Reducer!Configured, Reducer!Participants, Reducer!OtherParticipant

\* The fields of an event.
LEMMA EventShape ==
    ASSUME NEW e \in Reducer!Event
    PROVE  /\ e.type \in {"participants_accepted", "turn_completed", "contract_acknowledged",
                          "verification_recorded", "mission_terminal"}
           /\ e.type = "turn_completed" =>
                 e.by \in Reducer!Participants /\ e.version \in Nat /\ e.kind \in Reducer!Disposition
           /\ e.type = "contract_acknowledged" => e.by \in Reducer!Participants /\ e.version \in Nat
           /\ e.type = "verification_recorded" =>
                 /\ e.by \in Reducer!Participants /\ e.version \in Nat /\ e.round \in Nat
                 /\ e.command \in Reducer!AllCommands /\ e.outcome \in {"passed", "failed"}
           /\ e.type = "mission_terminal" => e.status \in {"failed", "expired"}
BY DEF Reducer!Event

\* The fields of a state.
LEMMA StateShape ==
    ASSUME NEW s \in Reducer!State
    PROVE  /\ s.status \in Reducer!MissionStatus /\ s.turns \in 0..MaxTurns /\ s.version \in Nat
           /\ s.round \in Nat /\ s.pending \in Nat /\ s.proposer \in Reducer!Participants
           /\ s.acks \in SUBSET Reducer!Participants /\ s.current \in Reducer!Participants \cup {Reducer!None}
           /\ s.ready \in Seq(Reducer!Participants) /\ s.records \in SUBSET Reducer!VerificationRecord
           /\ s.applied \in Seq(Reducer!Event)
BY DEF Reducer!State

\* t is s with another phase, turn count, contract, schedule and records.
Becomes(s, t, status, turns, version, round, pending, proposer, acks, current, ready, records) ==
    /\ t.status = status /\ t.turns = turns /\ t.version = version /\ t.round = round
    /\ t.pending = pending /\ t.proposer = proposer /\ t.acks = acks /\ t.current = current
    /\ t.ready = ready /\ t.records = records /\ t.applied = s.applied

\* What leaving a phase resets.
LEMMA UnscheduledOK ==
    ASSUME NEW s \in Reducer!State
    PROVE  /\ Reducer!Unscheduled(s) \in Reducer!State
           /\ Becomes(s, Reducer!Unscheduled(s), s.status, s.turns, s.version, s.round, 0, s.proposer, {},
                      Reducer!None, <<>>, {})
<1>1. \A a \in Nat, b \in SUBSET Reducer!Participants, c \in Reducer!Participants \cup {Reducer!None},
        d \in Seq(Reducer!Participants), r \in SUBSET Reducer!VerificationRecord :
        [s EXCEPT !.pending = a, !.acks = b, !.current = c, !.ready = d, !.records = r] \in Reducer!State
  BY DEF Reducer!State
<1>2. /\ 0 \in Nat /\ {} \in SUBSET Reducer!Participants /\ Reducer!None \in Reducer!Participants \cup {Reducer!None}
      /\ <<>> \in Seq(Reducer!Participants) /\ {} \in SUBSET Reducer!VerificationRecord
  OBVIOUS
<1>3. Reducer!Unscheduled(s) \in Reducer!State
  BY <1>1, <1>2 DEF Reducer!Unscheduled
<1>4. Becomes(s, Reducer!Unscheduled(s), s.status, s.turns, s.version, s.round, 0, s.proposer, {}, Reducer!None,
              <<>>, {})
  BY DEF Reducer!State, Reducer!Unscheduled, Becomes
<1> QED
  BY <1>3, <1>4

\* The same with another status and another participant on turn.
LEMMA UnscheduledShape ==
    ASSUME Reducer!Configured, NEW s \in Reducer!State,
           NEW status \in Reducer!MissionStatus, NEW version \in Nat, NEW current \in Reducer!Participants \cup {Reducer!None}
    PROVE  LET t == [Reducer!Unscheduled(s) EXCEPT !.status = status, !.version = version,
                                           !.current = current] IN
           /\ t \in Reducer!State
           /\ Becomes(s, t, status, s.turns, version, s.round, 0, s.proposer, {}, current,
                      <<>>, {})
<1> DEFINE u == Reducer!Unscheduled(s)
           t == [u EXCEPT !.status = status, !.version = version, !.current = current]
<1>1. u \in Reducer!State
  BY UnscheduledOK
<1>2. Becomes(s, u, s.status, s.turns, s.version, s.round, 0, s.proposer, {}, Reducer!None, <<>>, {})
  BY UnscheduledOK
<1> HIDE DEF u
<1>3. t \in Reducer!State
  BY <1>1 DEF Reducer!State
<1>4. Becomes(u, t, status, u.turns, version, u.round, u.pending, u.proposer, u.acks, current,
              u.ready, u.records)
  BY <1>1 DEF Reducer!State, Becomes
<1> HIDE DEF t
<1>5. Becomes(s, t, status, s.turns, version, s.round, 0, s.proposer, {}, current, <<>>, {})
  BY <1>2, <1>4 DEF Becomes
<1> QED
  BY <1>3, <1>5 DEF t, u

\* participants_accepted.
LEMMA AcceptedShape ==
    ASSUME Reducer!Configured, NEW s \in Reducer!State
    PROVE  LET t == Reducer!ApplyParticipantsAccepted(s) IN
           /\ t \in Reducer!State
           /\ Becomes(s, t, "active", s.turns, s.version, s.round, s.pending, s.proposer, s.acks,
                      First, s.ready, s.records)
<1>1. First \in Reducer!Participants /\ "active" \in Reducer!MissionStatus
  BY Roles DEF Reducer!MissionStatus, Reducer!Running
<1> QED
  BY <1>1 DEF Reducer!State, Reducer!ApplyParticipantsAccepted, Becomes

\* mission_terminal.
LEMMA TerminalShape ==
    ASSUME Reducer!Configured, NEW s \in Reducer!State, NEW e, e.status \in {"failed", "expired"}
    PROVE  LET t == Reducer!ApplyMissionTerminal(s, e) IN
           /\ t \in Reducer!State
           /\ Becomes(s, t, e.status, s.turns, s.version, s.round, 0, s.proposer, {}, Reducer!None,
                      <<>>, {})
<1>0. e.status \in Reducer!MissionStatus
  BY DEF Reducer!MissionStatus, Reducer!Terminal
<1> DEFINE u == Reducer!Unscheduled(s)
<1>1. u \in Reducer!State
  BY UnscheduledOK
<1>2. Becomes(s, u, s.status, s.turns, s.version, s.round, 0, s.proposer, {}, Reducer!None, <<>>, {})
  BY UnscheduledOK
<1>3. Reducer!ApplyMissionTerminal(s, e) = [u EXCEPT !.status = e.status]
  BY DEF Reducer!ApplyMissionTerminal
<1> HIDE DEF u
<1> QED
  BY <1>0, <1>1, <1>2, <1>3 DEF Reducer!State, Becomes

\* The last turn of the budget fails the Mission.
LEMMA LimitShape ==
    ASSUME Reducer!Configured, NEW s, NEW u \in Reducer!State, u.applied = s.applied
    PROVE  /\ Reducer!LimitTurns(u) \in Reducer!State
           /\ ~(u.status = "active" /\ u.turns >= MaxTurns) => Reducer!LimitTurns(u) = u
           /\ u.status = "active" /\ u.turns >= MaxTurns =>
                 Becomes(s, Reducer!LimitTurns(u), "failed", u.turns, u.version, u.round, 0, u.proposer, {},
                         Reducer!None, <<>>, {})
<1>0. "failed" \in Reducer!MissionStatus
  BY DEF Reducer!MissionStatus, Reducer!Terminal
<1> DEFINE v == Reducer!Unscheduled(u)
           w == [v EXCEPT !.status = "failed"]
<1>1. /\ v \in Reducer!State
      /\ Becomes(u, v, u.status, u.turns, u.version, u.round, 0, u.proposer, {}, Reducer!None, <<>>, {})
  BY UnscheduledOK
<1>2. Reducer!LimitTurns(u) = IF u.status = "active" /\ u.turns >= MaxTurns THEN w ELSE u
  BY DEF Reducer!LimitTurns
<1> HIDE DEF v
<1>3. w \in Reducer!State /\ Becomes(v, w, "failed", v.turns, v.version, v.round, v.pending, v.proposer,
                                     v.acks, v.current, v.ready, v.records)
  BY <1>0, <1>1 DEF Reducer!State, Becomes
<1> HIDE DEF w
<1>4. Becomes(s, w, "failed", u.turns, u.version, u.round, 0, u.proposer, {}, Reducer!None, <<>>, {})
  BY <1>1, <1>3 DEF Becomes
<1> QED
  BY <1>2, <1>3, <1>4

\* What a turn makes of the schedule.
TurnOutcome(s, t, e) ==
    \/ /\ e.kind = "reply" /\ s.turns + 1 < MaxTurns
       /\ Becomes(s, t, "active", s.turns + 1, s.version, s.round, 0, s.proposer, s.acks,
                  Reducer!OtherParticipant(e.by), <<>>, {})
    \/ /\ e.kind = "propose_contract" /\ s.turns + 1 < MaxTurns
       /\ Becomes(s, t, "active", s.turns + 1, s.version, s.round, s.version + 1, e.by, {},
                  Reducer!None, <<>>, {})
    \/ /\ e.kind = "ready" /\ s.turns + 1 < MaxTurns /\ s.ready = <<>>
       /\ Becomes(s, t, "active", s.turns + 1, s.version, s.round, 0, s.proposer, s.acks,
                  Reducer!OtherParticipant(e.by), <<e.by>>, {})
    \/ /\ e.kind = "ready" /\ Len(s.ready) = 1 /\ s.ready[1] = Reducer!OtherParticipant(e.by)
       /\ Becomes(s, t, "verifying", s.turns + 1, s.version, s.round + 1, 0, s.proposer, s.acks,
                  Reducer!None, Append(s.ready, e.by), {})
    \/ \E p \in Reducer!Participants :
          Becomes(s, t, "failed", s.turns + 1, s.version, s.round, 0, p, {}, Reducer!None, <<>>, {})

\* The states a turn can lead to (ApplyTurnCompleted).
LEMMA TurnShape ==
    ASSUME Reducer!Configured, NEW s \in Reducer!State, Scheduled(s), NEW e \in Reducer!Event,
           e.type = "turn_completed", Reducer!TurnScheduled(s, e)
    PROVE  Reducer!ApplyTurnCompleted(s, e) \in Reducer!State /\ TurnOutcome(s, Reducer!ApplyTurnCompleted(s, e), e)
<1> DEFINE c == [s EXCEPT !.turns = @ + 1]
           t == Reducer!ApplyTurnCompleted(s, e)
<1>0. /\ s.status = "active" /\ s.pending = 0 /\ e.by \in Reducer!Participants /\ s.current = e.by
      /\ s.turns < MaxTurns /\ s.turns \in Nat /\ e.kind \in Reducer!Disposition /\ s.records = {}
      /\ s.ready \in Seq(Reducer!Participants) /\ s.version \in Nat /\ s.round \in Nat
      /\ Len(s.ready) <= 1 /\ s.proposer \in Reducer!Participants
      /\ \A i \in DOMAIN s.ready : s.current = Reducer!OtherParticipant(s.ready[i])
      /\ Reducer!OtherParticipant(e.by) \in Reducer!Participants /\ s.turns + 1 \in 0..MaxTurns
  BY StateShape, EventShape, Roles DEF Reducer!TurnScheduled, Scheduled
<1>1. /\ c \in Reducer!State
      /\ Becomes(s, c, "active", s.turns + 1, s.version, s.round, 0, s.proposer, s.acks, s.current,
                 s.ready, {})
  BY <1>0 DEF Reducer!State, Becomes
<1>2. ASSUME NEW u \in Reducer!State, t = Reducer!LimitTurns(u), u.applied = s.applied, u.status = "active",
             u.turns = s.turns + 1, s.turns + 1 >= MaxTurns, u.version = s.version,
             u.round = s.round
      PROVE  t \in Reducer!State /\ TurnOutcome(s, t, e)
  <2>1. u.proposer \in Reducer!Participants
    BY StateShape
  <2>2. t \in Reducer!State /\ Becomes(s, t, "failed", s.turns + 1, s.version, s.round, 0, u.proposer, {},
                                       Reducer!None, <<>>, {})
    BY <1>2, LimitShape
  <2> QED
    BY <2>1, <2>2 DEF TurnOutcome
<1>3. CASE e.kind = "reply"
  <2> DEFINE u == Reducer!ApplyReply(c, e)
  <2>1. t = Reducer!LimitTurns(u)
    BY <1>3 DEF Reducer!ApplyTurnCompleted
  <2>2. u \in Reducer!State
    <3>1. <<>> \in Seq(Reducer!Participants) /\ {} \in SUBSET Reducer!VerificationRecord
      OBVIOUS
    <3>2. \A a \in Reducer!Participants \cup {Reducer!None}, b \in Seq(Reducer!Participants), d \in SUBSET Reducer!VerificationRecord :
             [c EXCEPT !.current = a, !.ready = b, !.records = d] \in Reducer!State
      BY <1>1 DEF Reducer!State
    <3> QED
      BY <1>0, <3>1, <3>2 DEF Reducer!ApplyReply
  <2>3. Becomes(c, u, c.status, c.turns, c.version, c.round, c.pending, c.proposer, c.acks,
                Reducer!OtherParticipant(e.by), <<>>, {})
    BY <1>1 DEF Reducer!State, Reducer!ApplyReply, Becomes
  <2> HIDE DEF c, u
  <2>4. Becomes(s, u, "active", s.turns + 1, s.version, s.round, 0, s.proposer, s.acks,
                Reducer!OtherParticipant(e.by), <<>>, {})
    BY <1>1, <2>3 DEF Becomes
  <2>5. CASE s.turns + 1 >= MaxTurns
    BY <1>2, <2>1, <2>2, <2>4, <2>5 DEF Becomes
  <2>6. CASE s.turns + 1 < MaxTurns
    <3>1. t = u
      BY <1>0, <2>1, <2>2, <2>4, <2>6, LimitShape, Roles DEF Becomes
    <3> QED
      BY <1>3, <2>2, <2>4, <2>6, <3>1 DEF TurnOutcome
  <2> QED
    BY <1>0, <2>5, <2>6, Roles
<1>4. CASE e.kind = "propose_contract"
  <2> DEFINE u == Reducer!ApplyContractProposal(c, e)
  <2>1. t = Reducer!LimitTurns(u)
    BY <1>4 DEF Reducer!ApplyTurnCompleted
  <2>2. u \in Reducer!State
    <3>1. /\ <<>> \in Seq(Reducer!Participants) /\ {} \in SUBSET Reducer!VerificationRecord
          /\ {} \in SUBSET Reducer!Participants /\ Reducer!None \in Reducer!Participants \cup {Reducer!None}
      OBVIOUS
    <3>2. \A n \in Nat, p \in Reducer!Participants, k \in SUBSET Reducer!Participants, a \in Reducer!Participants \cup {Reducer!None},
             b \in Seq(Reducer!Participants), d \in SUBSET Reducer!VerificationRecord :
             [c EXCEPT !.pending = n, !.proposer = p, !.acks = k, !.current = a, !.ready = b,
                       !.records = d] \in Reducer!State
      BY <1>1, ZenonT(60) DEF Reducer!State
    <3>3. c.version + 1 \in Nat
      BY <1>0, <1>1 DEF Becomes
    <3> QED
      BY <1>0, <3>1, <3>2, <3>3 DEF Reducer!ApplyContractProposal
  <2>3. Becomes(c, u, c.status, c.turns, c.version, c.round, c.version + 1, e.by, {}, Reducer!None,
                <<>>, {})
    BY <1>1 DEF Reducer!State, Reducer!ApplyContractProposal, Becomes
  <2> HIDE DEF c, u
  <2>4. Becomes(s, u, "active", s.turns + 1, s.version, s.round, s.version + 1, e.by, {}, Reducer!None,
                <<>>, {})
    BY <1>1, <2>3 DEF Becomes
  <2>5. CASE s.turns + 1 >= MaxTurns
    BY <1>2, <2>1, <2>2, <2>4, <2>5 DEF Becomes
  <2>6. CASE s.turns + 1 < MaxTurns
    <3>1. t = u
      BY <1>0, <2>1, <2>2, <2>4, <2>6, LimitShape, Roles DEF Becomes
    <3> QED
      BY <1>4, <2>2, <2>4, <2>6, <3>1 DEF TurnOutcome
  <2> QED
    BY <1>0, <2>5, <2>6, Roles
<1>5. CASE e.kind = "ready"
  <2> DEFINE u == Reducer!ApplyReady(c, e)
             r == Append(s.ready, e.by)
  <2> HIDE DEF c
  <2>1. t = Reducer!LimitTurns(u)
    BY <1>5 DEF Reducer!ApplyTurnCompleted, c
  <2>2. r \in Seq(Reducer!Participants) /\ Len(r) = Len(s.ready) + 1 /\ Len(s.ready) \in Nat
    BY <1>0
  <2>3. u = IF Reducer!AllParticipants(r)
            THEN [c EXCEPT !.status = "verifying", !.round = @ + 1, !.current = Reducer!None,
                           !.ready = r, !.records = {}]
            ELSE [c EXCEPT !.current = Reducer!OtherParticipant(e.by), !.ready = r]
    BY <1>1 DEF Reducer!ApplyReady, Becomes
  <2>4. CASE Len(s.ready) = 1
    <3>1. s.ready[1] = Reducer!OtherParticipant(e.by)
      BY <1>0, <2>4, Roles
    <3>2. r[1] = s.ready[1] /\ r[2] = e.by /\ DOMAIN r = {1, 2}
      BY <1>0, <2>4, <2>2
    <3>3. {r[i] : i \in DOMAIN r} = {s.ready[1], e.by}
      BY <3>2
    <3>4. Reducer!AllParticipants(r)
      <4>1. Reducer!Participants = {s.ready[1], e.by}
        BY <1>0, <3>1, Roles
      <4>2. Len(r) = 2
        BY <2>2, <2>4
      <4> HIDE DEF r
      <4> QED
        BY <3>3, <4>1, <4>2 DEF Reducer!AllParticipants
    <3> HIDE DEF r
    <3>5. u = [c EXCEPT !.status = "verifying", !.round = c.round + 1, !.current = Reducer!None,
                        !.ready = r, !.records = {}]
      BY <2>3, <3>4
    <3>6. u \in Reducer!State
      <4>1. /\ "verifying" \in Reducer!MissionStatus /\ c.round + 1 \in Nat /\ {} \in SUBSET Reducer!VerificationRecord
            /\ Reducer!None \in Reducer!Participants \cup {Reducer!None}
        BY <1>0, <1>1 DEF Reducer!MissionStatus, Reducer!Running, Becomes
      <4>2. \A a \in Reducer!MissionStatus, b \in Nat, d \in Reducer!Participants \cup {Reducer!None},
               f \in Seq(Reducer!Participants), g \in SUBSET Reducer!VerificationRecord :
              [c EXCEPT !.status = a, !.round = b, !.current = d, !.ready = f, !.records = g] \in Reducer!State
        BY <1>1 DEF Reducer!State
      <4>3. r \in Seq(Reducer!Participants)
        BY <2>2
      <4>4. PICK k \in Nat : k = c.round + 1
        BY <4>1
      <4>5. u = [c EXCEPT !.status = "verifying", !.round = k, !.current = Reducer!None, !.ready = r,
                          !.records = {}]
        BY <3>5, <4>4
      <4> HIDE DEF u
      <4> QED
        BY <4>1, <4>2, <4>3, <4>5
    <3>7. Becomes(c, u, "verifying", c.turns, c.version, c.round + 1, c.pending, c.proposer, c.acks,
                  Reducer!None, r, {})
      BY <1>1, <3>5 DEF Reducer!State, Becomes
    <3> HIDE DEF u
    <3>8. Becomes(s, u, "verifying", s.turns + 1, s.version, s.round + 1, 0, s.proposer, s.acks,
                  Reducer!None, r, {})
      BY <1>1, <3>7 DEF Becomes
    <3>9. t = u
      BY <2>1, <3>6, <3>8, LimitShape DEF Becomes
    <3> QED
      BY <1>5, <2>4, <3>1, <3>6, <3>8, <3>9 DEF TurnOutcome, r
  <2>5. CASE s.ready = <<>>
    <3>1. ~Reducer!AllParticipants(r) /\ r = <<e.by>>
      BY <2>2, <2>5 DEF Reducer!AllParticipants
    <3> HIDE DEF r
    <3>2. u = [c EXCEPT !.current = Reducer!OtherParticipant(e.by), !.ready = r]
      BY <2>3, <3>1
    <3>3. u \in Reducer!State
      <4>1. \A d \in Reducer!Participants \cup {Reducer!None}, f \in Seq(Reducer!Participants) :
              [c EXCEPT !.current = d, !.ready = f] \in Reducer!State
        BY <1>1 DEF Reducer!State
      <4>2. r \in Seq(Reducer!Participants)
        BY <2>2
      <4>3. Reducer!OtherParticipant(e.by) \in Reducer!Participants \cup {Reducer!None}
        BY <1>0
      <4> QED
        BY <3>2, <4>1, <4>2, <4>3
    <3>4. Becomes(c, u, c.status, c.turns, c.version, c.round, c.pending, c.proposer, c.acks,
                  Reducer!OtherParticipant(e.by), r, c.records)
      BY <1>1, <3>2 DEF Reducer!State, Becomes
    <3> HIDE DEF u
    <3>5. Becomes(s, u, "active", s.turns + 1, s.version, s.round, 0, s.proposer, s.acks,
                  Reducer!OtherParticipant(e.by), <<e.by>>, {})
      BY <1>1, <3>1, <3>4 DEF Becomes
    <3>6. CASE s.turns + 1 >= MaxTurns
      BY <1>2, <2>1, <3>3, <3>5, <3>6 DEF Becomes
    <3>7. CASE s.turns + 1 < MaxTurns
      <4>1. t = u
        BY <1>0, <2>1, <3>3, <3>5, <3>7, LimitShape, Roles DEF Becomes
      <4> QED
        BY <1>5, <2>5, <3>3, <3>5, <3>7, <4>1 DEF TurnOutcome
    <3> QED
      BY <1>0, <3>6, <3>7, Roles
  <2>6. Len(s.ready) = 1 \/ s.ready = <<>>
    <3>1. Len(s.ready) = 0 => s.ready = <<>>
      BY <1>0
    <3>2. Len(s.ready) \in {0, 1}
      <4>1. PICK n \in Nat : n = Len(s.ready)
        BY <1>0
      <4>2. n <= 1
        BY <1>0, <4>1
      <4>3. n \in {0, 1}
        BY <4>2
      <4> QED
        BY <4>1, <4>3
    <3> QED
      BY <3>1, <3>2
  <2> QED
    BY <2>4, <2>5, <2>6
<1> QED
  BY <1>0, <1>3, <1>4, <1>5 DEF Reducer!Disposition

\* contract_acknowledged.
LEMMA AckShape ==
    ASSUME Reducer!Configured, NEW s \in Reducer!State, Scheduled(s), NEW e \in Reducer!Event,
           e.type = "contract_acknowledged", Reducer!AcknowledgementDue(s, e)
    PROVE  LET t == Reducer!ApplyContractAcknowledged(s, e) IN
           /\ t \in Reducer!State
           /\ \/ /\ s.acks = {} /\ s.acks \cup {e.by} # Reducer!Participants
                 /\ Becomes(s, t, "active", s.turns, s.version, s.round, s.pending, s.proposer,
                            {e.by}, Reducer!None, s.ready, {})
              \/ /\ s.acks \cup {e.by} = Reducer!Participants /\ s.acks # {}
                 /\ Becomes(s, t, "active", s.turns, s.pending, s.round, 0, s.proposer, {},
                            Reducer!OtherParticipant(s.proposer), <<>>, {})
<1>0. /\ s.status = "active" /\ s.pending # 0 /\ s.current = Reducer!None /\ e.by \notin s.acks
      /\ e.by \in Reducer!Participants /\ s.acks \in SUBSET Reducer!Participants /\ s.records = {}
      /\ s.pending \in Nat /\ s.proposer \in Reducer!Participants /\ s.acks # Reducer!Participants
  BY StateShape, EventShape DEF Reducer!AcknowledgementDue, Scheduled
<1>1. /\ s.acks = {} => s.acks \cup {e.by} # Reducer!Participants
      /\ s.acks # {} => s.acks \cup {e.by} = Reducer!Participants
  BY <1>0, Roles DEF Reducer!Participants
<1>2. CASE s.acks = {}
  <2> DEFINE t == [s EXCEPT !.acks = s.acks \cup {e.by}]
  <2>1. Reducer!ApplyContractAcknowledged(s, e) = t
    BY <1>1, <1>2 DEF Reducer!ApplyContractAcknowledged
  <2>2. /\ t \in Reducer!State
        /\ Becomes(s, t, "active", s.turns, s.version, s.round, s.pending, s.proposer,
                   s.acks \cup {e.by}, Reducer!None, s.ready, {})
    BY <1>0 DEF Reducer!State, Becomes
  <2>3. s.acks \cup {e.by} = {e.by}
    BY <1>2
  <2> HIDE DEF t
  <2> QED
    BY <1>1, <1>2, <2>1, <2>2, <2>3
<1>3. CASE s.acks # {}
  <2> DEFINE u == Reducer!Unscheduled(s)
             t == [u EXCEPT !.version = s.pending, !.current = Reducer!OtherParticipant(s.proposer)]
  <2>1. Reducer!ApplyContractAcknowledged(s, e) = t
    BY <1>1, <1>3 DEF Reducer!ApplyContractAcknowledged
  <2>2. /\ u \in Reducer!State
        /\ Becomes(s, u, s.status, s.turns, s.version, s.round, 0, s.proposer, {}, Reducer!None, <<>>, {})
    BY UnscheduledOK
  <2>3. Reducer!OtherParticipant(s.proposer) \in Reducer!Participants
    BY <1>0, Roles
  <2> HIDE DEF u
  <2>4. /\ t \in Reducer!State
        /\ Becomes(u, t, u.status, u.turns, s.pending, u.round, u.pending, u.proposer, u.acks,
                   Reducer!OtherParticipant(s.proposer), u.ready, u.records)
    BY <1>0, <2>2, <2>3 DEF Reducer!State, Becomes
  <2> HIDE DEF t
  <2>5. Becomes(s, t, "active", s.turns, s.pending, s.round, 0, s.proposer, {},
                Reducer!OtherParticipant(s.proposer), <<>>, {})
    BY <1>0, <2>2, <2>4 DEF Becomes
  <2> QED
    BY <1>1, <1>3, <2>1, <2>4, <2>5
<1> QED
  BY <1>2, <1>3

\* verification_recorded.
RecordOf(e) ==
    [by |-> e.by, version |-> e.version, round |-> e.round, command |-> e.command,
     outcome |-> e.outcome]

\* The states a piece of evidence can lead to (ApplyVerificationRecorded).
LEMMA VerificationShape ==
    ASSUME Reducer!Configured, NEW s \in Reducer!State, Scheduled(s), NEW e \in Reducer!Event,
           e.type = "verification_recorded", Reducer!VerificationDue(s, e)
    PROVE  LET t == Reducer!ApplyVerificationRecorded(s, e)
               records == s.records \cup {RecordOf(e)}
               failed == /\ Reducer!AllParticipantCommandsRecorded(records, e.by)
                         /\ \E r \in Reducer!RecordsOf(records, e.by) : r.outcome = "failed" IN
           /\ t \in Reducer!State
           /\ \/ /\ failed
                 /\ \E status \in {"active", "failed"} :
                       /\ status = "active" => s.turns < MaxTurns
                       /\ Becomes(s, t, status, s.turns, s.version, s.round, 0, s.proposer, {},
                                  IF status = "active" THEN e.by ELSE Reducer!None, <<>>, {})
              \/ /\ ~failed
                 /\ Becomes(s, t, IF Reducer!AllRequiredCommandsPassed(s, records) THEN "completed"
                                  ELSE "verifying",
                            s.turns, s.version, s.round, 0, s.proposer, s.acks, Reducer!None, s.ready,
                            records)
<1> DEFINE t == Reducer!ApplyVerificationRecorded(s, e)
           records == s.records \cup {RecordOf(e)}
           failed == /\ Reducer!AllParticipantCommandsRecorded(records, e.by)
                     /\ \E r \in Reducer!RecordsOf(records, e.by) : r.outcome = "failed"
           done == Reducer!AllRequiredCommandsPassed(s, records)
<1>0. /\ s.status = "verifying" /\ s.pending = 0 /\ s.current = Reducer!None
      /\ e.by \in Reducer!Participants /\ s.turns \in 0..MaxTurns
      /\ s.records \in SUBSET Reducer!VerificationRecord /\ RecordOf(e) \in Reducer!VerificationRecord
  BY StateShape, EventShape DEF Reducer!VerificationDue, RecordOf, Reducer!VerificationRecord
<1>1. t = IF failed THEN Reducer!VerificationFailed(s, e.by)
          ELSE [s EXCEPT !.records = records, !.status = IF done THEN "completed" ELSE @]
  BY DEF Reducer!ApplyVerificationRecorded, RecordOf
<1> HIDE DEF t, failed, done
<1>2. CASE failed
  <2> DEFINE u == Reducer!Unscheduled(s)
             a == [u EXCEPT !.status = "active", !.current = e.by]
             f == [u EXCEPT !.status = "failed"]
  <2>1. /\ u \in Reducer!State
        /\ Becomes(s, u, s.status, s.turns, s.version, s.round, 0, s.proposer, {}, Reducer!None, <<>>, {})
    BY UnscheduledOK
  <2>2. Cardinality(Reducer!Participants) = 2
    <3>1. Cardinality({First}) = 1 /\ IsFiniteSet({First})
      BY FS_Singleton
    <3>2. Second \notin {First}
      BY Roles
    <3>3. Cardinality({First} \cup {Second}) = Cardinality({First}) + 1
      BY <3>1, <3>2, FS_AddElement
    <3> QED
      BY <3>1, <3>3 DEF Reducer!Participants
  <2>3. \/ t = a /\ s.turns < MaxTurns
        \/ t = f
    <3>1. MaxTurns \in Nat /\ s.turns \in Nat
      BY <1>0, Roles
    <3>2. t = IF MaxTurns - s.turns >= 2 THEN a ELSE f
      BY <1>1, <1>2, <2>2, SameCardinality DEF Reducer!VerificationFailed
    <3> HIDE DEF a, f
    <3> QED
      BY <3>1, <3>2
  <2> HIDE DEF u
  <2>4. "active" \in Reducer!MissionStatus /\ "failed" \in Reducer!MissionStatus
    BY DEF Reducer!MissionStatus, Reducer!Running, Reducer!Terminal
  <2>5. /\ a \in Reducer!State
        /\ Becomes(u, a, "active", u.turns, u.version, u.round, u.pending, u.proposer, u.acks, e.by,
                   u.ready, u.records)
    BY <1>0, <2>1, <2>4 DEF Reducer!State, Becomes
  <2>6. /\ f \in Reducer!State
        /\ Becomes(u, f, "failed", u.turns, u.version, u.round, u.pending, u.proposer, u.acks,
                   u.current, u.ready, u.records)
    BY <2>1, <2>4 DEF Reducer!State, Becomes
  <2> HIDE DEF a, f
  <2>7. /\ Becomes(s, a, "active", s.turns, s.version, s.round, 0, s.proposer, {}, e.by, <<>>, {})
        /\ Becomes(s, f, "failed", s.turns, s.version, s.round, 0, s.proposer, {}, Reducer!None, <<>>, {})
    BY <2>1, <2>5, <2>6 DEF Becomes
  <2>8. /\ t \in Reducer!State
        /\ \E status \in {"active", "failed"} :
              /\ status = "active" => s.turns < MaxTurns
              /\ Becomes(s, t, status, s.turns, s.version, s.round, 0, s.proposer, {},
                         IF status = "active" THEN e.by ELSE Reducer!None, <<>>, {})
    BY <2>3, <2>5, <2>6, <2>7
  <2> QED
    BY <1>2, <2>8 DEF t, failed
<1>3. CASE ~failed
  <2> DEFINE st == IF done THEN "completed" ELSE "verifying"
  <2>1. st \in Reducer!MissionStatus
    BY DEF Reducer!MissionStatus, Reducer!Running, Reducer!Terminal
  <2>2. t = [s EXCEPT !.records = records, !.status = st]
    BY <1>0, <1>1, <1>3
  <2>3. records \in SUBSET Reducer!VerificationRecord
    BY <1>0
  <2> HIDE DEF records
  <2>4. /\ t \in Reducer!State
        /\ Becomes(s, t, st, s.turns, s.version, s.round, 0, s.proposer, s.acks, Reducer!None, s.ready,
                   records)
    <3> HIDE DEF st
    <3> QED
      BY <1>0, <2>1, <2>2, <2>3 DEF Reducer!State, Becomes
  <2> QED
    BY <1>3, <2>4 DEF t, failed, done, records
<1> QED
  BY <1>2, <1>3

\* The log b is a with the event e at its end.
Extended(a, e, b) ==
    /\ b \in Seq(Reducer!Event) /\ Len(a) \in Nat /\ Len(b) = Len(a) + 1 /\ b[Len(a) + 1] = e
    /\ \A i \in 1..Len(a) : b[i] = a[i] /\ i # Len(a) + 1 /\ i \in 1..Len(b)
    /\ \A i \in 1..Len(b) : i \in 1..Len(a) \/ i = Len(a) + 1
    /\ Len(a) + 1 \in 1..Len(b)
    /\ \A i \in 1..Len(a) : After(b, i) = After(a, i) \cup {Len(a) + 1}
    /\ \A i \in 1..Len(a) : After(a, i) \subseteq 1..Len(a)
    /\ After(b, Len(a) + 1) = {}

\* The log after one more event.
LEMMA LogFacts ==
    ASSUME NEW a \in Seq(Reducer!Event), NEW e \in Reducer!Event, NEW b, b = Append(a, e)
    PROVE  Extended(a, e, b)
<1>1. PICK n \in Nat : n = Len(a)
  OBVIOUS
<1>2. /\ b \in Seq(Reducer!Event) /\ Len(b) = n + 1 /\ b[n + 1] = e
      /\ \A i \in 1..n : b[i] = a[i]
  BY <1>1
<1>3. /\ \A i \in 1..n : i # n + 1 /\ i \in 1..(n + 1)
      /\ \A i \in 1..(n + 1) : i \in 1..n \/ i = n + 1
      /\ n + 1 \in 1..(n + 1)
      /\ \A i \in 1..n : (i + 1)..(n + 1) = ((i + 1)..n) \cup {n + 1}
      /\ \A i \in 1..n : (i + 1)..n \subseteq 1..n
      /\ ((n + 1) + 1)..(n + 1) = {}
  OBVIOUS
<1> QED
  BY <1>1, <1>2, <1>3 DEF After, Extended

\* Agreed, after an event that follows the agreement.
LEMMA AgreedKeeps ==
    ASSUME Reducer!Configured, NEW s \in Reducer!State, Agreed(s), NEW e \in Reducer!Event, NEW t,
           t.applied = Append(s.applied, e),
           e.type \in {"turn_completed", "verification_recorded"} => e.version = s.version,
           \/ t.version = s.version
           \/ /\ t.version = s.pending /\ s.pending # 0 /\ s.acks \cup {e.by} = Reducer!Participants
              /\ e.type = "contract_acknowledged" /\ e.version = s.pending,
           t.pending # 0 =>
              \/ t.acks = {}
              \/ /\ t.pending = s.pending /\ t.acks = s.acks \cup {e.by}
                 /\ e.type = "contract_acknowledged" /\ e.version = s.pending
    PROVE  Agreed(t)
<1> DEFINE a == s.applied
           b == t.applied
           n == Len(a)
<1>a. a \in Seq(Reducer!Event) /\ b = Append(a, e)
  BY StateShape
<1>b. Extended(a, e, b)
  BY <1>a, LogFacts
<1>0. /\ n \in Nat /\ Len(b) = n + 1 /\ b[n + 1] = e
      /\ \A i \in 1..n : b[i] = a[i] /\ i \in 1..Len(b)
      /\ \A i \in 1..Len(b) : i \in 1..n \/ i = n + 1
      /\ n + 1 \in 1..Len(b)
  BY <1>b DEF Extended
<1>1. \A i \in 1..n : \A p, v :
         Acknowledged(a, i, p, v) => Acknowledged(b, i, p, v) /\ i \in 1..Len(b)
  BY <1>0 DEF Acknowledged
<1>2. e.type = "contract_acknowledged" => Acknowledged(b, n + 1, e.by, e.version)
  BY <1>0 DEF Acknowledged
<1>3. /\ s.version # BaseVersion => \A p \in Reducer!Participants :
            \E j \in 1..n : Acknowledged(a, j, p, s.version)
      /\ s.pending # 0 => \A p \in s.acks : \E j \in 1..n : Acknowledged(a, j, p, s.pending)
      /\ \A i \in 1..n :
            /\ a[i].type \in {"turn_completed", "verification_recorded"}
            /\ a[i].version # BaseVersion
            => \A p \in Reducer!Participants : \E j \in 1..(i - 1) : Acknowledged(a, j, p, a[i].version)
  BY DEF Agreed
<1> HIDE DEF a, b, n
<1>4. t.version # BaseVersion => \A p \in Reducer!Participants :
         \E j \in 1..Len(b) : Acknowledged(b, j, p, t.version)
  <2>1. CASE t.version = s.version
    BY <1>1, <1>3, <2>1
  <2>2. CASE /\ t.version = s.pending /\ s.pending # 0 /\ s.acks \cup {e.by} = Reducer!Participants
             /\ e.type = "contract_acknowledged" /\ e.version = s.pending
    BY <1>0, <1>1, <1>2, <1>3, <2>2
  <2> QED
    BY <2>1, <2>2
<1>5. t.pending # 0 => \A p \in t.acks :
         \E j \in 1..Len(b) : Acknowledged(b, j, p, t.pending)
  BY <1>0, <1>1, <1>2, <1>3
<1>6. ASSUME NEW i \in 1..Len(b),
             b[i].type \in {"turn_completed", "verification_recorded"},
             b[i].version # BaseVersion, NEW p \in Reducer!Participants
      PROVE  \E j \in 1..(i - 1) : Acknowledged(b, j, p, b[i].version)
  <2>1. CASE i \in 1..n
    <3>1. b[i] = a[i]
      BY <1>0, <2>1
    <3>2. PICK j \in 1..(i - 1) : Acknowledged(a, j, p, a[i].version)
      BY <1>3, <1>6, <2>1, <3>1
    <3>3. j \in 1..n
      BY <1>0, <2>1
    <3> QED
      BY <1>1, <3>1, <3>2, <3>3
  <2>2. CASE i = n + 1
    <3>1. b[i] = e /\ e.version = s.version
      BY <1>0, <1>6, <2>2
    <3>2. PICK j \in 1..n : Acknowledged(a, j, p, s.version)
      BY <1>3, <1>6, <3>1
    <3>3. j \in 1..(i - 1)
      BY <1>0, <2>2
    <3> QED
      BY <1>1, <3>1, <3>2, <3>3
  <2> QED
    BY <1>0, <2>1, <2>2
<1> QED
  BY <1>4, <1>5, <1>6 DEF Agreed, b

\* Alternating, after any event.
LEMMA AlternatingKeeps ==
    ASSUME Reducer!Configured, NEW s \in Reducer!State, Alternating(s), NEW e \in Reducer!Event, NEW t,
           t.applied = Append(s.applied, e),
           e.type = "turn_completed" =>
              /\ s.status = "active" /\ s.pending = 0 /\ e.by = s.current
              /\ t.status = "active" /\ t.pending = 0 => t.current # e.by
              /\ t.status = "active" /\ t.pending # 0 => t.proposer = e.by,
           e.type # "turn_completed" /\ t.status = "active" =>
              \/ s.applied = <<>>
              \/ /\ t.pending # 0 /\ s.status = "active" /\ s.pending # 0
                 /\ t.proposer = s.proposer
              \/ /\ t.pending = 0 /\ s.status = "active" /\ s.pending # 0
                 /\ t.current # s.proposer
              \/ /\ t.pending = 0
                 /\ \E k \in 1..Len(t.applied) :
                       /\ Failure(t.applied, k) /\ t.applied[k].by = t.current
                       /\ \A j \in After(t.applied, k) : ~Turn(t.applied, j)
    PROVE  Alternating(t)
<1> DEFINE a == s.applied
           b == t.applied
           n == Len(a)
<1>a. a \in Seq(Reducer!Event) /\ b = Append(a, e)
  BY StateShape
<1> HIDE DEF a, b
<1>b. Extended(a, e, b)
  BY <1>a, LogFacts
<1>0. /\ n \in Nat /\ Len(b) = n + 1 /\ b[n + 1] = e
      /\ \A i \in 1..n : b[i] = a[i] /\ i \in 1..Len(b)
      /\ \A i \in 1..Len(b) : i \in 1..n \/ i = n + 1
      /\ \A i \in 1..n : After(b, i) = After(a, i) \cup {n + 1}
      /\ \A i \in 1..n : After(a, i) \subseteq 1..n
      /\ After(b, n + 1) = {}
  BY <1>b DEF Extended
<1>1. \A i \in 1..n : (Turn(b, i) <=> Turn(a, i)) /\ (Failure(b, i) <=> Failure(a, i))
  BY <1>0 DEF Turn, Failure
<1>2. Turn(b, n + 1) <=> e.type = "turn_completed"
  BY <1>0 DEF Turn
<1>3. \A i \in 1..n :
         /\ Turn(a, i) /\ \A k \in After(a, i) : ~Turn(a, k)
         => /\ s.status = "active" /\ s.pending = 0 =>
                  \/ a[i].by # s.current
                  \/ \E k \in After(a, i) : Failure(a, k) /\ a[k].by = s.current
            /\ s.status = "active" /\ s.pending # 0 => a[i].by = s.proposer
  BY DEF Alternating, a
<1>4. \A i, j \in 1..n :
         /\ i < j /\ Turn(a, i) /\ Turn(a, j)
         /\ \A k \in (i + 1)..(j - 1) : ~Turn(a, k)
         /\ a[i].by = a[j].by
         => \E k \in (i + 1)..(j - 1) : Failure(a, k) /\ a[k].by = a[j].by
  BY DEF Alternating, a
<1>5. s.applied = <<>> => n = 0
  BY DEF a
<1>6. b = t.applied
  BY DEF b
<1>7. a = s.applied
  BY DEF a
<1> HIDE DEF n
<1>8. ASSUME NEW i \in 1..Len(b), Turn(b, i), \A k \in After(b, i) : ~Turn(b, k)
      PROVE  /\ t.status = "active" /\ t.pending = 0 =>
                   \/ b[i].by # t.current
                   \/ \E k \in After(b, i) : Failure(b, k) /\ b[k].by = t.current
             /\ t.status = "active" /\ t.pending # 0 => b[i].by = t.proposer
  <2>1. CASE i = n + 1
    BY <1>0, <1>2, <1>8, <2>1
  <2>2. CASE i \in 1..n
    <3>1. e.type # "turn_completed" /\ Turn(a, i) /\ b[i] = a[i]
      BY <1>0, <1>1, <1>2, <1>8, <2>2
    <3>2. \A k \in After(a, i) : ~Turn(a, k)
      BY <1>0, <1>1, <1>8, <2>2
    <3>3. n # 0
      BY <1>0, <2>2
    <3>4. /\ s.status = "active" /\ s.pending # 0 => a[i].by = s.proposer
      BY <1>3, <2>2, <3>1, <3>2
    <3>5. ASSUME NEW k \in 1..Len(b), Failure(b, k), b[k].by = t.current,
                 \A j \in After(b, k) : ~Turn(b, j)
          PROVE  \E l \in After(b, i) : Failure(b, l) /\ b[l].by = t.current
      <4>1. k # i
        BY <1>8, <3>5 DEF Turn, Failure
      <4>2. ~(i \in After(b, k))
        BY <1>8, <3>5
      <4>3. k \in After(b, i)
        BY <1>0, <2>2, <4>1, <4>2 DEF After
      <4> QED
        BY <3>5, <4>3
    <3> QED
      BY <1>5, <1>6, <1>7, <3>1, <3>3, <3>4, <3>5
  <2> QED
    BY <1>0, <2>1, <2>2
<1>9. ASSUME NEW i \in 1..Len(b), NEW j \in 1..Len(b), i < j, Turn(b, i), Turn(b, j),
             \A k \in (i + 1)..(j - 1) : ~Turn(b, k), b[i].by = b[j].by
      PROVE  \E k \in (i + 1)..(j - 1) : Failure(b, k) /\ b[k].by = b[j].by
  <2>1. i \in 1..n
    BY <1>0, <1>9
  <2>2. CASE j \in 1..n
    <3>1. \A k \in (i + 1)..(j - 1) : k \in 1..n
      BY <1>0, <2>1, <2>2
    <3>2. Turn(a, i) /\ Turn(a, j) /\ a[i].by = a[j].by /\ b[j] = a[j]
      BY <1>0, <1>1, <1>9, <2>1, <2>2
    <3>3. \A k \in (i + 1)..(j - 1) : ~Turn(a, k)
      BY <1>1, <1>9, <3>1
    <3>4. PICK k \in (i + 1)..(j - 1) : Failure(a, k) /\ a[k].by = a[j].by
      BY <1>4, <1>9, <2>1, <2>2, <3>2, <3>3
    <3> QED
      BY <1>0, <1>1, <3>1, <3>2, <3>4
  <2>3. CASE j = n + 1
    <3>1. e.type = "turn_completed" /\ b[j] = e
      BY <1>0, <1>2, <1>9, <2>3
    <3>2. (i + 1)..(j - 1) = After(a, i)
      BY <1>0, <2>1, <2>3 DEF After, n
    <3>3. Turn(a, i) /\ \A k \in After(a, i) : ~Turn(a, k)
      BY <1>0, <1>1, <1>9, <2>1, <3>2
    <3>4. a[i].by = s.current /\ s.status = "active" /\ s.pending = 0 /\ e.by = s.current
      BY <1>0, <1>9, <2>1, <3>1
    <3>5. PICK k \in After(a, i) : Failure(a, k) /\ a[k].by = s.current
      BY <1>3, <2>1, <3>3, <3>4
    <3>6. k \in 1..n
      BY <1>0, <2>1
    <3> QED
      BY <1>0, <1>1, <3>1, <3>2, <3>4, <3>5, <3>6
  <2> QED
    BY <1>0, <2>2, <2>3
<1> QED
  BY <1>8, <1>9 DEF Alternating, b

\* Without records there is nothing to show, unless the Mission is completed.
LEMMA EvidenceEmpty ==
    ASSUME NEW t, t.records = {}, t.status # "completed"
    PROVE  Evidence(t)
BY DEF Evidence, Reducer!RecordsOf

\* A record of the log is in the log with one more event that is no turn.
LEMMA EvidenceAdded ==
    ASSUME Reducer!Configured, NEW s \in Reducer!State, Scheduled(s), Evidence(s), NEW e \in Reducer!Event,
           e.type = "verification_recorded", Reducer!VerificationDue(s, e), NEW t,
           t.applied = Append(s.applied, e), t.records = s.records \cup {RecordOf(e)},
           t.version = s.version, t.round = s.round, t.ready = s.ready,
           ~(/\ Reducer!AllParticipantCommandsRecorded(t.records, e.by)
             /\ \E r \in Reducer!RecordsOf(t.records, e.by) : r.outcome = "failed"),
           t.status = IF Reducer!AllRequiredCommandsPassed(s, t.records) THEN "completed" ELSE "verifying"
    PROVE  Evidence(t)
<1> DEFINE a == s.applied
           b == t.applied
           n == Len(a)
           InLog(c, r, k) ==
                /\ c[k].type = "verification_recorded"
                /\ c[k].by = r.by /\ c[k].command = r.command
                /\ c[k].version = r.version /\ c[k].round = r.round
                /\ c[k].outcome = r.outcome
                /\ \A j \in After(c, k) : ~Turn(c, j)
<1>a. a \in Seq(Reducer!Event) /\ b = Append(a, e)
  BY StateShape
<1> HIDE DEF a, b
<1>b. Extended(a, e, b)
  BY <1>a, LogFacts
<1>0. /\ n \in Nat /\ Len(b) = n + 1 /\ b[n + 1] = e /\ n + 1 \in 1..Len(b)
      /\ \A i \in 1..n : b[i] = a[i] /\ i \in 1..Len(b)
      /\ \A i \in 1..n : After(b, i) = After(a, i) \cup {n + 1}
      /\ \A i \in 1..n : After(a, i) \subseteq 1..n
      /\ After(b, n + 1) = {}
  BY <1>b DEF Extended
<1>1. \A r \in s.records : r.command \in Commands[r.by] /\ \E k \in 1..n : InLog(a, r, k)
  BY DEF Evidence, a
<1>2. \A r \in s.records, k \in 1..n : InLog(a, r, k) => InLog(b, r, k)
  BY <1>0, SMTT(30) DEF Turn
<1>3. /\ RecordOf(e).by = e.by /\ RecordOf(e).command = e.command
      /\ RecordOf(e).version = e.version /\ RecordOf(e).round = e.round
      /\ RecordOf(e).outcome = e.outcome
  BY DEF RecordOf
<1>4. InLog(b, RecordOf(e), n + 1)
  BY <1>0, <1>3
<1>5. /\ e.command \in Commands[e.by] /\ e.outcome \in {"passed", "failed"}
      /\ \A r \in Reducer!RecordsOf(s.records, e.by) : r.command # e.command
  BY EventShape DEF Reducer!VerificationDue
<1> HIDE DEF n, InLog
<1>6. \A r \in t.records : r.command \in Commands[r.by] /\ \E k \in 1..Len(b) : InLog(b, r, k)
  <2>1. \A r \in s.records : \E k \in 1..Len(b) : InLog(b, r, k)
    BY <1>0, <1>1, <1>2
  <2> QED
    BY <1>0, <1>1, <1>3, <1>4, <1>5, <2>1
<1>7. \A r, q \in t.records : r.by = q.by /\ r.command = q.command => r = q
  <2>1. \A r, q \in s.records : r.by = q.by /\ r.command = q.command => r = q
    BY DEF Evidence
  <2>2. \A r \in s.records : r.by = e.by => r.command # e.command
    BY <1>5 DEF Reducer!RecordsOf
  <2> QED
    BY <1>3, <2>1, <2>2
<1>8. \A p \in Reducer!Participants : Reducer!AllParticipantCommandsRecorded(t.records, p) =>
          \A r \in Reducer!RecordsOf(t.records, p) : r.outcome = "passed"
  <2> TAKE p \in Reducer!Participants
  <2>1. CASE p = e.by
    <3>1. \A r \in t.records : r.outcome \in {"passed", "failed"}
      <4>1. \A r \in s.records : r.outcome \in {"passed", "failed"}
        BY StateShape DEF Reducer!VerificationRecord
      <4> QED
        BY <1>3, <1>5, <4>1
    <3> QED
      BY <2>1, <3>1 DEF Reducer!RecordsOf
  <2>2. CASE p # e.by
    <3>1. Reducer!RecordsOf(t.records, p) = Reducer!RecordsOf(s.records, p)
      BY <1>3, <2>2 DEF Reducer!RecordsOf
    <3>2. s.status = "verifying"
      BY DEF Reducer!VerificationDue
    <3>3. Reducer!AllParticipantCommandsRecorded(s.records, p) =>
             \A r \in Reducer!RecordsOf(s.records, p) : r.outcome = "passed"
      BY <3>2 DEF Evidence
    <3> QED
      BY <3>1, <3>3 DEF Reducer!AllParticipantCommandsRecorded
  <2> QED
    BY <2>1, <2>2
<1>9. t.status = "completed" => Reducer!AllRequiredCommandsPassed(t, t.records) /\ Reducer!AllParticipants(t.ready)
  <2>1. Reducer!AllParticipants(s.ready)
    BY DEF Reducer!VerificationDue, Scheduled
  <2> QED
    BY <2>1 DEF Reducer!AllRequiredCommandsPassed
<1> QED
  BY <1>6, <1>7, <1>8, <1>9 DEF Evidence, InLog, b

\* Both have recorded everything and nothing failed: everything passed.
LEMMA AllPassed ==
    ASSUME NEW s, NEW records, records \subseteq Reducer!VerificationRecord,
           \A r \in records : r.version = s.version /\ r.round = s.round,
           \A p \in Reducer!Participants : Reducer!AllParticipantCommandsRecorded(records, p),
           \A p \in Reducer!Participants : \A r \in Reducer!RecordsOf(records, p) : r.outcome = "passed"
    PROVE  Reducer!AllRequiredCommandsPassed(s, records)
<1> SUFFICES ASSUME NEW p \in Reducer!Participants, NEW c \in Commands[p]
             PROVE  [by |-> p, version |-> s.version, round |-> s.round, command |-> c,
                     outcome |-> "passed"] \in records
  BY DEF Reducer!AllRequiredCommandsPassed
<1>1. PICK r \in Reducer!RecordsOf(records, p) : r.command = c
  BY DEF Reducer!AllParticipantCommandsRecorded
<1>2. /\ r \in records /\ r.by = p /\ r.outcome = "passed" /\ r.version = s.version
      /\ r.round = s.round /\ r \in Reducer!VerificationRecord
  BY DEF Reducer!RecordsOf
<1>3. r = [by |-> r.by, version |-> r.version, round |-> r.round, command |-> r.command,
           outcome |-> r.outcome]
  BY <1>2 DEF Reducer!VerificationRecord
<1> QED
  BY <1>1, <1>2, <1>3

\* Readiness is withdrawn, added by its own turn, or untouched by evidence.
LEMMA ReadiedEmpty ==
    ASSUME NEW t, t.ready = <<>>
    PROVE  Readied(t)
BY DEF Readied

\* Readied, after an event that withdraws no readiness.
LEMMA ReadiedKeeps ==
    ASSUME Reducer!Configured, NEW s \in Reducer!State, Readied(s), NEW e \in Reducer!Event, NEW t,
           t.applied = Append(s.applied, e),
           \/ /\ e.type = "turn_completed" /\ e.kind = "ready" /\ s.records = {}
              /\ t.ready = Append(s.ready, e.by)
           \/ /\ e.type = "verification_recorded" /\ t.ready = s.ready
              /\ t.records = s.records \cup {RecordOf(e)}
    PROVE  Readied(t)
<1> DEFINE a == s.applied
           b == t.applied
           n == Len(a)
           Past(c, j, failed) ==
              /\ ~TurnOf(c, j, "reply") /\ ~TurnOf(c, j, "propose_contract")
              /\ c[j].type # "contract_acknowledged"
              /\ Failure(c, j) => failed
           Failed(x) == \E r \in x.records : r.outcome = "failed"
           Said(c, i, p, failed) ==
              /\ TurnOf(c, i, "ready") /\ c[i].by = p
              /\ \A j \in After(c, i) : Past(c, j, failed)
<1>a. a \in Seq(Reducer!Event) /\ b = Append(a, e)
  BY StateShape
<1> HIDE DEF a, b
<1>b. Extended(a, e, b)
  BY <1>a, LogFacts
<1>0. /\ n \in Nat /\ Len(b) = n + 1 /\ b[n + 1] = e /\ n + 1 \in 1..Len(b)
      /\ \A i \in 1..n : b[i] = a[i] /\ i \in 1..Len(b)
      /\ \A i \in 1..n : After(b, i) = After(a, i) \cup {n + 1}
      /\ \A i \in 1..n : After(a, i) \subseteq 1..n
      /\ After(b, n + 1) = {}
  BY <1>b DEF Extended
<1>1. \A m \in DOMAIN s.ready : \E i \in 1..n : Said(a, i, s.ready[m], Failed(s))
  BY DEF Readied, a
<1>2. Failed(s) => Failed(t)
  OBVIOUS
<1>3. Past(b, n + 1, Failed(t))
  <2>0. RecordOf(e).outcome = e.outcome
    BY DEF RecordOf
  <2>1. e.type = "verification_recorded" /\ e.outcome = "failed" => Failed(t)
    BY <2>0
  <2> HIDE DEF Failed
  <2> QED
    BY <1>0, <2>1 DEF TurnOf, Turn, Failure
<1> HIDE DEF n, Failed
<1>4. \A i \in 1..n : \A p : Said(a, i, p, Failed(s)) => Said(b, i, p, Failed(t))
  <2> SUFFICES ASSUME NEW i \in 1..n, NEW p, Said(a, i, p, Failed(s))
               PROVE  Said(b, i, p, Failed(t))
    OBVIOUS
  <2>1. TurnOf(b, i, "ready") /\ b[i].by = p
    BY <1>0 DEF TurnOf, Turn
  <2>2. \A j \in After(a, i) : Past(b, j, Failed(t))
    BY <1>0, <1>2 DEF TurnOf, Turn, Failure
  <2> HIDE DEF Past
  <2>3. \A j \in After(b, i) : Past(b, j, Failed(t))
    BY <1>0, <1>3, <2>2
  <2> QED
    BY <2>1, <2>3
<1>5. ASSUME NEW m \in DOMAIN t.ready
      PROVE  \E i \in 1..Len(b) : Said(b, i, t.ready[m], Failed(t))
  <2>1. CASE m \in DOMAIN s.ready /\ t.ready[m] = s.ready[m]
    <3> HIDE DEF Said
    <3> QED
      BY <1>0, <1>1, <1>4, <2>1
  <2>2. CASE e.type = "turn_completed" /\ e.kind = "ready" /\ t.ready[m] = e.by
    <3>1. Said(b, n + 1, e.by, Failed(t))
      BY <1>0, <2>2 DEF TurnOf, Turn
    <3> HIDE DEF Said
    <3> QED
      BY <1>0, <2>2, <3>1
  <2>3. CASE t.ready = Append(s.ready, e.by) /\ e.type = "turn_completed" /\ e.kind = "ready"
    <3>1. s.ready \in Seq(Reducer!Participants)
      BY StateShape
    <3>2. \/ m \in DOMAIN s.ready /\ t.ready[m] = s.ready[m]
          \/ t.ready[m] = e.by
      BY <2>3, <3>1
    <3> QED
      BY <2>1, <2>2, <2>3, <3>2
  <2>4. CASE t.ready = s.ready
    BY <2>1, <2>4
  <2> QED
    BY <2>3, <2>4
<1> QED
  BY <1>5 DEF Readied, Said, Past, Failed, b

-----------------------------------------------------------------------------
(* The event budget *)

\* The numbers of the event budget.
LEMMA Counts ==
    ASSUME Reducer!Configured
    PROVE  /\ Cardinality(Commands[First]) \in Nat /\ Cardinality(Commands[Second]) \in Nat
           /\ CommandCount \in Nat /\ PerTurn \in Nat /\ PerTurn >= 6 /\ PerTurn >= 2 + CommandCount
<1>1. IsFiniteSet(Commands[First]) /\ IsFiniteSet(Commands[Second])
  BY Roles, SameFinite DEF Reducer!Configured
<1>2. Cardinality(Commands[First]) \in Nat /\ Cardinality(Commands[Second]) \in Nat
  BY <1>1, FS_CardinalityType
<1>3. CommandCount \in Nat
  BY <1>2 DEF CommandCount
<1> QED
  BY <1>2, <1>3 DEF PerTurn

\* The missing evidence is finite.
LEMMA MissingFinite ==
    ASSUME Reducer!Configured, NEW s, NEW p \in Reducer!Participants
    PROVE  IsFiniteSet(Missing(s, p)) /\ Cardinality(Missing(s, p)) \in Nat
<1>1. IsFiniteSet(Commands[p])
  BY SameFinite DEF Reducer!Configured
<1>2. Missing(s, p) \subseteq Commands[p]
  BY DEF Missing
<1> QED
  BY <1>1, <1>2, FS_Subset, FS_CardinalityType

\* The credit of each phase.
LEMMA Credits ==
    ASSUME Reducer!Configured, NEW s
    PROVE  /\ s.status = "active" /\ s.pending = 0 => Credit(s) = CommandCount * Len(s.ready)
           /\ s.status = "active" /\ s.pending # 0 /\ s.acks = {} => Credit(s) = 4
           /\ s.status = "active" /\ s.pending # 0 /\ s.acks # {} => Credit(s) = 2
           /\ s.status = "verifying" => Credit(s) =
                 2 * (Cardinality(Missing(s, First)) + Cardinality(Missing(s, Second)))
           /\ s.status \notin Reducer!Running => Credit(s) = 0
BY DEF Credit, Reducer!Running

\* Without records all the evidence is missing.
LEMMA MissingAll ==
    ASSUME Reducer!Configured, NEW s, s.records = {}
    PROVE  Cardinality(Missing(s, First)) + Cardinality(Missing(s, Second)) = CommandCount
<1>1. \A p : Missing(s, p) = Commands[p]
  BY DEF Missing, Reducer!RecordsOf
<1> QED
  BY <1>1 DEF CommandCount

\* A new record is one command less to wait for.
LEMMA MissingLess ==
    ASSUME Reducer!Configured, NEW s, NEW e, NEW t, e.by \in Reducer!Participants,
           t.records = s.records \cup {RecordOf(e)}, e.command \in Commands[e.by],
           \A r \in Reducer!RecordsOf(s.records, e.by) : r.command # e.command
    PROVE  Cardinality(Missing(t, First)) + Cardinality(Missing(t, Second)) + 1 =
           Cardinality(Missing(s, First)) + Cardinality(Missing(s, Second))
<1>1. RecordOf(e).by = e.by /\ RecordOf(e).command = e.command
  BY DEF RecordOf
<1>2. Missing(t, e.by) = Missing(s, e.by) \ {e.command} /\ e.command \in Missing(s, e.by)
  BY <1>1 DEF Missing, Reducer!RecordsOf
<1>3. Cardinality(Missing(t, e.by)) + 1 = Cardinality(Missing(s, e.by))
  <2>1. Cardinality(Missing(s, e.by) \ {e.command}) = Cardinality(Missing(s, e.by)) - 1
    BY <1>2, MissingFinite, FS_RemoveElement
  <2> QED
    BY <1>2, <2>1, MissingFinite
<1>4. Missing(t, Reducer!OtherParticipant(e.by)) = Missing(s, Reducer!OtherParticipant(e.by))
  <2>1. Reducer!OtherParticipant(e.by) # e.by
    BY Roles
  <2>2. Reducer!RecordsOf(t.records, Reducer!OtherParticipant(e.by)) = Reducer!RecordsOf(s.records, Reducer!OtherParticipant(e.by))
    BY <1>1, <2>1 DEF Reducer!RecordsOf
  <2> QED
    BY <2>2 DEF Missing
<1>5. \/ e.by = First /\ Reducer!OtherParticipant(e.by) = Second
      \/ e.by = Second /\ Reducer!OtherParticipant(e.by) = First
  BY Roles DEF Reducer!Participants, Reducer!OtherParticipant
<1>6. /\ Cardinality(Missing(s, First)) \in Nat /\ Cardinality(Missing(s, Second)) \in Nat
      /\ Cardinality(Missing(t, First)) \in Nat /\ Cardinality(Missing(t, Second)) \in Nat
  BY MissingFinite, Roles
<1> QED
  BY <1>3, <1>4, <1>5, <1>6

\* A turn pays for itself and for what it may lead to.
LEMMA TurnPays ==
    ASSUME Reducer!Configured, NEW s \in Reducer!State, s.status \in Reducer!Running, Budgeted(s), NEW e \in Reducer!Event,
           NEW t, t.applied = Append(s.applied, e), t.turns = s.turns + 1,
           t.status # "awaiting_acceptance",
           NEW old \in Nat, NEW new \in Nat, Credit(s) = old, Credit(t) = new,
           2 + new <= old + PerTurn
    PROVE  Budgeted(t)
<1>0. s.applied \in Seq(Reducer!Event)
  BY StateShape
<1>1. PICK n \in Nat : n = Len(s.applied) /\ Len(t.applied) = n + 1
  BY <1>0
<1>2. PICK k \in Nat : k = s.turns
  BY StateShape
<1>3. PICK c \in Nat : c = PerTurn
  BY Counts
<1>4. PICK x \in Nat : x = k * c /\ (k + 1) * c = x + c
  OBVIOUS
<1>5. 2 * n + old <= 2 + x
  BY <1>1, <1>2, <1>3, <1>4 DEF Budgeted
<1>6. 2 * (n + 1) + new <= 2 + (x + c)
  BY <1>3, <1>5
<1>7. t.turns * PerTurn = x + c
  BY <1>2, <1>3, <1>4
<1> QED
  BY <1>1, <1>6, <1>7 DEF Budgeted

\* Any other event is paid for by the turns before it.
LEMMA OtherPays ==
    ASSUME Reducer!Configured, NEW s \in Reducer!State, s.status \in Reducer!Running, Budgeted(s), NEW e \in Reducer!Event,
           NEW t, t.applied = Append(s.applied, e), t.turns = s.turns,
           t.status # "awaiting_acceptance",
           NEW old \in Nat, NEW new \in Nat, Credit(s) = old, Credit(t) = new,
           IF t.status \in Reducer!Running THEN 2 + new <= old ELSE new = 0
    PROVE  Budgeted(t)
<1>0. s.applied \in Seq(Reducer!Event)
  BY StateShape
<1>1. PICK n \in Nat : n = Len(s.applied) /\ Len(t.applied) = n + 1
  BY <1>0
<1>2. PICK k \in Nat : k = s.turns
  BY StateShape
<1>3. PICK c \in Nat : c = PerTurn
  BY Counts
<1>4. PICK x \in Nat : x = k * c
  OBVIOUS
<1>5. 2 * n + old <= 2 + x
  BY <1>1, <1>2, <1>3, <1>4 DEF Budgeted
<1>6. 2 * (n + 1) + new <= (IF t.status \in Reducer!Running THEN 2 ELSE 4) + x
  BY <1>5
<1>7. t.turns * PerTurn = x
  BY <1>2, <1>3, <1>4
<1> QED
  BY <1>1, <1>6, <1>7 DEF Budgeted

\* The credit is a number.
LEMMA CreditNat ==
    ASSUME Reducer!Configured, NEW s \in Reducer!State
    PROVE  Credit(s) \in Nat
<1>1. Len(s.ready) \in Nat /\ CommandCount * Len(s.ready) \in Nat
  BY StateShape, Counts
<1>2. /\ Cardinality(Missing(s, First)) \in Nat /\ Cardinality(Missing(s, Second)) \in Nat
  BY MissingFinite, Roles
<1>3. 2 * (Cardinality(Missing(s, First)) + Cardinality(Missing(s, Second))) \in Nat
  BY <1>2
<1> QED
  BY <1>1, <1>3 DEF Credit

-----------------------------------------------------------------------------
(* Every event preserves the invariant *)

\* Becomes, with the event e logged.
Moves(s, e, t, status, turns, version, round, pending, proposer, acks, current, ready, records) ==
    /\ t.status = status /\ t.turns = turns /\ t.version = version /\ t.round = round
    /\ t.pending = pending /\ t.proposer = proposer /\ t.acks = acks /\ t.current = current
    /\ t.ready = ready /\ t.records = records /\ t.applied = Append(s.applied, e)

\* Logging the event changes nothing else.
LEMMA Logged ==
    ASSUME NEW s \in Reducer!State, NEW u \in Reducer!State, NEW e \in Reducer!Event,
           NEW t, t = [u EXCEPT !.applied = Append(s.applied, e)]
    PROVE  /\ t \in Reducer!State
           /\ \A st, tu, ve, ro, pe, pr, ac, cu, re, rc :
                 Becomes(s, u, st, tu, ve, ro, pe, pr, ac, cu, re, rc) =>
                 Moves(s, e, t, st, tu, ve, ro, pe, pr, ac, cu, re, rc)
<1>1. s.applied \in Seq(Reducer!Event)
  BY StateShape
<1>2. PICK b \in Seq(Reducer!Event) : b = Append(s.applied, e)
  <2>1. Append(s.applied, e) \in Seq(Reducer!Event)
    BY <1>1
  <2> QED
    BY <2>1
<1>3. t = [u EXCEPT !.applied = b]
  BY <1>2
<1>4. t \in Reducer!State
  BY <1>3 DEF Reducer!State
<1>5. /\ t.status = u.status /\ t.turns = u.turns /\ t.version = u.version /\ t.round = u.round
      /\ t.pending = u.pending /\ t.proposer = u.proposer /\ t.acks = u.acks
      /\ t.current = u.current /\ t.ready = u.ready /\ t.records = u.records /\ t.applied = b
  BY <1>3 DEF Reducer!State
<1> QED
  BY <1>2, <1>4, <1>5 DEF Becomes, Moves

\* The acceptance of the participants keeps the invariant.
LEMMA AcceptKeeps ==
    ASSUME Reducer!Configured, NEW s \in Reducer!State, ReducerInv(s), NEW e \in Reducer!Event,
           e.type = "participants_accepted", s.status = "awaiting_acceptance", NEW t \in Reducer!State,
           Moves(s, e, t, "active", s.turns, s.version, s.round, s.pending, s.proposer, s.acks,
                 First, s.ready, s.records)
    PROVE  ReducerInv(t)
<1>1. s = Reducer!CreateMissionCoordinatorState
  BY DEF ReducerInv, Budgeted
<1>2. /\ s.turns = 0 /\ s.version = BaseVersion /\ s.pending = 0 /\ s.acks = {} /\ s.ready = <<>>
      /\ s.records = {} /\ s.applied = <<>>
  BY <1>1 DEF Reducer!CreateMissionCoordinatorState
<1>3. /\ t.status = "active" /\ t.turns = 0 /\ t.version = s.version /\ t.pending = 0
      /\ t.acks = {} /\ t.current = First /\ t.ready = <<>> /\ t.records = {}
      /\ t.applied = Append(s.applied, e)
  BY <1>2 DEF Moves
<1>4. Scheduled(t)
  BY <1>3, Roles DEF Scheduled, Reducer!Running
<1>5. Evidence(t) /\ Readied(t)
  BY <1>3, EvidenceEmpty, ReadiedEmpty
<1>6. Agreed(t)
  BY <1>3, AgreedKeeps DEF ReducerInv
<1>7. Alternating(t)
  BY <1>2, <1>3, AlternatingKeeps DEF ReducerInv
<1>8. Budgeted(t)
  <2>1. Credit(t) = 0
    <3>1. Credit(t) = CommandCount * Len(t.ready) /\ Len(t.ready) = 0
      BY <1>3, Credits
    <3> QED
      BY <3>1, Counts
  <2>2. Len(t.applied) = 1
    BY <1>2, <1>3
  <2>3. t.turns * PerTurn = 0
    BY <1>3, Counts
  <2> QED
    BY <1>3, <2>1, <2>2, <2>3 DEF Budgeted, Reducer!Running
<1> QED
  BY <1>4, <1>5, <1>6, <1>7, <1>8 DEF ReducerInv

\* The end that the ledger reports keeps the invariant.
LEMMA TerminalKeeps ==
    ASSUME Reducer!Configured, NEW s \in Reducer!State, ReducerInv(s), NEW e \in Reducer!Event,
           e.type = "mission_terminal", s.status \in Reducer!Running, NEW t \in Reducer!State,
           Moves(s, e, t, e.status, s.turns, s.version, s.round, 0, s.proposer, {}, Reducer!None,
                 <<>>, {})
    PROVE  ReducerInv(t)
<1>1. /\ t.status \in {"failed", "expired"} /\ t.turns = s.turns /\ t.version = s.version
      /\ t.pending = 0 /\ t.current = Reducer!None /\ t.ready = <<>> /\ t.records = {}
      /\ t.applied = Append(s.applied, e)
  BY EventShape DEF Moves
<1>2. Scheduled(t)
  BY <1>1 DEF Scheduled, Reducer!Running
<1>3. Evidence(t) /\ Readied(t)
  BY <1>1, EvidenceEmpty, ReadiedEmpty
<1>4. Agreed(t)
  BY <1>1, AgreedKeeps DEF ReducerInv
<1>5. Alternating(t)
  BY <1>1, AlternatingKeeps DEF ReducerInv
<1>6. Credit(t) = 0
  BY <1>1, Credits DEF Reducer!Running
<1>7. Credit(s) \in Nat
  BY CreditNat DEF ReducerInv
<1>8. Budgeted(t)
  BY <1>1, <1>6, <1>7, OtherPays DEF ReducerInv, Reducer!Running
<1> QED
  BY <1>2, <1>3, <1>4, <1>5, <1>8 DEF ReducerInv

\* A turn keeps the invariant.
LEMMA TurnKeeps ==
    ASSUME Reducer!Configured, NEW s \in Reducer!State, ReducerInv(s), NEW e \in Reducer!Event,
           e.type = "turn_completed", Reducer!TurnScheduled(s, e), NEW u, TurnOutcome(s, u, e),
           NEW t \in Reducer!State,
           \A st, tu, ve, ro, pe, pr, ac, cu, re, rc :
              Becomes(s, u, st, tu, ve, ro, pe, pr, ac, cu, re, rc) =>
              Moves(s, e, t, st, tu, ve, ro, pe, pr, ac, cu, re, rc)
    PROVE  ReducerInv(t)
<1>0. /\ s.status = "active" /\ s.pending = 0 /\ s.current = e.by /\ e.version = s.version
      /\ e.by \in Reducer!Participants /\ s.records = {} /\ Reducer!OtherParticipant(e.by) # e.by
      /\ Reducer!OtherParticipant(e.by) \in Reducer!Participants /\ Reducer!None \notin Reducer!Participants
      /\ s.turns \in Nat /\ s.version \in Nat /\ s.ready \in Seq(Reducer!Participants)
  BY StateShape, EventShape, Roles DEF Reducer!TurnScheduled, ReducerInv, Scheduled
<1>1. Credit(s) \in Nat
  BY CreditNat
<1>a. s.status \in Reducer!Running
  BY <1>0 DEF Reducer!Running
<1>2. CASE /\ e.kind = "reply" /\ s.turns + 1 < MaxTurns
           /\ Becomes(s, u, "active", s.turns + 1, s.version, s.round, 0, s.proposer, s.acks,
                      Reducer!OtherParticipant(e.by), <<>>, {})
  <2>1. /\ t.status = "active" /\ t.turns = s.turns + 1 /\ t.version = s.version /\ t.pending = 0
        /\ t.current = Reducer!OtherParticipant(e.by) /\ t.ready = <<>> /\ t.records = {}
        /\ t.applied = Append(s.applied, e)
    BY <1>2 DEF Moves
  <2>2. Scheduled(t)
    BY <1>0, <1>2, <2>1 DEF Scheduled, Reducer!Running
  <2>3. Evidence(t) /\ Readied(t)
    BY <2>1, EvidenceEmpty, ReadiedEmpty
  <2>4. Agreed(t)
    BY <1>0, <2>1, AgreedKeeps DEF ReducerInv
  <2>5. Alternating(t)
    BY <1>0, <2>1, AlternatingKeeps DEF ReducerInv
  <2>6. Credit(t) = 0
    <3>1. Credit(t) = CommandCount * Len(t.ready) /\ Len(t.ready) = 0
      BY <2>1, Credits
    <3> QED
      BY <3>1, Counts
  <2>e. Credit(t) \in Nat /\ 2 + Credit(t) <= Credit(s) + PerTurn
    BY <1>1, <2>6, Counts
  <2>7. Budgeted(t)
    BY <1>a, <1>1, <2>1, <2>e, TurnPays DEF ReducerInv
  <2> QED
    BY <2>2, <2>3, <2>4, <2>5, <2>7 DEF ReducerInv
<1>3. CASE /\ e.kind = "propose_contract" /\ s.turns + 1 < MaxTurns
           /\ Becomes(s, u, "active", s.turns + 1, s.version, s.round, s.version + 1, e.by, {},
                      Reducer!None, <<>>, {})
  <2>1. /\ t.status = "active" /\ t.turns = s.turns + 1 /\ t.version = s.version
        /\ t.pending = s.version + 1 /\ t.proposer = e.by /\ t.acks = {} /\ t.current = Reducer!None
        /\ t.ready = <<>> /\ t.records = {} /\ t.applied = Append(s.applied, e)
    BY <1>3 DEF Moves
  <2>a. t.pending # 0
    BY <1>0, <2>1
  <2>2. Scheduled(t)
    BY <1>0, <1>3, <2>1, <2>a DEF Scheduled, Reducer!Running
  <2>3. Evidence(t) /\ Readied(t)
    BY <2>1, EvidenceEmpty, ReadiedEmpty
  <2>4. Agreed(t)
    BY <1>0, <2>1, AgreedKeeps DEF ReducerInv
  <2>5. Alternating(t)
    BY <1>0, <2>1, <2>a, AlternatingKeeps DEF ReducerInv
  <2>6. Credit(t) = 4
    BY <2>1, <2>a, Credits
  <2>e. Credit(t) \in Nat /\ 2 + Credit(t) <= Credit(s) + PerTurn
    BY <1>1, <2>6, Counts
  <2>7. Budgeted(t)
    BY <1>a, <1>1, <2>1, <2>e, TurnPays DEF ReducerInv
  <2> QED
    BY <2>2, <2>3, <2>4, <2>5, <2>7 DEF ReducerInv
<1>4. CASE /\ e.kind = "ready" /\ s.turns + 1 < MaxTurns /\ s.ready = <<>>
           /\ Becomes(s, u, "active", s.turns + 1, s.version, s.round, 0, s.proposer, s.acks,
                      Reducer!OtherParticipant(e.by), <<e.by>>, {})
  <2>1. /\ t.status = "active" /\ t.turns = s.turns + 1 /\ t.version = s.version /\ t.pending = 0
        /\ t.current = Reducer!OtherParticipant(e.by) /\ t.ready = <<e.by>> /\ t.records = {}
        /\ t.applied = Append(s.applied, e)
    BY <1>4 DEF Moves
  <2>a. Len(t.ready) = 1 /\ DOMAIN t.ready = {1} /\ t.ready[1] = e.by
    BY <2>1
  <2>2. Scheduled(t)
    BY <1>0, <1>4, <2>1, <2>a DEF Scheduled, Reducer!Running
  <2>3. Evidence(t)
    BY <2>1, EvidenceEmpty
  <2>b. Readied(t)
    <3>1. t.ready = Append(s.ready, e.by)
      BY <1>4, <2>1
    <3> QED
      BY <1>0, <1>4, <2>1, <3>1, ReadiedKeeps DEF ReducerInv
  <2>4. Agreed(t)
    BY <1>0, <2>1, AgreedKeeps DEF ReducerInv
  <2>5. Alternating(t)
    BY <1>0, <2>1, AlternatingKeeps DEF ReducerInv
  <2>6. Credit(t) = CommandCount
    <3>1. Credit(t) = CommandCount * Len(t.ready)
      BY <2>1, Credits
    <3> QED
      BY <2>a, <3>1, Counts
  <2>e. Credit(t) \in Nat /\ 2 + Credit(t) <= Credit(s) + PerTurn
    BY <1>1, <2>6, Counts
  <2>7. Budgeted(t)
    BY <1>a, <1>1, <2>1, <2>e, TurnPays DEF ReducerInv
  <2> QED
    BY <2>2, <2>3, <2>b, <2>4, <2>5, <2>7 DEF ReducerInv
<1>5. CASE /\ e.kind = "ready" /\ Len(s.ready) = 1 /\ s.ready[1] = Reducer!OtherParticipant(e.by)
           /\ Becomes(s, u, "verifying", s.turns + 1, s.version, s.round + 1, 0, s.proposer,
                      s.acks, Reducer!None, Append(s.ready, e.by), {})
  <2>1. /\ t.status = "verifying" /\ t.turns = s.turns + 1 /\ t.version = s.version
        /\ t.pending = 0 /\ t.current = Reducer!None /\ t.ready = Append(s.ready, e.by) /\ t.records = {}
        /\ t.applied = Append(s.applied, e)
    <3>1. Moves(s, e, t, "verifying", s.turns + 1, s.version, s.round + 1, 0, s.proposer,
                s.acks, Reducer!None, Append(s.ready, e.by), {})
      BY <1>5, Zenon
    <3> QED
      BY <3>1 DEF Moves
  <2>a. Reducer!AllParticipants(t.ready)
    <3>1. /\ t.ready[1] = s.ready[1] /\ t.ready[2] = e.by /\ DOMAIN t.ready = {1, 2}
          /\ Len(t.ready) = 2
      BY <1>0, <1>5, <2>1
    <3>2. {t.ready[i] : i \in DOMAIN t.ready} = {s.ready[1], e.by}
      BY <3>1
    <3>3. Reducer!Participants = {s.ready[1], e.by}
      BY <1>0, <1>5, Roles
    <3> QED
      BY <3>1, <3>2, <3>3 DEF Reducer!AllParticipants
  <2>2. Scheduled(t)
    <3>1. ~Reducer!AllParticipantCommandsRecorded({}, First)
      BY Roles DEF Reducer!Configured, Reducer!AllParticipantCommandsRecorded, Reducer!RecordsOf
    <3> QED
      BY <2>1, <2>a, <3>1, Roles DEF Scheduled, Reducer!Running
  <2>3. Evidence(t)
    BY <2>1, EvidenceEmpty
  <2>b. Readied(t)
    BY <1>0, <1>5, <2>1, ReadiedKeeps DEF ReducerInv
  <2>4. Agreed(t)
    BY <1>0, <2>1, AgreedKeeps DEF ReducerInv
  <2>5. Alternating(t)
    BY <1>0, <2>1, AlternatingKeeps DEF ReducerInv
  <2>6. Credit(t) = 2 * CommandCount
    BY <2>1, Credits, MissingAll
  <2>c. Credit(s) = CommandCount
    <3>1. Credit(s) = CommandCount * Len(s.ready)
      BY <1>0, Credits
    <3> QED
      BY <1>5, <3>1, Counts
  <2>d. 2 + 2 * CommandCount <= CommandCount + PerTurn /\ 2 * CommandCount \in Nat
    BY Counts
  <2>7. Budgeted(t)
    BY <1>a, <1>1, <2>1, <2>6, <2>c, <2>d, TurnPays DEF ReducerInv
  <2> QED
    BY <2>2, <2>3, <2>b, <2>4, <2>5, <2>7 DEF ReducerInv
<1>6. ASSUME NEW p \in Reducer!Participants,
             Becomes(s, u, "failed", s.turns + 1, s.version, s.round, 0, p, {}, Reducer!None, <<>>, {})
      PROVE  ReducerInv(t)
  <2>1. /\ t.status = "failed" /\ t.turns = s.turns + 1 /\ t.version = s.version
        /\ t.pending = 0 /\ t.current = Reducer!None /\ t.ready = <<>> /\ t.records = {}
        /\ t.applied = Append(s.applied, e)
    BY <1>6 DEF Moves
  <2>2. Scheduled(t)
    BY <2>1 DEF Scheduled, Reducer!Running
  <2>3. Evidence(t) /\ Readied(t)
    BY <2>1, EvidenceEmpty, ReadiedEmpty
  <2>4. Agreed(t)
    BY <1>0, <2>1, AgreedKeeps DEF ReducerInv
  <2>5. Alternating(t)
    BY <1>0, <2>1, AlternatingKeeps DEF ReducerInv
  <2>6. Credit(t) = 0
    BY <2>1, Credits DEF Reducer!Running
  <2>e. Credit(t) \in Nat /\ 2 + Credit(t) <= Credit(s) + PerTurn
    BY <1>1, <2>6, Counts
  <2>7. Budgeted(t)
    BY <1>a, <1>1, <2>1, <2>e, TurnPays DEF ReducerInv
  <2> QED
    BY <2>2, <2>3, <2>4, <2>5, <2>7 DEF ReducerInv
<1> QED
  BY <1>2, <1>3, <1>4, <1>5, <1>6 DEF TurnOutcome

\* An acknowledgement keeps the invariant.
LEMMA AckKeeps ==
    ASSUME Reducer!Configured, NEW s \in Reducer!State, ReducerInv(s), NEW e \in Reducer!Event,
           e.type = "contract_acknowledged", Reducer!AcknowledgementDue(s, e), NEW t \in Reducer!State,
           \/ /\ s.acks = {} /\ s.acks \cup {e.by} # Reducer!Participants
              /\ Moves(s, e, t, "active", s.turns, s.version, s.round, s.pending, s.proposer,
                       {e.by}, Reducer!None, s.ready, {})
           \/ /\ s.acks \cup {e.by} = Reducer!Participants /\ s.acks # {}
              /\ Moves(s, e, t, "active", s.turns, s.pending, s.round, 0, s.proposer, {},
                       Reducer!OtherParticipant(s.proposer), <<>>, {})
    PROVE  ReducerInv(t)
<1>0. /\ s.status = "active" /\ s.pending # 0 /\ s.current = Reducer!None /\ e.version = s.pending
      /\ e.by \in Reducer!Participants /\ s.turns < MaxTurns /\ s.proposer \in Reducer!Participants
      /\ Reducer!OtherParticipant(s.proposer) # s.proposer /\ Reducer!OtherParticipant(s.proposer) \in Reducer!Participants
      /\ Reducer!None \notin Reducer!Participants /\ s.ready \in Seq(Reducer!Participants)
      /\ \A i \in DOMAIN s.ready : s.current = Reducer!OtherParticipant(s.ready[i])
  BY StateShape, EventShape, Roles DEF Reducer!AcknowledgementDue, ReducerInv, Scheduled
<1>1. Credit(s) \in Nat /\ s.status \in Reducer!Running
  BY <1>0, CreditNat DEF Reducer!Running
<1>2. s.ready = <<>>
  <2>1. \A i \in DOMAIN s.ready : FALSE
    <3>1. \A i \in DOMAIN s.ready : s.ready[i] \in Reducer!Participants
      BY <1>0
    <3> QED
      BY <1>0, <3>1, Roles
  <2> QED
    BY <1>0, <2>1
<1>3. CASE /\ s.acks = {} /\ s.acks \cup {e.by} # Reducer!Participants
           /\ Moves(s, e, t, "active", s.turns, s.version, s.round, s.pending, s.proposer,
                    {e.by}, Reducer!None, s.ready, {})
  <2>1. /\ t.status = "active" /\ t.turns = s.turns /\ t.version = s.version
        /\ t.pending = s.pending /\ t.proposer = s.proposer /\ t.acks = {e.by} /\ t.current = Reducer!None
        /\ t.ready = <<>> /\ t.records = {} /\ t.applied = Append(s.applied, e)
    BY <1>2, <1>3 DEF Moves
  <2>2. Scheduled(t)
    BY <1>0, <1>3, <2>1 DEF Scheduled, Reducer!Running
  <2>3. Evidence(t) /\ Readied(t)
    BY <2>1, EvidenceEmpty, ReadiedEmpty
  <2>4. Agreed(t)
    <3>1. t.acks = s.acks \cup {e.by}
      BY <1>3, <2>1
    <3> QED
      BY <1>0, <2>1, <3>1, AgreedKeeps DEF ReducerInv
  <2>5. Alternating(t)
    BY <1>0, <2>1, AlternatingKeeps DEF ReducerInv
  <2>6. Credit(t) = 2 /\ Credit(s) = 4
    BY <1>0, <1>3, <2>1, Credits
  <2>e. /\ Credit(t) \in Nat /\ 2 + Credit(t) <= Credit(s) /\ t.status \in Reducer!Running
        /\ t.status # "awaiting_acceptance"
    BY <2>1, <2>6 DEF Reducer!Running
  <2>7. Budgeted(t)
    BY <1>1, <2>1, <2>e, OtherPays DEF ReducerInv
  <2> QED
    BY <2>2, <2>3, <2>4, <2>5, <2>7 DEF ReducerInv
<1>4. CASE /\ s.acks \cup {e.by} = Reducer!Participants /\ s.acks # {}
           /\ Moves(s, e, t, "active", s.turns, s.pending, s.round, 0, s.proposer, {},
                    Reducer!OtherParticipant(s.proposer), <<>>, {})
  <2>1. /\ t.status = "active" /\ t.turns = s.turns /\ t.version = s.pending
        /\ t.pending = 0 /\ t.acks = {} /\ t.current = Reducer!OtherParticipant(s.proposer)
        /\ t.ready = <<>> /\ t.records = {} /\ t.applied = Append(s.applied, e)
    BY <1>4 DEF Moves
  <2>2. Scheduled(t)
    BY <1>0, <2>1 DEF Scheduled, Reducer!Running
  <2>3. Evidence(t) /\ Readied(t)
    BY <2>1, EvidenceEmpty, ReadiedEmpty
  <2>4. Agreed(t)
    BY <1>0, <1>4, <2>1, AgreedKeeps DEF ReducerInv
  <2>5. Alternating(t)
    BY <1>0, <2>1, AlternatingKeeps DEF ReducerInv
  <2>6. Credit(t) = 0 /\ Credit(s) = 2
    <3>1. Credit(t) = CommandCount * Len(t.ready) /\ Len(t.ready) = 0
      BY <2>1, Credits
    <3>2. Credit(s) = 2
      BY <1>0, <1>4, Credits
    <3> QED
      BY <3>1, <3>2, Counts
  <2>e. /\ Credit(t) \in Nat /\ 2 + Credit(t) <= Credit(s) /\ t.status \in Reducer!Running
        /\ t.status # "awaiting_acceptance"
    BY <2>1, <2>6 DEF Reducer!Running
  <2>7. Budgeted(t)
    BY <1>1, <2>1, <2>e, OtherPays DEF ReducerInv
  <2> QED
    BY <2>2, <2>3, <2>4, <2>5, <2>7 DEF ReducerInv
<1> QED
  BY <1>3, <1>4

\* A command still missing is paid for.
LEMMA VerificationCredit ==
    ASSUME Reducer!Configured, NEW s \in Reducer!State, NEW e \in Reducer!Event, e.type = "verification_recorded",
           Reducer!VerificationDue(s, e)
    PROVE  2 <= Credit(s)
<1> DEFINE t == [records |-> s.records \cup {RecordOf(e)}]
           a == Cardinality(Missing(s, First)) + Cardinality(Missing(s, Second))
           b == Cardinality(Missing(t, First)) + Cardinality(Missing(t, Second))
<1>1. t.records = s.records \cup {RecordOf(e)}
  OBVIOUS
<1> HIDE DEF t
<1>2. b + 1 = a
  BY <1>1, MissingLess, EventShape DEF Reducer!VerificationDue
<1>3. /\ Cardinality(Missing(t, First)) \in Nat /\ Cardinality(Missing(t, Second)) \in Nat
  BY MissingFinite, Roles
<1>4. b \in Nat
  BY <1>3
<1>5. Credit(s) = 2 * a
  BY Credits DEF Reducer!VerificationDue
<1> HIDE DEF a, b
<1> QED
  BY <1>2, <1>4, <1>5

\* A piece of evidence keeps the invariant.
LEMMA VerificationKeeps ==
    ASSUME Reducer!Configured, NEW s \in Reducer!State, ReducerInv(s), NEW e \in Reducer!Event,
           e.type = "verification_recorded", Reducer!VerificationDue(s, e), NEW t \in Reducer!State,
           NEW records, records = s.records \cup {RecordOf(e)},
           NEW failed, failed = (/\ Reducer!AllParticipantCommandsRecorded(records, e.by)
                                 /\ \E r \in Reducer!RecordsOf(records, e.by) : r.outcome = "failed"),
           \/ \E status \in {"active", "failed"} :
                 /\ status = "active" => s.turns < MaxTurns
                 /\ Moves(s, e, t, status, s.turns, s.version, s.round, 0, s.proposer, {},
                          IF status = "active" THEN e.by ELSE Reducer!None, <<>>, {})
                 /\ failed
           \/ /\ ~failed
              /\ Moves(s, e, t, IF Reducer!AllRequiredCommandsPassed(s, records) THEN "completed"
                                ELSE "verifying",
                       s.turns, s.version, s.round, 0, s.proposer, s.acks, Reducer!None, s.ready, records)
    PROVE  ReducerInv(t)
<1>0. /\ s.status = "verifying" /\ e.version = s.version /\ e.round = s.round
      /\ e.by \in Reducer!Participants /\ e.command \in Commands[e.by] /\ Reducer!None \notin Reducer!Participants
      /\ \A r \in Reducer!RecordsOf(s.records, e.by) : r.command # e.command
      /\ RecordOf(e) \in Reducer!VerificationRecord /\ s.records \in SUBSET Reducer!VerificationRecord
      /\ e.outcome \in {"passed", "failed"}
  BY StateShape, EventShape, Roles DEF Reducer!VerificationDue, RecordOf, Reducer!VerificationRecord
<1>1. Credit(s) \in Nat /\ s.status \in Reducer!Running /\ 2 <= Credit(s)
  BY <1>0, CreditNat, VerificationCredit DEF Reducer!Running
<1>2. ASSUME failed, NEW status \in {"active", "failed"}, status = "active" => s.turns < MaxTurns,
             Moves(s, e, t, status, s.turns, s.version, s.round, 0, s.proposer, {},
                   IF status = "active" THEN e.by ELSE Reducer!None, <<>>, {})
      PROVE  ReducerInv(t)
  <2>1. /\ t.status = status /\ t.turns = s.turns /\ t.version = s.version /\ t.pending = 0
        /\ t.current = (IF status = "active" THEN e.by ELSE Reducer!None) /\ t.ready = <<>>
        /\ t.records = {} /\ t.applied = Append(s.applied, e)
    BY <1>2 DEF Moves
  <2>2. Scheduled(t)
    BY <1>0, <1>2, <2>1 DEF Scheduled, Reducer!Running
  <2>3. Evidence(t) /\ Readied(t)
    BY <2>1, EvidenceEmpty, ReadiedEmpty
  <2>4. Agreed(t)
    BY <1>0, <2>1, AgreedKeeps DEF ReducerInv
  <2>6. Credit(t) = 0
    <3>1. CASE status = "active"
      <4>1. Credit(t) = CommandCount * Len(t.ready) /\ Len(t.ready) = 0
        BY <2>1, <3>1, Credits
      <4> QED
        BY <4>1, Counts
    <3>2. CASE status = "failed"
      BY <2>1, <3>2, Credits DEF Reducer!Running
    <3> QED
      BY <1>2, <3>1, <3>2
  <2>7. Budgeted(t)
    <3>1. t.status # "awaiting_acceptance"
      BY <1>2, <2>1
    <3> QED
      BY <1>1, <2>1, <2>6, <3>1, OtherPays DEF ReducerInv
  <2>5. Alternating(t)
    <3>1. t.status = "active" => \E k \in 1..Len(t.applied) :
              /\ Failure(t.applied, k) /\ t.applied[k].by = t.current
              /\ \A j \in After(t.applied, k) : ~Turn(t.applied, j)
      <4> SUFFICES ASSUME t.status = "active"
                   PROVE  \E k \in 1..Len(t.applied) :
                             /\ Failure(t.applied, k) /\ t.applied[k].by = t.current
                             /\ \A j \in After(t.applied, k) : ~Turn(t.applied, j)
        OBVIOUS
      <4> DEFINE a == s.applied
                 b == t.applied
                 n == Len(a)
      <4>a. t.current = e.by
        BY <2>1
      <4>b. a \in Seq(Reducer!Event) /\ b = Append(a, e)
        BY <2>1, StateShape
      <4>c. \A r \in s.records : \E k \in 1..Len(a) :
                /\ a[k].type = "verification_recorded"
                /\ a[k].by = r.by /\ a[k].outcome = r.outcome
                /\ \A j \in After(a, k) : ~Turn(a, j)
        BY DEF ReducerInv, Evidence
      <4> HIDE DEF a, b
      <4>d. Extended(a, e, b)
        BY <4>b, LogFacts
      <4>e. /\ n \in Nat /\ b[n + 1] = e /\ n + 1 \in 1..Len(b)
            /\ \A i \in 1..n : b[i] = a[i] /\ i \in 1..Len(b)
            /\ \A i \in 1..n : After(b, i) = After(a, i) \cup {n + 1}
            /\ \A i \in 1..n : After(a, i) \subseteq 1..n
            /\ After(b, n + 1) = {}
        BY <4>d DEF Extended
      <4>1. PICK r \in Reducer!RecordsOf(records, e.by) : r.outcome = "failed"
        BY <1>2
      <4>2. CASE r \in s.records
        <5>1. PICK k \in 1..n :
                /\ a[k].type = "verification_recorded" /\ a[k].by = r.by
                /\ a[k].outcome = r.outcome /\ \A j \in After(a, k) : ~Turn(a, j)
          BY <4>c, <4>2
        <5>2. r.by = e.by
          BY <4>1 DEF Reducer!RecordsOf
        <5> HIDE DEF n
        <5>3. Failure(b, k) /\ b[k].by = e.by /\ k \in 1..Len(b)
          BY <4>1, <4>e, <5>1, <5>2 DEF Failure
        <5>4. \A j \in After(b, k) : ~Turn(b, j)
          BY <4>e, <5>1 DEF Turn
        <5> QED
          BY <4>a, <5>3, <5>4 DEF b
      <4>3. CASE r = RecordOf(e)
        <5>1. e.outcome = "failed"
          BY <4>1, <4>3 DEF RecordOf
        <5> HIDE DEF n
        <5>2. Failure(b, n + 1) /\ b[n + 1].by = e.by /\ n + 1 \in 1..Len(b)
          BY <4>e, <5>1 DEF Failure
        <5>3. \A j \in After(b, n + 1) : ~Turn(b, j)
          BY <4>e
        <5> QED
          BY <4>a, <5>2, <5>3 DEF b
      <4> QED
        BY <4>1, <4>2, <4>3 DEF Reducer!RecordsOf
    <3> QED
      BY <2>1, <3>1, AlternatingKeeps DEF ReducerInv
  <2> QED
    BY <2>2, <2>3, <2>4, <2>5, <2>7 DEF ReducerInv
<1>3. ASSUME ~failed, NEW status, status = IF Reducer!AllRequiredCommandsPassed(s, records) THEN "completed"
                                           ELSE "verifying",
             Moves(s, e, t, status, s.turns, s.version, s.round, 0, s.proposer, s.acks, Reducer!None,
                   s.ready, records)
      PROVE  ReducerInv(t)
  <2>1. /\ t.status = status /\ t.turns = s.turns /\ t.version = s.version /\ t.round = s.round
        /\ t.pending = 0 /\ t.current = Reducer!None /\ t.ready = s.ready
        /\ t.records = records /\ t.applied = Append(s.applied, e)
    BY <1>3 DEF Moves
  <2>2. Evidence(t)
    BY <1>3, <2>1, EvidenceAdded DEF ReducerInv
  <2>3. Readied(t)
    BY <2>1, ReadiedKeeps DEF ReducerInv
  <2>4. Agreed(t)
    BY <1>0, <2>1, AgreedKeeps DEF ReducerInv
  <2>5. Alternating(t)
    BY <1>3, <2>1, AlternatingKeeps DEF ReducerInv
  <2>6. \A r \in records : r.version = s.version /\ r.round = s.round
    <3>1. \A r \in s.records : r.version = s.version /\ r.round = s.round
      BY <1>0 DEF ReducerInv, Scheduled
    <3>2. RecordOf(e).version = s.version /\ RecordOf(e).round = s.round
      BY <1>0 DEF RecordOf
    <3> QED
      BY <3>1, <3>2
  <2>7. Scheduled(t)
    <3>1. Reducer!AllParticipants(s.ready)
      BY <1>0 DEF ReducerInv, Scheduled
    <3>2. t.status = "verifying" => \E p \in Reducer!Participants : ~Reducer!AllParticipantCommandsRecorded(records, p)
      <4> SUFFICES ASSUME t.status = "verifying",
                          \A p \in Reducer!Participants : Reducer!AllParticipantCommandsRecorded(records, p)
                   PROVE  FALSE
        OBVIOUS
      <4>1. \A p \in Reducer!Participants : \A r \in Reducer!RecordsOf(records, p) : r.outcome = "passed"
        BY <2>1, <2>2 DEF Evidence
      <4>2. records \subseteq Reducer!VerificationRecord
        BY <1>0
      <4>3. Reducer!AllRequiredCommandsPassed(s, records)
        BY <2>6, <4>1, <4>2, AllPassed
      <4> QED
        BY <1>3, <2>1, <4>3
    <3> QED
      BY <1>3, <2>1, <2>6, <3>1, <3>2 DEF Scheduled, Reducer!Running
  <2>8. Budgeted(t)
    <3>1. t.status # "awaiting_acceptance" /\ (t.status \in Reducer!Running => t.status = "verifying")
      BY <1>3, <2>1 DEF Reducer!Running
    <3>2. CASE t.status \in Reducer!Running
      <4> DEFINE a == Cardinality(Missing(s, First)) + Cardinality(Missing(s, Second))
                 b == Cardinality(Missing(t, First)) + Cardinality(Missing(t, Second))
      <4>1. b + 1 = a
        BY <1>0, <2>1, MissingLess
      <4>2. /\ Cardinality(Missing(t, First)) \in Nat /\ Cardinality(Missing(t, Second)) \in Nat
        BY MissingFinite, Roles
      <4>3. b \in Nat
        BY <4>2
      <4>4. Credit(s) = 2 * a /\ Credit(t) = 2 * b
        BY <1>0, <3>1, <3>2, Credits
      <4> HIDE DEF a, b
      <4>5. Credit(t) \in Nat /\ 2 + Credit(t) <= Credit(s)
        BY <4>1, <4>3, <4>4
      <4> QED
        BY <1>1, <2>1, <3>1, <3>2, <4>5, OtherPays DEF ReducerInv
    <3>3. CASE t.status \notin Reducer!Running
      <4>1. Credit(t) = 0
        BY <3>3, Credits
      <4> QED
        BY <1>1, <2>1, <3>1, <3>3, <4>1, OtherPays DEF ReducerInv
    <3> QED
      BY <3>2, <3>3
  <2> QED
    BY <2>2, <2>3, <2>4, <2>5, <2>7, <2>8 DEF ReducerInv
<1> QED
  BY <1>2, <1>3

\* The reducer keeps its invariant under every event that it takes.
LEMMA ReduceKeeps ==
    ASSUME Reducer!Configured, NEW s, ReducerInv(s), NEW e \in Reducer!Event, Reducer!Accepts(s, e)
    PROVE  ReducerInv(Reducer!Reduce(s, e))
<1> DEFINE u == Reducer!Apply(s, e)
           t == Reducer!Reduce(s, e)
<1>0. s \in Reducer!State /\ Scheduled(s)
  BY DEF ReducerInv
<1>1. t = [u EXCEPT !.applied = Append(s.applied, e)]
  BY DEF Reducer!Reduce
<1> HIDE DEF u, t
<1>2. ASSUME u \in Reducer!State
      PROVE  /\ t \in Reducer!State
             /\ \A st, tu, ve, ro, pe, pr, ac, cu, re, rc :
                   Becomes(s, u, st, tu, ve, ro, pe, pr, ac, cu, re, rc) =>
                   Moves(s, e, t, st, tu, ve, ro, pe, pr, ac, cu, re, rc)
  BY <1>0, <1>1, <1>2, Logged
<1>3. CASE e.type = "participants_accepted"
  <2>1. u = Reducer!ApplyParticipantsAccepted(s) /\ s.status = "awaiting_acceptance"
    BY <1>3 DEF Reducer!Apply, Reducer!Accepts, u
  <2>2. /\ u \in Reducer!State
        /\ Becomes(s, u, "active", s.turns, s.version, s.round, s.pending, s.proposer, s.acks,
                   First, s.ready, s.records)
    BY <1>0, <2>1, AcceptedShape
  <2> QED
    BY <1>0, <1>2, <1>3, <2>1, <2>2, AcceptKeeps DEF t
<1>4. CASE e.type = "turn_completed"
  <2>1. u = Reducer!ApplyTurnCompleted(s, e) /\ Reducer!TurnScheduled(s, e)
    BY <1>4 DEF Reducer!Apply, Reducer!Accepts, u
  <2>2. u \in Reducer!State /\ TurnOutcome(s, u, e)
    BY <1>0, <1>4, <2>1, TurnShape
  <2> QED
    BY <1>0, <1>2, <1>4, <2>1, <2>2, TurnKeeps DEF t
<1>5. CASE e.type = "contract_acknowledged"
  <2>1. u = Reducer!ApplyContractAcknowledged(s, e) /\ Reducer!AcknowledgementDue(s, e)
    BY <1>5 DEF Reducer!Apply, Reducer!Accepts, u
  <2>2. /\ u \in Reducer!State
        /\ \/ /\ s.acks = {} /\ s.acks \cup {e.by} # Reducer!Participants
              /\ Becomes(s, u, "active", s.turns, s.version, s.round, s.pending, s.proposer,
                         {e.by}, Reducer!None, s.ready, {})
           \/ /\ s.acks \cup {e.by} = Reducer!Participants /\ s.acks # {}
              /\ Becomes(s, u, "active", s.turns, s.pending, s.round, 0, s.proposer, {},
                         Reducer!OtherParticipant(s.proposer), <<>>, {})
    BY <1>0, <1>5, <2>1, AckShape
  <2> QED
    BY <1>0, <1>2, <1>5, <2>1, <2>2, AckKeeps DEF t
<1>6. CASE e.type = "verification_recorded"
  <2>1. u = Reducer!ApplyVerificationRecorded(s, e) /\ Reducer!VerificationDue(s, e)
    BY <1>6 DEF Reducer!Apply, Reducer!Accepts, u
  <2> DEFINE records == s.records \cup {RecordOf(e)}
             failed == /\ Reducer!AllParticipantCommandsRecorded(records, e.by)
                       /\ \E r \in Reducer!RecordsOf(records, e.by) : r.outcome = "failed"
  <2>2. /\ u \in Reducer!State
        /\ \/ /\ failed
              /\ \E status \in {"active", "failed"} :
                    /\ status = "active" => s.turns < MaxTurns
                    /\ Becomes(s, u, status, s.turns, s.version, s.round, 0, s.proposer, {},
                               IF status = "active" THEN e.by ELSE Reducer!None, <<>>, {})
           \/ /\ ~failed
              /\ Becomes(s, u, IF Reducer!AllRequiredCommandsPassed(s, records) THEN "completed"
                               ELSE "verifying",
                         s.turns, s.version, s.round, 0, s.proposer, s.acks, Reducer!None, s.ready,
                         records)
    BY <1>0, <1>6, <2>1, VerificationShape
  <2> HIDE DEF records, failed
  <2>3. t \in Reducer!State
    BY <1>2, <2>2
  <2>4. \/ \E status \in {"active", "failed"} :
              /\ status = "active" => s.turns < MaxTurns
              /\ Moves(s, e, t, status, s.turns, s.version, s.round, 0, s.proposer, {},
                       IF status = "active" THEN e.by ELSE Reducer!None, <<>>, {})
              /\ failed
        \/ /\ ~failed
           /\ Moves(s, e, t, IF Reducer!AllRequiredCommandsPassed(s, records) THEN "completed"
                             ELSE "verifying",
                    s.turns, s.version, s.round, 0, s.proposer, s.acks, Reducer!None, s.ready, records)
    BY <1>2, <2>2
  <2>5. /\ records = s.records \cup {RecordOf(e)}
        /\ failed = (/\ Reducer!AllParticipantCommandsRecorded(records, e.by)
                     /\ \E r \in Reducer!RecordsOf(records, e.by) : r.outcome = "failed")
    BY DEF records, failed
  <2> QED
    BY <1>0, <1>6, <2>1, <2>3, <2>4, <2>5, VerificationKeeps DEF t
<1>7. CASE e.type = "mission_terminal"
  <2>1. u = Reducer!ApplyMissionTerminal(s, e) /\ s.status \in Reducer!Running
    BY <1>7 DEF Reducer!Apply, Reducer!Accepts, u
  <2>2. /\ u \in Reducer!State
        /\ Becomes(s, u, e.status, s.turns, s.version, s.round, 0, s.proposer, {}, Reducer!None, <<>>, {})
    BY <1>0, <1>7, <2>1, TerminalShape, EventShape
  <2> QED
    BY <1>0, <1>2, <1>7, <2>1, <2>2, TerminalKeeps DEF t
<1> QED
  BY <1>3, <1>4, <1>5, <1>6, <1>7, EventShape DEF t

\* A new Mission satisfies the invariant.
LEMMA CreateOK ==
    ASSUME Reducer!Configured
    PROVE  ReducerInv(Reducer!CreateMissionCoordinatorState)
<1> DEFINE s == Reducer!CreateMissionCoordinatorState
<1>1. /\ s.status = "awaiting_acceptance" /\ s.turns = 0 /\ s.version = BaseVersion
      /\ s.pending = 0 /\ s.current = Reducer!None /\ s.ready = <<>> /\ s.records = {}
      /\ s.applied = <<>>
  BY DEF Reducer!CreateMissionCoordinatorState
<1>2. s \in Reducer!State
  <2>1. /\ "awaiting_acceptance" \in Reducer!MissionStatus /\ 0 \in 0..MaxTurns /\ BaseVersion \in Nat
        /\ 0 \in Nat /\ First \in Reducer!Participants /\ <<>> \in Seq(Reducer!Participants) /\ <<>> \in Seq(Reducer!Event)
    BY Roles DEF Reducer!MissionStatus
  <2> QED
    BY <2>1 DEF Reducer!State, Reducer!CreateMissionCoordinatorState
<1> HIDE DEF s
<1>3. Scheduled(s)
  BY <1>1 DEF Scheduled, Reducer!Running
<1>4. Evidence(s) /\ Readied(s)
  BY <1>1, EvidenceEmpty, ReadiedEmpty
<1>5. Agreed(s)
  BY <1>1 DEF Agreed
<1>6. Alternating(s)
  BY <1>1 DEF Alternating
<1>7. Credit(s) = 0 /\ Len(s.applied) = 0 /\ s.turns * PerTurn = 0
  BY <1>1, Credits, Counts DEF Reducer!Running
<1>8. Budgeted(s)
  BY <1>1, <1>7 DEF Budgeted, Reducer!Running, s
<1> QED
  BY <1>2, <1>3, <1>4, <1>5, <1>6, <1>8 DEF ReducerInv, s

\* The invariant is strong enough.
LEMMA InvAgrees ==
    ASSUME Reducer!Configured, ReducerInv(coord)
    PROVE  Reducer!Agreement
<1>0. coord \in Reducer!State /\ coord.applied \in Seq(Reducer!Event) /\ DOMAIN coord.applied = 1..Len(coord.applied)
  BY StateShape DEF ReducerInv
<1>1. Reducer!Schedule
  BY DEF ReducerInv, Scheduled, Reducer!Schedule
<1>2. Reducer!UnanimousCompletion
  <2> SUFFICES ASSUME coord.status = "completed"
               PROVE  /\ \A p \in Reducer!Participants : \A c \in Commands[p] :
                            \E i \in DOMAIN coord.applied :
                               /\ Reducer!Is(i, "verification_recorded")
                               /\ coord.applied[i].by = p /\ coord.applied[i].command = c
                               /\ coord.applied[i].version = coord.version
                               /\ coord.applied[i].round = coord.round
                               /\ coord.applied[i].outcome = "passed"
                      /\ \A p \in Reducer!Participants : \E i \in DOMAIN coord.applied :
                            /\ Reducer!IsTurn(i, "ready") /\ coord.applied[i].by = p
                            /\ \A j \in (i + 1)..Len(coord.applied) :
                                  ~(\/ Reducer!IsTurn(j, "reply") \/ Reducer!IsTurn(j, "propose_contract")
                                    \/ Reducer!Is(j, "contract_acknowledged") \/ Reducer!IsFailure(j))
    BY DEF Reducer!UnanimousCompletion
  <2>1. Reducer!AllRequiredCommandsPassed(coord, coord.records) /\ Reducer!AllParticipants(coord.ready)
    BY DEF ReducerInv, Evidence
  <2>2. ASSUME NEW p \in Reducer!Participants, NEW c \in Commands[p]
        PROVE  \E i \in DOMAIN coord.applied :
                  /\ Reducer!Is(i, "verification_recorded")
                  /\ coord.applied[i].by = p /\ coord.applied[i].command = c
                  /\ coord.applied[i].version = coord.version
                  /\ coord.applied[i].round = coord.round
                  /\ coord.applied[i].outcome = "passed"
    <3> DEFINE r == [by |-> p, version |-> coord.version, round |-> coord.round, command |-> c,
                     outcome |-> "passed"]
    <3>1. r \in coord.records
      BY <2>1 DEF Reducer!AllRequiredCommandsPassed
    <3>2. PICK k \in 1..Len(coord.applied) :
                /\ coord.applied[k].type = "verification_recorded"
                /\ coord.applied[k].by = r.by /\ coord.applied[k].command = r.command
                /\ coord.applied[k].version = r.version /\ coord.applied[k].round = r.round
                /\ coord.applied[k].outcome = r.outcome
      BY <3>1 DEF ReducerInv, Evidence
    <3> QED
      BY <1>0, <3>2 DEF Reducer!Is
  <2>3. \A r \in coord.records : r.outcome = "passed"
    <3> TAKE r \in coord.records
    <3>1. r.by \in Reducer!Participants /\ r.command \in Commands[r.by]
      BY <1>0, StateShape DEF Reducer!VerificationRecord, ReducerInv, Evidence
    <3> DEFINE q == [by |-> r.by, version |-> coord.version, round |-> coord.round,
                     command |-> r.command, outcome |-> "passed"]
    <3>2. q \in coord.records
      BY <2>1, <3>1 DEF Reducer!AllRequiredCommandsPassed
    <3>3. q.by = r.by /\ q.command = r.command /\ q.outcome = "passed"
      OBVIOUS
    <3> HIDE DEF q
    <3>4. q = r
      BY <3>2, <3>3 DEF ReducerInv, Evidence
    <3> QED
      BY <3>3, <3>4
  <2>4. ASSUME NEW p \in Reducer!Participants
        PROVE  \E i \in DOMAIN coord.applied :
                  /\ Reducer!IsTurn(i, "ready") /\ coord.applied[i].by = p
                  /\ \A j \in (i + 1)..Len(coord.applied) :
                        ~(\/ Reducer!IsTurn(j, "reply") \/ Reducer!IsTurn(j, "propose_contract")
                          \/ Reducer!Is(j, "contract_acknowledged") \/ Reducer!IsFailure(j))
    <3>1. PICK m \in DOMAIN coord.ready : coord.ready[m] = p
      BY <2>1 DEF Reducer!AllParticipants
    <3>2. PICK i \in 1..Len(coord.applied) :
            /\ TurnOf(coord.applied, i, "ready") /\ coord.applied[i].by = coord.ready[m]
            /\ \A j \in After(coord.applied, i) :
                  /\ ~TurnOf(coord.applied, j, "reply")
                  /\ ~TurnOf(coord.applied, j, "propose_contract")
                  /\ coord.applied[j].type # "contract_acknowledged"
                  /\ Failure(coord.applied, j) => \E r \in coord.records : r.outcome = "failed"
      BY DEF ReducerInv, Readied
    <3>3. ~ \E r \in coord.records : r.outcome = "failed"
      BY <2>3
    <3> QED
      BY <1>0, <3>1, <3>2, <3>3 DEF After, TurnOf, Turn, Failure, Reducer!Is, Reducer!IsTurn, Reducer!IsFailure
  <2> QED
    BY <2>2, <2>4
<1>3. Reducer!AgreedContract
  BY <1>0 DEF ReducerInv, Agreed, Reducer!AgreedContract, Acknowledged, Reducer!Is
<1>4. Reducer!TurnsAlternate
  <2>1. Alternating(coord)
    BY DEF ReducerInv
  <2>2. \A i \in 1..Len(coord.applied) : Turn(coord.applied, i) = Reducer!Is(i, "turn_completed")
    BY DEF Turn, Reducer!Is
  <2>3. \A i : Failure(coord.applied, i) = Reducer!IsFailure(i)
    BY DEF Failure, Reducer!IsFailure, Reducer!Is
  <2> SUFFICES ASSUME NEW i \in 1..Len(coord.applied), NEW j \in 1..Len(coord.applied), i < j,
                      Reducer!Is(i, "turn_completed"), Reducer!Is(j, "turn_completed"),
                      \A k \in (i + 1)..(j - 1) : ~Reducer!Is(k, "turn_completed"),
                      coord.applied[i].by = coord.applied[j].by
               PROVE  \E k \in (i + 1)..(j - 1) :
                         Reducer!IsFailure(k) /\ coord.applied[k].by = coord.applied[j].by
    BY <1>0 DEF Reducer!TurnsAlternate
  <2>4. \A k \in (i + 1)..(j - 1) : ~Turn(coord.applied, k)
    BY DEF Turn, Reducer!Is
  <2>5. \E k \in (i + 1)..(j - 1) :
            Failure(coord.applied, k) /\ coord.applied[k].by = coord.applied[j].by
    BY <2>1, <2>2, <2>4 DEF Alternating
  <2> QED
    BY <2>3, <2>5
<1>5. Reducer!EventBudget
  <2>1. PICK n \in Nat : n = Len(coord.applied)
    BY <1>0
  <2>2. PICK k \in Nat : k = coord.turns
    BY <1>0, StateShape
  <2>3. PICK d \in Nat : MaxTurns = k + d
    <3>1. k <= MaxTurns /\ MaxTurns \in Nat
      BY <1>0, <2>2, StateShape, Roles
    <3>2. MaxTurns - k \in Nat /\ MaxTurns = k + (MaxTurns - k)
      BY <3>1
    <3> QED
      BY <3>2
  <2>4. PICK c \in Nat : c = PerTurn
    BY Counts
  <2>5. Credit(coord) \in Nat
    BY <1>0, CreditNat
  <2>6. 2 * n + Credit(coord) <= 4 + k * c
    <3>1. 2 * n + Credit(coord) <= (IF coord.status \in Reducer!Running THEN 2 ELSE 4) + k * c
      BY <2>1, <2>2, <2>4 DEF ReducerInv, Budgeted
    <3>2. PICK x \in Nat : x = k * c
      OBVIOUS
    <3> QED
      BY <2>5, <3>1, <3>2
  <2>7. MaxTurns * PerTurn = k * c + d * c /\ k * c \in Nat /\ d * c \in Nat
    BY <2>3, <2>4
  <2>8. 2 * n <= 4 + MaxTurns * PerTurn
    <3>1. PICK x \in Nat, y \in Nat : x = k * c /\ y = d * c
      OBVIOUS
    <3> QED
      BY <2>5, <2>6, <2>7, <3>1
  <2> QED
    BY <2>1, <2>8, SameCardinality DEF Reducer!EventBudget, PerTurn, CommandCount
<1> QED
  BY <1>1, <1>2, <1>3, <1>4, <1>5 DEF Reducer!Agreement

-----------------------------------------------------------------------------
(* The Mission ledger: the delivery ledger run by the coordinator *)

\* The delivery ledger of a Mission: its Nodes are those of the two participants
\* and its work is what the coordinator asks for, at most one row for each of
\* them in one transaction.
Composed ==
    /\ Reducer!Configured
    /\ Nodes = Missions!Participants /\ Work = Missions!MissionWork /\ MaxCreated >= 2

\* The Mission ledger's instances are the ledger and the reducer above.
LEMMA SameAuthority ==
    ASSUME Composed
    PROVE  Missions!Ledger!Authorized <=> Authorized
BY DEF Composed, Missions!Ledger!Authorized, Authorized, Missions!Ledger!RoutingAuthority,
       RoutingAuthority

\* What a mutation requires.
LEMMA SameMutable ==
    ASSUME Composed, NEW op, NEW d, NEW key
    PROVE  Missions!Ledger!Mutable(op, d, key) <=> Mutable(op, d, key)
BY SameAuthority, Zenon
   DEF Missions!Ledger!Mutable, Mutable, Missions!Ledger!FreshKey, FreshKey,
       Missions!Ledger!TerminalCause, TerminalCause, Missions!Ledger!UnresolvedDeadLetters,
       UnresolvedDeadLetters, Missions!Ledger!Runnable, Runnable, Missions!Ledger!Running, Running

\* Reconciliation.
LEMMA SameReconcile ==
    ASSUME NEW rs, NEW new
    PROVE  /\ Missions!Ledger!TerminalCause(rs) = TerminalCause(rs)
           /\ Missions!Ledger!Reconcile(rs, new) <=> Reconcile(rs, new)
BY Zenon
   DEF Missions!Ledger!Reconcile, Reconcile, Missions!Ledger!TerminalCause, TerminalCause,
       Missions!Ledger!UnresolvedDeadLetters, UnresolvedDeadLetters,
       Missions!Ledger!CancelOpenRows, CancelOpenRows, Missions!Ledger!OpenRows, OpenRows,
       Missions!Ledger!EndLease, EndLease, Missions!Ledger!CancelReceipts, CancelReceipts,
       Missions!Ledger!ReceiptOf, ReceiptOf, Missions!Ledger!TerminalSource, TerminalSource,
       Missions!Ledger!Live, Live, Missions!Ledger!Held, Held, Missions!Ledger!Running, Running

\* Claims.
LEMMA SameClaim ==
    ASSUME Composed, NEW d, NEW key, Missions!Ledger!ClaimDelivery(d, key)
    PROVE  ClaimDelivery(d, key)
<1>1. CASE Missions!Ledger!ClaimStored(d, key)
  BY <1>1, SameMutable, Zenon
     DEF Missions!Ledger!ClaimStored, ClaimStored, ClaimDelivery, Missions!Ledger!Grant, Grant,
         Missions!Ledger!ClaimReceipt, ClaimReceipt, Missions!Ledger!ReceiptOf, ReceiptOf,
         Missions!Ledger!BoundedLeaseExpiry, BoundedLeaseExpiry, Missions!Ledger!Minimum, Minimum
<1>2. CASE Missions!Ledger!ClaimExpired(d, key)
  BY <1>2, SameMutable, Zenon
     DEF Missions!Ledger!ClaimExpired, ClaimExpired, ClaimDelivery, Missions!Ledger!Grant, Grant,
         Missions!Ledger!ClaimReceipt, ClaimReceipt, Missions!Ledger!ReceiptOf, ReceiptOf,
         Missions!Ledger!BoundedLeaseExpiry, BoundedLeaseExpiry, Missions!Ledger!Minimum, Minimum,
         Missions!Ledger!EndLease, EndLease, Missions!Ledger!LeaseLapsed, LeaseLapsed,
         Missions!Ledger!Held, Held
<1>3. CASE Missions!Ledger!ClaimExhausted(d, key)
  BY <1>3, SameMutable, SameReconcile, Zenon
     DEF Missions!Ledger!ClaimExhausted, ClaimExhausted, ClaimDelivery,
         Missions!Ledger!ReceiptOf, ReceiptOf, Missions!Ledger!EndLease, EndLease,
         Missions!Ledger!LeaseLapsed, LeaseLapsed, Missions!Ledger!Held, Held
<1> QED
  BY <1>1, <1>2, <1>3 DEF Missions!Ledger!ClaimDelivery

\* The other operations of a lease.
LEMMA SameLease ==
    ASSUME Composed, NEW d, NEW t
    PROVE  /\ Missions!Ledger!StartDelivery(d, t) => StartDelivery(d, t)
           /\ \A count : Missions!Ledger!RenewDelivery(d, t, count) => RenewDelivery(d, t, count)
           /\ \A class : Missions!Ledger!ReleaseDelivery(d, t, class) => ReleaseDelivery(d, t, class)
<1>1. Missions!Ledger!StartDelivery(d, t) => StartDelivery(d, t)
  BY SameMutable, Zenon
     DEF Missions!Ledger!StartDelivery, StartDelivery, Missions!Ledger!LeaseAuthority,
         LeaseAuthority, Missions!Ledger!ReceiptOf, ReceiptOf
<1>2. ASSUME NEW count, Missions!Ledger!RenewDelivery(d, t, count)
      PROVE  RenewDelivery(d, t, count)
  BY <1>2, SameMutable, Zenon
     DEF Missions!Ledger!RenewDelivery, RenewDelivery, Missions!Ledger!LeaseAuthority,
         LeaseAuthority, Missions!Ledger!ReceiptOf, ReceiptOf, Missions!Ledger!Held, Held,
         Missions!Ledger!BoundedLeaseExpiry, BoundedLeaseExpiry, Missions!Ledger!Minimum, Minimum
<1>3. ASSUME NEW class, Missions!Ledger!ReleaseDelivery(d, t, class)
      PROVE  ReleaseDelivery(d, t, class)
  BY <1>3, SameMutable, SameReconcile, Zenon
     DEF Missions!Ledger!ReleaseDelivery, ReleaseDelivery, Missions!Ledger!LeaseAuthority,
         LeaseAuthority, Missions!Ledger!ReceiptOf, ReceiptOf, Missions!Ledger!Held, Held,
         Missions!Ledger!EndLease, EndLease, Missions!Ledger!RetryBackoff, RetryBackoff,
         Missions!Ledger!Minimum, Minimum
<1> QED
  BY <1>1, <1>2, <1>3

\* Completions.
LEMMA SameComplete ==
    ASSUME Composed, NEW d, NEW t, NEW out, Missions!Ledger!CompleteDelivery(d, t, out)
    PROVE  CompleteDelivery(d, t, out)
BY SameMutable, Zenon
   DEF Missions!Ledger!CompleteDelivery, CompleteDelivery, Missions!Ledger!LeaseAuthority,
       LeaseAuthority, Missions!Ledger!EndLease, EndLease, Missions!Ledger!CancelReceipts,
       CancelReceipts, Missions!Ledger!ReceiptOf, ReceiptOf, Missions!Ledger!Live, Live,
       Missions!Ledger!Held, Held, Missions!Ledger!Deliveries, Deliveries,
       Missions!Ledger!NewRows, NewRows, Missions!Ledger!NewRow, NewRow

\* The activation.
LEMMA SameActivate ==
    ASSUME Composed, NEW targets, Missions!Ledger!Activate(targets)
    PROVE  Activate(targets)
BY SameAuthority, Zenon
   DEF Missions!Ledger!Activate, Activate, Missions!Ledger!NewRows, NewRows,
       Missions!Ledger!NewRow, NewRow

\* Revocations.
LEMMA SameRevoke ==
    ASSUME NEW n
    PROVE  /\ Missions!Ledger!RevokeNode(n) => RevokeNode(n)
           /\ Missions!Ledger!RevokeWorkspace(n) => RevokeWorkspace(n)
BY Zenon
   DEF Missions!Ledger!RevokeNode, RevokeNode, Missions!Ledger!RevokeWorkspace, RevokeWorkspace,
       Missions!Ledger!Revoke, Revoke, Missions!Ledger!CancelLive, CancelLive,
       Missions!Ledger!CancelReceipts, CancelReceipts, Missions!Ledger!ReceiptOf, ReceiptOf,
       Missions!Ledger!EndLease, EndLease, Missions!Ledger!Live, Live, Missions!Ledger!Held, Held,
       Missions!Ledger!Deliveries, Deliveries

\* The steps without a request, and the initial state.
LEMMA SameRest ==
    ASSUME Composed
    PROVE  /\ Missions!Ledger!ReconcileMission => ReconcileMission
           /\ Missions!Ledger!SetBlock => SetBlock
           /\ Missions!Ledger!Tick => Tick
           /\ Missions!Ledger!Init => Init
<1>1. Missions!Ledger!ReconcileMission => ReconcileMission
  <2>1. Nodes = Missions!Participants
    BY DEF Composed
  <2> QED
    BY <2>1, SameReconcile DEF Missions!Ledger!ReconcileMission, ReconcileMission
<1>2. (Missions!Ledger!SetBlock => SetBlock) /\ (Missions!Ledger!Tick => Tick)
  BY Zenon DEF Missions!Ledger!SetBlock, SetBlock, Missions!Ledger!Tick, Tick
<1>3. Missions!Ledger!Init => Init
  BY DEF Missions!Ledger!Init, Init, Composed
<1> QED
  BY <1>1, <1>2, <1>3

\* The reducer.
LEMMA SameReduce ==
    ASSUME NEW s, NEW e
    PROVE  /\ Missions!Coordinator!Reduce(s, e) = Reducer!Reduce(s, e)
           /\ Missions!Coordinator!Accepts(s, e) <=> Reducer!Accepts(s, e)
<1>1. /\ Missions!Coordinator!Participants = Reducer!Participants
      /\ Missions!Coordinator!None = Reducer!None
      /\ Missions!Coordinator!Running = Reducer!Running
      /\ \A x : Missions!Coordinator!Unscheduled(x) = Reducer!Unscheduled(x)
      /\ \A x, y : Missions!Coordinator!RecordsOf(x, y) = Reducer!RecordsOf(x, y)
  BY Zenon
     DEF Missions!Coordinator!Participants, Reducer!Participants, Missions!Coordinator!None,
         Reducer!None, Missions!Coordinator!Running, Reducer!Running,
         Missions!Coordinator!Unscheduled, Reducer!Unscheduled,
         Missions!Coordinator!RecordsOf, Reducer!RecordsOf
<1>2. Missions!Coordinator!Reduce(s, e) = Reducer!Reduce(s, e)
  BY Zenon
     DEF Missions!Coordinator!Reduce, Reducer!Reduce, Missions!Coordinator!Apply, Reducer!Apply,
         Missions!Coordinator!ApplyParticipantsAccepted, Reducer!ApplyParticipantsAccepted,
         Missions!Coordinator!ApplyTurnCompleted, Reducer!ApplyTurnCompleted,
         Missions!Coordinator!ApplyReply, Reducer!ApplyReply,
         Missions!Coordinator!ApplyContractProposal, Reducer!ApplyContractProposal,
         Missions!Coordinator!ApplyReady, Reducer!ApplyReady,
         Missions!Coordinator!LimitTurns, Reducer!LimitTurns,
         Missions!Coordinator!ApplyContractAcknowledged, Reducer!ApplyContractAcknowledged,
         Missions!Coordinator!ApplyVerificationRecorded, Reducer!ApplyVerificationRecorded,
         Missions!Coordinator!ApplyMissionTerminal, Reducer!ApplyMissionTerminal,
         Missions!Coordinator!VerificationFailed, Reducer!VerificationFailed,
         Missions!Coordinator!Unscheduled, Reducer!Unscheduled,
         Missions!Coordinator!RecordsOf, Reducer!RecordsOf,
         Missions!Coordinator!AllParticipantCommandsRecorded,
         Reducer!AllParticipantCommandsRecorded,
         Missions!Coordinator!AllRequiredCommandsPassed, Reducer!AllRequiredCommandsPassed,
         Missions!Coordinator!AllParticipants, Reducer!AllParticipants,
         Missions!Coordinator!OtherParticipant, Reducer!OtherParticipant,
         Missions!Coordinator!Participants, Reducer!Participants,
         Missions!Coordinator!None, Reducer!None,
         Missions!Coordinator!Cardinality, Reducer!Cardinality
<1>3. Missions!Coordinator!Accepts(s, e) <=> Reducer!Accepts(s, e)
  BY Zenon
     DEF Missions!Coordinator!Accepts, Reducer!Accepts,
         Missions!Coordinator!TurnScheduled, Reducer!TurnScheduled,
         Missions!Coordinator!AcknowledgementDue, Reducer!AcknowledgementDue,
         Missions!Coordinator!VerificationDue, Reducer!VerificationDue,
         Missions!Coordinator!RecordsOf, Reducer!RecordsOf,
         Missions!Coordinator!None, Reducer!None, Missions!Coordinator!Running, Reducer!Running
<1> QED
  BY <1>2, <1>3

-----------------------------------------------------------------------------
(* What a completion computes *)

\* One natural number after the other: what holds of 0 and is kept by + 1 has
\* no least exception.
LEMMA NoException ==
    ASSUME NEW S \in SUBSET Nat, 0 \notin S, \A m \in Nat : m \notin S => m + 1 \notin S
    PROVE  S = {}
<1> SUFFICES ASSUME S # {}
             PROVE  FALSE
  OBVIOUS
<1>1. PICK m \in S : \A n \in S : m <= n
  BY LeastNatural
<1>2. m \in Nat /\ m # 0
  OBVIOUS
<1>3. m - 1 \in Nat /\ (m - 1) + 1 = m /\ ~(m <= m - 1)
  BY <1>2
<1> QED
  BY <1>1, <1>3

\* The recursive function of ReducedStates exists: it is coord at 0 and one
\* more reduction at every step.
LEMMA ReducedExists ==
    ASSUME NEW events, NEW n \in Nat
    PROVE  \E f : f = [i \in 0..n |-> IF i = 0 THEN coord
                                     ELSE Missions!Coordinator!Reduce(f[i - 1], events[i])]
<1> DEFINE R(s, i) == Missions!Coordinator!Reduce(s, events[i])
           Chain(f, m) == f = [i \in 0..m |-> IF i = 0 THEN coord ELSE R(f[i - 1], i)]
           Undefined == {m \in Nat : ~ \E f : Chain(f, m)}
<1>1. 0 \notin Undefined
  <2> DEFINE f == [i \in 0..0 |-> coord]
  <2> HIDE DEF R
  <2>1. [i \in 0..0 |-> IF i = 0 THEN coord ELSE R(f[i - 1], i)] = f
    OBVIOUS
  <2> QED
    BY <2>1
<1>2. ASSUME NEW m \in Nat, m \notin Undefined
      PROVE  m + 1 \notin Undefined
  <2>1. PICK f : Chain(f, m)
    BY <1>2
  <2> DEFINE g == [i \in 0..(m + 1) |-> IF i <= m THEN f[i] ELSE R(f[m], m + 1)]
  <2> HIDE DEF R
  <2>2. ASSUME NEW i \in 0..(m + 1)
        PROVE  g[i] = IF i = 0 THEN coord ELSE R(g[i - 1], i)
    <3>1. CASE i = 0
      BY <2>1, <3>1
    <3>2. CASE i # 0 /\ i <= m
      <4>1. i - 1 \in 0..(m + 1) /\ i - 1 <= m /\ i \in 0..m
        BY <3>2
      <4>2. f[i] = R(f[i - 1], i)
        BY <2>1, <3>2, <4>1
      <4>3. g[i] = f[i] /\ g[i - 1] = f[i - 1]
        BY <3>2, <4>1
      <4> QED
        BY <3>2, <4>2, <4>3
    <3>3. CASE ~(i <= m)
      <4>1. i = m + 1 /\ i - 1 = m /\ m \in 0..(m + 1) /\ m <= m /\ i # 0
        BY <3>3
      <4>2. g[i] = R(f[m], m + 1) /\ g[m] = f[m]
        BY <3>3, <4>1
      <4> QED
        BY <4>1, <4>2
    <3> QED
      BY <3>1, <3>2, <3>3
  <2>3. Chain(g, m + 1)
    <3> DEFINE h == [i \in 0..(m + 1) |-> IF i = 0 THEN coord ELSE R(g[i - 1], i)]
    <3>1. \A i \in 0..(m + 1) : g[i] = h[i]
      BY <2>2
    <3> QED
      BY <3>1
  <2> QED
    BY <2>3
<1>3. Undefined = {}
  <2> HIDE DEF Undefined
  <2>1. Undefined \in SUBSET Nat
    BY DEF Undefined
  <2> QED
    BY <1>1, <1>2, <2>1, NoException
<1> QED
  BY <1>3

\* What ReducedStates holds: the coordinator after each event.
LEMMA Reduced ==
    ASSUME NEW events, NEW n \in Nat, Len(events) = n
    PROVE  LET after == Missions!ReducedStates(events) IN
           /\ after[0] = coord
           /\ \A i \in 1..n : after[i] = Reducer!Reduce(after[i - 1], events[i])
<1> DEFINE after == Missions!ReducedStates(events)
<1>1. after = [i \in 0..n |-> IF i = 0 THEN coord
                             ELSE Missions!Coordinator!Reduce(after[i - 1], events[i])]
  BY ReducedExists, Zenon DEF Missions!ReducedStates
<1> HIDE DEF after
<1>2. 0 \in 0..n
  OBVIOUS
<1>3. after[0] = coord
  BY <1>1, <1>2, Zenon
<1>4. ASSUME NEW i \in 1..n
      PROVE  after[i] = Reducer!Reduce(after[i - 1], events[i])
  <2>1. i \in 0..n /\ i # 0
    OBVIOUS
  <2>2. after[i] = Missions!Coordinator!Reduce(after[i - 1], events[i])
    BY <1>1, <2>1, Zenon
  <2> QED
    BY <2>2, SameReduce
<1> QED
  BY <1>3, <1>4 DEF after

\* Flattening a list whose items are empty but for the last gives the last.
LEMMA Flattened ==
    ASSUME NEW T, NEW ts \in Seq(Seq(T)), NEW n \in Nat, n # 0, Len(ts) = n,
           \A i \in 1..n : i # n => ts[i] = <<>>
    PROVE  Missions!FlattenSeq(ts) = ts[n]
<1> DEFINE f == [i \in 1..n |-> IF i = n THEN ts[n] ELSE <<>>]
           Chain(g) == g = [i \in 1..n |-> IF i = 1 THEN ts[i] ELSE g[i - 1] \o ts[i]]
<1>0. \A i \in 1..n : ts[i] \in Seq(T)
  OBVIOUS
<1>1. Chain(f)
  <2>1. ASSUME NEW i \in 1..n
        PROVE  f[i] = IF i = 1 THEN ts[i] ELSE f[i - 1] \o ts[i]
    <3>1. CASE i = 1
      BY <3>1
    <3>2. CASE i # 1
      <4>1. i - 1 \in 1..n /\ i - 1 # n
        BY <3>2
      <4>2. f[i - 1] = <<>> /\ f[i] = ts[i]
        BY <4>1
      <4>3. <<>> \o ts[i] = ts[i]
        BY <1>0
      <4> QED
        BY <3>2, <4>2, <4>3
    <3> QED
      BY <3>1, <3>2
  <2> DEFINE h == [i \in 1..n |-> IF i = 1 THEN ts[i] ELSE f[i - 1] \o ts[i]]
  <2>2. \A i \in 1..n : f[i] = h[i]
    BY <2>1
  <2> QED
    BY <2>2
<1>2. PICK g : Chain(g) /\ Missions!FlattenSeq(ts) = g[n]
  BY <1>1, Zenon DEF Missions!FlattenSeq
<1> HIDE DEF f
<1>3. g[n] = ts[n]
  <2>1. CASE n = 1
    BY <1>2, <2>1
  <2>2. CASE n # 1
    <3> DEFINE Bad == {m \in Nat : m + 1 < n /\ g[m + 1] # <<>>}
    <3>1. 0 \notin Bad
      BY <1>2, <2>2
    <3>2. ASSUME NEW m \in Nat, m \notin Bad
          PROVE  m + 1 \notin Bad
      <4> SUFFICES ASSUME m + 2 < n
                   PROVE  g[m + 2] = <<>>
        OBVIOUS
      <4>1. g[m + 1] = <<>> /\ m + 2 \in 1..n /\ m + 2 # 1 /\ (m + 2) - 1 = m + 1 /\ m + 2 # n
        BY <3>2
      <4>2. g[m + 2] = g[(m + 2) - 1] \o ts[m + 2]
        BY <1>2, <4>1, Zenon
      <4>3. ts[m + 2] = <<>> /\ <<>> \o <<>> = <<>>
        BY <4>1
      <4> QED
        BY <4>1, <4>2, <4>3
    <3>3. Bad = {}
      <4> HIDE DEF Bad
      <4>1. Bad \in SUBSET Nat
        BY DEF Bad
      <4> QED
        BY <3>1, <3>2, <4>1, NoException
    <3>4. n - 2 \in Nat /\ (n - 2) + 1 < n /\ (n - 2) + 1 = n - 1 /\ n \in 1..n
      BY <2>2
    <3>5. g[n - 1] = <<>>
      BY <3>3, <3>4
    <3>6. g[n] = g[n - 1] \o ts[n]
      BY <1>2, <2>2, <3>4, Zenon
    <3>7. <<>> \o ts[n] = ts[n]
      BY <1>0, <3>4
    <3> QED
      BY <3>5, <3>6, <3>7
  <2> QED
    BY <2>1, <2>2
<1> QED
  BY <1>2, <1>3

\* The commands of a participant can be listed.
LEMMA Listed ==
    ASSUME NEW S, IsFiniteSet(S), S # {}
    PROVE  \E n \in Nat \ {0} : Missions!SetToSeq(S) \in [1..n -> S]
<1>1. Missions!Cardinality(S) = Cardinality(S)
  BY Zenon DEF Missions!Cardinality, Cardinality, Missions!IsFiniteSet, IsFiniteSet
<1>2. Cardinality(S) \in Nat /\ Cardinality(S) # 0 /\ ExistsBijection(1..Cardinality(S), S)
  BY FS_CardinalityType, FS_EmptySet
<1>3. \E f \in [1..Cardinality(S) -> S] : Missions!IsInjective(f)
  <2>1. PICK f : f \in Bijection(1..Cardinality(S), S)
    BY <1>2, Zenon DEF ExistsBijection
  <2>2. f \in [1..Cardinality(S) -> S] /\ IsInjective(f)
    BY <2>1, Zenon DEF Bijection, Injection
  <2> QED
    BY <2>2, Zenon DEF IsInjective, Missions!IsInjective
<1>4. Missions!SetToSeq(S) \in [1..Cardinality(S) -> S]
  BY <1>1, <1>3, Zenon DEF Missions!SetToSeq
<1> QED
  BY <1>2, <1>4

\* The events of a completion are well-formed events about its delivery.
LEMMA EventsOK ==
    ASSUME Composed, RowInv, NEW d \in Deliveries, NEW result \in Missions!Results(d)
    PROVE  LET events == Missions!CompletionEvents(d, result) IN
           /\ events \in Seq(Reducer!Event) /\ events # <<>>
           /\ \A i \in DOMAIN events :
                 /\ events[i].delivery = d
                 /\ events[i].type \in {"turn_completed", "contract_acknowledged",
                                        "verification_recorded"}
<1> DEFINE p == rows[d].node
           w == rows[d].work
           events == Missions!CompletionEvents(d, result)
<1>1. /\ p \in Reducer!Participants /\ d \in Nat
      /\ w.kind \in {"turn", "contract_acknowledgement", "verification"}
      /\ w.version \in Nat /\ w.round \in Nat
  <2>1. rows \in Seq(Row) /\ d \in DOMAIN rows
    BY DEF RowInv, TypeOK, Deliveries
  <2>2. rows[d] \in Row /\ d \in Nat
    BY <2>1
  <2>3. p \in Nodes /\ w \in Work
    BY <2>2 DEF Row
  <2>4. p \in Reducer!Participants /\ w \in Missions!MissionWork
    BY <2>3 DEF Composed, Missions!Participants, Reducer!Participants
  <2> QED
    BY <2>2, <2>4 DEF Missions!MissionWork
<1>2. CASE w.kind = "turn"
  <2> DEFINE e == [type |-> "turn_completed", by |-> p, delivery |-> d, version |-> w.version,
                   kind |-> result]
  <2>1. events = <<e>> /\ result \in Reducer!Disposition
    BY <1>2 DEF Missions!CompletionEvents, Missions!Results, Reducer!Disposition
  <2>2. e \in Reducer!Event /\ e.delivery = d /\ e.type = "turn_completed"
    BY <1>1, <2>1 DEF Reducer!Event
  <2> HIDE DEF events, e
  <2> QED
    BY <2>1, <2>2 DEF events
<1>3. CASE w.kind = "contract_acknowledgement"
  <2> DEFINE e == [type |-> "contract_acknowledged", by |-> p, delivery |-> d,
                   version |-> w.version]
  <2>1. events = <<e>>
    BY <1>3 DEF Missions!CompletionEvents
  <2>2. e \in Reducer!Event /\ e.delivery = d /\ e.type = "contract_acknowledged"
    BY <1>1 DEF Reducer!Event
  <2> HIDE DEF events, e
  <2> QED
    BY <2>1, <2>2 DEF events
<1>4. CASE w.kind = "verification"
  <2> DEFINE order == Missions!SetToSeq(Commands[p])
             e(i) == [type |-> "verification_recorded", by |-> p, delivery |-> d,
                      version |-> w.version, round |-> w.round, command |-> order[i],
                      outcome |-> result[order[i]]]
  <2>1. events = [i \in DOMAIN order |-> e(i)] /\ result \in [Commands[p] -> {"passed", "failed"}]
    BY <1>4 DEF Missions!CompletionEvents, Missions!Results
  <2>2. PICK n \in Nat \ {0} : order \in [1..n -> Commands[p]]
    BY <1>1, Listed, SameFinite DEF Composed, Reducer!Configured
  <2> HIDE DEF order
  <2>3. ASSUME NEW i \in 1..n
        PROVE  e(i) \in Reducer!Event /\ e(i).delivery = d /\ e(i).type = "verification_recorded"
    <3>1. order[i] \in Commands[p]
      BY <2>2
    <3>2. order[i] \in Reducer!AllCommands /\ result[order[i]] \in {"passed", "failed"}
      BY <1>1, <2>1, <3>1 DEF Reducer!AllCommands
    <3> QED
      BY <1>1, <3>2 DEF Reducer!Event
  <2> HIDE DEF events, e
  <2>4. events = [i \in 1..n |-> e(i)]
    BY <2>1, <2>2
  <2>5. events \in [1..n -> Reducer!Event]
    BY <2>3, <2>4
  <2>6. events \in Seq(Reducer!Event) /\ Len(events) = n
    BY <2>5
  <2>7. \A i \in DOMAIN events : i \in 1..n /\ events[i] = e(i)
    BY <2>4
  <2> QED
    BY <2>3, <2>6, <2>7 DEF events
<1> QED
  BY <1>1, <1>2, <1>3, <1>4

\* An event of a completion leaves the Mission running, completed or failed.
LEMMA WorkStatus ==
    ASSUME Reducer!Configured, NEW s, ReducerInv(s), NEW e \in Reducer!Event, Reducer!Accepts(s, e),
           e.type \in {"turn_completed", "contract_acknowledged", "verification_recorded"}
    PROVE  Reducer!Reduce(s, e).status \in {"active", "verifying", "completed", "failed"}
<1> DEFINE u == Reducer!Apply(s, e)
<1>0. s \in Reducer!State /\ Scheduled(s)
  BY DEF ReducerInv
<1>1. u \in Reducer!State /\ u.status \in {"active", "verifying", "completed", "failed"}
  <2>1. CASE e.type = "turn_completed"
    <3>1. u = Reducer!ApplyTurnCompleted(s, e) /\ Reducer!TurnScheduled(s, e)
      BY <2>1 DEF Reducer!Apply, Reducer!Accepts
    <3>2. u \in Reducer!State /\ TurnOutcome(s, u, e)
      BY <1>0, <2>1, <3>1, TurnShape
    <3> HIDE DEF u
    <3> QED
      BY <3>2 DEF TurnOutcome, Becomes
  <2>2. CASE e.type = "contract_acknowledged"
    <3>1. u = Reducer!ApplyContractAcknowledged(s, e) /\ Reducer!AcknowledgementDue(s, e)
      BY <2>2 DEF Reducer!Apply, Reducer!Accepts
    <3> HIDE DEF u
    <3> QED
      BY <1>0, <2>2, <3>1, AckShape DEF Becomes
  <2>3. CASE e.type = "verification_recorded"
    <3>1. u = Reducer!ApplyVerificationRecorded(s, e) /\ Reducer!VerificationDue(s, e)
      BY <2>3 DEF Reducer!Apply, Reducer!Accepts
    <3> HIDE DEF u
    <3> QED
      BY <1>0, <2>3, <3>1, VerificationShape DEF Becomes
  <2> QED
    BY <2>1, <2>2, <2>3
<1>2. Reducer!Reduce(s, e).status = u.status
  BY <1>1 DEF Reducer!Reduce, Reducer!State
<1> QED
  BY <1>1, <1>2

\* The lists of work that one event can call for.
Targets == UNION {[1..n -> [node : Nodes, work : Work]] : n \in 0..2}

\* One item of work,
LEMMA OneTarget ==
    ASSUME Composed, NEW p \in Reducer!Participants, NEW version \in Nat, NEW round \in Nat,
           NEW kind \in {"turn", "contract_acknowledgement", "verification"}
    PROVE  [node |-> p, work |-> [kind |-> kind, version |-> version, round |-> round]]
              \in [node : Nodes, work : Work]
<1>1. Nodes = Reducer!Participants /\ Work = Missions!MissionWork
  BY DEF Composed, Missions!Participants, Reducer!Participants
<1> QED
  BY <1>1 DEF Missions!MissionWork

\* at most two of them,
LEMMA TwoTargets ==
    ASSUME NEW x \in [node : Nodes, work : Work], NEW y \in [node : Nodes, work : Work]
    PROVE  <<>> \in Targets /\ <<x>> \in Targets /\ <<x, y>> \in Targets
<1> DEFINE T == [node : Nodes, work : Work]
<1>1. x \in T /\ y \in T
  OBVIOUS
<1> HIDE DEF T
<1>2. <<>> \in [1..0 -> T] /\ <<x>> \in [1..1 -> T] /\ <<x, y>> \in [1..2 -> T]
  BY <1>1
<1>3. 0 \in 0..2 /\ 1 \in 0..2 /\ 2 \in 0..2
  OBVIOUS
<1> QED
  BY <1>2, <1>3, Zenon DEF Targets, T

\* as deriveDeliveryTargets lists them.
LEMMA TargetsOK ==
    ASSUME Composed, NEW previous, NEW next \in Reducer!State, NEW e
    PROVE  Missions!DeliveryTargets(previous, next, e) \in Targets
<1> DEFINE item(p, kind, version, round) ==
             [node |-> p, work |-> [kind |-> kind, version |-> version, round |-> round]]
           targets == Missions!DeliveryTargets(previous, next, e)
<1>1. /\ First \in Reducer!Participants /\ Second \in Reducer!Participants
      /\ next.pending \in Nat /\ next.version \in Nat /\ next.round \in Nat /\ 0 \in Nat
      /\ next.current # "none" => next.current \in Reducer!Participants
  BY StateShape, Roles DEF Composed, Reducer!None
<1>2. \/ targets = <<>>
      \/ targets = <<item(First, "contract_acknowledgement", next.pending, 0),
                     item(Second, "contract_acknowledgement", next.pending, 0)>>
      \/ targets = <<item(First, "verification", next.version, next.round),
                     item(Second, "verification", next.version, next.round)>>
      \/ targets = <<item(next.current, "turn", next.version, 0)>> /\ next.current # "none"
  BY Zenon DEF Missions!DeliveryTargets
<1>3. /\ item(First, "contract_acknowledgement", next.pending, 0) \in [node : Nodes, work : Work]
      /\ item(Second, "contract_acknowledgement", next.pending, 0) \in [node : Nodes, work : Work]
      /\ item(First, "verification", next.version, next.round) \in [node : Nodes, work : Work]
      /\ item(Second, "verification", next.version, next.round) \in [node : Nodes, work : Work]
      /\ next.current # "none" =>
            item(next.current, "turn", next.version, 0) \in [node : Nodes, work : Work]
  BY <1>1, OneTarget
<1> HIDE DEF item, targets
<1>4. targets \in Targets
  BY <1>2, <1>3, TwoTargets
<1> QED
  BY <1>4 DEF targets

\* Evidence that leaves the verification open calls for no work.
LEMMA NoTarget ==
    ASSUME NEW previous, NEW next, NEW e, e.type = "verification_recorded",
           previous.status = "verifying", next.status = "verifying"
    PROVE  Missions!DeliveryTargets(previous, next, e) = <<>>
BY DEF Missions!DeliveryTargets

\* The reducer keeps its invariant through all the events of a completion.
LEMMA PublishedInv ==
    ASSUME Composed, ReducerInv(coord), NEW events \in Seq(Reducer!Event),
           NEW n \in Nat, Len(events) = n, Missions!Publishable(events)
    PROVE  LET after == Missions!ReducedStates(events) IN
           /\ \A i \in 0..n : ReducerInv(after[i])
           /\ \A i \in 1..n :
                 /\ Reducer!Accepts(after[i - 1], events[i])
                 /\ after[i] = Reducer!Reduce(after[i - 1], events[i])
<1> DEFINE after == Missions!ReducedStates(events)
<1>0. Reducer!Configured
  BY DEF Composed
<1>1. /\ after[0] = coord
      /\ \A i \in 1..n : after[i] = Reducer!Reduce(after[i - 1], events[i])
  BY Reduced
<1>2. \A i \in DOMAIN events : Missions!Coordinator!Accepts(after[i - 1], events[i])
  BY Zenon DEF Missions!Publishable
<1> HIDE DEF after
<1>3. ASSUME NEW i \in 1..n
      PROVE  Reducer!Accepts(after[i - 1], events[i]) /\ events[i] \in Reducer!Event
  <2>1. i \in DOMAIN events /\ events[i] \in Reducer!Event
    OBVIOUS
  <2> QED
    BY <1>2, <2>1, SameReduce
<1> DEFINE Bad == {i \in Nat : i <= n /\ ~ReducerInv(after[i])}
<1>4. 0 \notin Bad
  BY <1>1
<1>5. ASSUME NEW m \in Nat, m \notin Bad
      PROVE  m + 1 \notin Bad
  <2> SUFFICES ASSUME m + 1 <= n
               PROVE  ReducerInv(after[m + 1])
    OBVIOUS
  <2>1. m + 1 \in 1..n /\ (m + 1) - 1 = m /\ ReducerInv(after[m])
    BY <1>5
  <2>2. /\ after[m + 1] = Reducer!Reduce(after[m], events[m + 1])
        /\ Reducer!Accepts(after[m], events[m + 1]) /\ events[m + 1] \in Reducer!Event
    BY <1>1, <1>3, <2>1
  <2> QED
    BY <1>0, <2>1, <2>2, ReduceKeeps
<1>6. Bad = {}
  <2> HIDE DEF Bad
  <2>1. Bad \in SUBSET Nat
    BY DEF Bad
  <2> QED
    BY <1>4, <1>5, <2>1, NoException
<1>7. \A i \in 0..n : ReducerInv(after[i])
  BY <1>6
<1> QED
  BY <1>1, <1>3, <1>7 DEF after

\* The coordinator's answer to a completion is one that the delivery ledger
\* allows for, and its new state keeps the reducer's invariant.
LEMMA CompletionOK ==
    ASSUME Composed, RowInv, ReducerInv(coord), NEW d \in Deliveries, NEW t,
           NEW result \in Missions!Results(d), Missions!CompleteDelivery(d, t, result)
    PROVE  (\E out \in Outcome(d) : CompleteDelivery(d, t, out)) /\ ReducerInv(coord')
<1> DEFINE events == Missions!CompletionEvents(d, result)
           after == Missions!ReducedStates(events)
           last == Len(events)
           targets == [i \in DOMAIN events |->
                         Missions!DeliveryTargets(after[i - 1], after[i], events[i])]
           out == [settles |-> Missions!SettledBy(after[last], events[last]),
                   creates |-> Missions!FlattenSeq(targets),
                   status |-> after[last].status]
<1>1. /\ Missions!Publishable(events)
      /\ Missions!Ledger!CompleteDelivery(d, t, out)
      /\ coord' = after[last]
  BY Zenon DEF Missions!CompleteDelivery
<1>2. CompleteDelivery(d, t, out)
  BY <1>1, SameComplete
<1>3. rows[d].settled = 0
  BY <1>2 DEF CompleteDelivery
<1>4. /\ events \in Seq(Reducer!Event) /\ events # <<>>
      /\ \A i \in DOMAIN events :
            /\ events[i].delivery = d
            /\ events[i].type \in {"turn_completed", "contract_acknowledged",
                                   "verification_recorded"}
  BY EventsOK
<1> HIDE DEF events
<1>5. PICK n \in Nat : n = last /\ n # 0 /\ DOMAIN events = 1..n
  BY <1>4
<1>6. /\ \A i \in 0..n : ReducerInv(after[i])
      /\ \A i \in 1..n :
            /\ Reducer!Accepts(after[i - 1], events[i])
            /\ after[i] = Reducer!Reduce(after[i - 1], events[i])
  BY <1>1, <1>4, <1>5, PublishedInv
<1>7. /\ \A i \in DOMAIN events : Missions!SettlesSource(after[i], events[i]) = (i = last)
      /\ \A i \in DOMAIN events :
            i = last => events[i].delivery \in Missions!SettledBy(after[i], events[i])
  BY <1>1, Zenon DEF Missions!Publishable
<1> HIDE DEF after
<1>8. /\ n \in 0..n /\ n \in 1..n /\ n - 1 \in 0..n
      /\ \A i \in 1..n : i \in 0..n /\ i - 1 \in 0..n
  BY <1>5
<1>9. ReducerInv(coord')
  BY <1>1, <1>5, <1>6, <1>8
<1>10. Reducer!Configured /\ MaxCreated >= 2 /\ MaxCreated \in Nat
  BY LedgerAssumption DEF Composed
<1>11. out.status \in Running \cup {"completed", "failed"}
  <2>1. after[n].status \in {"active", "verifying", "completed", "failed"}
    BY <1>4, <1>5, <1>6, <1>8, <1>10, WorkStatus
  <2> QED
    BY <1>5, <2>1 DEF Running
<1>12. out.settles \in {S \in SUBSET {e \in Deliveries : rows[e].settled = 0} : d \in S}
  <2>1. d \in Missions!SettledBy(after[n], events[n]) /\ events[n].delivery = d
    BY <1>4, <1>5, <1>7, <1>8
  <2>2. Missions!SettledBy(after[n], events[n]) \subseteq {e \in Deliveries : rows[e].settled = 0}
    BY <1>3, <2>1 DEF Missions!SettledBy, Deliveries
  <2> QED
    BY <1>5, <2>1, <2>2
<1>13. \A i \in 1..n : targets[i] \in Targets
  BY <1>5, <1>6, <1>8, TargetsOK DEF ReducerInv
<1>14. \A i \in 1..n : i # n => targets[i] = <<>>
  <2> TAKE i \in 1..n
  <2> HAVE i # n
  <2>1. ~Missions!SettlesSource(after[i], events[i])
    BY <1>5, <1>7
  <2>2. events[i].type = "verification_recorded" /\ after[i].status = "verifying"
    BY <2>1, Zenon DEF Missions!SettlesSource
  <2>3. Reducer!Accepts(after[i - 1], events[i])
    BY <1>6
  <2>4. after[i - 1].status = "verifying"
    BY <2>2, <2>3 DEF Reducer!Accepts, Reducer!VerificationDue
  <2>5. targets[i] = Missions!DeliveryTargets(after[i - 1], after[i], events[i])
    BY <1>5
  <2> QED
    BY <2>2, <2>4, <2>5, NoTarget
<1>15. out.creates \in UNION {[1..k -> [node : Nodes, work : Work]] : k \in 0..MaxCreated}
  <2> DEFINE T == [node : Nodes, work : Work]
  <2>1. targets \in [1..n -> Seq(T)] /\ DOMAIN targets = 1..n
    <3>1. \A x \in Targets : x \in Seq(T)
      <4> TAKE x \in Targets
      <4>1. PICK k \in 0..2 : x \in [1..k -> T]
        BY DEF Targets
      <4> HIDE DEF T
      <4> QED
        BY <4>1
    <3>2. targets = [i \in 1..n |->
                       Missions!DeliveryTargets(after[i - 1], after[i], events[i])]
      BY <1>5
    <3> QED
      BY <1>13, <3>1, <3>2
  <2>2. targets[n] \in Targets /\ out.creates = Missions!FlattenSeq(targets)
    BY <1>8, <1>13
  <2> HIDE DEF targets, T
  <2>3. targets \in Seq(Seq(T)) /\ Len(targets) = n
    BY <2>1
  <2>4. Missions!FlattenSeq(targets) = targets[n]
    BY <1>5, <1>14, <2>3, Flattened
  <2>5. PICK k \in 0..2 : targets[n] \in [1..k -> T]
    BY <2>2 DEF Targets, T
  <2>6. k \in 0..MaxCreated
    BY <1>10
  <2> QED
    BY <2>2, <2>4, <2>5, <2>6 DEF T
<1>16. out \in Outcome(d)
  <2>1. out = [settles |-> out.settles, creates |-> out.creates, status |-> out.status]
    OBVIOUS
  <2> HIDE DEF out
  <2> QED
    BY <1>11, <1>12, <1>15, <2>1 DEF Outcome
<1> QED
  BY <1>2, <1>9, <1>16

-----------------------------------------------------------------------------
(* Refinement *)

\* When the ledger reconciles, the coordinator hears of it.
LEMMA ReconciledOK ==
    ASSUME Composed, ReducerInv(coord), mission' = mission \/ mission' \in {"failed", "expired"},
           Missions!Reconciled
    PROVE  ReducerInv(coord')
<1>1. CASE mission' = mission
  BY <1>1 DEF Missions!Reconciled
<1>2. CASE mission' # mission
  <2> DEFINE e == [type |-> "mission_terminal", status |-> mission']
  <2>1. /\ Missions!Coordinator!Accepts(coord, e)
        /\ coord' = Missions!Coordinator!Reduce(coord, e)
    BY <1>2, Zenon DEF Missions!Reconciled
  <2>2. e \in Reducer!Event
    BY <1>2 DEF Reducer!Event
  <2> HIDE DEF e
  <2> QED
    BY <2>1, <2>2, SameReduce, ReduceKeeps DEF Composed
<1> QED
  BY <1>1, <1>2

\* The statuses a reconciliation can write.
LEMMA ReconcileStatus ==
    ASSUME NEW rs, NEW new, Reconcile(rs, new)
    PROVE  mission' = mission \/ mission' \in {"failed", "expired"}
BY DEF Reconcile, TerminalCause

\* A Node's request is one of the delivery ledger's.
LEMMA NodeRequestImplements ==
    ASSUME Composed, RowInv, ReducerInv(coord), NEW d \in Deliveries, Missions!NodeRequest(d)
    PROVE  NodeRequest(d) /\ ReducerInv(coord')
<1>1. ASSUME NEW k \in 1..(rows[d].attempt + 1), Missions!ClaimDelivery(d, k)
      PROVE  NodeRequest(d) /\ ReducerInv(coord')
  <2>1. ClaimDelivery(d, <<k, 0>>) /\ Missions!Reconciled
    BY <1>1, SameClaim DEF Missions!ClaimDelivery
  <2>2. mission' = mission \/ mission' \in {"failed", "expired"}
    BY <2>1, ReconcileStatus DEF ClaimDelivery, ClaimStored, ClaimExpired, ClaimExhausted
  <2> QED
    BY <2>1, <2>2, ReconciledOK DEF NodeRequest
<1>2. ASSUME NEW t \in 1..rows[d].attempt, Missions!StartDelivery(d, t)
      PROVE  NodeRequest(d) /\ ReducerInv(coord')
  <2>1. StartDelivery(d, t) /\ coord' = coord
    BY <1>2, SameLease DEF Missions!StartDelivery
  <2> QED
    BY <2>1 DEF NodeRequest, GrantedTokens
<1>3. ASSUME NEW t \in 1..rows[d].attempt, Missions!RenewDelivery(d, t)
      PROVE  NodeRequest(d) /\ ReducerInv(coord')
  <2>1. (\E count \in 1..MaxRenewals : RenewDelivery(d, t, count)) /\ coord' = coord
    BY <1>3, SameLease DEF Missions!RenewDelivery
  <2> QED
    BY <2>1 DEF NodeRequest, GrantedTokens
<1>4. ASSUME NEW t \in 1..rows[d].attempt, NEW class \in {"transient", "permanent", "policy_denied"},
             Missions!ReleaseDelivery(d, t, class)
      PROVE  NodeRequest(d) /\ ReducerInv(coord')
  <2>1. ReleaseDelivery(d, t, class) /\ Missions!Reconciled
    BY <1>4, SameLease DEF Missions!ReleaseDelivery
  <2>2. mission' = mission \/ mission' \in {"failed", "expired"}
    BY <2>1, ReconcileStatus DEF ReleaseDelivery
  <2> QED
    BY <2>1, <2>2, ReconciledOK DEF NodeRequest, GrantedTokens
<1>5. ASSUME NEW t \in 1..rows[d].attempt, NEW result \in Missions!Results(d),
             Missions!CompleteDelivery(d, t, result)
      PROVE  NodeRequest(d) /\ ReducerInv(coord')
  BY <1>5, CompletionOK DEF NodeRequest, GrantedTokens
<1> QED
  BY <1>1, <1>2, <1>3, <1>4, <1>5 DEF Missions!NodeRequest

\* The second acceptance creates the first turn.
LEMMA AcceptImplements ==
    ASSUME Composed, ReducerInv(coord), NEW p \in Missions!Participants,
           Missions!AcceptMissionParticipant(p)
    PROVE  [Next]_vars /\ ReducerInv(coord')
<1> DEFINE e == [type |-> "participants_accepted"]
           next == Reducer!Reduce(coord, e)
           targets == Missions!DeliveryTargets(coord, next, e)
<1>1. CASE accepted' # Missions!Participants
  <2>1. UNCHANGED <<clock, mission, rows, receipts, ledger, binding, blocked, coord>>
    BY <1>1 DEF Missions!AcceptMissionParticipant
  <2> QED
    BY <2>1 DEF vars
<1>2. CASE accepted' = Missions!Participants
  <2>1. /\ Reducer!Accepts(coord, e)
        /\ Activate(targets)
        /\ coord' = next
    BY <1>2, SameReduce, SameActivate, Zenon DEF Missions!AcceptMissionParticipant
  <2>2. e \in Reducer!Event /\ Reducer!Configured
    BY DEF Reducer!Event, Composed
  <2>3. ReducerInv(next)
    BY <2>1, <2>2, ReduceKeeps
  <2>4. targets # <<>>
    <3>1. next.status = "active" /\ next.current = First /\ coord.status = "awaiting_acceptance"
      <4>1. coord \in Reducer!State /\ Reducer!Apply(coord, e) = Reducer!ApplyParticipantsAccepted(coord)
        BY DEF ReducerInv, Reducer!Apply
      <4>2. next = [Reducer!ApplyParticipantsAccepted(coord) EXCEPT !.applied = Append(coord.applied, e)]
        BY <4>1, Zenon DEF Reducer!Reduce
      <4> QED
        BY <2>1, <4>1, <4>2 DEF Reducer!ApplyParticipantsAccepted, Reducer!State, Reducer!Accepts
    <3>2. First # "none" /\ e.type # "turn_completed"
      BY <2>2, Roles DEF Reducer!None
    <3> HIDE DEF next, e
    <3> QED
      BY <3>1, <3>2 DEF Missions!DeliveryTargets
  <2>5. targets \in Targets
    BY <2>3, TargetsOK DEF ReducerInv
  <2> HIDE DEF targets, next
  <2>6. PICK k \in 0..2 : targets \in [1..k -> [node : Nodes, work : Work]]
    BY <2>5 DEF Targets
  <2>7. k # 0
    BY <2>4, <2>6
  <2>8. k \in 1..MaxCreated
    BY <2>7, LedgerAssumption DEF Composed
  <2> QED
    BY <2>1, <2>3, <2>6, <2>8 DEF Next
<1> QED
  BY <1>1, <1>2

\* Every step of the Mission ledger is a step of the delivery ledger, or
\* leaves it alone.
LEMMA MissionStep ==
    ASSUME Composed, RowInv, ReducerInv(coord), [Missions!Next]_(Missions!vars)
    PROVE  [Next]_vars /\ ReducerInv(coord')
<1>1. Nodes = Missions!Participants
  BY DEF Composed
<1>2. ASSUME NEW p \in Missions!Participants, Missions!AcceptMissionParticipant(p)
      PROVE  [Next]_vars /\ ReducerInv(coord')
  BY <1>2, AcceptImplements
<1>3. CASE Missions!ReconcileMission
  <2>1. ReconcileMission /\ Missions!Reconciled
    BY <1>3, SameRest DEF Missions!ReconcileMission
  <2>2. mission' = mission \/ mission' \in {"failed", "expired"}
    BY <2>1, ReconcileStatus DEF ReconcileMission
  <2> QED
    BY <2>1, <2>2, ReconciledOK DEF Next
<1>4. ASSUME NEW d \in Deliveries, Missions!NodeRequest(d)
      PROVE  [Next]_vars /\ ReducerInv(coord')
  BY <1>4, NodeRequestImplements DEF Next
<1>5. ASSUME NEW p \in Missions!Participants, Missions!RevokeNode(p) \/ Missions!RevokeWorkspace(p)
      PROVE  [Next]_vars /\ ReducerInv(coord')
  <2>1. (RevokeNode(p) \/ RevokeWorkspace(p)) /\ coord' = coord
    BY <1>5, SameRevoke DEF Missions!RevokeNode, Missions!RevokeWorkspace
  <2> QED
    BY <1>1, <2>1 DEF Next
<1>6. CASE Missions!SetBlock \/ Missions!Tick
  <2>1. (SetBlock \/ Tick) /\ coord' = coord
    BY <1>6, SameRest DEF Missions!SetBlock, Missions!Tick
  <2> QED
    BY <2>1 DEF Next
<1>7. CASE UNCHANGED Missions!vars
  BY <1>7 DEF Missions!vars, vars
<1> QED
  BY <1>2, <1>3, <1>4, <1>5, <1>6, <1>7 DEF Missions!Next, Deliveries

\* The joint invariant of the Mission ledger.
MissionInv == RowInv /\ ReducerInv(coord)

\* A new Mission satisfies both invariants.
LEMMA MissionInit ==
    ASSUME Composed, Missions!Init
    PROVE  Init /\ MissionInv
<1>1. Init
  BY SameRest DEF Missions!Init
<1>2. coord = Missions!Coordinator!CreateMissionCoordinatorState
  BY DEF Missions!Init, Missions!Coordinator!Init
<1>3. Missions!Coordinator!CreateMissionCoordinatorState = Reducer!CreateMissionCoordinatorState
  BY Zenon DEF Missions!Coordinator!CreateMissionCoordinatorState,
               Reducer!CreateMissionCoordinatorState, Missions!Coordinator!None, Reducer!None
<1> QED
  BY <1>1, <1>2, <1>3, CreateOK, RowInvInit DEF MissionInv, Composed

\* A step keeps both invariants.
LEMMA MissionKeeps ==
    ASSUME Composed, MissionInv, [Missions!Next]_(Missions!vars)
    PROVE  [Next]_vars /\ MissionInv'
<1>1. [Next]_vars /\ ReducerInv(coord')
  BY MissionStep DEF MissionInv
<1>2. RowInv'
  BY <1>1, RowInvStep DEF MissionInv
<1>3. ReducerInv(coord)'
  BY <1>1 DEF ReducerInv, Scheduled, Evidence, Readied, Agreed, Alternating, Budgeted
<1> QED
  BY <1>1, <1>2, <1>3 DEF MissionInv

\* The Mission ledger implements the delivery ledger: whatever the coordinator
\* makes of a result, a refusal or an expiry, what it settles, creates and
\* writes in one transaction is something the delivery ledger allows, so every
\* theorem about the delivery ledger holds of every Mission.
THEOREM MissionsImplementLedger ==
    ASSUME Composed
    PROVE  Missions!Spec => Spec
<1>1. Missions!Init => Init /\ MissionInv
  BY MissionInit
<1>2. MissionInv /\ [Missions!Next]_(Missions!vars) => [Next]_vars /\ MissionInv'
  BY MissionKeeps
<1> QED
  BY <1>1, <1>2, PTL DEF Missions!Spec, Spec

\* Agreement: the coordinator always waits for exactly one thing, completes
\* only on unanimous evidence, lets nobody work on a contract that is not
\* agreed, alternates the turns and stays within its event budget, whatever
\* the Nodes, the clock and the revocations do.
THEOREM CoordinatorAgrees ==
    ASSUME Composed
    PROVE  Missions!Spec => []Reducer!Agreement
<1>1. Missions!Init => MissionInv
  BY MissionInit
<1>2. MissionInv /\ [Missions!Next]_(Missions!vars) => MissionInv'
  BY MissionKeeps
<1>3. MissionInv => Reducer!Agreement
  BY InvAgrees DEF MissionInv, Composed
<1> QED
  BY <1>1, <1>2, <1>3, PTL DEF Missions!Spec

-----------------------------------------------------------------------------
(* What an event makes of the schedule *)

\* A logged state is the applied one with the event at the end of its log.
LEMMA Steps ==
    ASSUME Reducer!Configured, NEW s, ReducerInv(s), NEW e \in Reducer!Event,
           Reducer!Apply(s, e) \in Reducer!State
    PROVE  LET t == Reducer!Reduce(s, e) IN
           /\ t \in Reducer!State
           /\ \A st, tu, ve, ro, pe, pr, ac, cu, re, rc :
                 Becomes(s, Reducer!Apply(s, e), st, tu, ve, ro, pe, pr, ac, cu, re, rc) =>
                 Moves(s, e, t, st, tu, ve, ro, pe, pr, ac, cu, re, rc)
<1>1. Reducer!Reduce(s, e) = [Reducer!Apply(s, e) EXCEPT !.applied = Append(s.applied, e)]
  BY Zenon DEF Reducer!Reduce
<1>2. s \in Reducer!State
  BY DEF ReducerInv
<1> QED
  BY <1>1, <1>2, Logged

\* The phases that a turn leads to.
TurnMoves(s, t, e) ==
    \/ /\ e.kind # "propose_contract" /\ t.status = "active" /\ t.pending = 0
       /\ t.current = Reducer!OtherParticipant(e.by) /\ t.version = s.version
    \/ /\ e.kind = "propose_contract" /\ t.status = "active" /\ t.pending = s.version + 1
       /\ t.acks = {} /\ t.current = Reducer!None
    \/ /\ e.kind = "ready" /\ t.status = "verifying" /\ t.pending = 0 /\ t.records = {}
       /\ t.current = Reducer!None
    \/ t.status = "failed" /\ t.pending = 0 /\ t.current = Reducer!None

\* A turn.
LEMMA TurnLeads ==
    ASSUME Reducer!Configured, NEW s, ReducerInv(s), NEW e \in Reducer!Event,
           e.type = "turn_completed", Reducer!TurnScheduled(s, e)
    PROVE  LET t == Reducer!Reduce(s, e) IN
           TurnMoves(s, t, e) /\ t.applied = Append(s.applied, e)
<1> DEFINE u == Reducer!Apply(s, e)
           t == Reducer!Reduce(s, e)
<1>0. s \in Reducer!State /\ Scheduled(s)
  BY DEF ReducerInv
<1>1. u = Reducer!ApplyTurnCompleted(s, e)
  BY DEF Reducer!Apply
<1>2. u \in Reducer!State /\ TurnOutcome(s, u, e)
  BY <1>0, <1>1, TurnShape
<1>3. \A st, tu, ve, ro, pe, pr, ac, cu, re, rc :
         Becomes(s, u, st, tu, ve, ro, pe, pr, ac, cu, re, rc) =>
         Moves(s, e, t, st, tu, ve, ro, pe, pr, ac, cu, re, rc)
  BY <1>2, Steps
<1> HIDE DEF u, t
<1>4. e.kind \in Reducer!Disposition
  BY EventShape
<1>5. \A st, tu, ve, ro, pe, pr, ac, cu, re, rc :
         Becomes(s, u, st, tu, ve, ro, pe, pr, ac, cu, re, rc) =>
         /\ t.status = st /\ t.version = ve /\ t.pending = pe /\ t.acks = ac /\ t.current = cu
         /\ t.records = rc /\ t.applied = Append(s.applied, e)
  BY <1>3 DEF Moves
<1>6. TurnMoves(s, t, e) /\ t.applied = Append(s.applied, e)
  BY <1>2, <1>4, <1>5 DEF TurnOutcome, TurnMoves
<1> QED
  BY <1>6 DEF t

\* An acknowledgement.
LEMMA AckLeads ==
    ASSUME Reducer!Configured, NEW s, ReducerInv(s), NEW e \in Reducer!Event,
           e.type = "contract_acknowledged", Reducer!AcknowledgementDue(s, e)
    PROVE  LET t == Reducer!Reduce(s, e) IN
           /\ t.applied = Append(s.applied, e) /\ t.status = "active"
           /\ \/ /\ s.acks \cup {e.by} # Reducer!Participants
                 /\ t.pending = s.pending /\ t.acks = s.acks \cup {e.by} /\ t.current = Reducer!None
              \/ /\ s.acks \cup {e.by} = Reducer!Participants
                 /\ t.pending = 0 /\ t.version = s.pending
                 /\ t.current = Reducer!OtherParticipant(s.proposer)
<1> DEFINE u == Reducer!Apply(s, e)
           t == Reducer!Reduce(s, e)
<1>0. s \in Reducer!State /\ Scheduled(s)
  BY DEF ReducerInv
<1>1. u = Reducer!ApplyContractAcknowledged(s, e)
  BY DEF Reducer!Apply
<1>2. /\ u \in Reducer!State
      /\ \/ /\ s.acks = {} /\ s.acks \cup {e.by} # Reducer!Participants
            /\ Becomes(s, u, "active", s.turns, s.version, s.round, s.pending, s.proposer,
                       {e.by}, Reducer!None, s.ready, {})
         \/ /\ s.acks \cup {e.by} = Reducer!Participants /\ s.acks # {}
            /\ Becomes(s, u, "active", s.turns, s.pending, s.round, 0, s.proposer, {},
                       Reducer!OtherParticipant(s.proposer), <<>>, {})
  BY <1>0, <1>1, AckShape
<1>3. \A st, tu, ve, ro, pe, pr, ac, cu, re, rc :
         Becomes(s, u, st, tu, ve, ro, pe, pr, ac, cu, re, rc) =>
         Moves(s, e, t, st, tu, ve, ro, pe, pr, ac, cu, re, rc)
  BY <1>2, Steps
<1> HIDE DEF u, t
<1>5. \A st, tu, ve, ro, pe, pr, ac, cu, re, rc :
         Becomes(s, u, st, tu, ve, ro, pe, pr, ac, cu, re, rc) =>
         /\ t.status = st /\ t.version = ve /\ t.pending = pe /\ t.acks = ac /\ t.current = cu
         /\ t.applied = Append(s.applied, e)
  BY <1>3 DEF Moves
<1>6. /\ t.applied = Append(s.applied, e) /\ t.status = "active"
      /\ \/ /\ s.acks \cup {e.by} # Reducer!Participants
            /\ t.pending = s.pending /\ t.acks = s.acks \cup {e.by} /\ t.current = Reducer!None
         \/ /\ s.acks \cup {e.by} = Reducer!Participants
            /\ t.pending = 0 /\ t.version = s.pending
            /\ t.current = Reducer!OtherParticipant(s.proposer)
  BY <1>2, <1>5
<1> QED
  BY <1>6 DEF t

\* A participant's evidence is complete and not all of it good.
Failing(records, p) ==
    /\ Reducer!AllParticipantCommandsRecorded(records, p)
    /\ \E r \in Reducer!RecordsOf(records, p) : r.outcome = "failed"

\* A piece of evidence.
LEMMA EvidenceLeads ==
    ASSUME Reducer!Configured, NEW s, ReducerInv(s), NEW e \in Reducer!Event,
           e.type = "verification_recorded", Reducer!VerificationDue(s, e)
    PROVE  LET t == Reducer!Reduce(s, e)
               records == s.records \cup {RecordOf(e)} IN
           /\ t.applied = Append(s.applied, e) /\ t.pending = 0
           /\ \/ Failing(records, e.by) /\ t.status = "active" /\ t.current = e.by
              \/ Failing(records, e.by) /\ t.status = "failed"
              \/ /\ ~Failing(records, e.by)
                 /\ t.status = IF Reducer!AllRequiredCommandsPassed(s, records) THEN "completed"
                               ELSE "verifying"
                 /\ t.version = s.version /\ t.round = s.round /\ t.records = records
                 /\ t.current = Reducer!None
<1> DEFINE u == Reducer!Apply(s, e)
           t == Reducer!Reduce(s, e)
           records == s.records \cup {RecordOf(e)}
           failed == Failing(records, e.by)
           passed == Reducer!AllRequiredCommandsPassed(s, records)
<1>0. s \in Reducer!State /\ Scheduled(s)
  BY DEF ReducerInv
<1>1. u = Reducer!ApplyVerificationRecorded(s, e)
  BY DEF Reducer!Apply
<1>2. /\ u \in Reducer!State
      /\ \/ /\ failed
            /\ \E status \in {"active", "failed"} :
                  /\ status = "active" => s.turns < MaxTurns
                  /\ Becomes(s, u, status, s.turns, s.version, s.round, 0, s.proposer, {},
                             IF status = "active" THEN e.by ELSE Reducer!None, <<>>, {})
         \/ /\ ~failed
            /\ Becomes(s, u, IF passed THEN "completed" ELSE "verifying",
                       s.turns, s.version, s.round, 0, s.proposer, s.acks, Reducer!None, s.ready,
                       records)
  BY <1>0, <1>1, VerificationShape DEF Failing
<1>3. \A st, tu, ve, ro, pe, pr, ac, cu, re, rc :
         Becomes(s, u, st, tu, ve, ro, pe, pr, ac, cu, re, rc) =>
         Moves(s, e, t, st, tu, ve, ro, pe, pr, ac, cu, re, rc)
  BY <1>2, Steps
<1> HIDE DEF u, t, records, failed, passed
<1>5. \A st, tu, ve, ro, pe, pr, ac, cu, re, rc :
         Becomes(s, u, st, tu, ve, ro, pe, pr, ac, cu, re, rc) =>
         /\ t.status = st /\ t.version = ve /\ t.round = ro /\ t.pending = pe /\ t.current = cu
         /\ t.records = rc /\ t.applied = Append(s.applied, e)
  BY <1>3 DEF Moves
<1>6. /\ t.applied = Append(s.applied, e) /\ t.pending = 0
      /\ \/ failed /\ t.status = "active" /\ t.current = e.by
         \/ failed /\ t.status = "failed"
         \/ /\ ~failed
            /\ t.status = IF passed THEN "completed" ELSE "verifying"
            /\ t.version = s.version /\ t.round = s.round /\ t.records = records
            /\ t.current = Reducer!None
  BY <1>2, <1>5
<1> QED
  BY <1>6 DEF t, records, failed, passed

\* The acceptance of both participants, and the end that the ledger reports.
LEMMA PhaseLeads ==
    ASSUME Reducer!Configured, NEW s, ReducerInv(s), NEW e \in Reducer!Event, Reducer!Accepts(s, e)
    PROVE  LET t == Reducer!Reduce(s, e) IN
           /\ e.type = "participants_accepted" =>
                 /\ s.status = "awaiting_acceptance" /\ t.status = "active" /\ t.pending = 0
                 /\ t.current = First /\ t.applied = Append(s.applied, e)
           /\ e.type = "mission_terminal" =>
                 t.status = e.status /\ t.applied = Append(s.applied, e)
<1> DEFINE u == Reducer!Apply(s, e)
           t == Reducer!Reduce(s, e)
<1>0. s \in Reducer!State /\ Scheduled(s)
  BY DEF ReducerInv
<1>1. CASE e.type = "participants_accepted"
  <2>1. u = Reducer!ApplyParticipantsAccepted(s) /\ s.status = "awaiting_acceptance"
    BY <1>1 DEF Reducer!Apply, Reducer!Accepts
  <2>2. /\ u \in Reducer!State
        /\ Becomes(s, u, "active", s.turns, s.version, s.round, s.pending, s.proposer, s.acks,
                   First, s.ready, s.records)
    BY <1>0, <2>1, AcceptedShape
  <2>3. Moves(s, e, t, "active", s.turns, s.version, s.round, s.pending, s.proposer, s.acks,
              First, s.ready, s.records)
    BY <2>2, Steps
  <2>4. s.pending = 0
    BY <1>0, <2>1 DEF Scheduled, Reducer!Running
  <2> HIDE DEF t
  <2>5. /\ t.status = "active" /\ t.pending = 0 /\ t.current = First
        /\ t.applied = Append(s.applied, e)
    BY <2>3, <2>4 DEF Moves
  <2> QED
    BY <1>1, <2>1, <2>5 DEF t
<1>2. CASE e.type = "mission_terminal"
  <2>1. u = Reducer!ApplyMissionTerminal(s, e) /\ e.status \in {"failed", "expired"}
    BY <1>2, EventShape DEF Reducer!Apply
  <2>2. /\ u \in Reducer!State
        /\ Becomes(s, u, e.status, s.turns, s.version, s.round, 0, s.proposer, {}, Reducer!None,
                   <<>>, {})
    BY <1>0, <2>1, TerminalShape
  <2>3. Moves(s, e, t, e.status, s.turns, s.version, s.round, 0, s.proposer, {}, Reducer!None,
              <<>>, {})
    BY <2>2, Steps
  <2> HIDE DEF t
  <2>5. t.status = e.status /\ t.applied = Append(s.applied, e)
    BY <2>3 DEF Moves
  <2> QED
    BY <1>2, <2>5 DEF t
<1> QED
  BY <1>1, <1>2

\* Every event is logged.
LEMMA Logs ==
    ASSUME Reducer!Configured, NEW s, ReducerInv(s), NEW e \in Reducer!Event, Reducer!Accepts(s, e)
    PROVE  Reducer!Reduce(s, e).applied = Append(s.applied, e)
<1>1. /\ e.type = "turn_completed" => Reducer!TurnScheduled(s, e)
      /\ e.type = "contract_acknowledged" => Reducer!AcknowledgementDue(s, e)
      /\ e.type = "verification_recorded" => Reducer!VerificationDue(s, e)
  BY DEF Reducer!Accepts
<1>2. CASE e.type = "turn_completed"
  BY <1>1, <1>2, TurnLeads
<1>3. CASE e.type = "contract_acknowledged"
  BY <1>1, <1>3, AckLeads
<1>4. CASE e.type = "verification_recorded"
  BY <1>1, <1>4, EvidenceLeads
<1>5. CASE e.type = "participants_accepted"
  BY <1>5, PhaseLeads
<1>6. CASE e.type = "mission_terminal"
  BY <1>6, PhaseLeads
<1> QED
  BY <1>2, <1>3, <1>4, <1>5, <1>6, EventShape

-----------------------------------------------------------------------------
(* The log *)

\* The states that the log of s leads through, and the deliveries of its turns.
Replays(f, s) ==
    f = [i \in 0..Len(s.applied) |->
           IF i = 0 THEN Reducer!CreateMissionCoordinatorState
           ELSE Reducer!Reduce(f[i - 1], s.applied[i])]
Derived(s) == \E f : Replays(f, s) /\ f[Len(s.applied)] = s
TurnsIn(s, D) ==
    \A i \in 1..Len(s.applied) : Turn(s.applied, i) => s.applied[i].delivery \in D

\* One event more is one reduction more.
LEMMA DerivedStep ==
    ASSUME NEW s, s.applied \in Seq(Reducer!Event), Derived(s), NEW e \in Reducer!Event,
           NEW t, t = Reducer!Reduce(s, e), t.applied = Append(s.applied, e)
    PROVE  Derived(t)
<1> DEFINE R(x, y) == Reducer!Reduce(x, y)
           first == Reducer!CreateMissionCoordinatorState
<1>1. PICK n \in Nat : n = Len(s.applied)
  OBVIOUS
<1>2. PICK f : /\ f = [i \in 0..n |-> IF i = 0 THEN first ELSE R(f[i - 1], s.applied[i])]
               /\ f[n] = s
  BY <1>1 DEF Derived, Replays
<1>3. /\ Len(t.applied) = n + 1 /\ t.applied[n + 1] = e
      /\ \A i \in 1..n : t.applied[i] = s.applied[i]
  BY <1>1
<1>4. t = R(s, e)
  OBVIOUS
<1> HIDE DEF R, first
<1> DEFINE g == [i \in 0..(n + 1) |-> IF i <= n THEN f[i] ELSE t]
<1>5. ASSUME NEW i \in 0..(n + 1)
      PROVE  g[i] = IF i = 0 THEN first ELSE R(g[i - 1], t.applied[i])
  <2>1. CASE i = 0
    <3>1. 0 \in 0..n /\ 0 <= n
      OBVIOUS
    <3> QED
      BY <1>2, <2>1, <3>1
  <2>2. CASE i # 0 /\ i <= n
    <3>1. i - 1 \in 0..(n + 1) /\ i - 1 <= n /\ i \in 0..n /\ i \in 1..n
      BY <2>2
    <3>2. f[i] = R(f[i - 1], s.applied[i])
      BY <1>2, <2>2, <3>1
    <3>3. g[i] = f[i] /\ g[i - 1] = f[i - 1]
      BY <2>2, <3>1
    <3> QED
      BY <1>3, <2>2, <3>1, <3>2, <3>3
  <2>3. CASE ~(i <= n)
    <3>1. i = n + 1 /\ i - 1 = n /\ n \in 0..(n + 1) /\ n <= n /\ i # 0
      BY <2>3
    <3>2. g[i] = t /\ g[n] = f[n]
      BY <2>3, <3>1
    <3> QED
      BY <1>2, <1>3, <1>4, <3>1, <3>2
  <2> QED
    BY <2>1, <2>2, <2>3
<1>6. g = [i \in 0..(n + 1) |-> IF i = 0 THEN first ELSE R(g[i - 1], t.applied[i])]
  <2> DEFINE h == [i \in 0..(n + 1) |-> IF i = 0 THEN first ELSE R(g[i - 1], t.applied[i])]
  <2>1. \A i \in 0..(n + 1) : g[i] = h[i]
    BY <1>5
  <2> QED
    BY <2>1
<1>7. g[n + 1] = t
  <2>1. n + 1 \in 0..(n + 1) /\ ~(n + 1 <= n)
    OBVIOUS
  <2> QED
    BY <2>1
<1> HIDE DEF g
<1>8. Replays(g, t) /\ g[Len(t.applied)] = t
  BY <1>3, <1>6, <1>7, Zenon DEF Replays, R, first
<1> QED
  BY <1>8, Zenon DEF Derived

\* The new event is about its own delivery.
LEMMA TurnsStep ==
    ASSUME NEW s, s.applied \in Seq(Reducer!Event), NEW D, TurnsIn(s, D), NEW e \in Reducer!Event,
           NEW t, t.applied = Append(s.applied, e), NEW E, D \subseteq E,
           e.type = "turn_completed" => e.delivery \in E
    PROVE  TurnsIn(t, E)
<1>1. PICK n \in Nat : n = Len(s.applied)
  OBVIOUS
<1>2. /\ Len(t.applied) = n + 1 /\ t.applied[n + 1] = e
      /\ \A i \in 1..n : t.applied[i] = s.applied[i]
  BY <1>1
<1>3. ASSUME NEW i \in 1..(n + 1), Turn(t.applied, i)
      PROVE  t.applied[i].delivery \in E
  <2>1. CASE i = n + 1
    BY <1>2, <1>3, <2>1 DEF Turn
  <2>2. CASE i # n + 1
    <3>1. i \in 1..n
      BY <2>2
    <3> QED
      BY <1>1, <1>2, <1>3, <3>1 DEF Turn, TurnsIn
  <2> QED
    BY <2>1, <2>2
<1> QED
  BY <1>2, <1>3 DEF TurnsIn

\* The projection is what the log leads to, so every append finds it intact
\* (appendMissionEventInTransaction).
LEMMA ProjectionOK ==
    ASSUME coord.applied \in Seq(Reducer!Event), Derived(coord), mission = coord.status
    PROVE  Missions!Projection
<1> DEFINE first == Reducer!CreateMissionCoordinatorState
           R(x, y) == Reducer!Reduce(x, y)
           Chain(f, n) == f = [i \in 0..n |-> IF i = 0 THEN first
                                             ELSE R(f[i - 1], coord.applied[i])]
<1>1. PICK n \in Nat : n = Len(coord.applied)
  OBVIOUS
<1>2. PICK f : Chain(f, n) /\ f[n] = coord
  BY <1>1, Zenon DEF Derived, Replays
<1>3. Missions!Coordinator!CreateMissionCoordinatorState = first
  BY Zenon DEF Missions!Coordinator!CreateMissionCoordinatorState,
               Reducer!CreateMissionCoordinatorState, Missions!Coordinator!None, Reducer!None
<1>4. \A x, y : Missions!Coordinator!Reduce(x, y) = R(x, y)
  BY SameReduce
<1>5. f = [i \in 0..n |-> IF i = 0 THEN Missions!Coordinator!CreateMissionCoordinatorState
                         ELSE Missions!Coordinator!Reduce(f[i - 1], coord.applied[i])]
  BY <1>2, <1>3, <1>4, Zenon
<1>6. PICK g : /\ g = [i \in 0..n |-> IF i = 0 THEN Missions!Coordinator!CreateMissionCoordinatorState
                                     ELSE Missions!Coordinator!Reduce(g[i - 1], coord.applied[i])]
               /\ Missions!Projection <=> mission = coord.status /\ g[n] = coord
  BY <1>1, <1>5, Zenon DEF Missions!Projection
<1>7. Chain(g, n)
  BY <1>3, <1>4, <1>6, Zenon
<1> HIDE DEF R, first
<1> DEFINE Bad == {i \in Nat : i <= n /\ f[i] # g[i]}
<1>8. 0 \notin Bad
  BY <1>2, <1>7
<1>9. ASSUME NEW m \in Nat, m \notin Bad
      PROVE  m + 1 \notin Bad
  <2> SUFFICES ASSUME m + 1 <= n
               PROVE  f[m + 1] = g[m + 1]
    OBVIOUS
  <2>1. f[m] = g[m] /\ m + 1 \in 0..n /\ m + 1 # 0 /\ (m + 1) - 1 = m
    BY <1>9
  <2>2. f[m + 1] = R(f[(m + 1) - 1], coord.applied[m + 1])
    BY <1>2, <2>1, Zenon
  <2>3. g[m + 1] = R(g[(m + 1) - 1], coord.applied[m + 1])
    BY <1>7, <2>1, Zenon
  <2> QED
    BY <2>1, <2>2, <2>3
<1>10. Bad = {}
  <2> HIDE DEF Bad
  <2>1. Bad \in SUBSET Nat
    BY DEF Bad
  <2> QED
    BY <1>8, <1>9, <2>1, NoException
<1>11. f[n] = g[n]
  BY <1>10
<1> QED
  BY <1>2, <1>6, <1>11

-----------------------------------------------------------------------------
(* The work outstanding *)

\* What a row asks for, and what the coordinator waits for in state s.
ItemOf(r) == [node |-> r.node, work |-> r.work]
Item(p, kind, version, round) ==
    [node |-> p, work |-> [kind |-> kind, version |-> version, round |-> round]]
Awaited(s) ==
    CASE s.status = "active" /\ s.pending = 0 -> {Item(s.current, "turn", s.version, 0)}
      [] s.status = "active" /\ s.pending # 0 ->
            {Item(p, "contract_acknowledgement", s.pending, 0) :
                p \in Reducer!Participants \ s.acks}
      [] s.status = "verifying" ->
            {Item(p, "verification", s.version, s.round) :
                p \in {q \in Reducer!Participants :
                         ~Reducer!AllParticipantCommandsRecorded(s.records, q)}}
      [] OTHER -> {}

\* The open rows ask for just that, each for another part of it.
Asked(rs, s) ==
    /\ \A d \in OpenRows(rs) : ItemOf(rs[d]) \in Awaited(s)
    /\ \A x \in Awaited(s) : \E d \in OpenRows(rs) : ItemOf(rs[d]) = x
    /\ \A d, e \in OpenRows(rs) : ItemOf(rs[d]) = ItemOf(rs[e]) => d = e

\* Awaited, phase by phase.
LEMMA AwaitedIn ==
    ASSUME NEW s
    PROVE  /\ s.status = "active" /\ s.pending = 0 =>
                 Awaited(s) = {Item(s.current, "turn", s.version, 0)}
           /\ s.status = "active" /\ s.pending # 0 =>
                 Awaited(s) = {Item(p, "contract_acknowledgement", s.pending, 0) :
                                  p \in Reducer!Participants \ s.acks}
           /\ s.status = "verifying" =>
                 Awaited(s) = {Item(p, "verification", s.version, s.round) :
                                  p \in {q \in Reducer!Participants :
                                     ~Reducer!AllParticipantCommandsRecorded(s.records, q)}}
           /\ s.status \notin {"active", "verifying"} => Awaited(s) = {}
<1>1. CASE s.status = "active" /\ s.pending = 0
  BY <1>1 DEF Awaited
<1>2. CASE s.status = "active" /\ s.pending # 0
  BY <1>2 DEF Awaited
<1>3. CASE s.status = "verifying"
  BY <1>3 DEF Awaited
<1>4. CASE s.status \notin {"active", "verifying"}
  BY <1>4 DEF Awaited
<1> QED
  BY <1>1, <1>2, <1>3, <1>4

\* Items with the same fields are the same item.
LEMMA ItemFields ==
    ASSUME NEW p, NEW q, NEW kind, NEW sort, NEW version, NEW edition, NEW round, NEW turn
    PROVE  Item(p, kind, version, round) = Item(q, sort, edition, turn)
              <=> p = q /\ kind = sort /\ version = edition /\ round = turn
BY DEF Item

\* A row that is only held by another, or waits again, asks for the same.
LEMMA StillAsked ==
    ASSUME NEW rs, NEW qs, NEW s, Asked(rs, s), DOMAIN qs = DOMAIN rs,
           \A d \in DOMAIN rs :
              /\ qs[d].node = rs[d].node /\ qs[d].work = rs[d].work /\ qs[d].settled = rs[d].settled
              /\ qs[d].status \in Live <=> rs[d].status \in Live
    PROVE  Asked(qs, s)
<1>1. OpenRows(qs) = OpenRows(rs) /\ OpenRows(rs) \subseteq DOMAIN rs
  BY Zenon DEF OpenRows
<1>2. \A d \in OpenRows(rs) : ItemOf(qs[d]) = ItemOf(rs[d])
  BY <1>1, Zenon DEF ItemOf
<1> QED
  BY <1>1, <1>2, Zenon DEF Asked

\* The targets list the work that is awaited, each part once.
Lists(targets, A) ==
    /\ \A i \in 1..Len(targets) : targets[i] \in A
    /\ \A x \in A : \E i \in 1..Len(targets) : targets[i] = x
    /\ \A i, j \in 1..Len(targets) : targets[i] = targets[j] => i = j

\* A new row asks for its target.
LEMMA NewAsks ==
    ASSUME NEW x \in [node : Nodes, work : Work]
    PROVE  /\ NewRow(x).status \in Live /\ NewRow(x).settled = 0
           /\ ItemOf(NewRow(x)) = x
BY DEF NewRow, ItemOf, Live

\* A completion that closes all open rows: the new ones ask for what is next.
LEMMA AllClosed ==
    ASSUME NEW m \in Nat, NEW qs, NEW targets \in Seq([node : Nodes, work : Work]), NEW t,
           DOMAIN qs = 1..(m + Len(targets)),
           \A d \in 1..m : d \notin OpenRows(qs),
           \A i \in 1..Len(targets) : qs[m + i] = NewRow(targets[i]),
           Lists(targets, Awaited(t))
    PROVE  Asked(qs, t)
<1>1. PICK k \in Nat : k = Len(targets)
  OBVIOUS
<1>0. \A i \in 1..k : targets[i] \in [node : Nodes, work : Work]
  <2> DEFINE T == [node : Nodes, work : Work]
  <2>1. targets \in Seq(T)
    OBVIOUS
  <2> HIDE DEF T
  <2>2. \A i \in 1..k : targets[i] \in T
    BY <1>1, <2>1
  <2> QED
    BY <2>2 DEF T
<1>2. \A i \in 1..k : /\ m + i \in OpenRows(qs) /\ ItemOf(qs[m + i]) = targets[i]
  <2> TAKE i \in 1..k
  <2>0. m + i \in 1..(m + k) /\ i \in 1..Len(targets)
    BY <1>1
  <2>1. targets[i] \in [node : Nodes, work : Work]
    BY <1>0
  <2>3. m + i \in DOMAIN qs
    BY <1>1, <2>0
  <2>2. qs[m + i] = NewRow(targets[i])
    BY <1>1
  <2> QED
    BY <2>1, <2>2, <2>3, NewAsks DEF OpenRows
<1>3. \A d \in OpenRows(qs) : \E i \in 1..k : d = m + i
  <2> TAKE d \in OpenRows(qs)
  <2>1. d \in 1..(m + k) /\ d \notin 1..m
    BY <1>1 DEF OpenRows
  <2>2. d - m \in 1..k /\ d = m + (d - m)
    BY <2>1
  <2> QED
    BY <2>2
<1>4. \A d \in OpenRows(qs) : ItemOf(qs[d]) \in Awaited(t)
  BY <1>1, <1>2, <1>3 DEF Lists
<1>5. \A x \in Awaited(t) : \E d \in OpenRows(qs) : ItemOf(qs[d]) = x
  BY <1>1, <1>2 DEF Lists
<1>6. \A d, e \in OpenRows(qs) : ItemOf(qs[d]) = ItemOf(qs[e]) => d = e
  BY <1>1, <1>2, <1>3 DEF Lists
<1> QED
  BY <1>4, <1>5, <1>6 DEF Asked

\* A completion that closes its own row only: the others still ask for the rest.
LEMMA OneClosed ==
    ASSUME NEW rs, NEW qs, NEW s, NEW t, Asked(rs, s), NEW d \in OpenRows(rs),
           OpenRows(qs) = OpenRows(rs) \ {d},
           \A e \in OpenRows(qs) : qs[e] = rs[e],
           Awaited(t) = Awaited(s) \ {ItemOf(rs[d])}
    PROVE  Asked(qs, t)
<1>1. \A e \in OpenRows(qs) :
         e \in OpenRows(rs) /\ e # d /\ ItemOf(qs[e]) = ItemOf(rs[e])
  BY Zenon
<1>2. \A e \in OpenRows(qs) : ItemOf(qs[e]) \in Awaited(t)
  BY <1>1 DEF Asked
<1>3. \A x \in Awaited(t) : \E e \in OpenRows(qs) : ItemOf(qs[e]) = x
  <2> TAKE x \in Awaited(t)
  <2>1. x \in Awaited(s) /\ x # ItemOf(rs[d])
    OBVIOUS
  <2>2. PICK e \in OpenRows(rs) : ItemOf(rs[e]) = x
    BY <2>1 DEF Asked
  <2>3. e \in OpenRows(qs)
    BY <2>1, <2>2
  <2> QED
    BY <1>1, <2>2, <2>3
<1>4. \A e, f \in OpenRows(qs) : ItemOf(qs[e]) = ItemOf(qs[f]) => e = f
  BY <1>1 DEF Asked
<1> QED
  BY <1>2, <1>3, <1>4 DEF Asked

-----------------------------------------------------------------------------
(* Turns and acknowledgements *)

\* One target, two, or none.
LEMMA ListsOne ==
    ASSUME NEW x
    PROVE  Lists(<<x>>, {x})
BY DEF Lists

\* Two different ones.
LEMMA ListsTwo ==
    ASSUME NEW x, NEW y, x # y
    PROVE  Lists(<<x, y>>, {x, y})
<1>1. Len(<<x, y>>) = 2 /\ <<x, y>>[1] = x /\ <<x, y>>[2] = y /\ 1..2 = {1, 2}
  OBVIOUS
<1> QED
  BY <1>1 DEF Lists

\* None.
LEMMA ListsNone == Lists(<<>>, {})
BY DEF Lists

\* What a row that is asked for says of the schedule.
LEMMA Due ==
    ASSUME NEW r, NEW s, ItemOf(r) \in Awaited(s)
    PROVE  /\ r.work.kind \in {"turn", "contract_acknowledgement", "verification"}
           /\ r.work.kind = "turn" =>
                 /\ s.status = "active" /\ s.pending = 0
                 /\ r.node = s.current /\ r.work.version = s.version
           /\ r.work.kind = "contract_acknowledgement" =>
                 /\ s.status = "active" /\ s.pending # 0
                 /\ r.node \in Reducer!Participants \ s.acks /\ r.work.version = s.pending
           /\ r.work.kind = "verification" =>
                 /\ s.status = "verifying" /\ r.node \in Reducer!Participants
                 /\ ~Reducer!AllParticipantCommandsRecorded(s.records, r.node)
                 /\ r.work.version = s.version /\ r.work.round = s.round
<1>1. ASSUME NEW p, NEW kind, NEW version, NEW round, ItemOf(r) = Item(p, kind, version, round)
      PROVE  r.node = p /\ r.work.kind = kind /\ r.work.version = version /\ r.work.round = round
  <2>1. ItemOf(r).node = r.node /\ ItemOf(r).work = r.work
    BY DEF ItemOf
  <2>2. /\ Item(p, kind, version, round).node = p
        /\ Item(p, kind, version, round).work = [kind |-> kind, version |-> version, round |-> round]
    BY DEF Item
  <2>3. r.node = p /\ r.work = [kind |-> kind, version |-> version, round |-> round]
    BY <1>1, <2>1, <2>2
  <2> QED
    BY <2>3
<1>2. CASE s.status = "active" /\ s.pending = 0
  <2>1. ItemOf(r) = Item(s.current, "turn", s.version, 0)
    BY <1>2, AwaitedIn
  <2> QED
    BY <1>1, <1>2, <2>1
<1>3. CASE s.status = "active" /\ s.pending # 0
  <2>1. PICK p \in Reducer!Participants \ s.acks :
           ItemOf(r) = Item(p, "contract_acknowledgement", s.pending, 0)
    BY <1>3, AwaitedIn
  <2> QED
    BY <1>1, <1>3, <2>1
<1>4. CASE s.status = "verifying"
  <2>1. PICK p \in {q \in Reducer!Participants :
                      ~Reducer!AllParticipantCommandsRecorded(s.records, q)} :
           ItemOf(r) = Item(p, "verification", s.version, s.round)
    BY <1>4, AwaitedIn
  <2> QED
    BY <1>1, <1>4, <2>1
<1> QED
  BY <1>2, <1>3, <1>4, AwaitedIn

\* A record of work is its kind, version and round.
LEMMA RowItem ==
    ASSUME Composed, RowInv, NEW d \in Deliveries
    PROVE  /\ rows[d].node \in Reducer!Participants
           /\ ItemOf(rows[d]) = Item(rows[d].node, rows[d].work.kind, rows[d].work.version,
                                     rows[d].work.round)
<1>1. rows \in Seq(Row) /\ d \in DOMAIN rows
  BY DEF RowInv, TypeOK, Deliveries
<1>2. rows[d] \in Row
  BY <1>1
<1>3. rows[d].node \in Nodes /\ rows[d].work \in Work
  BY <1>2 DEF Row
<1>4. rows[d].node \in Reducer!Participants /\ rows[d].work \in Missions!MissionWork
  BY <1>3 DEF Composed, Missions!Participants, Reducer!Participants
<1>5. rows[d].work = [kind |-> rows[d].work.kind, version |-> rows[d].work.version,
                      round |-> rows[d].work.round]
  BY <1>4 DEF Missions!MissionWork
<1> QED
  BY <1>4, <1>5, Zenon DEF ItemOf, Item

\* Nobody is asked to verify who has started to record evidence.
Whole(s) ==
    s.status = "verifying" => \A p \in Reducer!Participants :
        Reducer!RecordsOf(s.records, p) # {} =>
            Reducer!AllParticipantCommandsRecorded(s.records, p)

\* The rows that have been settled.
Filed(rs) == {x \in DOMAIN rs : rs[x].settled # 0}

\* What the coordinator and the rows must have in common for the work to match.
Matched == /\ Asked(rows, coord) /\ TurnsIn(coord, Filed(rows)) /\ Whole(coord) /\ Derived(coord)

\* What a completion makes of the work: either it closes every open row and
\* lists what is awaited next, or it closes its own and the rest stays awaited.
Answered(d, t, settles, targets) ==
    /\ Whole(t) /\ TurnsIn(t, Filed(rows) \cup {d}) /\ Derived(t)
    /\ \/ OpenRows(rows) \subseteq settles /\ Lists(targets, Awaited(t))
       \/ /\ settles = {d} /\ targets = <<>>
          /\ Awaited(t) = Awaited(coord) \ {ItemOf(rows[d])}

\* A result of one event.
LEMMA OneEvent ==
    ASSUME NEW d, NEW e \in Reducer!Event, e.delivery = d, Reducer!Accepts(coord, e),
           e.type # "verification_recorded"
    PROVE  LET after == Missions!ReducedStates(<<e>>) IN
           /\ Missions!Publishable(<<e>>)
           /\ after[0] = coord /\ after[1] = Reducer!Reduce(coord, e)
           /\ Missions!SettledBy(after[1], e) = {d}
<1> DEFINE events == <<e>>
           after == Missions!ReducedStates(events)
<1>1. Len(events) = 1 /\ DOMAIN events = {1} /\ events[1] = e /\ 1 \in 1..1 /\ 1 - 1 = 0
  OBVIOUS
<1> HIDE DEF events
<1>2. /\ after[0] = coord
      /\ \A i \in 1..1 : after[i] = Reducer!Reduce(after[i - 1], events[i])
  BY <1>1, Reduced
<1> HIDE DEF after
<1>3. after[1] = Reducer!Reduce(coord, e)
  BY <1>1, <1>2
<1>4. Missions!SettlesSource(after[1], e)
  BY DEF Missions!SettlesSource
<1>5. Missions!SettledBy(after[1], e) = {d}
  BY DEF Missions!SettledBy
<1>6. Missions!Coordinator!Accepts(after[0], e)
  BY <1>2, SameReduce
<1>7. \A i \in DOMAIN events :
         /\ Missions!Coordinator!Accepts(after[i - 1], events[i])
         /\ Missions!SettlesSource(after[i], events[i]) = (i = Len(events))
         /\ i = Len(events) => events[i].delivery \in Missions!SettledBy(after[i], events[i])
  <2> TAKE i \in DOMAIN events
  <2>1. i = 1 /\ i - 1 = 0 /\ events[i] = e /\ Len(events) = 1
    BY <1>1
  <2>2. Missions!SettlesSource(after[i], events[i]) = TRUE
    BY <1>4, <2>1, Zenon DEF Missions!SettlesSource
  <2>3. (i = Len(events)) = TRUE
    BY <2>1
  <2> QED
    BY <1>5, <1>6, <2>1, <2>2, <2>3
<1>8. Missions!Publishable(events)
  BY <1>7, Zenon DEF Missions!Publishable, after
<1> QED
  BY <1>2, <1>3, <1>5, <1>8 DEF events, after

\* An item of a sequence.
LEMMA ItemIn ==
    ASSUME NEW T, NEW s \in Seq(T), NEW i \in DOMAIN s
    PROVE  s[i] \in T
OBVIOUS

\* The targets of one event.
LEMMA TargetLists ==
    ASSUME NEW previous, NEW next, NEW e, First # Second
    PROVE  LET targets == Missions!DeliveryTargets(previous, next, e) IN
           /\ /\ e.type = "turn_completed" => e.kind # "propose_contract"
              /\ next.status = "active" /\ next.pending = 0 /\ next.current # "none"
              => Lists(targets, Awaited(next))
           /\ /\ e.type = "turn_completed" /\ e.kind = "propose_contract"
              /\ next.status = "active" /\ next.pending # 0 /\ next.acks = {}
              => Lists(targets, Awaited(next))
           /\ /\ e.type = "turn_completed" => e.kind # "propose_contract"
              /\ previous.status # "verifying" /\ next.status = "verifying"
              /\ \A p \in Reducer!Participants :
                    ~Reducer!AllParticipantCommandsRecorded(next.records, p)
              => Lists(targets, Awaited(next))
           /\ /\ next.status \notin {"active", "verifying"} /\ next.pending = 0
              => Lists(targets, Awaited(next)) /\ targets = <<>>
           /\ /\ e.type # "turn_completed" /\ next.status = "active" /\ next.current = "none"
              => targets = <<>>
<1> DEFINE targets == Missions!DeliveryTargets(previous, next, e)
           turn == Item(next.current, "turn", next.version, 0)
           ack(p) == Item(p, "contract_acknowledgement", next.pending, 0)
           proof(p) == Item(p, "verification", next.version, next.round)
<1>1. targets = IF e.type = "turn_completed" /\ e.kind = "propose_contract"
                THEN IF next.pending = 0 THEN <<>> ELSE <<ack(First), ack(Second)>>
                ELSE IF previous.status # "verifying" /\ next.status = "verifying"
                THEN <<proof(First), proof(Second)>>
                ELSE IF next.status = "active" /\ next.current # "none" THEN <<turn>> ELSE <<>>
  BY Zenon DEF Missions!DeliveryTargets, Item
<1>2. ack(First) # ack(Second) /\ proof(First) # proof(Second)
  BY ItemFields
<1>3. Reducer!Participants = {First, Second}
  BY DEF Reducer!Participants
<1> HIDE DEF targets, turn
<1>4. ASSUME e.type = "turn_completed" => e.kind # "propose_contract",
             next.status = "active", next.pending = 0, next.current # "none"
      PROVE  Lists(targets, Awaited(next))
  <2>1. targets = <<turn>> /\ Awaited(next) = {turn}
    BY <1>1, <1>4, AwaitedIn DEF turn
  <2> QED
    BY <2>1, ListsOne
<1>5. ASSUME e.type = "turn_completed", e.kind = "propose_contract",
             next.status = "active", next.pending # 0, next.acks = {}
      PROVE  Lists(targets, Awaited(next))
  <2>1. targets = <<ack(First), ack(Second)>>
    BY <1>1, <1>5
  <2>2. Awaited(next) = {ack(p) : p \in {First, Second} \ {}}
    BY <1>3, <1>5, AwaitedIn
  <2> HIDE DEF ack
  <2>3. Awaited(next) = {ack(First), ack(Second)}
    BY <2>2
  <2> QED
    BY <1>2, <2>1, <2>3, ListsTwo DEF ack
<1>6. ASSUME e.type = "turn_completed" => e.kind # "propose_contract",
             previous.status # "verifying", next.status = "verifying",
             \A p \in Reducer!Participants :
                ~Reducer!AllParticipantCommandsRecorded(next.records, p)
      PROVE  Lists(targets, Awaited(next))
  <2>1. targets = <<proof(First), proof(Second)>>
    BY <1>1, <1>6
  <2>2. {q \in Reducer!Participants :
            ~Reducer!AllParticipantCommandsRecorded(next.records, q)} = {First, Second}
    BY <1>3, <1>6
  <2>3. Awaited(next) = {proof(p) : p \in {First, Second}}
    BY <1>6, <2>2, AwaitedIn
  <2> HIDE DEF proof
  <2>4. Awaited(next) = {proof(First), proof(Second)}
    BY <2>3
  <2> QED
    BY <1>2, <2>1, <2>4, ListsTwo DEF proof
<1>7. ASSUME next.status \notin {"active", "verifying"}, next.pending = 0
      PROVE  Lists(targets, Awaited(next)) /\ targets = <<>>
  <2>1. targets = <<>> /\ Awaited(next) = {}
    BY <1>1, <1>7, AwaitedIn
  <2> QED
    BY <2>1, ListsNone
<1>8. ASSUME e.type # "turn_completed", next.status = "active", next.current = "none"
      PROVE  targets = <<>>
  BY <1>1, <1>8
<1> QED
  BY <1>4, <1>5, <1>6, <1>7, <1>8 DEF targets

\* The parts of Answered that only look at the log and the records.
LEMMA OneLogged ==
    ASSUME Composed, ReducerInv(coord), NEW d, NEW e \in Reducer!Event, e.delivery = d,
           Reducer!Accepts(coord, e), TurnsIn(coord, Filed(rows)), Derived(coord)
    PROVE  LET t == Reducer!Reduce(coord, e) IN
           TurnsIn(t, Filed(rows) \cup {d}) /\ Derived(t)
<1> DEFINE t == Reducer!Reduce(coord, e)
<1>1. t.applied = Append(coord.applied, e)
  BY Logs DEF Composed
<1>2. coord.applied \in Seq(Reducer!Event)
  BY DEF ReducerInv, Reducer!State
<1>3. t = Reducer!Reduce(coord, e)
  OBVIOUS
<1> HIDE DEF t
<1>4. Derived(t)
  BY <1>1, <1>2, <1>3, DerivedStep
<1>5. TurnsIn(t, Filed(rows) \cup {d})
  BY <1>1, <1>2, TurnsStep
<1> QED
  BY <1>4, <1>5 DEF t

\* Where there are no records, nobody has started.
LEMMA WholeEmpty ==
    ASSUME NEW t, t.status # "verifying" \/ t.records = {}
    PROVE  Whole(t)
BY DEF Whole, Reducer!RecordsOf

\* Nobody has recorded everything before recording anything.
LEMMA NothingRecorded ==
    ASSUME Reducer!Configured, NEW p \in Reducer!Participants
    PROVE  ~Reducer!AllParticipantCommandsRecorded({}, p)
<1>1. Reducer!RecordsOf({}, p) = {}
  BY DEF Reducer!RecordsOf
<1>2. Commands[p] # {}
  BY DEF Reducer!Configured
<1> QED
  BY <1>1, <1>2 DEF Reducer!AllParticipantCommandsRecorded

\* The only row that is open when one part of the work is awaited.
LEMMA OnlyOpen ==
    ASSUME NEW rs, NEW s, Asked(rs, s), NEW d \in OpenRows(rs), NEW x, Awaited(s) = {x}
    PROVE  OpenRows(rs) = {d}
BY DEF Asked

\* The result of a turn.
LEMMA TurnAnswered ==
    ASSUME Composed, RowInv, ReducerInv(coord), Matched, NEW d \in OpenRows(rows),
           NEW result \in Missions!Results(d), rows[d].work.kind = "turn"
    PROVE  LET events == Missions!CompletionEvents(d, result)
               after == Missions!ReducedStates(events) IN
           /\ Missions!Publishable(events) /\ Len(events) = 1
           /\ Answered(d, after[1], Missions!SettledBy(after[1], events[1]),
                       Missions!DeliveryTargets(after[0], after[1], events[1]))
<1> DEFINE p == rows[d].node
           w == rows[d].work
           e == [type |-> "turn_completed", by |-> p, delivery |-> d, version |-> w.version,
                 kind |-> result]
           events == Missions!CompletionEvents(d, result)
           t == Reducer!Reduce(coord, e)
           targets == Missions!DeliveryTargets(coord, t, e)
<1>0. Reducer!Configured /\ First # Second
  BY Roles DEF Composed
<1>1. events = <<e>>
  BY DEF Missions!CompletionEvents
<1>2. d \in Deliveries /\ rows[d].settled = 0 /\ d \notin Filed(rows)
  BY DEF OpenRows, Deliveries, Filed
<1>3. events \in Seq(Reducer!Event) /\ DOMAIN events = {1} /\ events[1] = e
  BY <1>1, <1>2, EventsOK
<1>5. /\ e.type = "turn_completed" /\ e.by = p /\ e.delivery = d /\ e.version = w.version
      /\ e.kind = result
  OBVIOUS
<1>6. ItemOf(rows[d]) \in Awaited(coord)
  BY DEF Matched, Asked
<1>7. /\ coord.status = "active" /\ coord.pending = 0
      /\ p = coord.current /\ w.version = coord.version
  BY <1>6, Due
<1> HIDE DEF e, events
<1>4. e \in Reducer!Event
  <2>1. 1 \in DOMAIN events
    BY <1>3
  <2>2. events[1] \in Reducer!Event
    BY <1>3, <2>1, ItemIn, Zenon
  <2> QED
    BY <1>3, <2>2
<1>8. Reducer!TurnScheduled(coord, e)
  <2>1. coord.current # Reducer!None /\ coord.turns < MaxTurns
    BY <1>7 DEF ReducerInv, Scheduled
  <2>2. coord.applied \in Seq(Reducer!Event)
    BY DEF ReducerInv, Reducer!State
  <2>3. \A i \in DOMAIN coord.applied :
           coord.applied[i].type = "turn_completed" => coord.applied[i].delivery # d
    BY <1>2, <2>2 DEF Matched, TurnsIn, Turn
  <2> QED
    BY <1>5, <1>7, <2>1, <2>3 DEF Reducer!TurnScheduled
<1>9. Reducer!Accepts(coord, e)
  BY <1>5, <1>8 DEF Reducer!Accepts
<1>10. /\ Missions!Publishable(<<e>>)
       /\ Missions!ReducedStates(<<e>>)[0] = coord
       /\ Missions!ReducedStates(<<e>>)[1] = t
       /\ Missions!SettledBy(t, e) = {d}
  BY <1>4, <1>5, <1>9, OneEvent
<1>11. TurnMoves(coord, t, e)
  BY <1>0, <1>4, <1>5, <1>8, TurnLeads
<1>12. TurnsIn(t, Filed(rows) \cup {d}) /\ Derived(t)
  BY <1>4, <1>5, <1>9, OneLogged DEF Matched
<1>13. OpenRows(rows) \subseteq {d}
  <2>1. Awaited(coord) = {Item(coord.current, "turn", coord.version, 0)}
    BY <1>7, AwaitedIn
  <2> QED
    BY <2>1, OnlyOpen DEF Matched
<1>14. Whole(t)
  BY <1>11, WholeEmpty DEF TurnMoves
<1>15. \A q \in Reducer!Participants :
          Reducer!OtherParticipant(q) # "none" /\ ~Reducer!AllParticipantCommandsRecorded({}, q)
  BY <1>0, Roles, NothingRecorded DEF Reducer!None
<1>16. p \in Reducer!Participants
  BY <1>2, RowItem
<1> HIDE DEF t
<1>17. Lists(targets, Awaited(t))
  <2>1. CASE e.kind # "propose_contract" /\ t.status = "active" /\ t.pending = 0
             /\ t.current = Reducer!OtherParticipant(e.by)
    BY <1>0, <1>5, <1>15, <1>16, <2>1, TargetLists
  <2>2. CASE e.kind = "propose_contract" /\ t.status = "active" /\ t.pending = coord.version + 1
             /\ t.acks = {}
    <3>1. t.pending # 0
      BY <2>2 DEF ReducerInv, Reducer!State
    <3> QED
      BY <1>0, <1>5, <2>2, <3>1, TargetLists
  <2>3. CASE e.kind = "ready" /\ t.status = "verifying" /\ t.records = {}
    BY <1>0, <1>5, <1>7, <1>15, <2>3, TargetLists
  <2>4. CASE t.status = "failed" /\ t.pending = 0
    BY <1>0, <2>4, TargetLists
  <2> QED
    BY <1>11, <2>1, <2>2, <2>3, <2>4 DEF TurnMoves
<1>18. Answered(d, t, {d}, targets)
  BY <1>12, <1>13, <1>14, <1>17 DEF Answered
<1> QED
  BY <1>1, <1>3, <1>10, <1>18, Zenon DEF events

\* The result of an acknowledgement.
LEMMA AckAnswered ==
    ASSUME Composed, RowInv, ReducerInv(coord), Matched, NEW d \in OpenRows(rows),
           NEW result \in Missions!Results(d), rows[d].work.kind = "contract_acknowledgement"
    PROVE  LET events == Missions!CompletionEvents(d, result)
               after == Missions!ReducedStates(events) IN
           /\ Missions!Publishable(events) /\ Len(events) = 1
           /\ Answered(d, after[1], Missions!SettledBy(after[1], events[1]),
                       Missions!DeliveryTargets(after[0], after[1], events[1]))
<1> DEFINE p == rows[d].node
           w == rows[d].work
           e == [type |-> "contract_acknowledged", by |-> p, delivery |-> d, version |-> w.version]
           events == Missions!CompletionEvents(d, result)
           t == Reducer!Reduce(coord, e)
           targets == Missions!DeliveryTargets(coord, t, e)
           ack(q) == Item(q, "contract_acknowledgement", coord.pending, 0)
<1>0. Reducer!Configured /\ First # Second
  BY Roles DEF Composed
<1>1. events = <<e>>
  BY DEF Missions!CompletionEvents
<1>2. d \in Deliveries
  BY DEF OpenRows, Deliveries
<1>3. events \in Seq(Reducer!Event) /\ DOMAIN events = {1} /\ events[1] = e
  BY <1>1, <1>2, EventsOK
<1>5. e.type = "contract_acknowledged" /\ e.by = p /\ e.delivery = d /\ e.version = w.version
  OBVIOUS
<1>6. ItemOf(rows[d]) \in Awaited(coord)
  BY DEF Matched, Asked
<1>7. /\ coord.status = "active" /\ coord.pending # 0
      /\ p \in Reducer!Participants \ coord.acks /\ w.version = coord.pending
  BY <1>6, Due
<1> HIDE DEF e, events
<1>4. e \in Reducer!Event
  <2>1. 1 \in DOMAIN events
    BY <1>3
  <2>2. events[1] \in Reducer!Event
    BY <1>3, <2>1, ItemIn, Zenon
  <2> QED
    BY <1>3, <2>2
<1>8. Reducer!AcknowledgementDue(coord, e)
  <2>1. coord.current = Reducer!None
    BY <1>7 DEF ReducerInv, Scheduled
  <2> QED
    BY <1>5, <1>7, <2>1 DEF Reducer!AcknowledgementDue
<1>9. Reducer!Accepts(coord, e)
  BY <1>5, <1>8 DEF Reducer!Accepts
<1>10. /\ Missions!Publishable(<<e>>)
       /\ Missions!ReducedStates(<<e>>)[0] = coord
       /\ Missions!ReducedStates(<<e>>)[1] = t
       /\ Missions!SettledBy(t, e) = {d}
  BY <1>4, <1>5, <1>9, OneEvent
<1>11. /\ t.status = "active"
       /\ \/ /\ coord.acks \cup {p} # Reducer!Participants
             /\ t.pending = coord.pending /\ t.acks = coord.acks \cup {p} /\ t.current = Reducer!None
          \/ /\ coord.acks \cup {p} = Reducer!Participants
             /\ t.pending = 0 /\ t.current = Reducer!OtherParticipant(coord.proposer)
  BY <1>0, <1>4, <1>5, <1>8, AckLeads
<1>12. TurnsIn(t, Filed(rows) \cup {d}) /\ Derived(t)
  BY <1>4, <1>5, <1>9, OneLogged DEF Matched
<1>13. Awaited(coord) = {ack(q) : q \in Reducer!Participants \ coord.acks}
  BY <1>7, AwaitedIn
<1>14. Whole(t)
  BY <1>11, WholeEmpty
<1>15. ItemOf(rows[d]) = ack(p)
  <2>1. PICK q \in Reducer!Participants \ coord.acks : ItemOf(rows[d]) = ack(q)
    BY <1>6, <1>13
  <2>2. ItemOf(rows[d]).node = p /\ ack(q).node = q
    BY DEF ItemOf, Item
  <2> QED
    BY <2>1, <2>2
<1>16. \A q, r : ack(q) = ack(r) => q = r
  BY ItemFields
<1> HIDE DEF t
<1>17. CASE coord.acks \cup {p} # Reducer!Participants
  <2>1. /\ t.pending = coord.pending /\ t.acks = coord.acks \cup {p} /\ t.current = "none"
    BY <1>11, <1>17 DEF Reducer!None
  <2>2. targets = <<>>
    BY <1>0, <1>5, <1>11, <2>1, TargetLists
  <2>3. Awaited(t) = {ack(q) : q \in Reducer!Participants \ (coord.acks \cup {p})}
    BY <1>7, <1>11, <2>1, AwaitedIn
  <2> HIDE DEF ack
  <2>4. Awaited(t) = Awaited(coord) \ {ack(p)}
    BY <1>13, <1>16, <2>3
  <2>5. Answered(d, t, {d}, targets)
    BY <1>12, <1>14, <1>15, <2>2, <2>4 DEF Answered
  <2> QED
    BY <1>1, <1>3, <1>10, <2>5, Zenon DEF events
<1>18. CASE coord.acks \cup {p} = Reducer!Participants
  <2>1. /\ t.pending = 0 /\ t.current = Reducer!OtherParticipant(coord.proposer)
        /\ coord.proposer \in Reducer!Participants
    BY <1>11, <1>18 DEF ReducerInv, Reducer!State
  <2>2. t.current # "none"
    BY <1>0, <2>1, Roles DEF Reducer!None
  <2>3. Lists(targets, Awaited(t))
    BY <1>0, <1>5, <1>11, <2>1, <2>2, TargetLists
  <2>4. Reducer!Participants \ coord.acks = {p}
    BY <1>7, <1>18
  <2>5. Awaited(coord) = {ack(p)}
    BY <1>13, <2>4
  <2>6. OpenRows(rows) \subseteq {d}
    BY <2>5, OnlyOpen DEF Matched
  <2>7. Answered(d, t, {d}, targets)
    BY <1>12, <1>14, <2>3, <2>6 DEF Answered
  <2> QED
    BY <1>1, <1>3, <1>10, <2>7, Zenon DEF events
<1> QED
  BY <1>17, <1>18

-----------------------------------------------------------------------------
(* Verification *)

\* The commands of a participant are listed once each.
LEMMA ListedOnce ==
    ASSUME NEW S, IsFiniteSet(S), S # {}
    PROVE  \E n \in Nat \ {0} :
              /\ Missions!SetToSeq(S) \in [1..n -> S]
              /\ \A i, j \in 1..n : Missions!SetToSeq(S)[i] = Missions!SetToSeq(S)[j] => i = j
              /\ \A c \in S : \E i \in 1..n : Missions!SetToSeq(S)[i] = c
<1> DEFINE n == Cardinality(S)
           order == Missions!SetToSeq(S)
<1>1. Missions!Cardinality(S) = n
  BY Zenon DEF Missions!Cardinality, Cardinality, Missions!IsFiniteSet, IsFiniteSet
<1>2. n \in Nat /\ n # 0 /\ ExistsBijection(1..n, S)
  BY FS_CardinalityType, FS_EmptySet
<1>3. \E f \in [1..n -> S] : Missions!IsInjective(f)
  <2>1. PICK f : f \in Bijection(1..n, S)
    BY <1>2, Zenon DEF ExistsBijection
  <2>2. f \in [1..n -> S] /\ IsInjective(f)
    BY <2>1, Zenon DEF Bijection, Injection
  <2> QED
    BY <2>2, Zenon DEF IsInjective, Missions!IsInjective
<1>4. order \in [1..n -> S] /\ Missions!IsInjective(order)
  BY <1>1, <1>3, Zenon DEF Missions!SetToSeq
<1> HIDE DEF order
<1>5. IsInjective(order)
  BY <1>4, Zenon DEF IsInjective, Missions!IsInjective
<1>6. order \in Injection(1..n, S)
  BY <1>4, <1>5, Zenon DEF Injection
<1>7. Cardinality(1..n) = n
  <2>1. n = n - 1 + 1 /\ 1 <= n /\ n \in Int /\ 1 \in Int
    BY <1>2
  <2> HIDE DEF n
  <2>2. Cardinality(1..n) = n - 1 + 1
    BY <2>1, FS_Interval
  <2> QED
    BY <2>1, <2>2
<1>8. order \in Surjection(1..n, S)
  BY <1>6, <1>7, FS_Injection
<1> HIDE DEF n
<1>9. \A c \in S : \E i \in 1..n : order[i] = c
  BY <1>8, Zenon DEF Surjection
<1>10. \A i, j \in 1..n : order[i] = order[j] => i = j
  BY <1>4, <1>5, Zenon DEF IsInjective
<1> QED
  BY <1>2, <1>4, <1>9, <1>10, Zenon DEF order

\* The evidence after i of its pieces.
Recorded(records, rec, i) == records \cup {rec[j] : j \in 1..i}

\* The pieces of a participant who has none recorded: one of each command.
Pieces(records, p, n, order, rec) ==
    /\ Reducer!RecordsOf(records, p) = {} /\ n \in Nat \ {0}
    /\ order \in [1..n -> Commands[p]]
    /\ \A i, j \in 1..n : order[i] = order[j] => i = j
    /\ \A c \in Commands[p] : \E i \in 1..n : order[i] = c
    /\ \A i \in 1..n : rec[i].by = p /\ rec[i].command = order[i]

\* A participant's evidence is whole with its last piece only.
LEMMA Recording ==
    ASSUME NEW records, NEW p, NEW n, NEW order, NEW rec, Pieces(records, p, n, order, rec)
    PROVE  /\ Recorded(records, rec, 0) = records
           /\ \A i \in 0..n :
                 /\ Reducer!RecordsOf(Recorded(records, rec, i), p) = {rec[j] : j \in 1..i}
                 /\ \A q : q # p => Reducer!RecordsOf(Recorded(records, rec, i), q)
                                       = Reducer!RecordsOf(records, q)
           /\ \A i \in 0..(n - 1) :
                 /\ Recorded(records, rec, i + 1) = Recorded(records, rec, i) \cup {rec[i + 1]}
                 /\ \A r \in Reducer!RecordsOf(Recorded(records, rec, i), p) :
                       r.command # order[i + 1] /\ r.command # order[n]
                 /\ ~Reducer!AllParticipantCommandsRecorded(Recorded(records, rec, i), p)
           /\ Reducer!AllParticipantCommandsRecorded(Recorded(records, rec, n), p)
<1> DEFINE Of(i) == Reducer!RecordsOf(Recorded(records, rec, i), p)
<1>0. /\ Reducer!RecordsOf(records, p) = {} /\ n \in Nat \ {0}
      /\ order \in [1..n -> Commands[p]]
      /\ \A i, j \in 1..n : order[i] = order[j] => i = j
      /\ \A c \in Commands[p] : \E i \in 1..n : order[i] = c
      /\ \A i \in 1..n : rec[i].by = p /\ rec[i].command = order[i]
  BY Zenon DEF Pieces
<1>1. Recorded(records, rec, 0) = records
  <2>1. {rec[j] : j \in 1..0} = {}
    OBVIOUS
  <2> QED
    BY <2>1 DEF Recorded
<1>2. ASSUME NEW i \in 0..n
      PROVE  /\ Of(i) = {rec[j] : j \in 1..i}
             /\ \A q : q # p => Reducer!RecordsOf(Recorded(records, rec, i), q)
                                   = Reducer!RecordsOf(records, q)
  <2>1. \A j \in 1..i : j \in 1..n
    BY <1>0
  <2>2. \A j \in 1..i : rec[j].by = p
    BY <1>0, <2>1
  <2> QED
    BY <1>0, <2>2 DEF Recorded, Reducer!RecordsOf
<1> HIDE DEF Of
<1>3. ASSUME NEW i \in 0..(n - 1)
      PROVE  /\ Recorded(records, rec, i + 1) = Recorded(records, rec, i) \cup {rec[i + 1]}
             /\ \A r \in Of(i) : r.command # order[i + 1] /\ r.command # order[n]
             /\ ~Reducer!AllParticipantCommandsRecorded(Recorded(records, rec, i), p)
  <2>1. /\ i \in 0..n /\ i + 1 \in 1..n /\ n \in 1..n
        /\ \A j \in 1..i : j \in 1..n /\ j # i + 1 /\ j # n
        /\ 1..(i + 1) = (1..i) \cup {i + 1}
    BY <1>0
  <2>2. Recorded(records, rec, i + 1) = Recorded(records, rec, i) \cup {rec[i + 1]}
    <3>1. {rec[j] : j \in 1..(i + 1)} = {rec[j] : j \in 1..i} \cup {rec[i + 1]}
      BY <2>1
    <3> QED
      BY <3>1 DEF Recorded
  <2>3. ASSUME NEW r \in Of(i)
        PROVE  r.command # order[i + 1] /\ r.command # order[n]
    <3>1. PICK j \in 1..i : r = rec[j]
      BY <1>2, <2>1
    <3>2. r.command = order[j] /\ j \in 1..n /\ j # i + 1 /\ j # n
      BY <1>0, <2>1, <3>1
    <3> QED
      BY <1>0, <2>1, <3>2
  <2>4. order[n] \in Commands[p]
    BY <1>0, <2>1
  <2>5. order[n] \notin {r.command : r \in Of(i)}
    BY <2>3
  <2> QED
    BY <2>2, <2>3, <2>4, <2>5, Zenon DEF Reducer!AllParticipantCommandsRecorded, Of
<1>4. {r.command : r \in Of(n)} = Commands[p]
  <2>1. n \in 0..n
    BY <1>0
  <2>2. Of(n) = {rec[j] : j \in 1..n}
    BY <1>2, <2>1
  <2>3. \A j \in 1..n : rec[j].command = order[j] /\ order[j] \in Commands[p]
    BY <1>0
  <2>4. \A r \in Of(n) : r.command \in Commands[p]
    BY <2>2, <2>3
  <2>5. \A c \in Commands[p] : \E r \in Of(n) : r.command = c
    BY <1>0, <2>2, <2>3
  <2> QED
    BY <2>4, <2>5
<1> QED
  BY <1>1, <1>2, <1>3, <1>4, Zenon DEF Reducer!AllParticipantCommandsRecorded, Of

\* The coordinator while a participant's evidence comes in: i pieces are recorded,
\* and the verification stays open for the rest.
Collecting(s, c, records, D) ==
    /\ ReducerInv(s) /\ s.status = "verifying" /\ s.version = c.version /\ s.round = c.round
    /\ s.records = records /\ TurnsIn(s, D) /\ Derived(s)

\* One piece of evidence, of d's participant.
LEMMA PieceTaken ==
    ASSUME Reducer!Configured, NEW s, NEW records, NEW D, Collecting(s, coord, records, D),
           NEW e \in Reducer!Event, e.type = "verification_recorded",
           e.version = coord.version, e.round = coord.round, e.command \in Commands[e.by],
           \A r \in Reducer!RecordsOf(records, e.by) : r.command # e.command
    PROVE  /\ Reducer!VerificationDue(s, e) /\ Reducer!Accepts(s, e)
           /\ ReducerInv(Reducer!Reduce(s, e))
           /\ TurnsIn(Reducer!Reduce(s, e), D) /\ Derived(Reducer!Reduce(s, e))
<1>1. s.current = Reducer!None /\ s.pending = 0 /\ s.applied \in Seq(Reducer!Event)
  BY DEF Collecting, ReducerInv, Scheduled, Reducer!State
<1>2. Reducer!VerificationDue(s, e)
  BY <1>1 DEF Reducer!VerificationDue, Collecting
<1>3. Reducer!Accepts(s, e)
  BY <1>2 DEF Reducer!Accepts
<1>4. ReducerInv(s) /\ TurnsIn(s, D) /\ Derived(s)
  BY DEF Collecting
<1>5. Reducer!Reduce(s, e).applied = Append(s.applied, e)
  BY <1>3, <1>4, Logs
<1>6. ReducerInv(Reducer!Reduce(s, e))
  BY <1>3, <1>4, ReduceKeeps
<1>7. Derived(Reducer!Reduce(s, e))
  BY <1>1, <1>4, <1>5, DerivedStep
<1>8. TurnsIn(Reducer!Reduce(s, e), D)
  BY <1>1, <1>4, <1>5, TurnsStep
<1> QED
  BY <1>2, <1>3, <1>6, <1>7, <1>8

\* A piece that is not the last one leaves the verification open.
LEMMA PieceKept ==
    ASSUME Reducer!Configured, NEW s, NEW records, NEW D, Collecting(s, coord, records, D),
           NEW e \in Reducer!Event, e.type = "verification_recorded",
           e.version = coord.version, e.round = coord.round, e.command \in Commands[e.by],
           \A r \in Reducer!RecordsOf(records, e.by) : r.command # e.command,
           NEW more, more = records \cup {RecordOf(e)},
           NEW c \in Commands[e.by], \A r \in Reducer!RecordsOf(more, e.by) : r.command # c
    PROVE  /\ Collecting(Reducer!Reduce(s, e), coord, more, D)
           /\ ~Missions!SettlesSource(Reducer!Reduce(s, e), e)
<1> DEFINE t == Reducer!Reduce(s, e)
<1>1. /\ Reducer!VerificationDue(s, e) /\ ReducerInv(t) /\ TurnsIn(t, D) /\ Derived(t)
  BY PieceTaken
<1>2. ReducerInv(s) /\ s.records = records /\ s.version = coord.version /\ s.round = coord.round
  BY DEF Collecting
<1>3. ~Failing(more, e.by)
  <2>1. c \notin {r.command : r \in Reducer!RecordsOf(more, e.by)}
    OBVIOUS
  <2>2. ~Reducer!AllParticipantCommandsRecorded(more, e.by)
    BY <2>1, Zenon DEF Reducer!AllParticipantCommandsRecorded
  <2> QED
    BY <2>2 DEF Failing
<1>4. e.by \in Reducer!Participants
  BY EventShape
<1>5. ~Reducer!AllRequiredCommandsPassed(s, more)
  <2>1. ASSUME NEW r \in more, r.by = e.by
        PROVE  r.command # c
    BY <2>1 DEF Reducer!RecordsOf
  <2>2. [by |-> e.by, version |-> s.version, round |-> s.round, command |-> c,
         outcome |-> "passed"] \notin more
    BY <2>1
  <2> QED
    BY <1>4, <2>2 DEF Reducer!AllRequiredCommandsPassed
<1>6. /\ t.status = "verifying" /\ t.version = s.version /\ t.round = s.round
      /\ t.records = more
  BY <1>1, <1>2, <1>3, <1>5, EvidenceLeads
<1> HIDE DEF t
<1>7. Collecting(t, coord, more, D)
  BY <1>1, <1>2, <1>6 DEF Collecting
<1>8. ~Missions!SettlesSource(t, e)
  <2>1. ~ \E r \in t.records : r.by = e.by /\ r.command = c /\ r.outcome = "passed"
    BY <1>6 DEF Reducer!RecordsOf
  <2> QED
    BY <1>6, <2>1 DEF Missions!SettlesSource
<1> QED
  BY <1>7, <1>8 DEF t

\* The commands of a set of records.
LEMMA CommandsOf ==
    ASSUME NEW R, NEW C
    PROVE  {r.command : r \in R} = C
              <=> (\A r \in R : r.command \in C) /\ (\A c \in C : \E r \in R : r.command = c)
OBVIOUS

\* What the last piece of evidence of d's participant leads to.
LEMMA LastPiece ==
    ASSUME Composed, RowInv, ReducerInv(coord), Matched, NEW d \in OpenRows(rows),
           rows[d].work.kind = "verification",
           NEW s, NEW records, NEW e \in Reducer!Event,
           Collecting(s, coord, records, Filed(rows) \cup {d}),
           e.type = "verification_recorded", e.by = rows[d].node, e.delivery = d,
           e.version = coord.version, e.round = coord.round, e.command \in Commands[e.by],
           \A r \in Reducer!RecordsOf(records, e.by) : r.command # e.command,
           NEW all, all = records \cup {RecordOf(e)},
           Reducer!AllParticipantCommandsRecorded(all, e.by),
           \A q : q # e.by => Reducer!RecordsOf(all, q) = Reducer!RecordsOf(coord.records, q)
    PROVE  LET t == Reducer!Reduce(s, e)
               settles == Missions!SettledBy(t, e) IN
           /\ Reducer!Accepts(s, e) /\ Missions!SettlesSource(t, e) /\ d \in settles
           /\ Answered(d, t, settles, Missions!DeliveryTargets(s, t, e))
<1> DEFINE t == Reducer!Reduce(s, e)
           p == rows[d].node
           settles == Missions!SettledBy(t, e)
           targets == Missions!DeliveryTargets(s, t, e)
           D == Filed(rows) \cup {d}
           proof(q) == Item(q, "verification", coord.version, coord.round)
           Open(x) == {q \in Reducer!Participants :
                         ~Reducer!AllParticipantCommandsRecorded(x, q)}
<1>0. Reducer!Configured /\ First # Second
  BY Roles DEF Composed
<1>1. /\ Reducer!VerificationDue(s, e) /\ Reducer!Accepts(s, e) /\ ReducerInv(t)
      /\ TurnsIn(t, D) /\ Derived(t)
  BY <1>0, PieceTaken
<1>2. /\ ReducerInv(s) /\ s.status = "verifying" /\ s.records = records
      /\ s.version = coord.version /\ s.round = coord.round
  BY DEF Collecting
<1>3. /\ t.pending = 0
      /\ \/ Failing(all, e.by) /\ t.status = "active" /\ t.current = e.by
         \/ Failing(all, e.by) /\ t.status = "failed"
         \/ /\ ~Failing(all, e.by)
            /\ t.status = IF Reducer!AllRequiredCommandsPassed(s, all) THEN "completed"
                          ELSE "verifying"
            /\ t.version = s.version /\ t.round = s.round /\ t.records = all
            /\ t.current = Reducer!None
  BY <1>0, <1>1, <1>2, EvidenceLeads, ZenonT(60)
<1>4. /\ d \in Deliveries /\ rows[d].settled = 0 /\ p \in Reducer!Participants
      /\ ItemOf(rows[d]) \in Awaited(coord)
  <2>1. d \in Deliveries /\ rows[d].settled = 0
    BY DEF OpenRows, Deliveries
  <2> QED
    BY <2>1, RowItem DEF Matched, Asked
<1>5. coord.status = "verifying" /\ p \in Open(coord.records)
  BY <1>4, Due
<1>6. Awaited(coord) = {proof(q) : q \in Open(coord.records)}
  BY <1>5, AwaitedIn
<1>7. \A x \in OpenRows(rows) :
         /\ x \in DOMAIN rows /\ rows[x].settled = 0
         /\ rows[x].work = [kind |-> "verification", version |-> e.version, round |-> e.round]
  <2> TAKE x \in OpenRows(rows)
  <2>1. x \in DOMAIN rows /\ rows[x].settled = 0 /\ ItemOf(rows[x]) \in Awaited(coord)
    BY DEF OpenRows, Matched, Asked
  <2>2. PICK q \in Open(coord.records) : ItemOf(rows[x]) = proof(q)
    BY <1>6, <2>1
  <2>3. /\ ItemOf(rows[x]).work = rows[x].work
        /\ proof(q).work = [kind |-> "verification", version |-> coord.version,
                            round |-> coord.round]
    BY DEF ItemOf, Item
  <2> QED
    BY <2>1, <2>2, <2>3
<1>8. ItemOf(rows[d]) = proof(p)
  <2>1. PICK q \in Open(coord.records) : ItemOf(rows[d]) = proof(q)
    BY <1>4, <1>6
  <2>2. ItemOf(rows[d]).node = p /\ proof(q).node = q
    BY DEF ItemOf, Item
  <2> QED
    BY <2>1, <2>2
<1>9. \A q, r : proof(q) = proof(r) => q = r
  BY ItemFields
<1>10. Open(all) = Open(coord.records) \ {p}
  <2>1. \A q : q # p => (Reducer!AllParticipantCommandsRecorded(all, q)
                           <=> Reducer!AllParticipantCommandsRecorded(coord.records, q))
    BY DEF Reducer!AllParticipantCommandsRecorded
  <2> QED
    BY <2>1
<1>11. Failing(all, e.by) => \E r \in Reducer!RecordsOf(all, p) : r.outcome = "failed"
  BY DEF Failing
<1>12. ~Failing(all, e.by) =>
          \A r \in Reducer!RecordsOf(all, p) : r.outcome # "failed"
  BY DEF Failing
<1> HIDE DEF t, Open, proof, D
<1>13. CASE t.status \in {"active", "failed"}
  <2>1. settles = {x \in DOMAIN rows :
                     /\ rows[x].settled = 0
                     /\ rows[x].work = [kind |-> "verification", version |-> e.version,
                                        round |-> e.round]}
    BY <1>13, Zenon DEF Missions!SettledBy
  <2>2. OpenRows(rows) \subseteq settles
    BY <1>7, <2>1
  <2>3. Missions!SettlesSource(t, e)
    BY <1>13 DEF Missions!SettlesSource
  <2>4. Whole(t)
    BY <1>13, WholeEmpty
  <2>5. Lists(targets, Awaited(t))
    <3>1. CASE t.status = "active"
      <4>1. t.current = e.by /\ e.by # "none"
        BY <1>0, <1>3, <1>4, <3>1, Roles DEF Reducer!None
      <4> QED
        BY <1>0, <1>3, <3>1, <4>1, TargetLists
    <3>2. CASE t.status = "failed"
      BY <1>0, <1>3, <3>2, TargetLists
    <3> QED
      BY <1>13, <3>1, <3>2
  <2>6. Answered(d, t, settles, targets)
    BY <1>1, <2>2, <2>4, <2>5 DEF Answered, D
  <2> QED
    BY <1>1, <2>2, <2>3, <2>6 DEF t
<1>14. CASE t.status \in {"completed", "verifying"}
  <2>1. /\ ~Failing(all, e.by) /\ t.version = coord.version /\ t.round = coord.round
        /\ t.records = all
        /\ t.status = IF Reducer!AllRequiredCommandsPassed(s, all) THEN "completed"
                      ELSE "verifying"
    BY <1>2, <1>3, <1>14
  <2>2. settles = {d}
    BY <1>14 DEF Missions!SettledBy
  <2>3. Whole(t)
    <3> SUFFICES ASSUME t.status = "verifying", NEW q \in Reducer!Participants,
                        Reducer!RecordsOf(all, q) # {}
                 PROVE  Reducer!AllParticipantCommandsRecorded(all, q)
      BY <2>1 DEF Whole
    <3>1. CASE q = p
      BY <3>1
    <3>2. CASE q # p
      <4>1. Reducer!RecordsOf(coord.records, q) # {}
        BY <3>2
      <4>2. Reducer!AllParticipantCommandsRecorded(coord.records, q)
        BY <1>5, <4>1 DEF Matched, Whole
      <4> QED
        BY <3>2, <4>2 DEF Reducer!AllParticipantCommandsRecorded
    <3> QED
      BY <3>1, <3>2
  <2>4. Awaited(t) = Awaited(coord) \ {ItemOf(rows[d])}
    <3>1. {proof(q) : q \in Open(coord.records) \ {p}} = {proof(q) : q \in Open(coord.records)} \ {proof(p)}
      BY <1>9
    <3>2. CASE t.status = "verifying"
      <4>0. Awaited(t) = {Item(q, "verification", t.version, t.round) :
                             q \in {x \in Reducer!Participants :
                                ~Reducer!AllParticipantCommandsRecorded(t.records, x)}}
        BY <3>2, AwaitedIn
      <4>1. Awaited(t) = {proof(q) : q \in Open(all)}
        BY <2>1, <4>0, Zenon DEF proof, Open
      <4> QED
        BY <1>6, <1>8, <1>10, <3>1, <4>1
    <3>3. CASE t.status = "completed"
      <4>1. Reducer!AllRequiredCommandsPassed(s, all)
        BY <2>1, <3>3
      <4>3. Open(all) = {}
        <5>1. ASSUME NEW q \in Reducer!Participants
              PROVE  Reducer!AllParticipantCommandsRecorded(all, q)
          <6>1. \A r \in all : r.command \in Commands[r.by]
            BY <1>1, <2>1 DEF ReducerInv, Evidence
          <6>2. \A r \in Reducer!RecordsOf(all, q) : r.command \in Commands[q]
            BY <6>1 DEF Reducer!RecordsOf
          <6>3. \A c \in Commands[q] : \E r \in Reducer!RecordsOf(all, q) : r.command = c
            <7> TAKE c \in Commands[q]
            <7> DEFINE r == [by |-> q, version |-> s.version, round |-> s.round, command |-> c,
                             outcome |-> "passed"]
            <7>1. r \in all
              BY <4>1 DEF Reducer!AllRequiredCommandsPassed
            <7>2. r.by = q /\ r.command = c
              OBVIOUS
            <7> HIDE DEF r
            <7>3. r \in Reducer!RecordsOf(all, q)
              BY <7>1, <7>2 DEF Reducer!RecordsOf
            <7> QED
              BY <7>2, <7>3
          <6>4. {r.command : r \in Reducer!RecordsOf(all, q)} = Commands[q]
            <7> DEFINE R == Reducer!RecordsOf(all, q)
            <7>1. (\A r \in R : r.command \in Commands[q])
                     /\ (\A c \in Commands[q] : \E r \in R : r.command = c)
              BY <6>2, <6>3
            <7> HIDE DEF R
            <7>2. {r.command : r \in R} = Commands[q]
              BY <7>1, CommandsOf
            <7> QED
              BY <7>2 DEF R
          <6> QED
            BY <6>4, Zenon DEF Reducer!AllParticipantCommandsRecorded
        <5> QED
          BY <5>1 DEF Open
      <4>4. Awaited(t) = {}
        BY <3>3, AwaitedIn
      <4>5. {proof(q) : q \in Open(coord.records) \ {p}} = {}
        BY <1>10, <4>3
      <4> QED
        BY <1>6, <1>8, <3>1, <4>4, <4>5
    <3> QED
      BY <1>14, <3>2, <3>3
  <2>5. targets = <<>>
    <3>1. CASE t.status = "verifying"
      BY <1>2, <3>1, NoTarget
    <3>2. CASE t.status = "completed"
      BY <1>0, <1>3, <3>2, TargetLists
    <3> QED
      BY <1>14, <3>1, <3>2
  <2>6. Missions!SettlesSource(t, e)
    <3>1. CASE t.status = "completed"
      BY <3>1 DEF Missions!SettlesSource
    <3>2. CASE t.status = "verifying"
      <4>1. \A r \in Reducer!RecordsOf(all, p) : r.outcome \in {"passed", "failed"}
        <5>1. all \subseteq Reducer!VerificationRecord
          BY <1>1, <2>1 DEF ReducerInv, Reducer!State
        <5> QED
          BY <5>1 DEF Reducer!RecordsOf, Reducer!VerificationRecord
      <4>2. \A r \in Reducer!RecordsOf(all, p) : r.outcome = "passed"
        BY <1>12, <2>1, <4>1
      <4>3. RecordOf(e) \in Reducer!RecordsOf(all, p) /\ RecordOf(e).outcome = e.outcome
        BY DEF Reducer!RecordsOf, RecordOf
      <4>4. e.outcome = "passed"
        BY <4>2, <4>3
      <4>5. ASSUME NEW c \in Commands[e.by]
            PROVE  \E r \in t.records : r.by = e.by /\ r.command = c /\ r.outcome = "passed"
        <5>0. {r.command : r \in Reducer!RecordsOf(all, p)} = Commands[p]
          BY Zenon DEF Reducer!AllParticipantCommandsRecorded
        <5>3. \A x \in Commands[p] : \E r \in Reducer!RecordsOf(all, p) : r.command = x
          <6> DEFINE R == Reducer!RecordsOf(all, p)
          <6> HIDE DEF R
          <6>1. {r.command : r \in R} = Commands[p]
            BY <5>0 DEF R
          <6>2. ASSUME NEW x \in Commands[p]
                PROVE  \E r \in R : r.command = x
            <7>1. x \in {r.command : r \in R}
              BY <6>1, Zenon
            <7> QED
              BY <7>1
          <6> QED
            BY <6>2 DEF R
        <5>1. PICK r \in Reducer!RecordsOf(all, p) : r.command = c
          BY <5>3
        <5>2. r \in all /\ r.by = e.by
          BY <5>1 DEF Reducer!RecordsOf
        <5> QED
          BY <2>1, <4>2, <5>1, <5>2
      <4> QED
        BY <3>2, <4>4, <4>5, Zenon DEF Missions!SettlesSource
    <3> QED
      BY <1>14, <3>1, <3>2
  <2>7. Answered(d, t, settles, targets)
    BY <1>1, <2>2, <2>3, <2>4, <2>5 DEF Answered, D
  <2> QED
    BY <1>1, <2>2, <2>6, <2>7 DEF t
<1> QED
  BY <1>3, <1>13, <1>14

\* The result of a verification.
LEMMA VerificationAnswered ==
    ASSUME Composed, RowInv, ReducerInv(coord), Matched, NEW d \in OpenRows(rows),
           NEW result \in Missions!Results(d), rows[d].work.kind = "verification"
    PROVE  LET events == Missions!CompletionEvents(d, result)
               after == Missions!ReducedStates(events)
               n == Len(events) IN
           /\ Missions!Publishable(events)
           /\ Answered(d, after[n], Missions!SettledBy(after[n], events[n]),
                       Missions!DeliveryTargets(after[n - 1], after[n], events[n]))
<1> DEFINE p == rows[d].node
           w == rows[d].work
           order == Missions!SetToSeq(Commands[p])
           events == Missions!CompletionEvents(d, result)
           after == Missions!ReducedStates(events)
           D == Filed(rows) \cup {d}
<1>0. Reducer!Configured
  BY DEF Composed
<1>1. /\ d \in Deliveries /\ p \in Reducer!Participants
      /\ ItemOf(rows[d]) \in Awaited(coord)
  <2>1. d \in Deliveries
    BY DEF OpenRows, Deliveries
  <2> QED
    BY <2>1, RowItem DEF Matched, Asked
<1>2. /\ coord.status = "verifying" /\ w.version = coord.version /\ w.round = coord.round
      /\ ~Reducer!AllParticipantCommandsRecorded(coord.records, p)
  BY <1>1, Due
<1>3. Reducer!RecordsOf(coord.records, p) = {}
  BY <1>1, <1>2 DEF Matched, Whole
<1>4. IsFiniteSet(Commands[p]) /\ Commands[p] # {}
  BY <1>0, <1>1, SameFinite DEF Reducer!Configured
<1>5. PICK n \in Nat \ {0} :
         /\ order \in [1..n -> Commands[p]]
         /\ \A i, j \in 1..n : order[i] = order[j] => i = j
         /\ \A c \in Commands[p] : \E i \in 1..n : order[i] = c
  BY <1>4, ListedOnce
<1>6. events = [i \in 1..n |-> [type |-> "verification_recorded", by |-> p, delivery |-> d,
                                version |-> w.version, round |-> w.round, command |-> order[i],
                                outcome |-> result[order[i]]]]
  <2>1. events = [i \in DOMAIN order |->
                    [type |-> "verification_recorded", by |-> p, delivery |-> d,
                     version |-> w.version, round |-> w.round, command |-> order[i],
                     outcome |-> result[order[i]]]]
    BY DEF Missions!CompletionEvents
  <2> HIDE DEF order, events
  <2> QED
    BY <1>5, <2>1
<1>7. events \in Seq(Reducer!Event)
  BY <1>1, EventsOK
<1> HIDE DEF order, events
<1>8. DOMAIN events = 1..n /\ Len(events) = n
  BY <1>6, <1>7
<1>9. ASSUME NEW i \in 1..n
      PROVE  /\ events[i] \in Reducer!Event /\ events[i].type = "verification_recorded"
             /\ events[i].by = p /\ events[i].delivery = d /\ events[i].version = coord.version
             /\ events[i].round = coord.round /\ events[i].command = order[i]
             /\ order[i] \in Commands[p]
  <2>1. events[i] \in Reducer!Event
    BY <1>7, <1>8, ItemIn
  <2> QED
    BY <1>2, <1>5, <1>6, <2>1
<1> DEFINE rec == [i \in 1..n |-> RecordOf(events[i])]
           records(i) == Recorded(coord.records, rec, i)
<1>10. \A i \in 1..n : rec[i] = RecordOf(events[i]) /\ rec[i].by = p /\ rec[i].command = order[i]
  BY <1>9 DEF RecordOf
<1> HIDE DEF rec
<1>11. /\ records(0) = coord.records
       /\ \A i \in 0..n : \A q : q # p => Reducer!RecordsOf(records(i), q)
                                             = Reducer!RecordsOf(coord.records, q)
       /\ \A i \in 0..(n - 1) :
             /\ records(i + 1) = records(i) \cup {rec[i + 1]}
             /\ \A r \in Reducer!RecordsOf(records(i), p) :
                   r.command # order[i + 1] /\ r.command # order[n]
       /\ Reducer!AllParticipantCommandsRecorded(records(n), p)
  <2>1. \A i \in 1..n : rec[i].by = p /\ rec[i].command = order[i]
    BY <1>10
  <2>2. /\ Recorded(coord.records, rec, 0) = coord.records
        /\ \A i \in 0..n :
              /\ Reducer!RecordsOf(Recorded(coord.records, rec, i), p) = {rec[j] : j \in 1..i}
              /\ \A q : q # p => Reducer!RecordsOf(Recorded(coord.records, rec, i), q)
                                    = Reducer!RecordsOf(coord.records, q)
        /\ \A i \in 0..(n - 1) :
              /\ Recorded(coord.records, rec, i + 1) = Recorded(coord.records, rec, i) \cup {rec[i + 1]}
              /\ \A r \in Reducer!RecordsOf(Recorded(coord.records, rec, i), p) :
                    r.command # order[i + 1] /\ r.command # order[n]
              /\ ~Reducer!AllParticipantCommandsRecorded(Recorded(coord.records, rec, i), p)
        /\ Reducer!AllParticipantCommandsRecorded(Recorded(coord.records, rec, n), p)
    <3>1. Pieces(coord.records, p, n, order, rec)
      BY <1>3, <1>5, <2>1, Zenon DEF Pieces
    <3> QED
      BY <3>1, Recording, Zenon
  <2> QED
    BY <2>2, Zenon
<1>12. /\ after[0] = coord
       /\ \A i \in 1..n : after[i] = Reducer!Reduce(after[i - 1], events[i])
  BY <1>8, Reduced
<1> HIDE DEF after, records
<1> DEFINE Good(i) == Collecting(after[i], coord, records(i), D)
<1>13. Good(0)
  <2>1. TurnsIn(coord, D) /\ Derived(coord)
    BY DEF Matched, TurnsIn
  <2> QED
    BY <1>2, <1>11, <1>12, <2>1 DEF Collecting
<1>14. ASSUME NEW i \in 0..(n - 1), i + 1 # n, Good(i)
       PROVE  /\ Good(i + 1) /\ Reducer!Accepts(after[i], events[i + 1])
              /\ ~Missions!SettlesSource(after[i + 1], events[i + 1])
  <2>1. /\ i + 1 \in 1..n /\ (i + 1) - 1 = i /\ i + 1 \in 0..(n - 1) /\ n \in 1..n
    BY <1>14
  <2> DEFINE e == events[i + 1]
  <2>2. after[i + 1] = Reducer!Reduce(after[i], e)
    BY <1>12, <2>1
  <2>3. /\ e \in Reducer!Event /\ e.type = "verification_recorded" /\ e.by = p
        /\ e.version = coord.version /\ e.round = coord.round /\ e.command \in Commands[e.by]
        /\ e.command = order[i + 1] /\ order[n] \in Commands[e.by]
    BY <1>9, <2>1
  <2>4. /\ records(i + 1) = records(i) \cup {RecordOf(e)}
        /\ \A r \in Reducer!RecordsOf(records(i), e.by) : r.command # e.command
        /\ \A r \in Reducer!RecordsOf(records(i + 1), e.by) : r.command # order[n]
    BY <1>10, <1>11, <2>1, <2>3
  <2> HIDE DEF e, D
  <2>5. Reducer!Accepts(after[i], e)
    BY <1>0, <1>14, <2>3, <2>4, PieceTaken
  <2>6. /\ Collecting(Reducer!Reduce(after[i], e), coord, records(i + 1), D)
        /\ ~Missions!SettlesSource(Reducer!Reduce(after[i], e), e)
    BY <1>0, <1>14, <2>3, <2>4, PieceKept
  <2> QED
    BY <2>2, <2>5, <2>6 DEF e
<1> DEFINE Bad == {i \in Nat : i < n /\ ~Good(i)}
<1>15. Bad = {}
  <2>1. 0 \notin Bad
    BY <1>13
  <2>2. ASSUME NEW m \in Nat, m \notin Bad
        PROVE  m + 1 \notin Bad
    <3> SUFFICES ASSUME m + 1 < n
                 PROVE  Good(m + 1)
      OBVIOUS
    <3>1. m \in 0..(n - 1) /\ m + 1 # n /\ m < n
      OBVIOUS
    <3>2. Good(m)
      BY <2>2, <3>1
    <3> HIDE DEF Good
    <3> QED
      BY <1>14, <3>1, <3>2
  <2> HIDE DEF Bad
  <2>3. Bad \in SUBSET Nat
    BY DEF Bad
  <2> QED
    BY <2>1, <2>2, <2>3, NoException
<1>16. \A i \in 0..(n - 1) : Good(i)
  <2> HIDE DEF Good
  <2> TAKE i \in 0..(n - 1)
  <2>1. i \in Nat /\ i < n
    OBVIOUS
  <2> QED
    BY <1>15, <2>1
<1> HIDE DEF Good, Bad
<1>17. /\ n - 1 \in 0..(n - 1) /\ (n - 1) + 1 = n /\ n \in 1..n /\ n \in 0..n
  BY <1>5
<1> DEFINE s == after[n - 1]
           e == events[n]
<1>18. /\ e \in Reducer!Event /\ e.type = "verification_recorded" /\ e.by = p /\ e.delivery = d
       /\ e.version = coord.version /\ e.round = coord.round /\ e.command \in Commands[e.by]
       /\ e.command = order[n]
  BY <1>9, <1>17
<1>19. /\ records(n) = records(n - 1) \cup {RecordOf(e)}
       /\ \A r \in Reducer!RecordsOf(records(n - 1), e.by) : r.command # e.command
       /\ Reducer!AllParticipantCommandsRecorded(records(n), e.by)
       /\ \A q : q # e.by => Reducer!RecordsOf(records(n), q)
                                = Reducer!RecordsOf(coord.records, q)
  <2>1. records((n - 1) + 1) = records(n - 1) \cup {rec[(n - 1) + 1]}
    BY <1>11, <1>17
  <2>2. records(n) = records(n - 1) \cup {RecordOf(e)}
    BY <1>10, <1>17, <2>1
  <2>3. \A r \in Reducer!RecordsOf(records(n - 1), e.by) : r.command # e.command
    BY <1>11, <1>17, <1>18
  <2>4. Reducer!AllParticipantCommandsRecorded(records(n), e.by)
    BY <1>11, <1>18
  <2>5. \A q : q # e.by => Reducer!RecordsOf(records(n), q) = Reducer!RecordsOf(coord.records, q)
    BY <1>11, <1>17, <1>18
  <2> QED
    BY <2>2, <2>3, <2>4, <2>5
<1>20. Collecting(s, coord, records(n - 1), D)
  BY <1>16, <1>17 DEF Good
<1>21. after[n] = Reducer!Reduce(s, e)
  BY <1>12, <1>17
<1> HIDE DEF s, e
<1>22. /\ Reducer!Accepts(s, e) /\ Missions!SettlesSource(after[n], e)
       /\ d \in Missions!SettledBy(after[n], e)
       /\ Answered(d, after[n], Missions!SettledBy(after[n], e),
                   Missions!DeliveryTargets(s, after[n], e))
  <2> DEFINE t == Reducer!Reduce(s, e)
  <2>1. Collecting(s, coord, records(n - 1), Filed(rows) \cup {d})
    BY <1>20 DEF D
  <2>2. e.by = rows[d].node
    BY <1>18
  <2> HIDE DEF t
  <2>3. /\ Reducer!Accepts(s, e) /\ Missions!SettlesSource(t, e)
        /\ d \in Missions!SettledBy(t, e)
        /\ Answered(d, t, Missions!SettledBy(t, e), Missions!DeliveryTargets(s, t, e))
    BY <1>18, <1>19, <2>1, <2>2, LastPiece, Zenon DEF t
  <2> QED
    BY <1>21, <2>3, Zenon DEF t
<1>23. ASSUME NEW i \in 1..n
       PROVE  /\ Missions!Coordinator!Accepts(after[i - 1], events[i])
              /\ Missions!SettlesSource(after[i], events[i]) = (i = Len(events))
              /\ i = Len(events) => events[i].delivery \in Missions!SettledBy(after[i], events[i])
  <2>1. CASE i = n
    <3>1. Missions!Coordinator!Accepts(after[i - 1], events[i])
      BY <1>22, <2>1, SameReduce DEF s, e
    <3>2. Missions!SettlesSource(after[i], events[i]) = TRUE
      <4>1. Missions!SettlesSource(after[i], events[i])
        BY <1>22, <2>1 DEF e
      <4> QED
        BY <4>1, Zenon DEF Missions!SettlesSource
    <3>3. (i = Len(events)) = TRUE
      BY <1>8, <2>1
    <3> QED
      BY <1>18, <1>22, <2>1, <3>1, <3>2, <3>3 DEF e
  <2>2. CASE i # n
    <3>1. i - 1 \in 0..(n - 1) /\ (i - 1) + 1 = i
      OBVIOUS
    <3>2. Good(i - 1)
      BY <1>16, <3>1
    <3>3. /\ Reducer!Accepts(after[i - 1], events[(i - 1) + 1])
          /\ ~Missions!SettlesSource(after[(i - 1) + 1], events[(i - 1) + 1])
      BY <1>14, <2>2, <3>1, <3>2
    <3>4. Missions!SettlesSource(after[i], events[i]) = FALSE
      <4>1. ~Missions!SettlesSource(after[i], events[i])
        BY <3>1, <3>3
      <4> QED
        BY <4>1, Zenon DEF Missions!SettlesSource
    <3>5. (i = Len(events)) = FALSE
      BY <1>8, <2>2
    <3> QED
      BY <3>1, <3>3, <3>4, <3>5, SameReduce
  <2> QED
    BY <2>1, <2>2
<1>24. Missions!Publishable(events)
  BY <1>8, <1>23, Zenon DEF Missions!Publishable, after
<1> QED
  BY <1>8, <1>22, <1>24, Zenon DEF events, after, s, e

-----------------------------------------------------------------------------
(* The work matches in every state *)

\* What a completion of d does, whatever its work is: the reducer takes its
\* events, and the rows it settles and creates go with the work it awaits next.
LEMMA WorkAnswered ==
    ASSUME Composed, RowInv, ReducerInv(coord), Matched, NEW d \in OpenRows(rows),
           NEW result \in Missions!Results(d)
    PROVE  LET events == Missions!CompletionEvents(d, result)
               after == Missions!ReducedStates(events)
               n == Len(events) IN
           /\ Missions!Publishable(events)
           /\ Answered(d, after[n], Missions!SettledBy(after[n], events[n]),
                       Missions!DeliveryTargets(after[n - 1], after[n], events[n]))
<1>1. ItemOf(rows[d]) \in Awaited(coord)
  BY DEF Matched, Asked
<1>2. rows[d].work.kind \in {"turn", "contract_acknowledgement", "verification"}
  BY <1>1, Due
<1>3. 1 - 1 = 0
  OBVIOUS
<1>4. CASE rows[d].work.kind = "turn"
  BY <1>3, <1>4, TurnAnswered, Zenon
<1>5. CASE rows[d].work.kind = "contract_acknowledgement"
  BY <1>3, <1>5, AckAnswered, Zenon
<1>6. CASE rows[d].work.kind = "verification"
  BY <1>6, VerificationAnswered, Zenon
<1> QED
  BY <1>2, <1>4, <1>5, <1>6

\* The invariant, of a status m, bindings b, rows rs and a coordinator state s:
\* the open rows ask for what is awaited while every route is, and live rows are
\* unsettled.
Routed(b) == \A n \in Nodes : b[n] = "active"
WorkOf(m, b, rs, s) ==
    /\ m = s.status
    /\ Routed(b) => Asked(rs, s)
    /\ \A x \in DOMAIN rs : rs[x].status \in Live => rs[x].settled = 0
    /\ TurnsIn(s, Filed(rs)) /\ Whole(s) /\ Derived(s)

WorkInv == RowInv /\ ReducerInv(coord) /\ FenceInv /\ WorkOf(mission, binding, rows, coord)

\* A row that is still for the same work, and no more alive than before.
Kept(r, q) ==
    /\ q.node = r.node /\ q.work = r.work /\ q.settled = r.settled
    /\ q.status \in Live => r.status \in Live

\* Rows that only change hands.
LEMMA WorkKept ==
    ASSUME NEW m, NEW b, NEW rs, NEW s, WorkOf(m, b, rs, s), NEW qs, DOMAIN qs = DOMAIN rs,
           \A x \in DOMAIN rs : Kept(rs[x], qs[x]),
           \A x \in DOMAIN rs : rs[x].status \in Live => qs[x].status \in Live
    PROVE  WorkOf(m, b, qs, s)
<1>1. Routed(b) => Asked(qs, s)
  <2> SUFFICES ASSUME Routed(b)
               PROVE  Asked(qs, s)
    OBVIOUS
  <2>1. Asked(rs, s)
    BY DEF WorkOf
  <2> QED
    BY <2>1, StillAsked DEF Kept
<1>2. \A x \in DOMAIN qs : qs[x].status \in Live => qs[x].settled = 0
  BY DEF WorkOf, Kept
<1>3. Filed(qs) = Filed(rs)
  BY DEF Filed, Kept
<1> QED
  BY <1>1, <1>2, <1>3 DEF WorkOf

\* No row is open when all of the live ones have been cancelled.
LEMMA WorkEnded ==
    ASSUME NEW m, NEW b, NEW rs, NEW s, WorkOf(m, b, rs, s), s.applied \in Seq(Reducer!Event),
           NEW qs, DOMAIN qs = DOMAIN rs,
           \A x \in DOMAIN rs : rs[x].settled # 0 => qs[x].settled # 0,
           \A x \in DOMAIN rs : qs[x].status \notin Live,
           NEW e \in Reducer!Event, e.type = "mission_terminal",
           NEW t, t = Reducer!Reduce(s, e), t.applied = Append(s.applied, e),
           t.status \in {"failed", "expired"}
    PROVE  WorkOf(t.status, b, qs, t)
<1>1. Asked(qs, t)
  <2>1. OpenRows(qs) = {}
    BY DEF OpenRows
  <2>2. Awaited(t) = {}
    BY AwaitedIn
  <2> QED
    BY <2>1, <2>2 DEF Asked
<1>2. \A x \in DOMAIN qs : qs[x].status \in Live => qs[x].settled = 0
  OBVIOUS
<1>3. Filed(rs) \subseteq Filed(qs)
  BY DEF Filed
<1>4. TurnsIn(s, Filed(rs)) /\ Derived(s)
  BY DEF WorkOf
<1>5. TurnsIn(t, Filed(qs))
  BY <1>3, <1>4, TurnsStep
<1>6. Derived(t)
  BY <1>4, DerivedStep
<1>7. Whole(t)
  BY WholeEmpty
<1> QED
  BY <1>1, <1>2, <1>5, <1>6, <1>7 DEF WorkOf

\* A transaction that ends with reconciliation.
LEMMA ReconciledMatches ==
    ASSUME Composed, WorkInv, NEW rs \in Seq(Row), NEW new, DOMAIN rs = DOMAIN rows,
           \A x \in DOMAIN rows : Kept(rows[x], rs[x]),
           TerminalCause(rs) = "none" =>
              \A x \in DOMAIN rows : rows[x].status \in Live => rs[x].status \in Live,
           Reconcile(rs, new), Missions!Reconciled, binding' = binding
    PROVE  WorkOf(mission', binding', rows', coord')
<1>0. WorkOf(mission, binding, rows, coord) /\ ReducerInv(coord)
  BY DEF WorkInv
<1>1. CASE TerminalCause(rs) = "none"
  <2>1. rows' = rs /\ mission' = mission
    BY <1>1 DEF Reconcile
  <2>2. coord' = coord
    BY <2>1 DEF Missions!Reconciled
  <2>3. WorkOf(mission, binding, rs, coord)
    BY <1>0, <1>1, WorkKept
  <2> QED
    BY <2>1, <2>2, <2>3
<1>2. CASE TerminalCause(rs) # "none"
  <2> DEFINE e == [type |-> "mission_terminal", status |-> mission']
             t == Reducer!Reduce(coord, e)
  <2>1. /\ mission' = TerminalCause(rs) /\ mission' \in {"failed", "expired"}
        /\ mission \in Running
        /\ rows' = CancelOpenRows(rs, Len(ledger) + 1)
    BY <1>2 DEF Reconcile, TerminalCause
  <2>2. mission' # mission
    BY <2>1 DEF Running
  <2>3. Missions!Coordinator!Accepts(coord, e) /\ coord' = Missions!Coordinator!Reduce(coord, e)
    BY <2>2, Zenon DEF Missions!Reconciled
  <2>4. e \in Reducer!Event /\ e.type = "mission_terminal" /\ e.status = mission'
    BY <2>1 DEF Reducer!Event
  <2>5. Reducer!Accepts(coord, e) /\ coord' = t
    BY <2>3, SameReduce
  <2> HIDE DEF e
  <2>6. t.status = mission' /\ t.applied = Append(coord.applied, e)
    BY <1>0, <2>4, <2>5, PhaseLeads DEF Composed
  <2>7. coord.applied \in Seq(Reducer!Event)
    BY <1>0 DEF ReducerInv, Reducer!State
  <2>8. ledger \in Seq(Entry)
    BY DEF WorkInv, RowInv, TypeOK
  <2>9. Len(ledger) + 1 \in Nat /\ Len(ledger) + 1 # 0
    BY <2>8
  <2>10. \A x \in DOMAIN rs : rs[x].status \in Live => rs[x].settled = 0
    BY <1>0 DEF WorkOf, Kept
  <2> DEFINE qs == CancelOpenRows(rs, Len(ledger) + 1)
  <2>11. /\ DOMAIN qs = DOMAIN rows
         /\ \A x \in DOMAIN rows :
               /\ x \in OpenRows(rs) =>
                     qs[x] = [EndLease(rs[x], "cancelled") EXCEPT !.settled = Len(ledger) + 1]
               /\ x \notin OpenRows(rs) => qs[x] = rs[x]
    BY DEF CancelOpenRows
  <2> HIDE DEF qs, t
  <2>12. \A x \in DOMAIN rows : qs[x].status \notin Live
    <3> TAKE x \in DOMAIN rows
    <3>1. CASE x \in OpenRows(rs)
      <4>1. qs[x] = [EndLease(rs[x], "cancelled") EXCEPT !.settled = Len(ledger) + 1]
        BY <2>11, <3>1
      <4>2. rs[x] \in Row /\ "cancelled" \in Live \cup Closed /\ "cancelled" \notin Live
        BY DEF Live, Held, Closed
      <4> DEFINE q == EndLease(rs[x], "cancelled")
      <4>5. q \in Row /\ q.status = "cancelled"
        BY <4>2, EndedWork
      <4>6. PICK k \in Nat : k = Len(ledger) + 1
        BY <2>9
      <4>7. qs[x] = [q EXCEPT !.settled = k]
        BY <4>1, <4>6
      <4> HIDE DEF q
      <4>3. qs[x].status = "cancelled"
        BY <4>5, <4>7 DEF Row
      <4> QED
        BY <4>2, <4>3
    <3>2. CASE x \notin OpenRows(rs)
      BY <2>10, <2>11, <3>2 DEF OpenRows
    <3> QED
      BY <3>1, <3>2
  <2>13. \A x \in DOMAIN rows : rows[x].settled # 0 => qs[x].settled # 0
    BY <2>11 DEF OpenRows, Kept
  <2>14. t = Reducer!Reduce(coord, e)
    BY DEF t
  <2>15. WorkOf(t.status, binding, qs, t)
    BY <1>0, <2>1, <2>4, <2>6, <2>7, <2>11, <2>12, <2>13, <2>14, WorkEnded
  <2> QED
    BY <2>1, <2>5, <2>6, <2>15 DEF qs
<1> QED
  BY <1>1, <1>2

\* A step that grants, starts or renews a lease leaves the work alone.
LEMMA LeaseMatches ==
    ASSUME WorkInv, NEW d \in Deliveries, NEW r, Kept(rows[d], r), r.status \in Live,
           rows' = [rows EXCEPT ![d] = r], mission' = mission, binding' = binding, coord' = coord
    PROVE  WorkOf(mission', binding', rows', coord')
<1>1. rows \in Seq(Row) /\ d \in DOMAIN rows
  BY DEF WorkInv, RowInv, TypeOK, Deliveries
<1> DEFINE qs == [rows EXCEPT ![d] = r]
<1>2. /\ DOMAIN qs = DOMAIN rows /\ qs[d] = r
      /\ \A x \in DOMAIN rows : x # d => qs[x] = rows[x]
  BY <1>1
<1> HIDE DEF qs
<1>3. \A x \in DOMAIN rows :
         Kept(rows[x], qs[x]) /\ (rows[x].status \in Live => qs[x].status \in Live)
  BY <1>2 DEF Kept
<1>4. WorkOf(mission, binding, qs, coord)
  BY <1>2, <1>3, WorkKept DEF WorkInv
<1> QED
  BY <1>4 DEF qs

\* A row that is given up goes back to the queue, or it is dead and ends the
\* Mission.
LEMMA GivenUpMatches ==
    ASSUME Composed, WorkInv, NEW d \in Deliveries, mission \in Running,
           rows[d].status \in Held, NEW r \in Row, NEW new,
           r.node = rows[d].node, r.work = rows[d].work, r.settled = rows[d].settled,
           r.status \in {"stored", "dead_lettered"},
           Reconcile([rows EXCEPT ![d] = r], new), Missions!Reconciled, binding' = binding
    PROVE  WorkOf(mission', binding', rows', coord')
<1>1. rows \in Seq(Row) /\ d \in DOMAIN rows /\ rows[d].settled = 0
  BY DEF WorkInv, RowInv, TypeOK, Deliveries, WorkOf, Live
<1> DEFINE rs == [rows EXCEPT ![d] = r]
<1>2. /\ rs \in Seq(Row) /\ DOMAIN rs = DOMAIN rows /\ rs[d] = r
      /\ \A x \in DOMAIN rows : x # d => rs[x] = rows[x]
  BY <1>1
<1> HIDE DEF rs
<1>3. \A x \in DOMAIN rows : Kept(rows[x], rs[x])
  BY <1>2 DEF Kept, Live
<1>4. TerminalCause(rs) = "none" =>
         \A x \in DOMAIN rows : rows[x].status \in Live => rs[x].status \in Live
  <2> SUFFICES ASSUME TerminalCause(rs) = "none"
               PROVE  r.status \in Live
    BY <1>2
  <2>1. UnresolvedDeadLetters(rs) = {}
    BY DEF TerminalCause
  <2>2. r.status # "dead_lettered"
    BY <1>1, <1>2, <2>1 DEF UnresolvedDeadLetters
  <2> QED
    BY <2>2 DEF Live
<1> QED
  BY <1>2, <1>3, <1>4, ReconciledMatches DEF rs

\* So it is when it waits again.
LEMMA EndLeaseWork ==
    ASSUME NEW r \in Row, NEW s \in Live \cup Closed, NEW e \in Nat
    PROVE  /\ EndLease(r, s).node = r.node /\ EndLease(r, s).work = r.work
           /\ [EndLease(r, s) EXCEPT !.available = e] \in Row
           /\ [EndLease(r, s) EXCEPT !.available = e].node = r.node
           /\ [EndLease(r, s) EXCEPT !.available = e].work = r.work
           /\ [EndLease(r, s) EXCEPT !.available = e].settled = r.settled
           /\ [EndLease(r, s) EXCEPT !.available = e].status = s
<1>1. EndLease(r, s) \in Row /\ EndLease(r, s).settled = r.settled /\ EndLease(r, s).status = s
  BY EndedWork
<1>2. EndLease(r, s).node = r.node /\ EndLease(r, s).work = r.work
  BY EndedWork
<1> DEFINE q == EndLease(r, s)
<1> HIDE DEF q
<1>3. q \in Row
  BY <1>1 DEF q
<1>4. /\ [q EXCEPT !.available = e] \in Row
      /\ [q EXCEPT !.available = e].node = q.node
      /\ [q EXCEPT !.available = e].work = q.work
      /\ [q EXCEPT !.available = e].settled = q.settled
      /\ [q EXCEPT !.available = e].status = q.status
  BY <1>3 DEF Row
<1> QED
  BY <1>1, <1>2, <1>4 DEF q

\* A granted lease is for the same work.
LEMMA GrantWork ==
    ASSUME NEW r \in Row
    PROVE  /\ Grant(r).node = r.node /\ Grant(r).work = r.work /\ Grant(r).settled = r.settled
           /\ Grant(r).status = "leased"
BY DEF Grant, Row

\* The requests of a lease, other than its completion.
LEMMA RequestMatches ==
    ASSUME Composed, WorkInv, NEW d \in Deliveries, Missions!NodeRequest(d),
           ~ \E t \in 1..rows[d].attempt : \E result \in Missions!Results(d) :
                Missions!CompleteDelivery(d, t, result)
    PROVE  WorkOf(mission', binding', rows', coord')
<1>0. /\ rows \in Seq(Row) /\ rows[d] \in Row /\ clock \in Nat
      /\ "stored" \in Live /\ "leased" \in Live /\ "executing" \in Live
      /\ \A s \in Held : s \in Live
      /\ {"stored", "dead_lettered"} \subseteq Live \cup Closed
  <2>1. rows \in Seq(Row) /\ clock \in Nat
    BY DEF WorkInv, RowInv, TypeOK
  <2> QED
    BY <2>1 DEF Deliveries, Live, Held, Closed
<1>1. ASSUME NEW k \in 1..(rows[d].attempt + 1), Missions!ClaimDelivery(d, k)
      PROVE  WorkOf(mission', binding', rows', coord')
  <2>1. ClaimDelivery(d, <<k, 0>>) /\ Missions!Reconciled
    BY <1>1, SameClaim DEF Missions!ClaimDelivery
  <2>2. CASE ClaimStored(d, <<k, 0>>)
    <3>1. /\ rows' = [rows EXCEPT ![d] = Grant(rows[d])] /\ mission' = mission
          /\ binding' = binding /\ rows[d].status = "stored"
      BY <2>2 DEF ClaimStored
    <3>2. coord' = coord
      BY <2>1, <3>1 DEF Missions!Reconciled
    <3>3. Kept(rows[d], Grant(rows[d])) /\ Grant(rows[d]).status \in Live
      BY <1>0, <3>1, GrantWork DEF Kept
    <3> QED
      BY <3>1, <3>2, <3>3, LeaseMatches
  <2>3. CASE ClaimExpired(d, <<k, 0>>)
    <3> DEFINE expired == [EndLease(rows[d], "stored") EXCEPT !.available = clock]
    <3>1. /\ rows' = [rows EXCEPT ![d] = Grant(expired)] /\ mission' = mission
          /\ binding' = binding /\ rows[d].status \in Held
      BY <2>3 DEF ClaimExpired, LeaseLapsed
    <3>2. coord' = coord
      BY <2>1, <3>1 DEF Missions!Reconciled
    <3>3. /\ expired \in Row /\ expired.node = rows[d].node /\ expired.work = rows[d].work
          /\ expired.settled = rows[d].settled
      BY <1>0, EndLeaseWork
    <3> HIDE DEF expired
    <3>4. Kept(rows[d], Grant(expired)) /\ Grant(expired).status \in Live
      BY <1>0, <3>1, <3>3, GrantWork DEF Kept
    <3> QED
      BY <3>1, <3>2, <3>4, LeaseMatches
  <2>4. CASE ClaimExhausted(d, <<k, 0>>)
    <3> DEFINE r == EndLease(rows[d], "dead_lettered")
    <3>1. /\ \E new : Reconcile([rows EXCEPT ![d] = r], new)
          /\ binding' = binding /\ rows[d].status \in Held /\ mission \in Running
      BY <2>4 DEF ClaimExhausted, LeaseLapsed, Mutable, Runnable
    <3>2. /\ r \in Row /\ r.node = rows[d].node /\ r.work = rows[d].work
          /\ r.settled = rows[d].settled /\ r.status = "dead_lettered"
      BY <1>0, EndedWork
    <3> HIDE DEF r
    <3> QED
      BY <2>1, <3>1, <3>2, GivenUpMatches
  <2> QED
    BY <2>1, <2>2, <2>3, <2>4 DEF ClaimDelivery
<1>2. ASSUME NEW t, Missions!StartDelivery(d, t)
      PROVE  WorkOf(mission', binding', rows', coord')
  <2>1. StartDelivery(d, t) /\ coord' = coord
    BY <1>2, SameLease DEF Missions!StartDelivery
  <2> DEFINE r == [rows[d] EXCEPT !.status = "executing"]
  <2>2. /\ rows' = [rows EXCEPT ![d] = r] /\ mission' = mission /\ binding' = binding
        /\ rows[d].status = "leased"
    BY <2>1 DEF StartDelivery
  <2>3. Kept(rows[d], r) /\ r.status \in Live
    BY <1>0, <2>2 DEF Kept, Row
  <2> HIDE DEF r
  <2> QED
    BY <2>1, <2>2, <2>3, LeaseMatches
<1>3. ASSUME NEW t, Missions!RenewDelivery(d, t)
      PROVE  WorkOf(mission', binding', rows', coord')
  <2>1. (\E count \in 1..MaxRenewals : RenewDelivery(d, t, count)) /\ coord' = coord
    BY <1>3, SameLease DEF Missions!RenewDelivery
  <2> DEFINE r == [rows[d] EXCEPT !.expires = BoundedLeaseExpiry]
  <2>2. /\ rows' = [rows EXCEPT ![d] = r] /\ mission' = mission /\ binding' = binding
        /\ rows[d].status \in Held
    BY <2>1 DEF RenewDelivery
  <2>3. Kept(rows[d], r) /\ r.status \in Live
    BY <1>0, <2>2 DEF Kept, Row
  <2> HIDE DEF r
  <2> QED
    BY <2>1, <2>2, <2>3, LeaseMatches
<1>4. ASSUME NEW t, NEW class, Missions!ReleaseDelivery(d, t, class)
      PROVE  WorkOf(mission', binding', rows', coord')
  <2> DEFINE retryAt == clock + RetryBackoff(rows[d].attempt)
             dead == \/ class # "transient"
                     \/ rows[d].attempt >= MaxAttempts
                     \/ retryAt >= MissionExpiry
             kept == [EndLease(rows[d], "stored") EXCEPT !.available = retryAt]
             lost == EndLease(rows[d], "dead_lettered")
  <2>1. ReleaseDelivery(d, t, class) /\ Missions!Reconciled
    BY <1>4, SameLease DEF Missions!ReleaseDelivery
  <2>2. /\ rows[d].status \in Held /\ mission \in Running /\ binding' = binding
        /\ \E new : Reconcile([rows EXCEPT ![d] = IF dead THEN lost ELSE kept], new)
    BY <2>1 DEF ReleaseDelivery, Mutable, Runnable
  <2>3. retryAt \in Nat
    <3>1. RowOK(rows[d])
      BY RowInvSplit DEF WorkInv, RowsOK, Deliveries
    <3>2. rows[d].attempt \in 1..MaxAttempts
      BY <2>2, <3>1, HeldRow
    <3> QED
      BY <1>0, <3>2, BackoffAssumption
  <2> HIDE DEF retryAt
  <2>4. /\ lost \in Row /\ lost.node = rows[d].node /\ lost.work = rows[d].work
        /\ lost.settled = rows[d].settled /\ lost.status = "dead_lettered"
    BY <1>0, EndedWork
  <2>5. /\ kept \in Row /\ kept.node = rows[d].node /\ kept.work = rows[d].work
        /\ kept.settled = rows[d].settled /\ kept.status = "stored"
    BY <1>0, <2>3, EndLeaseWork
  <2> HIDE DEF dead, lost, kept
  <2>6. CASE dead
    BY <2>1, <2>2, <2>4, <2>6, GivenUpMatches
  <2>7. CASE ~dead
    BY <2>1, <2>2, <2>5, <2>7, GivenUpMatches
  <2> QED
    BY <2>6, <2>7
<1> QED
  BY <1>1, <1>2, <1>3, <1>4, Zenon DEF Missions!NodeRequest

-----------------------------------------------------------------------------
(* A completion *)

\* The rows after a completion: those that it settles are no longer open, and
\* the new ones follow.
LEMMA SettledWork ==
    ASSUME RowInv, \A x \in DOMAIN rows : rows[x].status \in Live => rows[x].settled = 0,
           NEW d \in OpenRows(rows), rows[d].status \in Held,
           NEW out, d \in out.settles, out.settles \subseteq DOMAIN rows
    PROVE  LET S == SettledRows(d, out) IN
           /\ S \in Seq(Row) /\ DOMAIN S = DOMAIN rows
           /\ OpenRows(S) = OpenRows(rows) \ out.settles
           /\ \A x \in OpenRows(S) : S[x] = rows[x]
           /\ \A x \in DOMAIN rows : S[x].status \in Live => S[x].settled = 0
           /\ Filed(rows) \cup {d} \subseteq Filed(S)
<1> DEFINE S == SettledRows(d, out)
<1>0. /\ rows \in Seq(Row) /\ ledger \in Seq(Entry) /\ RowsOK(rows) /\ d \in DOMAIN rows
      /\ "acknowledged" \in (Live \cup Closed) \ Live /\ "cancelled" \in (Live \cup Closed) \ Live
  <2>1. RowsOK(rows) /\ ledger \in Seq(Entry) /\ rows \in Seq(Row)
    BY RowInvSplit DEF RestOK, RowsOK
  <2> QED
    BY <2>1 DEF OpenRows, Live, Held, Closed
<1>1. RowsOK(S) /\ DOMAIN S = DOMAIN rows
  BY <1>0, SettledRowsOK DEF Deliveries
<1>2. PICK k \in Nat : k = Len(ledger) + 1 /\ k # 0
  BY <1>0
<1>3. \A x \in DOMAIN rows :
         /\ x = d => S[x] = [EndLease(rows[x], "acknowledged") EXCEPT !.settled = k]
         /\ x # d /\ x \in out.settles /\ rows[x].status \in Live =>
               S[x] = [EndLease(rows[x], "cancelled") EXCEPT !.settled = k]
         /\ x # d /\ x \in out.settles /\ rows[x].status \notin Live =>
               S[x] = [rows[x] EXCEPT !.settled = k]
         /\ x \notin out.settles => S[x] = rows[x]
  <2>1. S = [x \in DOMAIN rows |->
               IF x = d THEN [EndLease(rows[x], "acknowledged") EXCEPT !.settled = Len(ledger) + 1]
               ELSE IF x \in out.settles /\ rows[x].status \in Live
               THEN [EndLease(rows[x], "cancelled") EXCEPT !.settled = Len(ledger) + 1]
               ELSE IF x \in out.settles THEN [rows[x] EXCEPT !.settled = Len(ledger) + 1]
               ELSE rows[x]]
    BY Zenon DEF SettledRows, Deliveries
  <2> HIDE DEF S
  <2> QED
    BY <1>2, <2>1
<1> HIDE DEF S
<1>4. ASSUME NEW x \in DOMAIN rows, NEW s \in (Live \cup Closed) \ Live
      PROVE  /\ [EndLease(rows[x], s) EXCEPT !.settled = k].status = s
             /\ [EndLease(rows[x], s) EXCEPT !.settled = k].settled = k
  <2> DEFINE q == EndLease(rows[x], s)
  <2>1. q \in Row /\ q.status = s
    <3>1. rows[x] \in Row
      BY <1>0
    <3> QED
      BY <3>1, EndedWork
  <2> HIDE DEF q
  <2>2. [q EXCEPT !.settled = k].status = s /\ [q EXCEPT !.settled = k].settled = k
    BY <2>1 DEF Row
  <2> QED
    BY <2>2 DEF q
<1>5. ASSUME NEW x \in DOMAIN rows
      PROVE  /\ x \in out.settles => S[x].settled # 0 /\ S[x].status \notin Live
             /\ x \notin out.settles => S[x] = rows[x]
  <2>1. CASE x = d
    <3>1. S[x] = [EndLease(rows[x], "acknowledged") EXCEPT !.settled = k]
      BY <1>3, <2>1
    <3>2. S[x].status = "acknowledged" /\ S[x].settled = k
      BY <1>0, <1>4, <3>1
    <3> QED
      BY <1>0, <1>2, <2>1, <3>2
  <2>2. CASE x # d /\ x \in out.settles /\ rows[x].status \in Live
    <3>1. S[x] = [EndLease(rows[x], "cancelled") EXCEPT !.settled = k]
      BY <1>3, <2>2
    <3>2. S[x].status = "cancelled" /\ S[x].settled = k
      BY <1>0, <1>4, <3>1
    <3> QED
      BY <1>0, <1>2, <2>2, <3>2
  <2>3. CASE x # d /\ x \in out.settles /\ rows[x].status \notin Live
    <3>0. rows[x] \in Row
      BY <1>0
    <3>1. S[x] = [rows[x] EXCEPT !.settled = k]
      BY <1>3, <2>3
    <3> QED
      BY <1>2, <2>3, <3>0, <3>1 DEF Row
  <2>4. CASE x # d /\ x \notin out.settles
    BY <1>3, <2>4
  <2> QED
    BY <2>1, <2>2, <2>3, <2>4
<1>6. OpenRows(S) = OpenRows(rows) \ out.settles
  BY <1>1, <1>5 DEF OpenRows
<1>7. \A x \in OpenRows(S) : S[x] = rows[x]
  BY <1>5, <1>6 DEF OpenRows
<1>8. Filed(rows) \cup {d} \subseteq Filed(S)
  BY <1>0, <1>1, <1>5 DEF Filed
<1>9. S \in Seq(Row)
  BY <1>1 DEF RowsOK
<1>10. \A x \in DOMAIN rows : S[x].status \in Live => S[x].settled = 0
  BY <1>5
<1> QED
  BY <1>1, <1>6, <1>7, <1>8, <1>9, <1>10 DEF S

\* Rows and the new ones that follow them.
LEMMA FollowedBy ==
    ASSUME RowInv, NEW rs \in Seq(Row), NEW targets \in Seq([node : Nodes, work : Work])
    PROVE  LET qs == rs \o NewRows(targets) IN
           /\ DOMAIN qs = 1..(Len(rs) + Len(targets))
           /\ \A x \in 1..Len(rs) : qs[x] = rs[x]
           /\ \A i \in 1..Len(targets) : qs[Len(rs) + i] = NewRow(targets[i])
           /\ OpenRows(qs) \cap DOMAIN rs = OpenRows(rs)
           /\ \A x \in DOMAIN qs : x \notin DOMAIN rs => qs[x].status \in Live /\ qs[x].settled = 0
           /\ Filed(rs) \subseteq Filed(qs)
<1> DEFINE T == [node : Nodes, work : Work]
           qs == rs \o NewRows(targets)
<1>1. PICK n \in Nat : n = Len(targets)
  OBVIOUS
<1>2. PICK m \in Nat : m = Len(rs)
  OBVIOUS
<1>3. \A i \in 1..n : targets[i] \in T
  <2>1. targets \in Seq(T)
    OBVIOUS
  <2> HIDE DEF T
  <2> QED
    BY <1>1, <2>1
<1>4. \A i \in 1..n : NewRow(targets[i]).status \in Live /\ NewRow(targets[i]).settled = 0
  BY <1>3, NewAsks
<1>5. /\ NewRows(targets) = [i \in 1..n |-> NewRow(targets[i])]
  BY <1>1 DEF NewRows
<1> DEFINE new == NewRows(targets)
<1>6. new \in Seq(Row) /\ Len(new) = n /\ \A i \in 1..n : new[i] = NewRow(targets[i])
  <2>1. \A i \in 1..n : NewRow(targets[i]) \in Row
    BY <1>3, NewRowOK DEF RowOK, RowInv, TypeOK
  <2> QED
    BY <1>5, <2>1
<1> HIDE DEF new
<1>7. DOMAIN qs = 1..(m + n) /\ \A x \in 1..(m + n) : qs[x] = IF x <= m THEN rs[x] ELSE new[x - m]
  <2> DEFINE both == rs \o new
  <2>1. /\ both \in Seq(Row) /\ Len(both) = Len(rs) + Len(new)
        /\ \A d \in 1..(Len(rs) + Len(new)) :
              both[d] = IF d <= Len(rs) THEN rs[d] ELSE new[d - Len(rs)]
    BY <1>6, ConcatProperties
  <2> HIDE DEF both
  <2>2. DOMAIN both = 1..Len(both)
    BY <2>1
  <2> QED
    BY <1>2, <1>6, <2>1, <2>2 DEF both, new
<1> HIDE DEF qs
<1>8. /\ DOMAIN rs = 1..m
      /\ \A x \in 1..m : x \in 1..(m + n) /\ qs[x] = rs[x]
  BY <1>2, <1>7
<1>9. \A i \in 1..n : m + i \in 1..(m + n) /\ qs[m + i] = NewRow(targets[i])
  <2> TAKE i \in 1..n
  <2>1. m + i \in 1..(m + n) /\ ~(m + i <= m) /\ (m + i) - m = i
    OBVIOUS
  <2> QED
    BY <1>6, <1>7, <2>1
<1>10. OpenRows(qs) \cap DOMAIN rs = OpenRows(rs)
  BY <1>7, <1>8 DEF OpenRows
<1>11. ASSUME NEW x \in DOMAIN qs, x \notin DOMAIN rs
       PROVE  qs[x].status \in Live /\ qs[x].settled = 0
  <2>1. x - m \in 1..n /\ m + (x - m) = x
    BY <1>7, <1>8, <1>11
  <2> QED
    BY <1>4, <1>9, <2>1
<1>12. Filed(rs) \subseteq Filed(qs)
  BY <1>7, <1>8 DEF Filed
<1> QED
  BY <1>1, <1>2, <1>7, <1>8, <1>9, <1>10, <1>11, <1>12 DEF qs

\* What a completion writes asks for the work that its events lead to.
LEMMA AnsweredMatches ==
    ASSUME RowInv, WorkOf(mission, binding, rows, coord), Asked(rows, coord),
           NEW d \in OpenRows(rows), rows[d].status \in Held, NEW t, NEW out,
           d \in out.settles, out.settles \subseteq DOMAIN rows,
           out.creates \in Seq([node : Nodes, work : Work]),
           Answered(d, t, out.settles, out.creates), NEW b
    PROVE  WorkOf(t.status, b, SettledRows(d, out) \o NewRows(out.creates), t)
<1> DEFINE S == SettledRows(d, out)
           targets == out.creates
           qs == S \o NewRows(targets)
<1>0. \A x \in DOMAIN rows : rows[x].status \in Live => rows[x].settled = 0
  BY DEF WorkOf
<1>1. /\ S \in Seq(Row) /\ DOMAIN S = DOMAIN rows
      /\ OpenRows(S) = OpenRows(rows) \ out.settles
      /\ \A x \in OpenRows(S) : S[x] = rows[x]
      /\ \A x \in DOMAIN rows : S[x].status \in Live => S[x].settled = 0
      /\ Filed(rows) \cup {d} \subseteq Filed(S)
  BY <1>0, SettledWork
<1> HIDE DEF S
<1>2. /\ DOMAIN qs = 1..(Len(S) + Len(targets))
      /\ \A x \in 1..Len(S) : qs[x] = S[x]
      /\ \A i \in 1..Len(targets) : qs[Len(S) + i] = NewRow(targets[i])
      /\ OpenRows(qs) \cap DOMAIN S = OpenRows(S)
      /\ \A x \in DOMAIN qs : x \notin DOMAIN S => qs[x].status \in Live /\ qs[x].settled = 0
      /\ Filed(S) \subseteq Filed(qs)
  BY <1>1, FollowedBy
<1>3. PICK m \in Nat : m = Len(S) /\ DOMAIN S = 1..m
  BY <1>1
<1> HIDE DEF qs
<1>4. Asked(qs, t)
  <2>1. CASE OpenRows(rows) \subseteq out.settles /\ Lists(targets, Awaited(t))
    <3>1. \A x \in 1..m : x \notin OpenRows(qs)
      BY <1>1, <1>2, <1>3, <2>1
    <3> QED
      BY <1>2, <1>3, <2>1, <3>1, AllClosed
  <2>2. CASE /\ out.settles = {d} /\ targets = <<>>
             /\ Awaited(t) = Awaited(coord) \ {ItemOf(rows[d])}
    <3>1. DOMAIN qs = 1..m /\ OpenRows(qs) = OpenRows(S)
      <4>1. Len(targets) = 0 /\ m + 0 = m
        BY <2>2
      <4>2. DOMAIN qs = 1..m
        BY <1>2, <1>3, <4>1
      <4> QED
        BY <1>2, <1>3, <4>2 DEF OpenRows
    <3>2. OpenRows(qs) = OpenRows(rows) \ {d}
      BY <1>1, <2>2, <3>1
    <3>3. \A e \in OpenRows(qs) : qs[e] = rows[e]
      <4> TAKE e \in OpenRows(qs)
      <4>1. e \in OpenRows(S) /\ e \in 1..m
        BY <3>1 DEF OpenRows
      <4> QED
        BY <1>1, <1>2, <1>3, <4>1
    <3> QED
      BY <2>2, <3>2, <3>3, OneClosed
  <2> QED
    BY <2>1, <2>2 DEF Answered
<1>5. \A x \in DOMAIN qs : qs[x].status \in Live => qs[x].settled = 0
  <2> TAKE x \in DOMAIN qs
  <2>1. CASE x \in DOMAIN S
    BY <1>1, <1>2, <1>3, <2>1
  <2>2. CASE x \notin DOMAIN S
    BY <1>2, <2>2
  <2> QED
    BY <2>1, <2>2
<1>6. TurnsIn(t, Filed(qs))
  <2>1. Filed(rows) \cup {d} \subseteq Filed(qs)
    BY <1>1, <1>2
  <2>2. TurnsIn(t, Filed(rows) \cup {d})
    BY DEF Answered
  <2> QED
    BY <2>1, <2>2 DEF TurnsIn
<1>7. Whole(t) /\ Derived(t)
  BY DEF Answered
<1>8. WorkOf(t.status, b, qs, t)
  BY <1>4, <1>5, <1>6, <1>7 DEF WorkOf
<1> QED
  BY <1>8 DEF qs, S

\* Every result of a row in progress is a completion of this kind.
LEMMA CompletionMatches ==
    ASSUME Composed, WorkInv, NEW d \in Deliveries, NEW t, NEW result \in Missions!Results(d),
           Missions!CompleteDelivery(d, t, result)
    PROVE  WorkOf(mission', binding', rows', coord')
<1> DEFINE events == Missions!CompletionEvents(d, result)
           after == Missions!ReducedStates(events)
           last == Len(events)
           targets == [i \in DOMAIN events |->
                         Missions!DeliveryTargets(after[i - 1], after[i], events[i])]
           out == [settles |-> Missions!SettledBy(after[last], events[last]),
                   creates |-> Missions!FlattenSeq(targets),
                   status |-> after[last].status]
<1>0. RowInv /\ ReducerInv(coord) /\ WorkOf(mission, binding, rows, coord) /\ rows \in Seq(Row)
  BY DEF WorkInv, RowInv, TypeOK
<1>1. /\ Missions!Publishable(events)
      /\ Missions!Ledger!CompleteDelivery(d, t, out)
      /\ coord' = after[last]
  BY Zenon DEF Missions!CompleteDelivery
<1>2. CompleteDelivery(d, t, out)
  BY <1>1, SameComplete
<1>3. /\ rows[d].status = "executing" /\ rows[d].settled = 0 /\ Routed(binding)
      /\ mission' = out.status /\ binding' = binding
      /\ rows' = SettledRows(d, out) \o NewRows(out.creates)
  <2>1. rows' = SettledRows(d, out) \o NewRows(out.creates)
    BY <1>2, CompleteRows
  <2> HIDE DEF out
  <2> QED
    BY <1>2, <2>1 DEF CompleteDelivery, Mutable, Authorized, RoutingAuthority, Routed
<1>4. d \in OpenRows(rows) /\ rows[d].status \in Held
  BY <1>3 DEF OpenRows, Live, Held, Deliveries
<1>5. Matched
  BY <1>0, <1>3 DEF WorkOf, Matched
<1>6. /\ events \in Seq(Reducer!Event) /\ events # <<>>
      /\ \A i \in DOMAIN events :
            /\ events[i].delivery = d
            /\ events[i].type \in {"turn_completed", "contract_acknowledged",
                                   "verification_recorded"}
  BY <1>0, EventsOK
<1>7. Answered(d, after[last], Missions!SettledBy(after[last], events[last]),
               Missions!DeliveryTargets(after[last - 1], after[last], events[last]))
  BY <1>0, <1>4, <1>5, WorkAnswered
<1> HIDE DEF events
<1>8. PICK n \in Nat : n = last /\ n # 0 /\ DOMAIN events = 1..n
  BY <1>6
<1>9. /\ \A i \in 0..n : ReducerInv(after[i])
      /\ \A i \in 1..n : Reducer!Accepts(after[i - 1], events[i])
  BY <1>0, <1>1, <1>6, <1>8, PublishedInv
<1>10. /\ \A i \in DOMAIN events : Missions!SettlesSource(after[i], events[i]) = (i = last)
       /\ \A i \in DOMAIN events :
             i = last => events[i].delivery \in Missions!SettledBy(after[i], events[i])
  BY <1>1, Zenon DEF Missions!Publishable
<1> HIDE DEF after
<1>11. \A i \in 1..n : i \in 0..n /\ i - 1 \in 0..n
  BY <1>8
<1>12. n \in 1..n
  BY <1>8
<1>13. \A i \in 1..n : targets[i] \in Targets
  BY <1>8, <1>9, <1>11, TargetsOK DEF ReducerInv
<1>14. \A i \in 1..n : i # n => targets[i] = <<>>
  <2> TAKE i \in 1..n
  <2> HAVE i # n
  <2>1. ~Missions!SettlesSource(after[i], events[i])
    BY <1>8, <1>10
  <2>2. events[i].type = "verification_recorded" /\ after[i].status = "verifying"
    BY <2>1, Zenon DEF Missions!SettlesSource
  <2>3. Reducer!Accepts(after[i - 1], events[i])
    BY <1>9
  <2>4. after[i - 1].status = "verifying"
    BY <2>2, <2>3 DEF Reducer!Accepts, Reducer!VerificationDue
  <2>5. targets[i] = Missions!DeliveryTargets(after[i - 1], after[i], events[i])
    BY <1>8
  <2> QED
    BY <2>2, <2>4, <2>5, NoTarget
<1>15. /\ out.creates = Missions!DeliveryTargets(after[last - 1], after[last], events[last])
       /\ out.creates \in Seq([node : Nodes, work : Work])
  <2> DEFINE T == [node : Nodes, work : Work]
  <2>1. targets \in [1..n -> Seq(T)] /\ DOMAIN targets = 1..n
    <3>1. \A x \in Targets : x \in Seq(T)
      <4> TAKE x \in Targets
      <4>1. PICK k \in 0..2 : x \in [1..k -> T]
        BY DEF Targets
      <4> HIDE DEF T
      <4> QED
        BY <4>1
    <3>2. targets = [i \in 1..n |->
                       Missions!DeliveryTargets(after[i - 1], after[i], events[i])]
      BY <1>8
    <3> QED
      BY <1>13, <3>1, <3>2
  <2>2. /\ out.creates = Missions!FlattenSeq(targets)
        /\ targets[n] = Missions!DeliveryTargets(after[last - 1], after[last], events[last])
    BY <1>8, <1>12
  <2> HIDE DEF targets, T, out
  <2>3. targets \in Seq(Seq(T)) /\ Len(targets) = n /\ targets[n] \in Seq(T)
    BY <1>12, <2>1
  <2>4. Missions!FlattenSeq(targets) = targets[n]
    BY <1>8, <1>14, <2>3, Flattened
  <2> QED
    BY <2>2, <2>3, <2>4 DEF T
<1>16. out.settles = Missions!SettledBy(after[last], events[last]) /\ out.status = after[last].status
  OBVIOUS
<1>17. d \in out.settles /\ out.settles \subseteq DOMAIN rows
  <2>1. d \in Missions!SettledBy(after[last], events[last]) /\ events[last].delivery = d
    BY <1>6, <1>8, <1>10, <1>12
  <2>2. Missions!SettledBy(after[last], events[last]) \subseteq DOMAIN rows
    BY <2>1 DEF Missions!SettledBy, Deliveries
  <2> QED
    BY <1>16, <2>1, <2>2
<1> HIDE DEF targets, out, last
<1>18. Answered(d, after[last], out.settles, out.creates)
  BY <1>7, <1>15, <1>16
<1>19. WorkOf(after[last].status, binding, SettledRows(d, out) \o NewRows(out.creates), after[last])
  BY <1>0, <1>4, <1>5, <1>15, <1>17, <1>18, AnsweredMatches DEF Matched
<1> QED
  BY <1>1, <1>3, <1>16, <1>19

\* No row is live when they all have been cancelled.
LEMMA RevokedMatches ==
    ASSUME WorkInv, NEW n \in Nodes, NEW reason, reason # "active", Revoke(n, reason),
           coord' = coord
    PROVE  WorkOf(mission', binding', rows', coord')
<1> DEFINE qs == CancelLive(rows)
           b == [binding EXCEPT ![n] = reason]
<1>1. /\ rows \in Seq(Row) /\ binding \in [Nodes -> Binding]
      /\ WorkOf(mission, binding, rows, coord)
  BY DEF WorkInv, RowInv, TypeOK
<1>2. rows' = qs /\ binding' = b /\ mission' = mission
  BY DEF Revoke
<1>3. ~Routed(b)
  BY <1>1 DEF Routed
<1>4. /\ DOMAIN qs = DOMAIN rows
      /\ \A x \in DOMAIN rows :
            /\ rows[x].status \in Live => qs[x] = EndLease(rows[x], "cancelled")
            /\ rows[x].status \notin Live => qs[x] = rows[x]
  BY DEF CancelLive
<1> HIDE DEF qs, b
<1>5. \A x \in DOMAIN rows : qs[x].settled = rows[x].settled /\ qs[x].status \notin Live
  <2> TAKE x \in DOMAIN rows
  <2>1. rows[x] \in Row /\ "cancelled" \in Live \cup Closed /\ "cancelled" \notin Live
    BY <1>1 DEF Live, Held, Closed
  <2>2. /\ EndLease(rows[x], "cancelled").settled = rows[x].settled
        /\ EndLease(rows[x], "cancelled").status = "cancelled"
    BY <2>1, EndedWork
  <2> QED
    BY <1>4, <2>1, <2>2
<1>6. Filed(qs) = Filed(rows)
  BY <1>4, <1>5 DEF Filed
<1>7. WorkOf(mission, b, qs, coord)
  BY <1>1, <1>3, <1>4, <1>5, <1>6 DEF WorkOf
<1> QED
  BY <1>2, <1>7

\* The second acceptance asks the first participant for the first turn.
LEMMA AcceptMatches ==
    ASSUME Composed, WorkInv, NEW p \in Missions!Participants,
           Missions!AcceptMissionParticipant(p)
    PROVE  WorkOf(mission', binding', rows', coord')
<1> DEFINE e == [type |-> "participants_accepted"]
           next == Reducer!Reduce(coord, e)
           targets == Missions!DeliveryTargets(coord, next, e)
<1>0. /\ RowInv /\ ReducerInv(coord) /\ FenceInv /\ WorkOf(mission, binding, rows, coord)
      /\ Reducer!Configured
  BY DEF WorkInv, Composed
<1>1. CASE accepted' # Missions!Participants
  <2>1. UNCHANGED <<clock, mission, rows, receipts, ledger, binding, blocked, coord>>
    BY <1>1 DEF Missions!AcceptMissionParticipant
  <2> QED
    BY <1>0, <2>1
<1>2. CASE accepted' = Missions!Participants
  <2>1. /\ Reducer!Accepts(coord, e)
        /\ Activate(targets)
        /\ coord' = next
    BY <1>2, SameReduce, SameActivate, Zenon DEF Missions!AcceptMissionParticipant
  <2>2. e \in Reducer!Event /\ e.type = "participants_accepted"
    BY DEF Reducer!Event
  <2>3. ReducerInv(next)
    BY <1>0, <2>1, <2>2, ReduceKeeps
  <2> HIDE DEF e
  <2>4. /\ next.status = "active" /\ next.pending = 0 /\ next.current = First
        /\ next.applied = Append(coord.applied, e)
    BY <1>0, <2>1, <2>2, PhaseLeads
  <2> HIDE DEF next
  <2>5. targets = <<Item(First, "turn", next.version, 0)>>
    <3>1. First # "none"
      BY <1>0, Roles DEF Reducer!None
    <3>2. targets = <<[node |-> next.current,
                       work |-> [kind |-> "turn", version |-> next.version, round |-> 0]]>>
      BY <2>2, <2>4, <3>1 DEF Missions!DeliveryTargets
    <3> QED
      BY <2>4, <3>2 DEF Item
  <2>6. Awaited(next) = {Item(First, "turn", next.version, 0)}
    BY <2>4, AwaitedIn
  <2>7. Lists(targets, Awaited(next))
    BY <2>5, <2>6, ListsOne
  <2>8. targets \in Seq([node : Nodes, work : Work])
    <3>1. targets \in Targets
      BY <2>3, TargetsOK DEF ReducerInv
    <3> HIDE DEF targets
    <3>2. PICK k \in 0..2 : targets \in [1..k -> [node : Nodes, work : Work]]
      BY <3>1 DEF Targets
    <3> DEFINE T == [node : Nodes, work : Work]
    <3>3. targets \in [1..k -> T]
      BY <3>2
    <3> HIDE DEF T
    <3>4. targets \in Seq(T)
      BY <3>3
    <3> QED
      BY <3>4 DEF T
  <2> HIDE DEF targets
  <2>9. /\ mission' = "active" /\ binding' = binding /\ mission = "awaiting_acceptance"
        /\ rows' = rows \o NewRows(targets)
    BY <2>1 DEF Activate
  <2>10. rows = <<>>
    BY <1>0, <2>9 DEF FenceInv
  <2> DEFINE qs == rows \o NewRows(targets)
  <2>11. /\ DOMAIN qs = 1..(0 + Len(targets))
         /\ \A i \in 1..Len(targets) : qs[0 + i] = NewRow(targets[i])
         /\ \A x \in DOMAIN qs : x \notin DOMAIN rows => qs[x].status \in Live /\ qs[x].settled = 0
         /\ Filed(rows) \subseteq Filed(qs)
    <3>1. rows \in Seq(Row) /\ Len(rows) = 0
      BY <1>0, <2>10 DEF RowInv, TypeOK
    <3> QED
      BY <1>0, <2>8, <3>1, FollowedBy
  <2> HIDE DEF qs
  <2>12. Asked(qs, next)
    <3>1. PICK m \in Nat : m = 0
      OBVIOUS
    <3>2. /\ DOMAIN qs = 1..(m + Len(targets))
          /\ \A i \in 1..Len(targets) : qs[m + i] = NewRow(targets[i])
          /\ \A x \in 1..m : x \notin OpenRows(qs)
      BY <2>11, <3>1
    <3> QED
      BY <2>7, <2>8, <3>2, AllClosed
  <2>13. \A x \in DOMAIN qs : qs[x].status \in Live => qs[x].settled = 0
    BY <2>10, <2>11
  <2>14. coord.applied \in Seq(Reducer!Event)
    BY <1>0 DEF ReducerInv, Reducer!State
  <2>15. TurnsIn(coord, Filed(rows)) /\ Derived(coord)
    BY <1>0 DEF WorkOf
  <2>16. TurnsIn(next, Filed(qs))
    BY <2>2, <2>4, <2>11, <2>14, <2>15, TurnsStep
  <2>17. Derived(next)
    BY <2>2, <2>4, <2>14, <2>15, DerivedStep DEF next
  <2>18. Whole(next)
    BY <2>4 DEF Whole
  <2>19. WorkOf(next.status, binding, qs, next)
    BY <2>12, <2>13, <2>16, <2>17, <2>18 DEF WorkOf
  <2> QED
    BY <2>1, <2>4, <2>9, <2>19 DEF qs
<1> QED
  BY <1>1, <1>2

\* A Node's request.
LEMMA NodeRequestMatches ==
    ASSUME Composed, WorkInv, NEW d \in Deliveries, Missions!NodeRequest(d)
    PROVE  WorkOf(mission', binding', rows', coord')
<1>1. CASE \E t \in 1..rows[d].attempt : \E result \in Missions!Results(d) :
              Missions!CompleteDelivery(d, t, result)
  BY <1>1, CompletionMatches
<1>2. CASE ~ \E t \in 1..rows[d].attempt : \E result \in Missions!Results(d) :
                Missions!CompleteDelivery(d, t, result)
  BY <1>2, RequestMatches
<1> QED
  BY <1>1, <1>2

\* Every step keeps the work matched.
LEMMA WorkStep ==
    ASSUME Composed, WorkInv, [Missions!Next]_(Missions!vars)
    PROVE  WorkOf(mission', binding', rows', coord')
<1>0. /\ WorkOf(mission, binding, rows, coord) /\ rows \in Seq(Row)
      /\ Nodes = Missions!Participants
  BY DEF WorkInv, RowInv, TypeOK, Composed
<1>2. ASSUME NEW p \in Missions!Participants, Missions!AcceptMissionParticipant(p)
      PROVE  WorkOf(mission', binding', rows', coord')
  BY <1>2, AcceptMatches
<1>3. CASE Missions!ReconcileMission
  <2>1. ReconcileMission /\ Missions!Reconciled
    BY <1>3, SameRest DEF Missions!ReconcileMission
  <2>2. Reconcile(rows, {}) /\ binding' = binding
    BY <2>1 DEF ReconcileMission
  <2>3. \A x \in DOMAIN rows : Kept(rows[x], rows[x])
    BY DEF Kept
  <2> QED
    BY <1>0, <2>1, <2>2, <2>3, ReconciledMatches
<1>4. ASSUME NEW d \in Deliveries, Missions!NodeRequest(d)
      PROVE  WorkOf(mission', binding', rows', coord')
  BY <1>4, NodeRequestMatches
<1>5. ASSUME NEW p \in Missions!Participants, Missions!RevokeNode(p) \/ Missions!RevokeWorkspace(p)
      PROVE  WorkOf(mission', binding', rows', coord')
  <2>1. (RevokeNode(p) \/ RevokeWorkspace(p)) /\ coord' = coord
    BY <1>5, SameRevoke DEF Missions!RevokeNode, Missions!RevokeWorkspace
  <2>2. \E reason \in {"node_revoked", "workspace_revoked"} : Revoke(p, reason)
    BY <2>1 DEF RevokeNode, RevokeWorkspace
  <2> QED
    BY <1>0, <2>1, <2>2, RevokedMatches
<1>6. CASE Missions!SetBlock \/ Missions!Tick
  <2>1. (SetBlock \/ Tick) /\ coord' = coord
    BY <1>6, SameRest DEF Missions!SetBlock, Missions!Tick
  <2>2. mission' = mission /\ binding' = binding /\ rows' = rows
    BY <2>1 DEF SetBlock, Tick
  <2> QED
    BY <1>0, <2>1, <2>2
<1>7. CASE UNCHANGED Missions!vars
  <2>1. mission' = mission /\ binding' = binding /\ rows' = rows /\ coord' = coord
    BY <1>7 DEF Missions!vars
  <2> QED
    BY <1>0, <2>1
<1> QED
  BY <1>2, <1>3, <1>4, <1>5, <1>6, <1>7 DEF Missions!Next, Deliveries

\* The joint invariant of the work is inductive.
LEMMA WorkKeeps ==
    ASSUME Composed, WorkInv, [Missions!Next]_(Missions!vars)
    PROVE  WorkInv'
<1>1. MissionInv /\ FenceInv
  BY DEF WorkInv, MissionInv
<1>2. [Next]_vars /\ MissionInv'
  BY <1>1, MissionKeeps
<1>3. FenceInv'
  BY <1>1, <1>2, FenceStep
<1>4. WorkOf(mission', binding', rows', coord')
  BY WorkStep
<1>5. WorkOf(mission, binding, rows, coord)'
  BY <1>4 DEF WorkOf, Routed, Asked, OpenRows, Awaited, ItemOf, Item, TurnsIn, Turn, Filed, Whole,
              Derived, Replays
<1> QED
  BY <1>2, <1>3, <1>5 DEF WorkInv, MissionInv

\* A new Mission has no work.
LEMMA WorkInit ==
    ASSUME Composed, Missions!Init
    PROVE  WorkInv
<1> DEFINE s == Reducer!CreateMissionCoordinatorState
<1>1. Init /\ MissionInv
  BY MissionInit
<1>2. FenceInv
  BY <1>1, FenceInit
<1>3. coord = s
  <2>1. coord = Missions!Coordinator!CreateMissionCoordinatorState
    BY DEF Missions!Init, Missions!Coordinator!Init
  <2>2. Missions!Coordinator!CreateMissionCoordinatorState = s
    BY Zenon DEF Missions!Coordinator!CreateMissionCoordinatorState,
                 Reducer!CreateMissionCoordinatorState, Missions!Coordinator!None, Reducer!None
  <2> QED
    BY <2>1, <2>2
<1>4. rows = <<>> /\ mission = "awaiting_acceptance"
  BY <1>1 DEF Init
<1>5. s.status = "awaiting_acceptance" /\ s.applied = <<>>
  BY DEF Reducer!CreateMissionCoordinatorState
<1>6. Asked(rows, coord)
  <2>1. Awaited(coord) = {}
    BY <1>3, <1>5, AwaitedIn
  <2>2. OpenRows(rows) = {}
    BY <1>4 DEF OpenRows
  <2> QED
    BY <2>1, <2>2 DEF Asked
<1>7. TurnsIn(coord, Filed(rows)) /\ Whole(coord)
  BY <1>3, <1>5 DEF TurnsIn, Whole
<1>8. Derived(coord)
  <2> HIDE DEF s
  <2> DEFINE f == [i \in 0..0 |-> s]
  <2>1. f = [i \in 0..0 |-> IF i = 0 THEN s ELSE Reducer!Reduce(f[i - 1], s.applied[i])]
    <3>1. \A i \in 0..0 : i = 0
      OBVIOUS
    <3> QED
      BY <3>1, Zenon
  <2>2. f[0] = s
    OBVIOUS
  <2> HIDE DEF f
  <2>3. Len(coord.applied) = 0 /\ coord = s
    BY <1>3, <1>5
  <2>4. Replays(f, coord) /\ f[Len(coord.applied)] = coord
    BY <2>1, <2>2, <2>3, Zenon DEF Replays, s
  <2> QED
    BY <2>4 DEF Derived
<1>9. \A x \in DOMAIN rows : rows[x].status \in Live => rows[x].settled = 0
  BY <1>4
<1>10. WorkOf(mission, binding, rows, coord)
  BY <1>3, <1>4, <1>5, <1>6, <1>7, <1>8, <1>9 DEF WorkOf
<1> QED
  BY <1>1, <1>2, <1>10 DEF WorkInv, MissionInv

\* As many rows are open as there are parts of the work awaited.
LEMMA OneRowEach ==
    ASSUME NEW rs \in Seq(Row), NEW s, Asked(rs, s)
    PROVE  /\ {[node |-> rs[d].node, work |-> rs[d].work] : d \in OpenRows(rs)} = Awaited(s)
           /\ Cardinality(OpenRows(rs)) = Cardinality(Awaited(s))
<1> DEFINE O == OpenRows(rs)
           f == [d \in O |-> ItemOf(rs[d])]
<1>1. {ItemOf(rs[d]) : d \in O} = Awaited(s)
  BY DEF Asked
<1>2. IsFiniteSet(O)
  <2>1. PICK n \in Nat : n = Len(rs)
    OBVIOUS
  <2>2. O \in SUBSET (1..n)
    BY <2>1 DEF OpenRows
  <2> HIDE DEF O
  <2>3. IsFiniteSet(1..n)
    BY FS_Interval
  <2> QED
    BY <2>2, <2>3, FS_Subset
<1>3. \A d, e \in O : ItemOf(rs[d]) = ItemOf(rs[e]) => d = e
  BY DEF Asked
<1>4. {[node |-> rs[d].node, work |-> rs[d].work] : d \in O} = {ItemOf(rs[d]) : d \in O}
  BY Zenon DEF ItemOf
<1> HIDE DEF O
<1>5. f \in Bijection(O, Awaited(s))
  BY <1>1, <1>3 DEF Bijection, Injection, Surjection, IsInjective
<1>6. ExistsBijection(O, Awaited(s))
  BY <1>5, Zenon DEF ExistsBijection
<1>7. Cardinality(Awaited(s)) = Cardinality(O)
  BY <1>2, <1>6, FS_Bijection
<1> QED
  BY <1>1, <1>4, <1>7 DEF O

\* The invariant is what the runs check.
LEMMA WorkDone ==
    ASSUME Composed, WorkInv
    PROVE  Missions!WorkMatches
<1>0. /\ RowInv /\ ReducerInv(coord) /\ FenceInv /\ WorkOf(mission, binding, rows, coord)
      /\ rows \in Seq(Row) /\ coord.applied \in Seq(Reducer!Event)
  BY DEF WorkInv, RowInv, TypeOK, ReducerInv, Reducer!State
<1>1. (Missions!Ledger!RoutingAuthority <=> Routed(binding)) /\ (RoutingAuthority <=> Routed(binding))
  BY DEF Composed, Missions!Ledger!RoutingAuthority, RoutingAuthority, Routed
<1>2. /\ Missions!Ledger!Live = Live /\ Missions!Ledger!Running = Running
      /\ Missions!Ledger!Terminal = Terminal
  BY Zenon DEF Missions!Ledger!Live, Live, Missions!Ledger!Held, Held, Missions!Ledger!Running,
               Running, Missions!Ledger!Terminal, Terminal
<1>3. Missions!OutstandingWork
  <2> SUFFICES ASSUME Routed(binding)
               PROVE  /\ {[node |-> rows[d].node, work |-> rows[d].work] : d \in Missions!OpenDeliveries}
                            = Missions!ExpectedWork
                      /\ Missions!Cardinality(Missions!OpenDeliveries)
                            = Missions!Cardinality(Missions!ExpectedWork)
    BY <1>1, Zenon DEF Missions!OutstandingWork
  <2>1. Asked(rows, coord)
    BY <1>0 DEF WorkOf
  <2>2. Missions!OpenDeliveries = OpenRows(rows)
    BY <1>2, Zenon DEF Missions!OpenDeliveries, OpenRows
  <2>3. Missions!ExpectedWork = Awaited(coord)
    <3>1. /\ Missions!Participants = Reducer!Participants
          /\ \A r, q : Missions!Coordinator!AllParticipantCommandsRecorded(r, q)
                          <=> Reducer!AllParticipantCommandsRecorded(r, q)
      BY Zenon DEF Missions!Participants, Reducer!Participants,
                   Missions!Coordinator!AllParticipantCommandsRecorded,
                   Reducer!AllParticipantCommandsRecorded,
                   Missions!Coordinator!RecordsOf, Reducer!RecordsOf
    <3> QED
      BY <3>1 DEF Missions!ExpectedWork, Awaited, Item
  <2>4. \A S : Missions!Cardinality(S) = Cardinality(S)
    BY Zenon DEF Missions!Cardinality, Cardinality
  <2> QED
    BY <1>0, <2>1, <2>2, <2>3, <2>4, OneRowEach
<1>4. Missions!HeldWorkPublishable
  <2> SUFFICES ASSUME NEW d \in DOMAIN rows, rows[d].status = "executing",
                      Missions!Ledger!Authorized, NEW result \in Missions!Results(d)
               PROVE  Missions!Publishable(Missions!CompletionEvents(d, result))
    BY Zenon DEF Missions!HeldWorkPublishable
  <2>1. Routed(binding)
    BY <1>1, SameAuthority DEF Authorized
  <2>2. d \in OpenRows(rows)
    BY <1>0 DEF WorkOf, OpenRows, Live, Held
  <2>3. Matched
    BY <1>0, <2>1 DEF WorkOf, Matched
  <2> QED
    BY <1>0, <2>2, <2>3, WorkAnswered
<1>5. Missions!TerminalQuiescence
  <2> SUFFICES ASSUME mission \in Terminal, NEW d \in DOMAIN rows, rows[d].status \in Live
               PROVE  FALSE
    BY <1>2, Zenon DEF Missions!TerminalQuiescence
  <2>1. CASE Routed(binding)
    <3>1. coord.status \notin {"active", "verifying"}
      BY <1>0 DEF WorkOf, Terminal
    <3>2. Awaited(coord) = {}
      BY <3>1, AwaitedIn
    <3>3. d \in OpenRows(rows) /\ Asked(rows, coord)
      BY <1>0, <2>1 DEF WorkOf, OpenRows
    <3> QED
      BY <3>2, <3>3 DEF Asked
  <2>2. CASE ~Routed(binding)
    BY <1>0, <1>1, <2>2 DEF FenceInv, RevocationFence, Deliveries
  <2> QED
    BY <2>1, <2>2
<1>6. Missions!Projection
  BY <1>0, ProjectionOK DEF WorkOf
<1> QED
  BY <1>3, <1>4, <1>5, <1>6 DEF Missions!WorkMatches

\* WorkMatches: while no route is revoked, the open deliveries are exactly the
\* work the coordinator waits for, each once; whatever a Node in progress may
\* answer can be published; a finished Mission leaves nothing live behind; and
\* the projection always agrees with the event log (deriveDeliveryTargets,
\* completeDelivery, appendMissionEventInTransaction).
THEOREM LedgerAndCoordinatorAgree ==
    ASSUME Composed
    PROVE  Missions!Spec => []Missions!WorkMatches
<1>1. Missions!Init => WorkInv
  BY WorkInit
<1>2. WorkInv /\ [Missions!Next]_(Missions!vars) => WorkInv'
  BY WorkKeeps
<1>3. WorkInv => Missions!WorkMatches
  BY WorkDone
<1> QED
  BY <1>1, <1>2, <1>3, PTL DEF Missions!Spec
==============================================================================
