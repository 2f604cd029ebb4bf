---------------------------- MODULE DeliveryLedger ----------------------------
(***************************************************************************)
(* The Relay's delivery ledger for one Mission: the node_deliveries rows,  *)
(* their leases and fencing tokens, the receipts that make every operation *)
(* idempotent, terminal reconciliation and revocation.                     *)
(*                                                                         *)
(* Every handler is one database transaction under the Node and Mission    *)
(* advisory locks, so every handler is one action.  What the Mission       *)
(* coordinator decides when work completes (which rows it settles, which   *)
(* it creates, the next Mission status) is a parameter here; MissionLedger *)
(* supplies it from the coordinator's reducer.                             *)
(*                                                                         *)
(* A lease_id is a UUID minted by the claim that returns it, so it and the *)
(* fencing token name the same claim: the model writes both as the number  *)
(* of that claim.                                                          *)
(***************************************************************************)
EXTENDS Integers, Sequences, FiniteSets

CONSTANTS
    Nodes,          \* the Nodes of the Mission's participants
    Work,           \* what a delivery asks for (kind, contract version, round)
    MaxAttempts,    \* max_attempts of a delivery
    LeaseDuration,  \* LEASE_DURATION_MS, in clock ticks
    BaseBackoff,    \* first retry delay, in clock ticks
    MaxBackoff,     \* MAX_RETRY_BACKOFF_MS, in clock ticks
    MissionExpiry,  \* missions.expires_at
    MaxClock,       \* bound: the clock stops here
    MaxRenewals,    \* bound: renewals of one lease
    MaxDeliveries,  \* bound: rows the Mission creates
    MaxCreated      \* bound: rows one transaction creates

ASSUME LedgerAssumption ==
    /\ MaxAttempts \in Nat \ {0}
    /\ LeaseDuration \in Nat \ {0}
    /\ BaseBackoff \in Nat \ {0}
    /\ MaxBackoff \in Nat \ {0}
    /\ MissionExpiry \in Nat \ {0}
    /\ MaxClock \in Nat
    /\ MaxRenewals \in Nat
    /\ MaxDeliveries \in Nat
    /\ MaxCreated \in Nat

VARIABLES
    clock,      \* the database clock
    mission,    \* missions.status
    rows,       \* node_deliveries in cursor order
    receipts,   \* delivery_operation_receipts
    ledger,     \* one entry per transaction that appends Mission events
    binding,    \* each participant's route: its Node and workspace binding
    blocked     \* some participant blocks another

vars == <<clock, mission, rows, receipts, ledger, binding, blocked>>

Running == {"active", "verifying"}
Terminal == {"completed", "failed", "expired"}
MissionStatus == Running \cup Terminal \cup {"awaiting_acceptance"}

Binding == {"active", "workspace_revoked", "node_revoked"}

Held == {"leased", "executing"}
Live == Held \cup {"stored"}
Closed == {"acknowledged", "cancelled", "dead_lettered"}

\* A row.  lease = 0 and expires = 0 stand for NULL; settled is the entry of
\* the ledger that settled the row, 0 for none.
Row == [node : Nodes, work : Work, status : Live \cup Closed,
        attempt : 0..MaxAttempts, token : 0..MaxAttempts,
        lease : 0..MaxAttempts, expires : Nat, available : Nat,
        settled : Nat]

\* A receipt.  key tells apart the requests of one operation on one row: the
\* attempt or fencing token a Node puts in its idempotency key, and the count
\* of a renewal.  Receipts of origin "relay" have the keys of lease_expired
\* and cancel.
Receipt == [op : {"claim", "start", "renew", "complete", "release",
                  "lease_expired", "cancel"},
            delivery : Nat, key : Nat \X Nat, attempt : 0..MaxAttempts,
            lease : 0..MaxAttempts,
            before : Live \cup Closed, after : Live \cup Closed]

Entry == [source : Nat, token : 0..MaxAttempts, kind : {"activation", "result", "terminal"}]

TypeOK ==
    /\ clock \in Nat
    /\ mission \in MissionStatus
    /\ rows \in Seq(Row)
    /\ receipts \in SUBSET Receipt
    /\ ledger \in Seq(Entry)
    /\ binding \in [Nodes -> Binding]
    /\ blocked \in BOOLEAN

-----------------------------------------------------------------------------
(* Helpers *)

Minimum(a, b) == IF a <= b THEN a ELSE b

\* retryBackoffMs: doubles with every attempt up to the cap.
RetryBackoff(attempt) == Minimum(MaxBackoff, BaseBackoff * 2 ^ (attempt - 1))

\* A fact of arithmetic that the proofs rely on.
ASSUME BackoffAssumption == \A a \in 1..MaxAttempts : RetryBackoff(a) \in Nat \ {0}

\* boundedLeaseExpiry: a lease never outlives its Mission.
BoundedLeaseExpiry == Minimum(clock + LeaseDuration, MissionExpiry)

Deliveries == DOMAIN rows

NewRow(target) ==
    [node |-> target.node, work |-> target.work, status |-> "stored",
     attempt |-> 0, token |-> 0, lease |-> 0, expires |-> 0,
     available |-> clock, settled |-> 0]

NewRows(targets) == [i \in 1..Len(targets) |-> NewRow(targets[i])]

\* operationReceipt and the relay-origin receipts: the evidence kept of one
\* transition of row d, taken from the row before it.
ReceiptOf(op, d, key, row, lease, after) ==
    [op |-> op, delivery |-> d, key |-> key, attempt |-> row.attempt,
     lease |-> lease, before |-> row.status, after |-> after]

\* A row whose lease ends in the given status.
EndLease(row, status) == [row EXCEPT !.status = status, !.lease = 0, !.expires = 0]

\* loadReplay found nothing: the idempotency key is unused.
FreshKey(op, d, key) ==
    ~ \E r \in receipts : r.op = op /\ r.delivery = d /\ r.key = key

\* assertMissionRoutingAuthority, assertDeliveryMissionTrust and
\* assertRunnableContext: what every mutation demands besides its own guard.
RoutingAuthority == \A n \in Nodes : binding[n] = "active"
Authorized == RoutingAuthority /\ ~blocked
Runnable == mission \in Running /\ clock < MissionExpiry

\* Mutant: any holder the row ever had is let in while some lease lasts.
AnyLeaseAuthority(d, t) == rows[d].lease # 0 /\ rows[d].expires > clock

\* assertLeaseAuthority: the caller presents the lease and token t of a claim.
LeaseAuthority(d, t) ==
    /\ rows[d].lease = t
    /\ rows[d].token = t
    /\ rows[d].expires > clock

\* Mutant: a claim takes over a tick before the lease ends.
LeaseLapsesEarly(row) == row.status \in Held /\ row.expires <= clock + 1

\* What lets a claim take over a row that another claim holds.
LeaseLapsed(row) == row.status \in Held /\ row.expires <= clock

UnresolvedDeadLetters(rs) ==
    {d \in DOMAIN rs : rs[d].status = "dead_lettered" /\ rs[d].settled = 0}

\* Mutant: the deadline is no terminal cause.
DeadLetterOnlyCause(rs) ==
    IF mission \in Running /\ UnresolvedDeadLetters(rs) # {} THEN "failed" ELSE "none"

\* terminalCause, over the rows as a transaction has left them.
TerminalCause(rs) ==
    IF mission \notin Running THEN "none"
    ELSE IF MissionExpiry <= clock THEN "expired"
    ELSE IF UnresolvedDeadLetters(rs) # {} THEN "failed"
    ELSE "none"

\* reconcileMissionInTransaction cancels live unsettled rows and settles them
\* with the terminal event.
OpenRows(rs) == {d \in DOMAIN rs : rs[d].status \in Live /\ rs[d].settled = 0}

CancelOpenRows(rs, entry) ==
    [d \in DOMAIN rs |->
        IF d \in OpenRows(rs)
        THEN [EndLease(rs[d], "cancelled") EXCEPT !.settled = entry]
        ELSE rs[d]]

CancelReceipts(rs, ds) ==
    {ReceiptOf("cancel", d, <<0, 0>>, rs[d], rs[d].lease, "cancelled") : d \in ds}

\* The earliest unresolved dead letter is the terminal event's source.
TerminalSource(rs) ==
    IF MissionExpiry <= clock THEN 0
    ELSE CHOOSE d \in UnresolvedDeadLetters(rs) :
            \A e \in UnresolvedDeadLetters(rs) : d <= e

\* The transaction ends with reconciliation: rs are the rows it has written,
\* new the receipts.
Reconcile(rs, new) ==
    IF TerminalCause(rs) = "none"
    THEN /\ rows' = rs
         /\ receipts' = receipts \cup new
         /\ UNCHANGED <<mission, ledger>>
    ELSE /\ rows' = CancelOpenRows(rs, Len(ledger) + 1)
         /\ receipts' = receipts \cup new \cup CancelReceipts(rs, OpenRows(rs))
         /\ mission' = TerminalCause(rs)
         /\ ledger' = Append(ledger, [source |-> TerminalSource(rs), token |-> 0,
                                      kind |-> "terminal"])

-----------------------------------------------------------------------------
(* Actions *)

\* The second acceptance derives participants_accepted and the first work.
Activate(targets) ==
    /\ mission = "awaiting_acceptance"
    /\ Authorized
    /\ clock < MissionExpiry
    /\ Len(rows) + Len(targets) <= MaxDeliveries
    /\ mission' = "active"
    /\ rows' = rows \o NewRows(targets)
    /\ ledger' = Append(ledger, [source |-> 0, token |-> 0, kind |-> "activation"])
    /\ UNCHANGED <<clock, receipts, binding, blocked>>

\* Every handler and every listing reconciles first; when that finds a
\* terminal cause the handler's own mutation is refused and only the
\* reconciliation commits (preserveReconciliation).  reconcileNodeMissions is
\* the same step taken from a listing, which needs a Node that can still
\* authenticate.
ReconcileMission ==
    /\ TerminalCause(rows) # "none"
    /\ \E n \in Nodes : binding[n] # "node_revoked"
    /\ Reconcile(rows, {})
    /\ UNCHANGED <<clock, binding, blocked>>

\* What a mutation of row d requires before its own guard.
Mutable(op, d, key) ==
    /\ FreshKey(op, d, key)
    /\ TerminalCause(rows) = "none"
    /\ Authorized
    /\ Runnable

\* The row after claimDelivery grants its next lease.
Grant(row) ==
    [row EXCEPT !.status = "leased", !.attempt = @ + 1, !.token = row.attempt + 1,
                !.lease = row.attempt + 1, !.expires = BoundedLeaseExpiry]

\* Mutant: the receipt names the attempt before the claim.
StaleClaimReceipt(d, key, row) ==
    ReceiptOf("claim", d, key, row, row.attempt + 1, "leased")

ClaimReceipt(d, key, row) ==
    ReceiptOf("claim", d, key, [row EXCEPT !.attempt = @ + 1], row.attempt + 1, "leased")

\* claimDelivery on a stored row that is due.
ClaimStored(d, key) ==
    /\ Mutable("claim", d, key)
    /\ rows[d].status = "stored"
    /\ rows[d].settled = 0
    /\ rows[d].attempt < MaxAttempts
    /\ rows[d].available <= clock
    /\ rows' = [rows EXCEPT ![d] = Grant(rows[d])]
    /\ receipts' = receipts \cup {ClaimReceipt(d, key, rows[d])}
    /\ UNCHANGED <<clock, mission, ledger, binding, blocked>>

\* claimDelivery on an expired lease with attempts left: expireLeaseForRetry
\* and then the claim, in one transaction.
ClaimExpired(d, key) ==
    LET expired == [EndLease(rows[d], "stored") EXCEPT !.available = clock] IN
    /\ Mutable("claim", d, key)
    /\ LeaseLapsed(rows[d])
    /\ rows[d].attempt < MaxAttempts
    /\ rows[d].settled = 0
    /\ rows' = [rows EXCEPT ![d] = Grant(expired)]
    /\ receipts' = receipts \cup
         {ReceiptOf("lease_expired", d, <<rows[d].attempt, 0>>, rows[d],
                    rows[d].lease, "stored"),
          ClaimReceipt(d, key, expired)}
    /\ UNCHANGED <<clock, mission, ledger, binding, blocked>>

\* deadLetterExpiredFinalClaim: no attempt is left, so the row is dead and the
\* Mission is reconciled.
ClaimExhausted(d, key) ==
    /\ Mutable("claim", d, key)
    /\ LeaseLapsed(rows[d])
    /\ rows[d].attempt >= MaxAttempts
    /\ Reconcile([rows EXCEPT ![d] = EndLease(rows[d], "dead_lettered")],
                 {ReceiptOf("claim", d, key, rows[d], 0, "dead_lettered")})
    /\ UNCHANGED <<clock, binding, blocked>>

ClaimDelivery(d, key) ==
    ClaimStored(d, key) \/ ClaimExpired(d, key) \/ ClaimExhausted(d, key)

StartDelivery(d, t) ==
    /\ Mutable("start", d, <<t, 0>>)
    /\ rows[d].status = "leased"
    /\ LeaseAuthority(d, t)
    /\ rows' = [rows EXCEPT ![d].status = "executing"]
    /\ receipts' = receipts \cup
         {ReceiptOf("start", d, <<t, 0>>, rows[d], t, "executing")}
    /\ UNCHANGED <<clock, mission, ledger, binding, blocked>>

\* The deadline never moves backwards.
RenewDelivery(d, t, count) ==
    /\ Mutable("renew", d, <<t, count>>)
    /\ rows[d].status \in Held
    /\ LeaseAuthority(d, t)
    /\ BoundedLeaseExpiry >= rows[d].expires
    /\ rows' = [rows EXCEPT ![d].expires = BoundedLeaseExpiry]
    /\ receipts' = receipts \cup
         {ReceiptOf("renew", d, <<t, count>>, rows[d], t, rows[d].status)}
    /\ UNCHANGED <<clock, mission, ledger, binding, blocked>>

\* A transient failure goes back to the queue unless the attempts or the
\* Mission's time run out; any other release is dead, and fails the Mission.
ReleaseDelivery(d, t, classification) ==
    LET retryAt == clock + RetryBackoff(rows[d].attempt)
        dead == \/ classification # "transient"
                \/ rows[d].attempt >= MaxAttempts
                \/ retryAt >= MissionExpiry
        released == IF dead THEN EndLease(rows[d], "dead_lettered")
                    ELSE [EndLease(rows[d], "stored") EXCEPT !.available = retryAt]
    IN
    /\ Mutable("release", d, <<t, 0>>)
    /\ rows[d].status \in Held
    /\ LeaseAuthority(d, t)
    /\ Reconcile([rows EXCEPT ![d] = released],
                 {ReceiptOf("release", d, <<t, 0>>, rows[d], t, released.status)})
    /\ UNCHANGED <<clock, binding, blocked>>

\* What the coordinator may answer to a completion of row d: the unsettled
\* rows its events settle, the work they create and the next status.
Outcome(d) ==
    [settles : {S \in SUBSET {e \in Deliveries : rows[e].settled = 0} : d \in S},
     creates : UNION {[1..n -> [node : Nodes, work : Work]] : n \in 0..MaxCreated},
     status : Running \cup {"completed", "failed"}]

\* completeDelivery: append the result, settle, acknowledge the source, cancel
\* the superseded siblings, create the derived work.
CompleteDelivery(d, t, out) ==
    LET entry == Len(ledger) + 1
        siblings == {e \in out.settles \ {d} : rows[e].status \in Live}
        settledRows ==
            [e \in Deliveries |->
                IF e = d
                THEN [EndLease(rows[e], "acknowledged") EXCEPT !.settled = entry]
                ELSE IF e \in siblings
                THEN [EndLease(rows[e], "cancelled") EXCEPT !.settled = entry]
                ELSE IF e \in out.settles
                THEN [rows[e] EXCEPT !.settled = entry]
                ELSE rows[e]]
    IN
    /\ Mutable("complete", d, <<t, 0>>)
    /\ rows[d].status = "executing"
    /\ rows[d].settled = 0
    /\ LeaseAuthority(d, t)
    /\ Len(rows) + Len(out.creates) <= MaxDeliveries
    /\ rows' = settledRows \o NewRows(out.creates)
    /\ mission' = out.status
    /\ ledger' = Append(ledger, [source |-> d, token |-> t, kind |-> "result"])
    /\ receipts' = receipts \cup CancelReceipts(rows, siblings) \cup
         {ReceiptOf("complete", d, <<t, 0>>, rows[d], t, "acknowledged")}
    /\ UNCHANGED <<clock, binding, blocked>>

\* Mutant: revocation leaves leased work alone.
CancelStored(rs) ==
    [d \in DOMAIN rs |->
        IF rs[d].status = "stored" THEN EndLease(rs[d], "cancelled") ELSE rs[d]]

\* revokeNode, revokeWorkspace and disabling an agent: every live row of the
\* Mission is cancelled, whichever Node it belongs to, and left unsettled.
CancelLive(rs) ==
    [d \in DOMAIN rs |->
        IF rs[d].status \in Live THEN EndLease(rs[d], "cancelled") ELSE rs[d]]

Revoke(n, reason) ==
    /\ binding' = [binding EXCEPT ![n] = reason]
    /\ rows' = CancelLive(rows)
    /\ receipts' = receipts \cup
         CancelReceipts(rows, {d \in Deliveries : rows[d].status \in Live})
    /\ UNCHANGED <<clock, mission, ledger, blocked>>

RevokeNode(n) == binding[n] # "node_revoked" /\ Revoke(n, "node_revoked")

\* Asked for by the Node itself, with a credential that still authenticates.
RevokeWorkspace(n) == binding[n] = "active" /\ Revoke(n, "workspace_revoked")

\* A participant blocks or unblocks another one.
SetBlock ==
    /\ blocked' = ~blocked
    /\ UNCHANGED <<clock, mission, rows, receipts, ledger, binding>>

Tick ==
    /\ clock < MaxClock
    /\ clock' = clock + 1
    /\ UNCHANGED <<mission, rows, receipts, ledger, binding, blocked>>

-----------------------------------------------------------------------------
Init ==
    /\ clock = 0
    /\ mission = "awaiting_acceptance"
    /\ rows = <<>>
    /\ receipts = {}
    /\ ledger = <<>>
    /\ binding = [n \in Nodes |-> "active"]
    /\ blocked = FALSE

\* The requests a Node can send about row d: the claim of the next attempt or,
\* late, of an earlier one, and the operations of any lease a claim granted.
GrantedTokens(d) == 1..rows[d].attempt

NodeRequest(d) ==
    \/ \E k \in 1..(rows[d].attempt + 1) : ClaimDelivery(d, <<k, 0>>)
    \/ \E t \in GrantedTokens(d) :
        \/ StartDelivery(d, t)
        \/ \E count \in 1..MaxRenewals : RenewDelivery(d, t, count)
        \/ \E c \in {"transient", "permanent", "policy_denied"} :
              ReleaseDelivery(d, t, c)
        \/ \E out \in Outcome(d) : CompleteDelivery(d, t, out)

Next ==
    \/ \E targets \in UNION {[1..n -> [node : Nodes, work : Work]] : n \in 1..MaxCreated} :
          Activate(targets)
    \/ ReconcileMission
    \/ \E d \in Deliveries : NodeRequest(d)
    \/ \E n \in Nodes : RevokeNode(n) \/ RevokeWorkspace(n)
    \/ SetBlock
    \/ Tick

Spec == Init /\ [][Next]_vars

-----------------------------------------------------------------------------
(* Properties *)

\* The CHECK constraints of node_deliveries (lease, fencing token, attempt,
\* stored capacity, acknowledged) on one row.
RowCheck(r) ==
    /\ r.token = r.attempt
    /\ r.status \in Held <=> r.lease # 0
    /\ r.status \in Held <=> r.expires # 0
    /\ r.lease \in {0, r.token}
    /\ r.status = "stored" /\ r.settled = 0 => r.attempt < MaxAttempts
    /\ r.status = "acknowledged" => r.attempt > 0 /\ r.settled # 0

\* Every row meets them after every handler: no transaction of the ledger is
\* ever aborted by the database.
RowChecks == \A d \in Deliveries : RowCheck(rows[d])

\* Work is bounded by its Mission: no lease is granted or renewed past the
\* Mission's deadline.
LeaseWithinMission ==
    \A d \in Deliveries : rows[d].expires <= MissionExpiry

\* A published result comes from the last lease ever granted on its delivery:
\* after the publication the row is acknowledged with that token for good, so
\* no slower holder of an earlier or a later lease can publish it again.
FencedPublication ==
    \A i \in DOMAIN ledger :
        ledger[i].kind = "result" =>
            /\ ledger[i].source \in Deliveries
            /\ rows[ledger[i].source].status = "acknowledged"
            /\ rows[ledger[i].source].token = ledger[i].token
            /\ rows[ledger[i].source].settled = i

\* Dead-lettering the work of a running Mission ends the Mission in the same
\* transaction: no one can see a running Mission that waits for dead work.
DeadLetterEndsMission ==
    mission \in Running => UnresolvedDeadLetters(rows) = {}

\* Revoking any participant is a fence for the whole Mission: no row of it is
\* live afterwards, whatever races with the revocation.
RevocationFence ==
    ~RoutingAuthority => \A d \in Deliveries : rows[d].status \notin Live

\* The receipts that granted and that ended attempt a of row d.
Closers(d, a) ==
    {r \in receipts : /\ r.delivery = d /\ r.attempt = a
                      /\ \/ r.op \in {"lease_expired", "release", "complete"}
                         \/ r.op = "cancel" /\ r.lease # 0
                         \/ r.op = "claim" /\ r.after = "dead_lettered"}
Grants(d, a) ==
    {r \in receipts : r.delivery = d /\ r.attempt = a /\ r.op = "claim" /\ r.after = "leased"}

\* The receipts account for every lease: each attempt before the current one
\* was granted by one claim and closed by exactly one receipt, and the current
\* one is still open exactly while the row is held.
AttemptsAccounted ==
    \A d \in Deliveries : \A a \in 1..rows[d].attempt :
        /\ Cardinality(Grants(d, a)) = 1
        /\ Cardinality(Closers(d, a)) =
              IF a = rows[d].attempt /\ rows[d].status \in Held THEN 0 ELSE 1

\* A step never takes a row from the holder of an unexpired lease to give it
\* to another one, and never moves a fencing token backwards.
NoGrantOverLiveLease ==
    [][\A d \in Deliveries :
          /\ rows'[d].token >= rows[d].token
          /\ rows'[d].token # rows[d].token =>
                ~(rows[d].status \in Held /\ rows[d].expires > clock)]_vars

\* Acknowledged, cancelled and dead-lettered rows never change status, lease
\* or token again, and a settled row keeps its settlement.
ClosedIsFinal ==
    [][\A d \in Deliveries :
          /\ rows[d].status \in Closed =>
                /\ rows'[d].status = rows[d].status
                /\ rows'[d].token = rows[d].token
                /\ rows'[d].lease = rows[d].lease
          /\ rows[d].settled # 0 => rows'[d].settled = rows[d].settled]_vars
=============================================================================
