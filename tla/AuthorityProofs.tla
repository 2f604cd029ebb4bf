--------------------------- MODULE AuthorityProofs ---------------------------
(***************************************************************************)
(* Proofs about the authority transactions, for any finite sets of agents, *)
(* Nodes, Missions and sessions: no set of transactions ever waits for     *)
(* itself, no work outlives the authority it hangs on, and what an account *)
(* or a Node holds agrees with its status.                                 *)
(*                                                                         *)
(* The argument is in three parts.  The locks have one order (Below), in   *)
(* which every plan is ascending, the locks a revocation finds late        *)
(* included; so of any transactions that wait the one whose next lock is   *)
(* highest waits for none of the others: the holder of that lock would     *)
(* wait for a higher one.  What a transaction has read under its locks     *)
(* still stands when it commits (Ready), for another commit changes only   *)
(* rows that its own locks cover (AgentEffect, NodeEffect, MissionEffect)  *)
(* and the two hold no lock in common (Exclusive).  And so each commit,    *)
(* made on the facts its request was admitted on, keeps the tables         *)
(* consistent (Tables): a revocation fails exactly the live work routed to *)
(* what it takes away, and none is routed there between its reading and    *)
(* its commit.                                                             *)
(***************************************************************************)
EXTENDS Authority, FiniteSetTheorems, WellFoundedInduction, TLAPS

-----------------------------------------------------------------------------
(* The invariant *)

\* The locks there are.
Lock == ({"handle", "lifecycle"} \X Agents) \cup ({"invite"} \X Invites)
        \cup ({"node-enroll"} \X Agents \X {NodeName[n] : n \in Nodes})
        \cup ({"node", "workspace"} \X Nodes) \cup ({"mission"} \X Missions)
        \cup ({"pair"} \X Agents \X Agents)

SessionRow == [busy : {TRUE}, req : Request, plan : Seq(Lock), held : Nat, ready : BOOLEAN,
               victims : SUBSET Missions]

Shape ==
    /\ scenario \in Scenarios
    /\ agents \in [Agents -> AgentRow]
    /\ nodes \in [Nodes -> NodeRow]
    /\ missions \in [Missions -> MissionRow]
    /\ invites \in [Invites -> {"none", "open", "expired", "used"}]
    /\ blocks \subseteq Agents \X Agents
    /\ tx \in [Sessions -> SessionRow \cup {Idle}]

\* The Nodes of an agent, and those that a revocation locks.
OwnNodes(a) == {n \in Nodes : NodeOwner[n] = a /\ nodes[n].status # "none"}
Lost(r) == IF r.op = "disable" THEN OwnNodes(r.agent) ELSE {r.node}

\* The lock plan as far as it is known with so many locks.
NodePart(r, held) == IF r.op = "disable" /\ held >= 1 THEN NodeLocks(OwnNodes(r.agent)) ELSE <<>>
Found(r, held) ==
    CASE r.op = "revokeNode" -> held >= 1
      [] r.op = "revokeWorkspace" -> held >= 2
      [] r.op = "disable" -> held >= 1 + Cardinality(OwnNodes(r.agent))
      [] OTHER -> FALSE
MissionPart(r, held) == IF Found(r, held) THEN MissionLocks(Lost(r)) ELSE <<>>
Base(r, held) == Plan(r) \o NodePart(r, held)
PlanAt(r, held) == Base(r, held) \o MissionPart(r, held)

\* A session's plan is the one its request has at this point, whatever others
\* have committed meanwhile.
Steps(s) ==
    tx[s].busy =>
        /\ tx[s].held <= Len(tx[s].plan)
        /\ tx[s].ready => tx[s].held = Len(tx[s].plan)
        /\ tx[s].plan = PlanAt(tx[s].req, tx[s].held)

Exclusive == \A s, u \in Sessions : s # u => Holds(s) \cap Holds(u) = {}

\* A Node that is being enrolled is new, and enrolled once.
Enrols(s) ==
    tx[s].busy /\ tx[s].req.op = "enroll" =>
        /\ nodes[tx[s].req.node].status = "none"
        /\ \A u \in Sessions \ {s} : tx[u].busy => tx[u].req # tx[s].req

\* What a transaction has read under its locks is still so.
Accepts(r) ==
    LET m == missions[r.mission]
    IN /\ m.work # "uncreated"
       /\ m.accepted \cup {NodeOwner[r.node]} = Agents => RoutesActive(m.bind)
Creates(r) ==
    /\ missions[r.mission].work = "uncreated"
    /\ \A a \in Agents : NodeOwner[r.bind[a]] = a /\ nodes[r.bind[a]].status # "none"

Stands(r) ==
    CASE r.op = "create" -> agents[r.agent].status = "none"
      [] r.op = "redeem" -> agents[InviteFor[r.invite]].status = "none"
      [] r.op \in {"adminRotate", "selfRotate"} -> agents[r.agent].status = "active"
      [] r.op = "disable" -> agents[r.agent].status # "none"
      [] r.op = "enroll" -> EnrollAdmitted(r)
      [] r.op = "rotateCredential" -> RotateAdmitted(r)
      [] r.op \in {"revokeNode", "register", "revokeWorkspace"} -> nodes[r.node].status = "active"
      [] r.op = "accept" -> Accepts(r)
      [] r.op = "createMission" -> Creates(r)
      [] r.op = "deliver" -> missions[r.mission].work # "uncreated"
      [] OTHER -> TRUE

Revocation == {"disable", "revokeNode", "revokeWorkspace"}

Ready(s) ==
    tx[s].busy /\ tx[s].ready =>
        /\ Stands(tx[s].req)
        /\ tx[s].req.op \in Revocation =>
              tx[s].victims = {m \in MissionsOf(Lost(tx[s].req)) : missions[m].work = "live"}

\* What the tables say together.
AgentFits(row) ==
    row.keys = (IF row.status = "active" THEN 1 ELSE 0)
NodeFits(row) ==
    /\ row.status = "none" => row.workspace = "none" /\ row.issued = 0
    /\ row.status = "active" => \E c \in 1..MaxCreds : row.creds = {c}
    /\ row.status # "active" => row.creds = {}
Accounts == \A a \in Agents : AgentFits(agents[a])
Credentials == \A n \in Nodes : NodeFits(nodes[n])
OneName ==
    \A n, k \in Nodes :
        NodeOwner[n] = NodeOwner[k] /\ NodeName[n] = NodeName[k]
        /\ nodes[n].status = "active" /\ nodes[k].status = "active" => n = k
Routed(m) ==
    \A a \in Agents :
        IF missions[m].work = "uncreated" THEN missions[m].bind[a] = NoNode
        ELSE /\ missions[m].bind[a] \in Nodes /\ NodeOwner[missions[m].bind[a]] = a
             /\ nodes[missions[m].bind[a]].status # "none"
Tables ==
    /\ Accounts /\ Credentials /\ OneName /\ \A m \in Missions : Routed(m)
    /\ RevokedNoWork /\ OneKey /\ DisabledHoldsNothing

AInv == /\ Shape /\ Exclusive
        /\ \A s \in Sessions : Steps(s) /\ Enrols(s) /\ Ready(s)
        /\ Tables

-----------------------------------------------------------------------------
(* Orders of finite sets *)

\* A set of naturals has a least element.
LEMMA LeastNatural ==
    ASSUME NEW S \in SUBSET Nat, S # {}
    PROVE  \E m \in S : \A n \in S : m <= n
<1>1. \E m \in S : \A n \in S : ~ (<<n, m>> \in OpToRel(<, Nat))
  BY WFMin, NatLessThanWellFounded, Zenon
<1>2. \A m, n \in Nat : n < m => <<n, m>> \in OpToRel(<, Nat)
  BY DEF OpToRel
<1>3. PICK m \in S : \A n \in S : ~ (<<n, m>> \in OpToRel(<, Nat))
  BY <1>1
<1>4. \A n \in S : ~(n < m)
  BY <1>2, <1>3
<1> QED
  BY <1>4

\* The proper subsets of a set are smaller.
LEMMA Smaller ==
    ASSUME NEW S, IsFiniteSet(S), NEW s \in SUBSET S
    PROVE  /\ IsFiniteSet(s) /\ Cardinality(s) \in Nat /\ Cardinality(s) <= Cardinality(S)
           /\ \A u \in SUBSET s : u # s => Cardinality(u) < Cardinality(s)
<1>1. IsFiniteSet(s) /\ Cardinality(s) <= Cardinality(S)
  BY FS_Subset
<1>2. Cardinality(s) \in Nat
  BY <1>1, FS_CardinalityType
<1>3. ASSUME NEW u \in SUBSET s, u # s PROVE Cardinality(u) < Cardinality(s)
  <2>1. IsFiniteSet(u) /\ Cardinality(u) <= Cardinality(s) /\ (Cardinality(u) = Cardinality(s) => u = s)
    BY <1>1, FS_Subset
  <2>2. Cardinality(u) \in Nat
    BY <2>1, FS_CardinalityType
  <2> QED
    BY <1>2, <1>3, <2>1, <2>2
<1> QED
  BY <1>1, <1>2, <1>3

\* Induction over the subsets of a finite set.
LEMMA SubsetInduction ==
    ASSUME NEW S, IsFiniteSet(S), NEW T,
           \A s \in SUBSET S : (\A u \in SUBSET s : u # s => u \in T) => s \in T
    PROVE  SUBSET S \subseteq T
<1> DEFINE Missing == {Cardinality(s) : s \in {u \in SUBSET S : u \notin T}}
<1> SUFFICES ASSUME Missing # {} PROVE FALSE OBVIOUS
<1>1. Missing \in SUBSET Nat BY Smaller
<1>2. PICK m \in Missing : \A n \in Missing : m <= n BY <1>1, LeastNatural
<1>3. PICK s \in SUBSET S : s \notin T /\ m = Cardinality(s) BY <1>2
<1>4. PICK u \in SUBSET s : u # s /\ u \notin T BY <1>3
<1>5. Cardinality(u) \in Missing BY <1>4
<1>6. Cardinality(u) < m BY <1>3, <1>4, Smaller
<1> QED BY <1>1, <1>2, <1>5, <1>6

\* A strict order, and a total one, on a finite set.
Strict(S, R) == /\ \A x \in S : <<x, x>> \notin R
                /\ \A x, y, z \in S : <<x, y>> \in R /\ <<y, z>> \in R => <<x, z>> \in R
Total(S, R) == Strict(S, R) /\ \A x, y \in S : x # y => <<x, y>> \in R \/ <<y, x>> \in R

\* In a strict order some member of a finite set is before no other.
LEMMA LastMember ==
    ASSUME NEW S, IsFiniteSet(S), NEW R, Strict(S, R), NEW w \in SUBSET S, w # {}
    PROVE  \E x \in w : \A y \in w : <<x, y>> \notin R
<1> DEFINE T == {u \in SUBSET S : u # {} => \E x \in u : \A y \in u : <<x, y>> \notin R}
<1>1. ASSUME NEW u \in SUBSET S, \A v \in SUBSET u : v # u => v \in T PROVE u \in T
  <2>1. CASE u = {}
    BY <2>1
  <2>2. CASE u # {}
    <3>1. PICK x \in u : TRUE
      BY <2>2
    <3> DEFINE v == {y \in u : <<x, y>> \in R}
    <3>2. v \in SUBSET u /\ v # u
      BY <3>1 DEF Strict
    <3>3. CASE v = {}
      BY <3>1, <3>3
    <3>4. CASE v # {}
      <4>1. PICK z \in v : \A y \in v : <<z, y>> \notin R
        BY <1>1, <3>2, <3>4
      <4>2. \A y \in u : <<z, y>> \notin R
        BY <3>1, <4>1 DEF Strict
      <4> QED
        BY <4>1, <4>2
    <3> QED
      BY <3>3, <3>4
  <2> QED
    BY <2>1, <2>2
<1> HIDE DEF T
<1>2. SUBSET S \subseteq T
  BY <1>1, SubsetInduction
<1>3. w \in T
  BY <1>2
<1> QED
  BY <1>3 DEF T

\* The members of u can be put in order.
Lined(u, R) ==
    \E q \in [1..Cardinality(u) -> u] :
        \A i, j \in 1..Cardinality(u) : i < j => <<q[i], q[j]>> \in R

\* Every finite set can, in a total order.
LEMMA SortedExists ==
    ASSUME NEW S, IsFiniteSet(S), NEW R, Total(S, R), NEW w \in SUBSET S
    PROVE  Lined(w, R)
<1> DEFINE T == {u \in SUBSET S : Lined(u, R)}
<1>1. ASSUME NEW u \in SUBSET S, \A v \in SUBSET u : v # u => v \in T PROVE u \in T
  <2>1. CASE u = {}
    <3>1. Cardinality(u) = 0 /\ 1..0 = {}
      BY <2>1, FS_EmptySet
    <3>2. [i \in 1..0 |-> i] \in [1..0 -> u]
      BY <3>1
    <3>3. Lined(u, R)
      BY <3>1, <3>2 DEF Lined
    <3> QED
      BY <3>3
  <2>2. CASE u # {}
    <3>1. PICK x \in u : \A y \in u : <<x, y>> \notin R
      BY <2>2, LastMember DEF Total
    <3> DEFINE v == u \ {x}
               n == Cardinality(u)
    <3>2. v \in SUBSET u /\ v # u /\ IsFiniteSet(u) /\ IsFiniteSet(v)
      BY <3>1, FS_Subset
    <3>3. n \in Nat /\ n >= 1 /\ Cardinality(v) = n - 1
      <4>1. Cardinality(v) = n - 1
        BY <3>1, <3>2, FS_RemoveElement
      <4>2. n \in Nat /\ Cardinality(v) \in Nat
        BY <3>2, FS_CardinalityType
      <4> QED
        BY <4>1, <4>2
    <3>4. Lined(v, R)
      BY <1>1, <3>2
    <3> HIDE DEF n
    <3>5. PICK q \in [1..n - 1 -> v] : \A i, j \in 1..n - 1 : i < j => <<q[i], q[j]>> \in R
      BY <3>3, <3>4 DEF Lined
    <3> DEFINE p == [i \in 1..n |-> IF i < n THEN q[i] ELSE x]
    <3>6. p \in [1..n -> u]
      BY <3>1, <3>3, <3>5
    <3>7. ASSUME NEW i \in 1..n, NEW j \in 1..n, i < j PROVE <<p[i], p[j]>> \in R
      <4>1. i \in 1..n - 1 /\ p[i] = q[i] /\ q[i] \in v
        BY <3>3, <3>5, <3>7
      <4>2. CASE j < n
        <5>1. j \in 1..n - 1 /\ p[j] = q[j]
          BY <3>3, <4>2
        <5> QED
          BY <3>5, <3>7, <4>1, <5>1
      <4>3. CASE j = n
        <5>1. p[j] = x
          BY <4>3
        <5>2. <<q[i], x>> \in R
          BY <3>1, <4>1 DEF Total
        <5> QED
          BY <4>1, <5>1, <5>2
      <4> QED
        BY <3>3, <4>2, <4>3
    <3> HIDE DEF p
    <3>8. Lined(u, R)
      BY <3>6, <3>7 DEF Lined, n
    <3> QED
      BY <3>8
  <2> QED
    BY <2>1, <2>2
<1> HIDE DEF T
<1>2. SUBSET S \subseteq T
  BY <1>1, SubsetInduction
<1>3. w \in T
  BY <1>2
<1> QED
  BY <1>3 DEF T

\* Numbers in ascending order are all of them.
LEMMA AscendingOf ==
    ASSUME NEW S \in SUBSET Nat, IsFiniteSet(S)
    PROVE  /\ Ascending(S) \in [1..Cardinality(S) -> S] /\ Cardinality(S) \in Nat
           /\ \A i, j \in 1..Cardinality(S) : i < j => Ascending(S)[i] < Ascending(S)[j]
           /\ \A x \in S : \E i \in 1..Cardinality(S) : Ascending(S)[i] = x
<1> DEFINE R == {p \in S \X S : p[1] < p[2]}
           n == Cardinality(S)
<1>1. \A x, y \in S : (<<x, y>> \in R) <=> (x < y)
  OBVIOUS
<1>2. Total(S, R)
  BY <1>1 DEF Total, Strict
<1>3. n \in Nat
  BY FS_CardinalityType
<1> HIDE DEF R
<1>4. Lined(S, R)
  BY <1>2, SortedExists
<1>5. \E q \in [1..n -> S] : \A i, j \in 1..n : i < j => q[i] < q[j]
  <2>1. PICK q \in [1..n -> S] : \A i, j \in 1..n : i < j => <<q[i], q[j]>> \in R
    BY <1>4 DEF Lined
  <2> QED
    BY <1>1, <2>1
<1>6. /\ Ascending(S) \in [1..n -> S]
      /\ \A i, j \in 1..n : i < j => Ascending(S)[i] < Ascending(S)[j]
  BY <1>5, Zenon DEF Ascending
<1> DEFINE A == Ascending(S)
<1> HIDE DEF n, A
<1>7. A \in Injection(1..n, S)
  <2>1. ASSUME NEW i \in 1..n, NEW j \in 1..n, A[i] = A[j] PROVE i = j
    <3>1. A[i] \in Nat /\ A[j] \in Nat
      BY <1>6 DEF A
    <3> QED
      BY <1>6, <2>1, <3>1, <1>3 DEF A
  <2> QED
    BY <1>6, <2>1 DEF Injection, IsInjective, A
<1>8. IsFiniteSet(1..n) /\ Cardinality(1..n) = n
  BY <1>3, FS_Interval
<1>9. A \in Surjection(1..n, S)
  BY <1>7, <1>8, FS_Injection DEF n
<1>10. \A x \in S : \E i \in 1..n : A[i] = x
  BY <1>9 DEF Surjection
<1> QED
  BY <1>3, <1>6, <1>10 DEF n, A

\* The pairs of agents in their order.
LEMMA PairsInOrder ==
    /\ PairOrder \in [1..Cardinality(Pairs) -> Pairs] /\ Cardinality(Pairs) \in Nat
    /\ \A i, j \in 1..Cardinality(Pairs) : i < j => Earlier(PairOrder[i], PairOrder[j])
<1> DEFINE R == {p \in Pairs \X Pairs : Earlier(p[1], p[2])}
           n == Cardinality(Pairs)
<1>1. IsFiniteSet(Pairs)
  <2>1. IsFiniteSet(Agents \X Agents)
    BY AuthorityAssumption, FS_Product
  <2> QED
    BY <2>1, FS_Subset DEF Pairs
<1>2. \A x, y \in Pairs : (<<x, y>> \in R) <=> Earlier(x, y)
  OBVIOUS
<1>3. \A x \in Pairs : x = <<x[1], x[2]>> /\ x[1] \in Nat /\ x[2] \in Nat
  <2>1. \A x \in Agents \X Agents : x = <<x[1], x[2]>> /\ x[1] \in Agents /\ x[2] \in Agents
    OBVIOUS
  <2>2. \A a \in Agents : a \in Nat
    BY AuthorityAssumption
  <2> QED
    BY <2>1, <2>2 DEF Pairs
<1> HIDE DEF R
<1>4. Total(Pairs, R)
  <2>1. \A x \in Pairs : <<x, x>> \notin R
    BY <1>2, <1>3 DEF Earlier
  <2>2. \A x, y, z \in Pairs : <<x, y>> \in R /\ <<y, z>> \in R => <<x, z>> \in R
    BY <1>2, <1>3 DEF Earlier
  <2>3. ASSUME NEW x \in Pairs, NEW y \in Pairs, x # y PROVE <<x, y>> \in R \/ <<y, x>> \in R
    <3>1. x[1] # y[1] \/ x[2] # y[2]
      BY <1>3, <2>3
    <3> QED
      BY <1>2, <1>3, <3>1 DEF Earlier
  <2> QED
    BY <2>1, <2>2, <2>3 DEF Total, Strict
<1>5. Lined(Pairs, R)
  BY <1>1, <1>4, SortedExists
<1>6. n \in Nat
  BY <1>1, FS_CardinalityType
<1>7. PICK q \in [1..n -> Pairs] : \A i, j \in 1..n : i < j => <<q[i], q[j]>> \in R
  BY <1>5 DEF Lined
<1> HIDE DEF n
<1>8. \A i, j \in 1..n : i < j => Earlier(q[i], q[j])
  BY <1>2, <1>7
<1>9. \E s \in [1..n -> Pairs] : \A i, j \in 1..n : i < j => Earlier(s[i], s[j])
  BY <1>7, <1>8
<1>10. /\ PairOrder \in [1..n -> Pairs]
       /\ \A i, j \in 1..n : i < j => Earlier(PairOrder[i], PairOrder[j])
  BY <1>9, Zenon DEF PairOrder, n
<1> QED
  BY <1>6, <1>10 DEF n

-----------------------------------------------------------------------------
(* The order of the locks *)

\* Where a lock stands in the order in which they are taken.
Level(l) ==
    CASE l[1] = "invite" -> 0 [] l[1] = "handle" -> 1 [] l[1] = "lifecycle" -> 2
      [] l[1] = "node-enroll" -> 3 [] l[1] = "node" -> 4 [] l[1] = "workspace" -> 5
      [] l[1] = "mission" -> 6 [] OTHER -> 7
First(l) == IF Level(l) \in {4, 6, 7} THEN l[2] ELSE 0
Second(l) == IF Level(l) = 7 THEN l[3] ELSE 0
Below(l, k) ==
    \/ Level(l) < Level(k)
    \/ Level(l) = Level(k) /\ First(l) < First(k)
    \/ Level(l) = Level(k) /\ First(l) = First(k) /\ Second(l) < Second(k)

\* The locks by their kind.
LEMMA LockKinds ==
    /\ \A a \in Agents : /\ <<"handle", a>> \in Lock /\ LifecycleLock(a) \in Lock
                         /\ Level(<<"handle", a>>) = 1 /\ Level(LifecycleLock(a)) = 2
    /\ \A i \in Invites : <<"invite", i>> \in Lock /\ Level(<<"invite", i>>) = 0
    /\ \A a \in Agents, n \in Nodes : /\ <<"node-enroll", a, NodeName[n]>> \in Lock
                                      /\ Level(<<"node-enroll", a, NodeName[n]>>) = 3
    /\ \A n \in Nodes : /\ NodeLock(n) \in Lock /\ <<"workspace", n>> \in Lock
                        /\ Level(NodeLock(n)) = 4 /\ First(NodeLock(n)) = n
                        /\ Second(NodeLock(n)) = 0 /\ Level(<<"workspace", n>>) = 5
    /\ \A m \in Missions : /\ MissionLock(m) \in Lock /\ Level(MissionLock(m)) = 6
                           /\ First(MissionLock(m)) = m /\ Second(MissionLock(m)) = 0
    /\ \A a, b \in Agents : /\ PairLock(a, b) \in Lock /\ Level(PairLock(a, b)) = 7
                            /\ First(PairLock(a, b)) = a /\ Second(PairLock(a, b)) = b
<1>1. \A a \in Agents : <<"handle", a>> \in Lock /\ LifecycleLock(a) \in Lock
  BY DEF Lock, LifecycleLock
<1>2. \A i \in Invites : <<"invite", i>> \in Lock
  BY DEF Lock
<1>3. \A a \in Agents, n \in Nodes : <<"node-enroll", a, NodeName[n]>> \in Lock
  BY DEF Lock
<1>4. \A n \in Nodes : NodeLock(n) \in Lock /\ <<"workspace", n>> \in Lock
  BY DEF Lock, NodeLock
<1>5. \A m \in Missions : MissionLock(m) \in Lock
  BY DEF Lock, MissionLock
<1>6. \A a, b \in Agents : PairLock(a, b) \in Lock
  BY DEF Lock, PairLock
<1>7. \A x, y : /\ Level(<<"handle", x>>) = 1 /\ Level(<<"invite", x>>) = 0
                /\ Level(<<"workspace", x>>) = 5 /\ Level(<<"node-enroll", x, y>>) = 3
                /\ Level(LifecycleLock(x)) = 2
  BY DEF Level, LifecycleLock
<1>8. \A x, y : /\ Level(NodeLock(x)) = 4 /\ Level(MissionLock(x)) = 6 /\ Level(PairLock(x, y)) = 7
  BY DEF Level, NodeLock, MissionLock, PairLock
<1>9. \A x, y : /\ First(NodeLock(x)) = x /\ First(MissionLock(x)) = x /\ First(PairLock(x, y)) = x
                /\ Second(NodeLock(x)) = 0 /\ Second(MissionLock(x)) = 0
                /\ Second(PairLock(x, y)) = y
  <2>1. ASSUME NEW x, NEW y PROVE First(NodeLock(x)) = x /\ Second(NodeLock(x)) = 0
    <3>1. Level(NodeLock(x)) = 4 /\ NodeLock(x)[2] = x
      BY <1>8 DEF NodeLock
    <3> QED
      BY <3>1 DEF First, Second
  <2>2. ASSUME NEW x, NEW y PROVE First(MissionLock(x)) = x /\ Second(MissionLock(x)) = 0
    <3>1. Level(MissionLock(x)) = 6 /\ MissionLock(x)[2] = x
      BY <1>8 DEF MissionLock
    <3> QED
      BY <3>1 DEF First, Second
  <2>3. ASSUME NEW x, NEW y PROVE First(PairLock(x, y)) = x /\ Second(PairLock(x, y)) = y
    <3>1. Level(PairLock(x, y)) = 7 /\ PairLock(x, y)[2] = x /\ PairLock(x, y)[3] = y
      BY <1>8 DEF PairLock
    <3> QED
      BY <3>1 DEF First, Second
  <2> QED
    BY <2>1, <2>2, <2>3
<1> QED
  BY <1>1, <1>2, <1>3, <1>4, <1>5, <1>6, <1>7, <1>8, <1>9

\* Every lock has a place.
LEMMA Places ==
    ASSUME NEW l \in Lock
    PROVE  Level(l) \in 0..7 /\ First(l) \in Nat /\ Second(l) \in Nat
<1>1. Level(l) \in 0..7
  BY DEF Level
<1>2. Agents \subseteq Nat /\ Nodes \subseteq Nat /\ Missions \subseteq Nat
  BY AuthorityAssumption
<1>3. CASE l \in {"handle", "lifecycle"} \X Agents \/ l \in {"invite"} \X Invites
  <2>1. Level(l) \in {0, 1, 2}
    BY <1>3 DEF Level
  <2> QED
    BY <1>1, <2>1 DEF First, Second
<1>4. CASE l \in {"node-enroll"} \X Agents \X {NodeName[n] : n \in Nodes}
  <2>1. Level(l) = 3
    BY <1>4 DEF Level
  <2> QED
    BY <1>1, <2>1 DEF First, Second
<1>5. CASE l \in {"node", "workspace"} \X Nodes \/ l \in {"mission"} \X Missions
  <2>1. Level(l) \in {4, 5, 6} /\ l[2] \in Nat
    BY <1>2, <1>5 DEF Level
  <2> QED
    BY <1>1, <2>1 DEF First, Second
<1>6. CASE l \in {"pair"} \X Agents \X Agents
  <2>1. l[2] \in Nat /\ l[3] \in Nat
    BY <1>2, <1>6
  <2> QED
    BY <1>1, <2>1 DEF First, Second
<1> QED
  BY <1>3, <1>4, <1>5, <1>6, Zenon DEF Lock

\* The order is strict.
LEMMA BelowStrict ==
    /\ \A x \in Lock : ~Below(x, x)
    /\ \A x, y, z \in Lock : Below(x, y) /\ Below(y, z) => Below(x, z)
<1>1. ASSUME NEW x \in Lock PROVE ~Below(x, x)
  BY Places DEF Below
<1>2. ASSUME NEW x \in Lock, NEW y \in Lock, NEW z \in Lock, Below(x, y), Below(y, z)
      PROVE  Below(x, z)
  <2>1. /\ Level(x) \in 0..7 /\ First(x) \in Nat /\ Second(x) \in Nat
        /\ Level(y) \in 0..7 /\ First(y) \in Nat /\ Second(y) \in Nat
        /\ Level(z) \in 0..7 /\ First(z) \in Nat /\ Second(z) \in Nat
    BY Places
  <2> QED
    BY <1>2, <2>1 DEF Below
<1> QED
  BY <1>1, <1>2

-----------------------------------------------------------------------------
(* Sequences of locks *)

LocksOf(q) == {q[i] : i \in 1..Len(q)}
Sorted(q) == \A i, j \in 1..Len(q) : i < j => Below(q[i], q[j])
Between(q, lo, hi) == \A i \in 1..Len(q) : lo <= Level(q[i]) /\ Level(q[i]) <= hi

\* One sequence of locks after another.
LEMMA Joined ==
    ASSUME NEW p \in Seq(Lock), NEW q \in Seq(Lock)
    PROVE  /\ p \o q \in Seq(Lock) /\ Len(p \o q) = Len(p) + Len(q)
           /\ Len(p) \in Nat /\ Len(q) \in Nat
           /\ \A i \in 1..Len(p) : (p \o q)[i] = p[i]
           /\ \A j \in 1..Len(q) : (p \o q)[Len(p) + j] = q[j]
           /\ \A i \in 1..Len(p \o q) :
                 \/ i \in 1..Len(p)
                 \/ i - Len(p) \in 1..Len(q) /\ i > Len(p) /\ (p \o q)[i] = q[i - Len(p)]
<1>1. Len(p) \in Nat /\ Len(q) \in Nat /\ Len(p \o q) = Len(p) + Len(q)
  OBVIOUS
<1>2. \A i \in 1..Len(p) + Len(q) : (p \o q)[i] = IF i <= Len(p) THEN p[i] ELSE q[i - Len(p)]
  OBVIOUS
<1>3. p \o q \in Seq(Lock)
  OBVIOUS
<1> QED
  BY <1>1, <1>2, <1>3

\* It holds the locks of both.
LEMMA JoinedLocks ==
    ASSUME NEW p \in Seq(Lock), NEW q \in Seq(Lock)
    PROVE  LocksOf(p \o q) = LocksOf(p) \cup LocksOf(q)
<1>1. ASSUME NEW l \in LocksOf(p \o q) PROVE l \in LocksOf(p) \cup LocksOf(q)
  <2>1. PICK i \in 1..Len(p \o q) : l = (p \o q)[i]
    BY DEF LocksOf
  <2> QED
    BY <2>1, Joined DEF LocksOf
<1>2. ASSUME NEW l \in LocksOf(p) PROVE l \in LocksOf(p \o q)
  <2>1. PICK i \in 1..Len(p) : l = p[i]
    BY DEF LocksOf
  <2>2. i \in 1..Len(p \o q) /\ (p \o q)[i] = p[i]
    BY <2>1, Joined
  <2> QED
    BY <2>1, <2>2 DEF LocksOf
<1>3. ASSUME NEW l \in LocksOf(q) PROVE l \in LocksOf(p \o q)
  <2>1. PICK i \in 1..Len(q) : l = q[i]
    BY DEF LocksOf
  <2>2. Len(p) + i \in 1..Len(p \o q) /\ (p \o q)[Len(p) + i] = q[i]
    BY <2>1, Joined
  <2> QED
    BY <2>1, <2>2 DEF LocksOf
<1> QED
  BY <1>1, <1>2, <1>3

\* It is sorted when the first ends below the second.
LEMMA JoinedSorted ==
    ASSUME NEW p \in Seq(Lock), NEW q \in Seq(Lock), Sorted(p), Sorted(q),
           NEW a \in Nat, NEW b \in Nat, NEW c \in Nat, NEW d \in Nat,
           Between(p, a, b), Between(q, c, d), a <= b, b < c, c <= d
    PROVE  Sorted(p \o q) /\ Between(p \o q, a, d)
<1> DEFINE s == p \o q
<1>1. ASSUME NEW l \in Lock PROVE Level(l) \in Nat
  <2>1. Level(l) \in 0..7
    BY Places
  <2> QED
    BY <2>1
<1>2. ASSUME NEW i \in 1..Len(p) PROVE p[i] \in Lock /\ a <= Level(p[i]) /\ Level(p[i]) <= b
  BY <1>1 DEF Between
<1>3. ASSUME NEW i \in 1..Len(q) PROVE q[i] \in Lock /\ c <= Level(q[i]) /\ Level(q[i]) <= d
  BY <1>1 DEF Between
<1>4. Between(s, a, d)
  <2>1. ASSUME NEW i \in 1..Len(s) PROVE a <= Level(s[i]) /\ Level(s[i]) <= d
    <3>1. CASE i \in 1..Len(p)
      <4>1. s[i] = p[i]
        BY <3>1, Joined
      <4>2. Level(p[i]) \in Nat
        BY <1>1, <1>2, <3>1
      <4> QED
        BY <1>2, <3>1, <4>1, <4>2
    <3>2. CASE i - Len(p) \in 1..Len(q) /\ s[i] = q[i - Len(p)]
      <4>1. Level(q[i - Len(p)]) \in Nat
        BY <1>1, <1>3, <3>2
      <4> QED
        BY <1>3, <3>2, <4>1
    <3> QED
      BY <3>1, <3>2, Joined
  <2> QED
    BY <2>1 DEF Between
<1>5. ASSUME NEW i \in 1..Len(s), NEW j \in 1..Len(s), i < j PROVE Below(s[i], s[j])
  <2>1. CASE j \in 1..Len(p)
    <3>1. i \in 1..Len(p)
      BY <1>5, <2>1
    <3>2. s[i] = p[i] /\ s[j] = p[j]
      BY <2>1, <3>1, Joined
    <3> QED
      BY <1>5, <2>1, <3>1, <3>2 DEF Sorted
  <2>2. CASE j - Len(p) \in 1..Len(q) /\ s[j] = q[j - Len(p)]
    <3>1. CASE i \in 1..Len(p)
      <4>1. s[i] = p[i]
        BY <3>1, Joined
      <4>2. Level(p[i]) \in Nat /\ Level(q[j - Len(p)]) \in Nat
        BY <1>1, <1>2, <1>3, <2>2, <3>1
      <4>3. Level(p[i]) < Level(q[j - Len(p)])
        BY <1>2, <1>3, <2>2, <3>1, <4>2, SMTT(30)
      <4> QED
        BY <2>2, <4>1, <4>3 DEF Below
    <3>2. CASE i - Len(p) \in 1..Len(q) /\ s[i] = q[i - Len(p)]
      <4>1. i - Len(p) < j - Len(p)
        BY <1>5, Joined
      <4> QED
        BY <2>2, <3>2, <4>1 DEF Sorted
    <3> QED
      BY <3>1, <3>2, Joined
  <2> QED
    BY <2>1, <2>2, Joined
<1> QED
  BY <1>4, <1>5 DEF Sorted

\* The locks taken with at least so many held.
LEMMA Taken ==
    ASSUME NEW p \in Seq(Lock), NEW q \in Seq(Lock), NEW h \in Nat, h >= Len(p), h <= Len(p \o q)
    PROVE  LocksOf(p) \subseteq {(p \o q)[i] : i \in 1..h}
<1>1. ASSUME NEW i \in 1..Len(p) PROVE p[i] \in {(p \o q)[j] : j \in 1..h}
  <2>1. (p \o q)[i] = p[i] /\ i \in 1..h
    BY Joined
  <2> QED
    BY <2>1
<1> QED
  BY <1>1 DEF LocksOf

-----------------------------------------------------------------------------
(* The plans *)

\* What a request names.
LEMMA Names ==
    ASSUME NEW r \in Request
    PROVE  /\ r.op \in {"create", "adminRotate", "selfRotate", "disable", "redeem", "enroll",
                        "revokeNode", "rotateCredential", "register", "revokeWorkspace", "accept",
                        "deliver", "createMission", "block", "unblock"}
           /\ r.op \in {"create", "adminRotate", "selfRotate", "disable"} => r.agent \in Agents
           /\ r.op = "redeem" => r.invite \in Invites /\ InviteFor[r.invite] \in Agents
           /\ r.op \in {"enroll", "revokeNode", "rotateCredential", "register",
                        "revokeWorkspace", "accept", "deliver"} =>
                 r.node \in Nodes /\ NodeOwner[r.node] \in Agents
           /\ r.op \in {"rotateCredential", "register", "revokeWorkspace", "accept", "deliver"} =>
                 r.cred \in 1..MaxCreds
           /\ r.op \in {"accept", "deliver", "createMission"} => r.mission \in Missions
           /\ r.op = "createMission" => r.bind \in [Agents -> Nodes] /\ r.agent \in Agents
           /\ r.op \in {"block", "unblock"} => r.agent \in Agents /\ r.other \in Agents
<1>1. InviteFor \in [Invites -> Agents] /\ NodeOwner \in [Nodes -> Agents]
  BY AuthorityAssumption
<1>2. CASE r \in AccountRequest
  BY <1>2 DEF AccountRequest
<1>3. CASE r \in RedeemRequest
  BY <1>1, <1>3 DEF RedeemRequest
<1>4. CASE r \in OwnerRequest
  BY <1>1, <1>4 DEF OwnerRequest
<1>5. CASE r \in RotateRequest
  BY <1>1, <1>5 DEF RotateRequest
<1>6. CASE r \in WorkspaceRequest
  BY <1>1, <1>6 DEF WorkspaceRequest
<1>7. CASE r \in WorkRequest
  BY <1>1, <1>7 DEF WorkRequest
<1>8. CASE r \in MissionRequest
  BY <1>8 DEF MissionRequest
<1>9. CASE r \in BlockRequest
  BY <1>9 DEF BlockRequest
<1> QED
  BY <1>2, <1>3, <1>4, <1>5, <1>6, <1>7, <1>8, <1>9, Zenon DEF Request

\* The locks of a set of Nodes, in order.
LEMMA NodeSequence ==
    ASSUME NEW set \in SUBSET Nodes
    PROVE  /\ NodeLocks(set) \in Seq(Lock) /\ Sorted(NodeLocks(set)) /\ Between(NodeLocks(set), 4, 4)
           /\ LocksOf(NodeLocks(set)) = {NodeLock(n) : n \in set}
           /\ Len(NodeLocks(set)) = Cardinality(set) /\ Cardinality(set) \in Nat
<1> DEFINE n == Cardinality(set)
           A == Ascending(set)
<1>1. IsFiniteSet(set) /\ set \in SUBSET Nat
  BY AuthorityAssumption, FS_Subset
<1>2. /\ A \in [1..n -> set] /\ n \in Nat
      /\ \A i, j \in 1..n : i < j => A[i] < A[j]
      /\ \A x \in set : \E i \in 1..n : A[i] = x
  BY <1>1, AscendingOf
<1> HIDE DEF n, A
<1>3. NodeLocks(set) = [i \in 1..n |-> NodeLock(A[i])]
  BY DEF NodeLocks, n, A
<1>4. \A i \in 1..n : A[i] \in Nodes /\ NodeLock(A[i]) \in Lock
  BY <1>2, LockKinds
<1>5. NodeLocks(set) \in Seq(Lock) /\ Len(NodeLocks(set)) = n
  BY <1>2, <1>3, <1>4
<1>6. \A i \in 1..n : NodeLocks(set)[i] = NodeLock(A[i])
  BY <1>3
<1>7. ASSUME NEW i \in 1..n, NEW j \in 1..n, i < j PROVE Below(NodeLocks(set)[i], NodeLocks(set)[j])
  <2>1. Level(NodeLock(A[i])) = 4 /\ Level(NodeLock(A[j])) = 4
    BY <1>4, LockKinds
  <2>2. First(NodeLock(A[i])) = A[i] /\ First(NodeLock(A[j])) = A[j]
    BY <1>4, LockKinds
  <2>3. A[i] < A[j]
    BY <1>2, <1>7
  <2> QED
    BY <1>6, <2>1, <2>2, <2>3 DEF Below
<1>8. \A i \in 1..n : Level(NodeLocks(set)[i]) = 4
  BY <1>4, <1>6, LockKinds
<1>9. LocksOf(NodeLocks(set)) = {NodeLock(x) : x \in set}
  <2>1. LocksOf(NodeLocks(set)) = {NodeLock(A[i]) : i \in 1..n}
    BY <1>5, <1>6 DEF LocksOf
  <2> QED
    BY <1>2, <2>1
<1> QED
  BY <1>2, <1>5, <1>7, <1>8, <1>9 DEF Sorted, Between, n

\* And of the Missions of a set of Nodes.
LEMMA MissionSequence ==
    ASSUME NEW set
    PROVE  /\ MissionLocks(set) \in Seq(Lock) /\ Sorted(MissionLocks(set))
           /\ Between(MissionLocks(set), 6, 6)
           /\ LocksOf(MissionLocks(set)) = {MissionLock(m) : m \in MissionsOf(set)}
           /\ Len(MissionLocks(set)) = Cardinality(MissionsOf(set))
<1> DEFINE all == MissionsOf(set)
           n == Cardinality(all)
           A == Ascending(all)
<1>0. all \in SUBSET Missions
  BY DEF MissionsOf
<1>1. IsFiniteSet(all) /\ all \in SUBSET Nat
  BY <1>0, AuthorityAssumption, FS_Subset
<1> HIDE DEF all
<1>2. /\ A \in [1..n -> all] /\ n \in Nat
      /\ \A i, j \in 1..n : i < j => A[i] < A[j]
      /\ \A x \in all : \E i \in 1..n : A[i] = x
  BY <1>1, AscendingOf
<1> HIDE DEF n, A
<1>3. MissionLocks(set) = [i \in 1..n |-> MissionLock(A[i])]
  BY DEF MissionLocks, n, A, all
<1>4. \A i \in 1..n : A[i] \in Missions /\ MissionLock(A[i]) \in Lock
  BY <1>0, <1>2, LockKinds
<1>5. MissionLocks(set) \in Seq(Lock) /\ Len(MissionLocks(set)) = n
  BY <1>2, <1>3, <1>4
<1>6. \A i \in 1..n : MissionLocks(set)[i] = MissionLock(A[i])
  BY <1>3
<1>7. ASSUME NEW i \in 1..n, NEW j \in 1..n, i < j
      PROVE  Below(MissionLocks(set)[i], MissionLocks(set)[j])
  <2>1. Level(MissionLock(A[i])) = 6 /\ Level(MissionLock(A[j])) = 6
    BY <1>4, LockKinds
  <2>2. First(MissionLock(A[i])) = A[i] /\ First(MissionLock(A[j])) = A[j]
    BY <1>4, LockKinds
  <2>3. A[i] < A[j]
    BY <1>2, <1>7
  <2> QED
    BY <1>6, <2>1, <2>2, <2>3 DEF Below
<1>8. \A i \in 1..n : Level(MissionLocks(set)[i]) = 6
  BY <1>4, <1>6, LockKinds
<1>9. LocksOf(MissionLocks(set)) = {MissionLock(x) : x \in all}
  <2>1. LocksOf(MissionLocks(set)) = {MissionLock(A[i]) : i \in 1..n}
    BY <1>5, <1>6 DEF LocksOf
  <2> QED
    BY <1>2, <2>1
<1> QED
  BY <1>2, <1>5, <1>7, <1>8, <1>9 DEF Sorted, Between, n, all

\* And of the trust boundary.
LEMMA TrustSequence ==
    TrustLocks \in Seq(Lock) /\ Sorted(TrustLocks) /\ Between(TrustLocks, 7, 7)
<1> DEFINE n == Cardinality(Pairs)
<1>1. /\ PairOrder \in [1..n -> Pairs] /\ n \in Nat
      /\ \A i, j \in 1..n : i < j => Earlier(PairOrder[i], PairOrder[j])
  BY PairsInOrder
<1> HIDE DEF n
<1>2. TrustLocks = [i \in 1..n |-> PairLock(PairOrder[i][1], PairOrder[i][2])]
  BY DEF TrustLocks, n
<1>3. \A i \in 1..n : PairOrder[i][1] \in Agents /\ PairOrder[i][2] \in Agents
  BY <1>1 DEF Pairs
<1>4. \A i \in 1..n : PairLock(PairOrder[i][1], PairOrder[i][2]) \in Lock
  BY <1>3, LockKinds
<1>5. TrustLocks \in Seq(Lock) /\ Len(TrustLocks) = n
  BY <1>1, <1>2, <1>4
<1>6. \A i \in 1..n : TrustLocks[i] = PairLock(PairOrder[i][1], PairOrder[i][2])
  BY <1>2
<1>7. \A i \in 1..n : /\ Level(TrustLocks[i]) = 7 /\ First(TrustLocks[i]) = PairOrder[i][1]
                      /\ Second(TrustLocks[i]) = PairOrder[i][2]
  BY <1>3, <1>6, LockKinds
<1>8. ASSUME NEW i \in 1..n, NEW j \in 1..n, i < j PROVE Below(TrustLocks[i], TrustLocks[j])
  <2>1. Earlier(PairOrder[i], PairOrder[j])
    BY <1>1, <1>8
  <2> QED
    BY <1>7, <2>1 DEF Below, Earlier
<1> QED
  BY <1>5, <1>7, <1>8 DEF Sorted, Between

(* A plan that takes a Node's lock and then a Mission's, and closes with the locks of
   the agent pairs, is still in order: no level of the plan is above the pairs'. *)
LEMMA TrustAppended ==
    ASSUME NEW p \in Seq(Lock), Sorted(p), Between(p, 4, 6)
    PROVE  Sorted(p \o TrustLocks)
<1>1. /\ 4 \in Nat /\ 6 \in Nat /\ 7 \in Nat
      /\ 4 <= 6 /\ 6 < 7 /\ 7 <= 7
  OBVIOUS
<1>2. TrustLocks \in Seq(Lock) /\ Sorted(TrustLocks) /\ Between(TrustLocks, 7, 7)
  BY TrustSequence
<1> HIDE DEF TrustLocks
<1> QED
  BY <1>1, <1>2, JoinedSorted, Zenon

\* One lock.
LEMMA OneLock ==
    ASSUME NEW l \in Lock
    PROVE  /\ <<l>> \in Seq(Lock) /\ Len(<<l>>) = 1 /\ LocksOf(<<l>>) = {l} /\ Sorted(<<l>>)
           /\ \A a \in Nat : a = Level(l) => Between(<<l>>, a, a)
<1>1. <<l>> \in Seq(Lock) /\ Len(<<l>>) = 1
  OBVIOUS
<1>2. LocksOf(<<l>>) = {l}
  BY DEF LocksOf
<1>3. Sorted(<<l>>)
  BY DEF Sorted
<1>4. \A a \in Nat : a = Level(l) => Between(<<l>>, a, a)
  BY DEF Between
<1> QED
  BY <1>1, <1>2, <1>3, <1>4

\* Two locks, the first below the second.
LEMMA TwoLocks ==
    ASSUME NEW l \in Lock, NEW k \in Lock, Level(l) < Level(k)
    PROVE  /\ <<l, k>> \in Seq(Lock) /\ Len(<<l, k>>) = 2 /\ LocksOf(<<l, k>>) = {l, k}
           /\ Sorted(<<l, k>>) /\ Between(<<l, k>>, Level(l), Level(k))
<1>1. <<l, k>> \in Seq(Lock) /\ Len(<<l, k>>) = 2
  OBVIOUS
<1>2. LocksOf(<<l, k>>) = {l, k}
  <2>1. 1..2 = {1, 2}
    OBVIOUS
  <2> QED
    BY <2>1 DEF LocksOf
<1>3. Below(l, k)
  BY DEF Below
<1>4. Sorted(<<l, k>>)
  BY <1>3 DEF Sorted
<1>5. Level(l) \in 0..7 /\ Level(k) \in 0..7
  BY Places
<1>6. Between(<<l, k>>, Level(l), Level(k))
  BY <1>5 DEF Between
<1> QED
  BY <1>1, <1>2, <1>4, <1>6

\* The request touches one Node.
AtNode == {"revokeNode", "rotateCredential", "register", "revokeWorkspace", "accept", "deliver"}

\* What a request locks from the start, in order.
LEMMA Planned ==
    ASSUME NEW r \in Request
    PROVE  /\ Plan(r) \in Seq(Lock) /\ Sorted(Plan(r))
           /\ r.op = "create" => <<"handle", r.agent>> \in LocksOf(Plan(r))
           /\ r.op = "redeem" => <<"handle", InviteFor[r.invite]>> \in LocksOf(Plan(r))
           /\ r.op \in {"adminRotate", "selfRotate"} => LifecycleLock(r.agent) \in LocksOf(Plan(r))
           /\ r.op = "enroll" =>
                 /\ LifecycleLock(NodeOwner[r.node]) \in LocksOf(Plan(r))
                 /\ <<"node-enroll", NodeOwner[r.node], NodeName[r.node]>> \in LocksOf(Plan(r))
           /\ r.op \in AtNode => NodeLock(r.node) \in LocksOf(Plan(r))
           /\ r.op \in {"accept", "deliver", "createMission"} =>
                 MissionLock(r.mission) \in LocksOf(Plan(r))
           /\ r.op = "createMission" =>
                 \A a \in Agents : NodeLock(r.bind[a]) \in LocksOf(Plan(r))
           /\ r.op = "disable" => Plan(r) = <<LifecycleLock(r.agent)>>
           /\ r.op = "revokeNode" => Plan(r) = <<NodeLock(r.node)>>
           /\ r.op = "revokeWorkspace" => Plan(r) = <<NodeLock(r.node), <<"workspace", r.node>>>>
<1>1. CASE r.op = "create"
  <2>1. Plan(r) = <<<<"handle", r.agent>>>>
    BY <1>1 DEF Plan, AccountPlan
  <2>2. <<"handle", r.agent>> \in Lock
    BY <1>1, Names, LockKinds
  <2> QED
    BY <1>1, <2>1, <2>2, OneLock DEF AtNode
<1>2. CASE r.op = "redeem"
  <2>1. Plan(r) = <<<<"invite", r.invite>>, <<"handle", InviteFor[r.invite]>>>>
    BY <1>2 DEF Plan, AccountPlan
  <2>2. r.invite \in Invites /\ InviteFor[r.invite] \in Agents
    BY <1>2, Names
  <2>3. /\ <<"invite", r.invite>> \in Lock /\ <<"handle", InviteFor[r.invite]>> \in Lock
        /\ Level(<<"invite", r.invite>>) = 0 /\ Level(<<"handle", InviteFor[r.invite]>>) = 1
    BY <2>2, LockKinds
  <2>4. Plan(r) \in Seq(Lock) /\ Sorted(Plan(r))
        /\ LocksOf(Plan(r)) = {<<"invite", r.invite>>, <<"handle", InviteFor[r.invite]>>}
    BY <2>1, <2>3, TwoLocks
  <2> QED
    BY <1>2, <2>4 DEF AtNode
<1>3. CASE r.op \in {"adminRotate", "selfRotate", "disable"}
  <2>1. Plan(r) = <<LifecycleLock(r.agent)>>
    BY <1>3 DEF Plan, AccountPlan
  <2>2. LifecycleLock(r.agent) \in Lock
    BY <1>3, Names, LockKinds
  <2> QED
    BY <1>3, <2>1, <2>2, OneLock DEF AtNode
<1>4. CASE r.op = "enroll"
  <2> DEFINE a == NodeOwner[r.node]
             l == LifecycleLock(a)
             k == <<"node-enroll", a, NodeName[r.node]>>
  <2>1. Plan(r) = <<l, k>>
    BY <1>4 DEF Plan, EnrollPlan
  <2>2. r.node \in Nodes /\ a \in Agents
    BY <1>4, Names
  <2>3. l \in Lock /\ k \in Lock /\ Level(l) = 2 /\ Level(k) = 3
    BY <2>2, LockKinds
  <2> HIDE DEF l, k
  <2>4. Plan(r) \in Seq(Lock) /\ Sorted(Plan(r)) /\ LocksOf(Plan(r)) = {l, k}
    BY <2>1, <2>3, TwoLocks
  <2> QED
    BY <1>4, <2>4 DEF AtNode, l, k
<1>5. CASE r.op \in {"revokeNode", "rotateCredential"}
  <2>1. Plan(r) = <<NodeLock(r.node)>>
    BY <1>5 DEF Plan
  <2>2. NodeLock(r.node) \in Lock
    BY <1>5, Names, LockKinds
  <2> QED
    BY <1>5, <2>1, <2>2, OneLock DEF AtNode
<1>6. CASE r.op \in {"register", "revokeWorkspace"}
  <2>1. Plan(r) = <<NodeLock(r.node), <<"workspace", r.node>>>>
    BY <1>6 DEF Plan
  <2>2. r.node \in Nodes
    BY <1>6, Names
  <2>3. /\ NodeLock(r.node) \in Lock /\ <<"workspace", r.node>> \in Lock
        /\ Level(NodeLock(r.node)) = 4 /\ Level(<<"workspace", r.node>>) = 5
    BY <2>2, LockKinds
  <2>4. /\ Plan(r) \in Seq(Lock) /\ Sorted(Plan(r))
        /\ LocksOf(Plan(r)) = {NodeLock(r.node), <<"workspace", r.node>>}
    BY <2>1, <2>3, TwoLocks
  <2> QED
    BY <1>6, <2>1, <2>4 DEF AtNode
<1>7. CASE r.op \in {"accept", "deliver"}
  <2> DEFINE p == <<NodeLock(r.node), MissionLock(r.mission)>>
  <2>1. Plan(r) = p \o TrustLocks
    BY <1>7 DEF Plan, AcceptPlan, DeliverPlan
  <2>2. r.node \in Nodes /\ r.mission \in Missions
    BY <1>7, Names
  <2>3. /\ NodeLock(r.node) \in Lock /\ MissionLock(r.mission) \in Lock
        /\ Level(NodeLock(r.node)) = 4 /\ Level(MissionLock(r.mission)) = 6
    BY <2>2, LockKinds
  <2>4. /\ p \in Seq(Lock) /\ Sorted(p) /\ LocksOf(p) = {NodeLock(r.node), MissionLock(r.mission)}
        /\ Between(p, 4, 6)
    BY <2>3, TwoLocks
  <2> HIDE DEF p
  <2>5. Plan(r) \in Seq(Lock) /\ LocksOf(Plan(r)) = LocksOf(p) \cup LocksOf(TrustLocks)
    BY <2>1, <2>4, Joined, JoinedLocks, TrustSequence
  <2>6. Sorted(Plan(r))
    BY <2>1, <2>4, TrustAppended
  <2> QED
    BY <1>7, <2>4, <2>5, <2>6 DEF AtNode
<1>8. CASE r.op = "createMission"
  <2> DEFINE set == {r.bind[a] : a \in Agents}
             l == MissionLock(r.mission)
             k == <<l>>
             p == NodeLocks(set) \o k
  <2>1. Plan(r) = p \o TrustLocks
    BY <1>8 DEF Plan, CreateMissionPlan, LockParticipantNodes
  <2>2. r.mission \in Missions /\ r.bind \in [Agents -> Nodes]
    BY <1>8, Names
  <2>3. set \in SUBSET Nodes
    BY <2>2
  <2>4. l \in Lock /\ Level(l) = 6
    BY <2>2, LockKinds
  <2> HIDE DEF l
  <2>5. k \in Seq(Lock) /\ LocksOf(k) = {l} /\ Sorted(k) /\ Between(k, 6, 6)
    BY <2>4, OneLock
  <2> HIDE DEF k
  <2>6. /\ NodeLocks(set) \in Seq(Lock) /\ Sorted(NodeLocks(set)) /\ Between(NodeLocks(set), 4, 4)
        /\ LocksOf(NodeLocks(set)) = {NodeLock(n) : n \in set}
    BY <2>3, NodeSequence
  <2>7. p \in Seq(Lock) /\ LocksOf(p) = {NodeLock(n) : n \in set} \cup {l}
    BY <2>5, <2>6, Joined, JoinedLocks
  <2>8. Sorted(p) /\ Between(p, 4, 6)
    BY <2>5, <2>6, JoinedSorted
  <2> HIDE DEF p
  <2>9. Plan(r) \in Seq(Lock) /\ LocksOf(Plan(r)) = LocksOf(p) \cup LocksOf(TrustLocks)
    BY <2>1, <2>7, Joined, JoinedLocks, TrustSequence
  <2>10. Sorted(Plan(r))
    BY <2>1, <2>7, <2>8, TrustAppended
  <2> QED
    BY <1>8, <2>7, <2>9, <2>10 DEF AtNode, l
<1>9. CASE r.op \in {"block", "unblock"}
  <2>1. Plan(r) = <<PairLock(r.agent, r.other)>>
    BY <1>9 DEF Plan
  <2>2. PairLock(r.agent, r.other) \in Lock
    BY <1>9, Names, LockKinds
  <2> QED
    BY <1>9, <2>1, <2>2, OneLock DEF AtNode
<1> QED
  BY <1>1, <1>2, <1>3, <1>4, <1>5, <1>6, <1>7, <1>8, <1>9, Names

\* Lists that hold no lock.
LEMMA NoLocks ==
    /\ <<>> \in Seq(Lock) /\ Len(<<>>) = 0 /\ LocksOf(<<>>) = {} /\ Sorted(<<>>)
    /\ \A a, b : Between(<<>>, a, b)
    /\ \A p \in Seq(Lock) : p \o <<>> = p
<1>1. <<>> \in Seq(Lock) /\ Len(<<>>) = 0 /\ 1..0 = {}
  OBVIOUS
<1>2. LocksOf(<<>>) = {} /\ Sorted(<<>>) /\ \A a, b : Between(<<>>, a, b)
  BY <1>1 DEF LocksOf, Sorted, Between
<1>3. \A p \in Seq(Lock) : p \o <<>> = p
  OBVIOUS
<1> QED
  BY <1>1, <1>2, <1>3

\* The Nodes and Missions a request is about.
LEMMA LostNodes ==
    ASSUME NEW r \in Request, r.op \in Revocation
    PROVE  /\ Lost(r) \in SUBSET Nodes /\ OwnNodes(r.agent) \in SUBSET Nodes
           /\ Cardinality(OwnNodes(r.agent)) \in Nat
<1>1. OwnNodes(r.agent) \in SUBSET Nodes
  BY DEF OwnNodes
<1>2. Cardinality(OwnNodes(r.agent)) \in Nat
  BY <1>1, NodeSequence
<1>3. Lost(r) \in SUBSET Nodes
  BY <1>1, Names DEF Lost, Revocation
<1> QED
  BY <1>1, <1>2, <1>3

\* The plan at any point is a list of locks in order.
LEMMA PlanInOrder ==
    ASSUME NEW r \in Request, NEW held \in Nat
    PROVE  PlanAt(r, held) \in Seq(Lock) /\ Sorted(PlanAt(r, held))
<1>1. Plan(r) \in Seq(Lock) /\ Sorted(Plan(r))
  BY Planned
<1>2. CASE r.op \notin Revocation
  <2>1. NodePart(r, held) = <<>> /\ MissionPart(r, held) = <<>>
    BY <1>2 DEF NodePart, MissionPart, Found, Revocation
  <2>2. PlanAt(r, held) = Plan(r)
    BY <1>1, <2>1, NoLocks DEF PlanAt, Base
  <2> QED
    BY <1>1, <2>2
<1>3. CASE r.op \in Revocation
  <2> DEFINE p == Plan(r) \o NodePart(r, held)
             m == MissionPart(r, held)
  <2>1. m \in Seq(Lock) /\ Sorted(m) /\ Between(m, 6, 6)
    BY MissionSequence, NoLocks DEF MissionPart
  <2>2. p \in Seq(Lock) /\ Sorted(p) /\ Between(p, 2, 5)
    <3>1. CASE r.op = "disable"
      <4> DEFINE l == LifecycleLock(r.agent)
                 k == <<l>>
                 n == NodePart(r, held)
      <4>1. Plan(r) = <<l>> /\ l \in Lock /\ Level(l) = 2
        BY <3>1, Planned, Names, LockKinds
      <4> HIDE DEF l
      <4>2. k \in Seq(Lock) /\ Sorted(k) /\ Between(k, 2, 2)
        BY <4>1, OneLock
      <4> HIDE DEF k
      <4>3. n \in Seq(Lock) /\ Sorted(n) /\ Between(n, 4, 4)
        BY <1>3, LostNodes, NodeSequence, NoLocks DEF NodePart
      <4> HIDE DEF n, k
      <4>4. k \o n \in Seq(Lock)
        BY <4>2, <4>3, Joined
      <4>5. Sorted(k \o n) /\ Between(k \o n, 2, 4)
        BY <4>2, <4>3, JoinedSorted
      <4>6. \A i \in 1..Len(k \o n) : (k \o n)[i] \in Lock
        BY <4>4
      <4>7. Between(k \o n, 2, 5)
        <5>1. ASSUME NEW i \in 1..Len(k \o n)
              PROVE  2 <= Level((k \o n)[i]) /\ Level((k \o n)[i]) <= 5
          <6>1. Level((k \o n)[i]) \in 0..7
            BY <4>6, Places
          <6>2. 2 <= Level((k \o n)[i]) /\ Level((k \o n)[i]) <= 4
            BY <4>5 DEF Between
          <6> QED
            BY <6>1, <6>2
        <5> QED
          BY <5>1 DEF Between
      <4> QED
        BY <4>1, <4>4, <4>5, <4>7 DEF n, k
    <3>2. CASE r.op # "disable"
      <4>1. NodePart(r, held) = <<>> /\ r.node \in Nodes
        BY <1>3, <3>2, Names DEF NodePart, Revocation
      <4>2. p = Plan(r)
        BY <1>1, <4>1, NoLocks
      <4>3. /\ NodeLock(r.node) \in Lock /\ <<"workspace", r.node>> \in Lock
            /\ Level(NodeLock(r.node)) = 4 /\ Level(<<"workspace", r.node>>) = 5
        BY <4>1, LockKinds
      <4>4. Plan(r) \in {<<NodeLock(r.node)>>, <<NodeLock(r.node), <<"workspace", r.node>>>>}
        BY <1>3, <3>2, Planned DEF Revocation
      <4>5. Between(<<NodeLock(r.node)>>, 2, 5)
        BY <4>3 DEF Between
      <4>6. Between(<<NodeLock(r.node), <<"workspace", r.node>>>>, 2, 5)
        BY <4>3 DEF Between
      <4> QED
        BY <1>1, <4>2, <4>4, <4>5, <4>6
    <3> QED
      BY <3>1, <3>2
  <2> HIDE DEF p, m
  <2>3. p \o m \in Seq(Lock)
    BY <2>1, <2>2, Joined
  <2>4. Sorted(p \o m)
    BY <2>1, <2>2, JoinedSorted
  <2> QED
    BY <2>3, <2>4 DEF PlanAt, Base, p, m
<1> QED
  BY <1>2, <1>3

-----------------------------------------------------------------------------
(* How the plan of a revocation grows *)

\* Locks of different kinds differ, and one of a kind names what it locks.
LEMMA Differ ==
    /\ \A n, k : NodeLock(n) = NodeLock(k) => n = k
    /\ \A m, k : MissionLock(m) = MissionLock(k) => m = k
    /\ \A n, m : NodeLock(n) # MissionLock(m)
    /\ \A n, a : NodeLock(n) # LifecycleLock(a)
    /\ \A n, k : NodeLock(n) # <<"workspace", k>>
    /\ \A n, a : MissionLock(n) # LifecycleLock(a)
    /\ \A n, k : MissionLock(n) # <<"workspace", k>>
    /\ \A n : NodeLock(n)[1] = "node" /\ MissionLock(n)[1] = "mission"
    /\ \A n : LifecycleLock(n)[1] = "lifecycle" /\ <<"workspace", n>>[1] = "workspace"
<1>1. \A n, k : NodeLock(n) = NodeLock(k) => n = k
  BY DEF NodeLock
<1>2. \A n, k : MissionLock(n) = MissionLock(k) => n = k
  BY DEF MissionLock
<1>3. \A n, m : NodeLock(n) # MissionLock(m)
  BY DEF NodeLock, MissionLock
<1>4. \A n, a : NodeLock(n) # LifecycleLock(a) /\ MissionLock(n) # LifecycleLock(a)
  BY DEF NodeLock, MissionLock, LifecycleLock
<1>5. \A n, k : NodeLock(n) # <<"workspace", k>> /\ MissionLock(n) # <<"workspace", k>>
  BY DEF NodeLock, MissionLock
<1>6. \A n : NodeLock(n)[1] = "node" /\ MissionLock(n)[1] = "mission"
  BY DEF NodeLock, MissionLock
<1>7. \A n : LifecycleLock(n)[1] = "lifecycle" /\ <<"workspace", n>>[1] = "workspace"
  BY DEF LifecycleLock
<1> QED
  BY <1>1, <1>2, <1>3, <1>4, <1>5, <1>6, <1>7

\* What a revocation locks before the Missions: its Nodes among others.
LEMMA BaseLocks ==
    ASSUME NEW r \in Request, r.op \in Revocation, NEW h \in Nat
    PROVE  /\ Base(r, h) \in Seq(Lock) /\ Len(Base(r, h)) >= 1
           /\ Found(r, h) <=> (h >= Len(Base(r, h)))
           /\ r.op = "disable" => LifecycleLock(r.agent) \in LocksOf(Base(r, 0))
           /\ r.op = "disable" => Base(r, 0) = Plan(r) /\ Len(Base(r, 0)) = 1
           /\ r.op = "disable" /\ h >= 1 =>
                 /\ LocksOf(Base(r, h)) = {LifecycleLock(r.agent)} \cup {NodeLock(n) : n \in Lost(r)}
                 /\ Len(Base(r, h)) = 1 + Cardinality(Lost(r))
                 /\ \A i \in 2..Len(Base(r, h)) : Base(r, h)[i][1] = "node"
           /\ r.op # "disable" =>
                 /\ LocksOf(Base(r, h)) \in {{NodeLock(r.node)}, {NodeLock(r.node), <<"workspace", r.node>>}}
                 /\ Base(r, h)[Len(Base(r, h))][1] = (IF r.op = "revokeNode" THEN "node" ELSE "workspace")
           /\ h >= 1 => Base(r, h + 1) = Base(r, h)
           /\ r.op # "disable" => Base(r, h + 1) = Base(r, h)
<1>0. Plan(r) \in Seq(Lock)
  BY Planned
<1>1. CASE r.op = "disable"
  <2> DEFINE l == LifecycleLock(r.agent)
             own == OwnNodes(r.agent)
             q == NodeLocks(own)
             p == <<l>>
  <2>1. Plan(r) = p /\ l \in Lock
    BY <1>1, Planned, Names, LockKinds
  <2>2. p \in Seq(Lock) /\ Len(p) = 1 /\ LocksOf(p) = {l}
    BY <2>1, OneLock
  <2>3. own \in SUBSET Nodes /\ Lost(r) = own
    BY <1>1, LostNodes DEF Lost
  <2>4. /\ q \in Seq(Lock) /\ LocksOf(q) = {NodeLock(n) : n \in own}
        /\ Len(q) = Cardinality(own) /\ Cardinality(own) \in Nat
    BY <2>3, NodeSequence
  <2> HIDE DEF own, p, q
  <2>5. p \o q \in Seq(Lock) /\ Len(p \o q) = 1 + Cardinality(own)
        /\ LocksOf(p \o q) = {l} \cup {NodeLock(n) : n \in own}
    <3>1. p \o q \in Seq(Lock) /\ Len(p \o q) = Len(p) + Len(q)
      BY <2>2, <2>4, Joined
    <3>2. LocksOf(p \o q) = LocksOf(p) \cup LocksOf(q)
      BY <2>2, <2>4, JoinedLocks
    <3> QED
      BY <2>2, <2>4, <3>1, <3>2
  <2>6. h = 0 => Base(r, h) = p
    BY <1>1, <2>1, <2>2, NoLocks DEF Base, NodePart
  <2>7. h >= 1 => Base(r, h) = p \o q
    BY <1>1, <2>1 DEF Base, NodePart, q, own
  <2>8. Base(r, 0) = p
    BY <1>1, <2>1, <2>2, NoLocks DEF Base, NodePart
  <2>9. h + 1 >= 1 => Base(r, h + 1) = p \o q
    BY <1>1, <2>1 DEF Base, NodePart, q, own
  <2>10. Found(r, h) <=> h >= 1 + Cardinality(own)
    BY <1>1 DEF Found, own
  <2>11. \A i \in 2..Len(p \o q) : (p \o q)[i][1] = "node"
    <3>1. ASSUME NEW i \in 2..Len(p \o q) PROVE (p \o q)[i][1] = "node"
      <4>1. i - 1 \in 1..Len(q) /\ (p \o q)[i] = q[i - 1]
        BY <2>2, <2>4, <2>5, Joined
      <4>2. q[i - 1] \in {NodeLock(n) : n \in own}
        BY <2>4, <4>1 DEF LocksOf
      <4> QED
        BY <4>1, <4>2, Differ
    <3> QED
      BY <3>1
  <2> DEFINE c == Cardinality(own)
             pq == p \o q
  <2> HIDE DEF c, pq, l
  <2>12. c \in Nat /\ pq \in Seq(Lock) /\ Len(pq) = 1 + c
    BY <2>4, <2>5 DEF c, pq
  <2>13. Base(r, h) = IF h = 0 THEN p ELSE pq
    BY <2>6, <2>7 DEF pq
  <2>14. Base(r, h) \in Seq(Lock) /\ Len(Base(r, h)) >= 1
    <3>1. Len(p) >= 1 /\ Len(pq) >= 1
      BY <2>2, <2>12
    <3> QED
      BY <2>2, <2>12, <2>13, <3>1, Zenon
  <2>15. Found(r, h) <=> (h >= Len(Base(r, h)))
    <3>1. Found(r, h) <=> h >= 1 + c
      BY <2>10 DEF c
    <3> QED
      <4>1. CASE h = 0
        <5>1. Len(Base(r, h)) = 1
          BY <2>2, <2>13, <4>1
        <5>2. ~Found(r, h)
          BY <2>12, <3>1, <4>1
        <5>3. ~(h >= Len(Base(r, h)))
          BY <4>1, <5>1
        <5> QED
          BY <5>2, <5>3
      <4>2. CASE h # 0
        <5>1. Len(Base(r, h)) = 1 + c
          BY <2>12, <2>13, <4>2
        <5> QED
          BY <3>1, <5>1
      <4> QED
        BY <4>1, <4>2
  <2>16. /\ LifecycleLock(r.agent) \in LocksOf(Base(r, 0))
         /\ Base(r, 0) = Plan(r) /\ Len(Base(r, 0)) = 1
    BY <2>1, <2>2, <2>8 DEF l
  <2>17. ASSUME h >= 1
         PROVE  /\ LocksOf(Base(r, h)) = {LifecycleLock(r.agent)} \cup {NodeLock(n) : n \in Lost(r)}
                /\ Len(Base(r, h)) = 1 + Cardinality(Lost(r))
                /\ \A i \in 2..Len(Base(r, h)) : Base(r, h)[i][1] = "node"
                /\ Base(r, h + 1) = Base(r, h)
    <3>1. Base(r, h) = pq /\ Base(r, h + 1) = pq
      BY <2>7, <2>9, <2>17 DEF pq
    <3>2. LocksOf(pq) = {LifecycleLock(r.agent)} \cup {NodeLock(n) : n \in Lost(r)}
      BY <2>3, <2>5 DEF pq, l
    <3>3. Len(pq) = 1 + Cardinality(Lost(r))
      BY <2>3, <2>12 DEF c
    <3>4. \A i \in 2..Len(pq) : pq[i][1] = "node"
      BY <2>11 DEF pq
    <3> QED
      BY <3>1, <3>2, <3>3, <3>4
  <2> QED
    BY <1>1, <2>14, <2>15, <2>16, <2>17
<1>2. CASE r.op # "disable"
  <2>1. \A k \in Nat : Base(r, k) = Plan(r)
    BY <1>0, <1>2, NoLocks DEF Base, NodePart
  <2>2. r.node \in Nodes
    BY <1>2, Names DEF Revocation
  <2>3. /\ NodeLock(r.node) \in Lock /\ <<"workspace", r.node>> \in Lock
        /\ Level(NodeLock(r.node)) = 4 /\ Level(<<"workspace", r.node>>) = 5
    BY <2>2, LockKinds
  <2>4. CASE r.op = "revokeNode"
    <3>1. Plan(r) = <<NodeLock(r.node)>>
      BY <2>4, Planned
    <3>2. Len(Plan(r)) = 1 /\ LocksOf(Plan(r)) = {NodeLock(r.node)} /\ Plan(r)[1] = NodeLock(r.node)
      BY <2>3, <3>1, OneLock
    <3>3. Found(r, h) <=> h >= 1
      BY <2>4 DEF Found
    <3> QED
      <4>1. Base(r, h) = Plan(r) /\ Base(r, h + 1) = Plan(r)
        BY <2>1
      <4>2. Plan(r)[Len(Plan(r))][1] = "node"
        BY <3>2, Differ
      <4>3. Base(r, h) \in Seq(Lock) /\ Len(Base(r, h)) = 1
        BY <1>0, <3>2, <4>1
      <4>4. LocksOf(Base(r, h)) = {NodeLock(r.node)} /\ Base(r, h)[Len(Base(r, h))][1] = "node"
        BY <3>2, <4>1, <4>2
      <4>5. Found(r, h) <=> (h >= Len(Base(r, h)))
        BY <3>3, <4>3
      <4>6. Len(Base(r, h)) >= 1
        BY <4>3
      <4> QED
        BY <1>2, <2>4, <4>1, <4>3, <4>4, <4>5, <4>6
  <2>5. CASE r.op = "revokeWorkspace"
    <3>1. Plan(r) = <<NodeLock(r.node), <<"workspace", r.node>>>>
      BY <2>5, Planned
    <3>2. /\ Len(Plan(r)) = 2 /\ LocksOf(Plan(r)) = {NodeLock(r.node), <<"workspace", r.node>>}
          /\ Plan(r)[2][1] = "workspace"
      BY <2>3, <3>1, TwoLocks
    <3>3. Found(r, h) <=> h >= 2
      BY <2>5 DEF Found
    <3> QED
      <4>1. Base(r, h) = Plan(r) /\ Base(r, h + 1) = Plan(r)
        BY <2>1
      <4>2. Base(r, h) \in Seq(Lock) /\ Len(Base(r, h)) = 2
        BY <1>0, <3>2, <4>1
      <4>3. /\ LocksOf(Base(r, h)) = {NodeLock(r.node), <<"workspace", r.node>>}
            /\ Base(r, h)[Len(Base(r, h))][1] = "workspace"
        BY <3>2, <4>1
      <4>4. Found(r, h) <=> (h >= Len(Base(r, h)))
        BY <3>3, <4>2
      <4>5. Len(Base(r, h)) >= 1
        BY <4>2
      <4> QED
        BY <1>2, <2>5, <4>1, <4>2, <4>3, <4>4, <4>5
  <2> QED
    BY <1>2, <2>4, <2>5 DEF Revocation
<1> QED
  BY <1>1, <1>2

\* The Nodes and Missions of a plan are those whose locks it has.
LEMMA PlannedLocks ==
    ASSUME NEW p \in Seq(Lock)
    PROVE  /\ PlannedNodes(p) = {n \in Nodes : NodeLock(n) \in LocksOf(p)}
           /\ PlannedMissions(p) = {m \in Missions : MissionLock(m) \in LocksOf(p)}
<1>1. DOMAIN p = 1..Len(p)
  OBVIOUS
<1>2. \A l : (l \in LocksOf(p)) <=> \E i \in DOMAIN p : p[i] = l
  BY <1>1 DEF LocksOf
<1> QED
  BY <1>2 DEF PlannedNodes, PlannedMissions

\* When the Missions are looked for, the Nodes in the plan are those lost.
LEMMA BaseNodes ==
    ASSUME NEW r \in Request, r.op \in Revocation, NEW h \in Nat, h >= 1 \/ r.op # "disable"
    PROVE  /\ {n \in Nodes : NodeLock(n) \in LocksOf(Base(r, h))} = Lost(r)
           /\ {m \in Missions : MissionLock(m) \in LocksOf(Base(r, h))} = {}
<1>1. Lost(r) \in SUBSET Nodes
  BY LostNodes
<1>2. CASE r.op = "disable"
  <2>1. LocksOf(Base(r, h)) = {LifecycleLock(r.agent)} \cup {NodeLock(n) : n \in Lost(r)}
    BY <1>2, BaseLocks
  <2> QED
    BY <1>1, <2>1, Differ
<1>3. CASE r.op # "disable"
  <2>1. LocksOf(Base(r, h)) \in {{NodeLock(r.node)}, {NodeLock(r.node), <<"workspace", r.node>>}}
    BY <1>3, BaseLocks
  <2>2. Lost(r) = {r.node}
    BY <1>3 DEF Lost
  <2> QED
    BY <1>1, <2>1, <2>2, Differ
<1> QED
  BY <1>2, <1>3

\* The plan of a revocation that has found its Missions.
LEMMA FoundPlan ==
    ASSUME NEW r \in Request, r.op \in Revocation, NEW h \in Nat, Found(r, h)
    PROVE  /\ PlanAt(r, h) = Base(r, h) \o MissionLocks(Lost(r))
           /\ PlannedNodes(PlanAt(r, h)) = Lost(r)
           /\ PlannedMissions(PlanAt(r, h)) = MissionsOf(Lost(r))
           /\ \A n \in Lost(r) : NodeLock(n) \in LocksOf(Base(r, h))
           /\ \A m \in MissionsOf(Lost(r)) : MissionLock(m) \in LocksOf(PlanAt(r, h))
<1> DEFINE b == Base(r, h)
           q == MissionLocks(Lost(r))
           p == PlanAt(r, h)
<1>1. p = b \o q
  BY DEF PlanAt, MissionPart
<1>2. h >= 1 \/ r.op # "disable"
  BY BaseLocks
<1>3. {n \in Nodes : NodeLock(n) \in LocksOf(b)} = Lost(r)
      /\ {m \in Missions : MissionLock(m) \in LocksOf(b)} = {}
  BY <1>2, BaseNodes
<1>4. b \in Seq(Lock)
  BY BaseLocks
<1>5. q \in Seq(Lock) /\ LocksOf(q) = {MissionLock(m) : m \in MissionsOf(Lost(r))}
  BY MissionSequence
<1>6. MissionsOf(Lost(r)) \subseteq Missions
  BY DEF MissionsOf
<1> HIDE DEF b, q, p
<1>7. p \in Seq(Lock) /\ LocksOf(p) = LocksOf(b) \cup LocksOf(q)
  BY <1>1, <1>4, <1>5, Joined, JoinedLocks
<1>8. PlannedNodes(p) = Lost(r)
  <2>1. \A n \in Nodes : NodeLock(n) \notin LocksOf(q)
    BY <1>5, Differ
  <2>2. PlannedNodes(p) = {n \in Nodes : NodeLock(n) \in LocksOf(p)}
    BY <1>7, PlannedLocks
  <2> QED
    BY <1>3, <1>7, <2>1, <2>2
<1>9. PlannedMissions(p) = MissionsOf(Lost(r))
  <2>1. \A m \in Missions : (MissionLock(m) \in LocksOf(q)) <=> (m \in MissionsOf(Lost(r)))
    BY <1>5, Differ
  <2>2. PlannedMissions(p) = {m \in Missions : MissionLock(m) \in LocksOf(p)}
    BY <1>7, PlannedLocks
  <2> QED
    BY <1>3, <1>6, <1>7, <2>1, <2>2
<1> QED
  BY <1>1, <1>3, <1>5, <1>7, <1>8, <1>9 DEF b, q, p

\* Without Nodes there are no Missions.
LEMMA NoMissions == MissionLocks({}) = <<>>
<1>1. MissionsOf({}) = {}
  BY DEF MissionsOf
<1>2. MissionLocks({}) \in Seq(Lock) /\ Len(MissionLocks({})) = 0
  BY <1>1, MissionSequence, FS_EmptySet
<1> QED
  BY <1>2

\* A transaction that takes its next lock finds what its plan then says.
LEMMA AcquiredPlan ==
    ASSUME NEW r \in Request, NEW h \in Nat, h < Len(PlanAt(r, h))
    PROVE  (IF h + 1 = Len(PlanAt(r, h)) THEN PlanAt(r, h) \o MoreLocks(r, PlanAt(r, h))
            ELSE PlanAt(r, h)) = PlanAt(r, h + 1)
<1> DEFINE p == PlanAt(r, h)
<1>0. p \in Seq(Lock) /\ p \o <<>> = p
  BY PlanInOrder, NoLocks
<1>1. CASE r.op \notin Revocation
  <2>1. \A k : NodePart(r, k) = <<>> /\ MissionPart(r, k) = <<>>
    BY <1>1 DEF NodePart, MissionPart, Found, Revocation
  <2>2. PlanAt(r, h + 1) = p
    BY <2>1 DEF PlanAt, Base
  <2>3. MoreLocks(r, p) = <<>>
    BY <1>1 DEF MoreLocks, Revocation
  <2> QED
    BY <1>0, <2>2, <2>3
<1>2. CASE r.op \in Revocation
  <2> DEFINE b == Base(r, h)
  <2>1. b \in Seq(Lock) /\ Len(b) >= 1
    BY <1>2, BaseLocks
  <2>2. Len(b) \in Nat
    BY <2>1
  <2>3. Found(r, h) <=> (h >= Len(b))
    BY <1>2, BaseLocks
  <2>4. CASE Found(r, h)
    <3> DEFINE q == MissionLocks(Lost(r))
    <3>1. p = b \o q
      BY <1>2, <2>4, FoundPlan
    <3>2. q \in Seq(Lock) /\ LocksOf(q) = {MissionLock(m) : m \in MissionsOf(Lost(r))}
      BY MissionSequence
    <3> HIDE DEF b, q, p
    <3>3. Len(p) = Len(b) + Len(q) /\ Len(q) \in Nat /\ Len(p) - Len(b) \in 1..Len(q)
      <4>1. Len(p) = Len(b) + Len(q) /\ Len(q) \in Nat
        BY <2>1, <3>1, <3>2, Joined
      <4>2. h < Len(p) /\ h >= Len(b)
        BY <2>3, <2>4 DEF p
      <4> QED
        BY <2>2, <4>1, <4>2
    <3>4. p[Len(p)] = q[Len(q)] /\ Len(q) \in 1..Len(q)
      <4>1. Len(q) \in 1..Len(q) /\ Len(p) = Len(b) + Len(q)
        BY <2>2, <3>3
      <4> QED
        BY <2>1, <3>1, <3>2, <4>1, Joined
    <3>5. Last(p)[1] = "mission"
      <4>1. q[Len(q)] \in LocksOf(q)
        BY <3>4 DEF LocksOf
      <4>2. PICK m \in MissionsOf(Lost(r)) : q[Len(q)] = MissionLock(m)
        BY <3>2, <4>1
      <4> QED
        BY <3>4, <4>2, Differ DEF Last
    <3>6. MoreLocks(r, p) = <<>>
      <4>1. Last(p) # LifecycleLock(r.agent)
        BY <3>5, Differ
      <4> QED
        BY <3>5, <4>1 DEF MoreLocks
    <3>7. h >= 1 /\ Base(r, h + 1) = Base(r, h)
      <4>1. h >= 1
        BY <2>1, <2>2, <2>3, <2>4
      <4> QED
        BY <1>2, <4>1, BaseLocks
    <3>8. Found(r, h + 1)
      <4>1. Found(r, h + 1) <=> (h + 1 >= Len(Base(r, h + 1)))
        BY <1>2, BaseLocks
      <4> QED
        BY <2>2, <2>3, <2>4, <3>7, <4>1 DEF b
    <3>9. PlanAt(r, h + 1) = p
      BY <3>1, <3>7, <3>8 DEF PlanAt, MissionPart, b, q
    <3> QED
      BY <1>0, <3>6, <3>9 DEF p
  <2>5. CASE ~Found(r, h) /\ (h >= 1 \/ r.op # "disable")
    <3>1. p = b
      BY <2>1, <2>5, NoLocks DEF PlanAt, MissionPart
    <3>2. Base(r, h + 1) = b
      BY <1>2, <2>5, BaseLocks
    <3>3. Found(r, h + 1) <=> (h + 1 >= Len(b))
      BY <1>2, <3>2, BaseLocks
    <3>4. h < Len(b)
      BY <3>1
    <3>5. CASE h + 1 = Len(b)
      <4>1. Found(r, h + 1)
        BY <2>2, <3>3, <3>5
      <4>2. PlanAt(r, h + 1) = b \o MissionLocks(Lost(r))
        BY <3>2, <4>1 DEF PlanAt, MissionPart
      <4>3. PlannedNodes(p) = Lost(r)
        <5>1. PlannedNodes(b) = {n \in Nodes : NodeLock(n) \in LocksOf(b)}
          BY <2>1, PlannedLocks
        <5> QED
          BY <1>2, <2>5, <3>1, <5>1, BaseNodes
      <4>4. \/ r.op \in {"disable", "revokeNode"} /\ Last(p)[1] = "node"
            \/ r.op = "revokeWorkspace" /\ Last(p)[1] = "workspace"
        <5>1. CASE r.op = "disable"
          <6>1. h >= 1 /\ Len(b) \in 2..Len(b)
            BY <2>2, <2>5, <3>5, <5>1
          <6>2. b[Len(b)][1] = "node"
            BY <1>2, <5>1, <6>1, BaseLocks
          <6> QED
            BY <3>1, <5>1, <6>2 DEF Last
        <5>2. CASE r.op # "disable"
          <6>1. b[Len(b)][1] = (IF r.op = "revokeNode" THEN "node" ELSE "workspace")
            BY <1>2, <5>2, BaseLocks
          <6> QED
            BY <1>2, <3>1, <5>2, <6>1 DEF Last, Revocation
        <5> QED
          BY <5>1, <5>2
      <4>5. Last(p) # LifecycleLock(r.agent)
        BY <4>4, Differ
      <4>6. MoreLocks(r, p) = MissionLocks(PlannedNodes(p))
        BY <4>4, <4>5 DEF MoreLocks
      <4>7. h + 1 = Len(p)
        BY <3>1, <3>5
      <4> QED
        BY <3>1, <4>2, <4>3, <4>6, <4>7
    <3>6. CASE h + 1 # Len(b)
      <4>1. ~Found(r, h + 1)
        BY <2>2, <3>3, <3>4, <3>6
      <4>2. PlanAt(r, h + 1) = p
        BY <2>1, <3>1, <3>2, <4>1, NoLocks DEF PlanAt, MissionPart
      <4> QED
        BY <3>1, <3>6, <4>2
    <3> QED
      BY <3>5, <3>6
  <2>6. CASE ~Found(r, h) /\ h = 0 /\ r.op = "disable"
    <3> DEFINE own == OwnNodes(r.agent)
               l == LifecycleLock(r.agent)
    <3>1. b = <<l>> /\ Len(b) = 1
      BY <1>2, <2>6, BaseLocks, Planned
    <3>2. p = b
      BY <2>1, <2>6, NoLocks DEF PlanAt, MissionPart
    <3>3. Last(p) = l
      BY <3>1, <3>2 DEF Last
    <3>4. MoreLocks(r, p) = NodeLocks(own)
      <4>1. Last(p) = LifecycleLock(r.agent) /\ ~(Last(p)[1] = "node")
        BY <3>3, Differ
      <4> HIDE DEF p
      <4>2. MoreLocks(r, p) = NodeLocks({n \in Nodes : NodeOwner[n] = r.agent /\ nodes[n].status # "none"})
        BY <2>6, <4>1 DEF MoreLocks
      <4> QED
        BY <4>2 DEF OwnNodes
    <3>5. Base(r, 1) = b \o NodeLocks(own)
      <4>1. b = Plan(r)
        BY <1>2, <2>6, BaseLocks
      <4>2. NodePart(r, 1) = NodeLocks(own)
        BY <2>6 DEF NodePart
      <4> QED
        BY <4>1, <4>2 DEF Base
    <3>6. MissionPart(r, 1) = <<>>
      <4>1. CASE Found(r, 1)
        <5>1. 1 >= 1 + Cardinality(own)
          BY <2>6, <4>1 DEF Found
        <5>2. Cardinality(own) = 0
          BY <1>2, <5>1, LostNodes
        <5>3. IsFiniteSet(own)
          BY <1>2, LostNodes, AuthorityAssumption, FS_Subset
        <5>4. own = {}
          BY <5>2, <5>3, FS_EmptySet
        <5>5. Lost(r) = {}
          BY <2>6, <5>4 DEF Lost
        <5> QED
          BY <5>5, NoMissions DEF MissionPart
      <4> QED
        BY <4>1 DEF MissionPart
    <3>7. Base(r, 1) \in Seq(Lock)
      BY <1>2, BaseLocks
    <3>8. PlanAt(r, 1) = b \o NodeLocks(own)
      BY <3>5, <3>6, <3>7, NoLocks DEF PlanAt
    <3>9. h + 1 = 1 /\ h + 1 = Len(p)
      BY <2>6, <3>1, <3>2
    <3> QED
      BY <3>2, <3>4, <3>8, <3>9
  <2> QED
    BY <2>4, <2>5, <2>6
<1> QED
  BY <1>1, <1>2

-----------------------------------------------------------------------------
(* What a transaction holds *)

\* The row of a session with a transaction.
LEMMA BusyRow ==
    ASSUME Shape, NEW s \in Sessions, tx[s].busy
    PROVE  tx[s] \in SessionRow
<1>1. tx[s] \in SessionRow \cup {Idle}
  BY DEF Shape
<1>2. tx[s] # Idle
  BY DEF Idle
<1> QED
  BY <1>1, <1>2

\* The parts of a plan are lists of locks.
LEMMA PartsAreLocks ==
    ASSUME NEW r \in Request, NEW h \in Nat
    PROVE  /\ Plan(r) \in Seq(Lock) /\ NodePart(r, h) \in Seq(Lock) /\ Base(r, h) \in Seq(Lock)
           /\ MissionPart(r, h) \in Seq(Lock) /\ PlanAt(r, h) \in Seq(Lock)
<1>1. Plan(r) \in Seq(Lock)
  BY Planned
<1>2. OwnNodes(r.agent) \in SUBSET Nodes
  BY DEF OwnNodes
<1>3. NodePart(r, h) \in Seq(Lock)
  BY <1>2, NodeSequence, NoLocks DEF NodePart
<1>4. MissionPart(r, h) \in Seq(Lock)
  BY MissionSequence, NoLocks DEF MissionPart
<1>5. Base(r, h) \in Seq(Lock)
  BY <1>1, <1>3, Joined DEF Base
<1> QED
  BY <1>1, <1>3, <1>4, <1>5, PlanInOrder

\* A transaction's plan, its locks and the ones it is sure to hold.
LEMMA Holding ==
    ASSUME Shape, NEW s \in Sessions, tx[s].busy, Steps(s)
    PROVE  /\ tx[s].req \in Request /\ tx[s].held \in Nat /\ tx[s].held <= Len(tx[s].plan)
           /\ tx[s].plan = PlanAt(tx[s].req, tx[s].held)
           /\ tx[s].plan \in Seq(Lock) /\ Sorted(tx[s].plan)
           /\ Holds(s) = {tx[s].plan[i] : i \in 1..tx[s].held}
           /\ tx[s].ready => LocksOf(Plan(tx[s].req)) \subseteq Holds(s)
           /\ tx[s].req.op = "disable" /\ tx[s].held >= 1 => LifecycleLock(tx[s].req.agent) \in Holds(s)
           /\ tx[s].req.op \in Revocation /\ Found(tx[s].req, tx[s].held) =>
                 \A n \in Lost(tx[s].req) : NodeLock(n) \in Holds(s)
<1> DEFINE r == tx[s].req
           h == tx[s].held
           p == tx[s].plan
<1>1. r \in Request /\ h \in Nat /\ p \in Seq(Lock)
  BY BusyRow DEF SessionRow
<1>2. h <= Len(p) /\ (tx[s].ready => h = Len(p)) /\ p = PlanAt(r, h)
  BY DEF Steps
<1>3. Holds(s) = {p[i] : i \in 1..h}
  BY DEF Holds
<1> HIDE DEF r, h, p
<1>4. Sorted(p)
  BY <1>1, <1>2, PlanInOrder
<1>5. /\ Plan(r) \in Seq(Lock) /\ NodePart(r, h) \in Seq(Lock) /\ Base(r, h) \in Seq(Lock)
      /\ MissionPart(r, h) \in Seq(Lock)
  BY <1>1, PartsAreLocks
<1>6. ASSUME tx[s].ready PROVE LocksOf(Plan(r)) \subseteq Holds(s)
  <2>1. Holds(s) = LocksOf(p)
    BY <1>2, <1>3, <1>6 DEF LocksOf
  <2>2. LocksOf(p) = LocksOf(Base(r, h)) \cup LocksOf(MissionPart(r, h))
    BY <1>2, <1>5, JoinedLocks DEF PlanAt
  <2>3. LocksOf(Base(r, h)) = LocksOf(Plan(r)) \cup LocksOf(NodePart(r, h))
    BY <1>5, JoinedLocks DEF Base
  <2> QED
    BY <2>1, <2>2, <2>3
<1>7. ASSUME r.op = "disable", h >= 1 PROVE LifecycleLock(r.agent) \in Holds(s)
  <2> DEFINE l == LifecycleLock(r.agent)
  <2>1. Plan(r) = <<l>> /\ l \in Lock
    BY <1>1, <1>7, Planned, Names, LockKinds
  <2>2. Len(Plan(r)) = 1 /\ Plan(r)[1] = l
    BY <2>1
  <2>3. Base(r, h)[1] = l /\ Len(Base(r, h)) \in Nat /\ Len(Base(r, h)) >= 1
    BY <1>5, <2>2, Joined DEF Base
  <2>4. p[1] = l
    BY <1>2, <1>5, <2>3, Joined DEF PlanAt
  <2>5. 1 \in 1..h
    BY <1>1, <1>7
  <2> QED
    BY <1>3, <2>4, <2>5
<1>8. ASSUME r.op \in Revocation, Found(r, h), NEW n \in Lost(r) PROVE NodeLock(n) \in Holds(s)
  <2>1. NodeLock(n) \in LocksOf(Base(r, h))
    BY <1>1, <1>8, FoundPlan
  <2>2. h >= Len(Base(r, h))
    BY <1>1, <1>8, BaseLocks
  <2>3. h <= Len(Base(r, h) \o MissionPart(r, h))
    BY <1>2 DEF PlanAt
  <2>4. LocksOf(Base(r, h)) \subseteq {(Base(r, h) \o MissionPart(r, h))[i] : i \in 1..h}
    BY <1>1, <1>5, <2>2, <2>3, Taken
  <2>5. p = Base(r, h) \o MissionPart(r, h)
    BY <1>2 DEF PlanAt
  <2> QED
    BY <1>3, <2>1, <2>4, <2>5
<1> QED
  BY <1>1, <1>2, <1>3, <1>4, <1>6, <1>7, <1>8 DEF r, h, p

\* A revocation that has all its locks has found its Missions and locked them.
LEMMA Locked ==
    ASSUME Shape, NEW s \in Sessions, tx[s].busy, Steps(s), tx[s].held = Len(tx[s].plan),
           tx[s].req.op \in Revocation
    PROVE  /\ Found(tx[s].req, tx[s].held)
           /\ PlannedNodes(tx[s].plan) = Lost(tx[s].req)
           /\ PlannedMissions(tx[s].plan) = MissionsOf(Lost(tx[s].req))
           /\ \A n \in Lost(tx[s].req) : NodeLock(n) \in Holds(s)
           /\ \A m \in MissionsOf(Lost(tx[s].req)) : MissionLock(m) \in Holds(s)
           /\ tx[s].req.op = "disable" => LifecycleLock(tx[s].req.agent) \in Holds(s)
<1> DEFINE r == tx[s].req
           h == tx[s].held
           p == tx[s].plan
<1>1. /\ r \in Request /\ h \in Nat /\ p = PlanAt(r, h) /\ h = Len(p)
      /\ Holds(s) = {p[i] : i \in 1..h}
      /\ r.op = "disable" /\ h >= 1 => LifecycleLock(r.agent) \in Holds(s)
      /\ Found(r, h) => \A n \in Lost(r) : NodeLock(n) \in Holds(s)
  BY Holding
<1>2. r.op \in Revocation
  OBVIOUS
<1> HIDE DEF r, h, p
<1>3. /\ Base(r, h) \in Seq(Lock) /\ Len(Base(r, h)) >= 1
      /\ Found(r, h) <=> (h >= Len(Base(r, h)))
  BY <1>1, <1>2, BaseLocks
<1>4. Found(r, h)
  <2>1. CASE ~Found(r, h)
    <3>1. p = Base(r, h)
      BY <1>1, <1>3, <2>1, NoLocks DEF PlanAt, MissionPart
    <3>2. Len(Base(r, h)) \in Nat
      BY <1>3
    <3> QED
      BY <1>1, <1>3, <3>1, <3>2
  <2> QED
    BY <2>1
<1>5. h >= 1
  <2>1. Len(Base(r, h)) \in Nat
    BY <1>3
  <2> QED
    BY <1>1, <1>3, <1>4, <2>1
<1>6. /\ PlannedNodes(p) = Lost(r) /\ PlannedMissions(p) = MissionsOf(Lost(r))
      /\ \A m \in MissionsOf(Lost(r)) : MissionLock(m) \in LocksOf(p)
  BY <1>1, <1>2, <1>4, FoundPlan
<1>7. Holds(s) = LocksOf(p)
  BY <1>1 DEF LocksOf
<1> QED
  BY <1>1, <1>4, <1>5, <1>6, <1>7 DEF r, h, p

-----------------------------------------------------------------------------
(* No deadlock *)

\* Transactions that know their plans and take them in order never wait for
\* one another in a circle.
LEMMA OrderedLocks ==
    ASSUME Shape, \A s \in Sessions : Steps(s)
    PROVE  NoDeadlock
<1> SUFFICES ASSUME NEW set \in SUBSET Sessions, set # {},
                    \A s \in set : WaitsFor(s) \cap set # {}
             PROVE  FALSE
  BY DEF NoDeadlock
<1> DEFINE next(s) == tx[s].plan[tx[s].held + 1]
           R == {q \in set \X set : Below(next(q[1]), next(q[2]))}
<1>1. IsFiniteSet(set)
  BY AuthorityAssumption, FS_Subset
<1>2. ASSUME NEW s \in set
      PROVE  /\ tx[s].busy /\ tx[s].held + 1 \in 1..Len(tx[s].plan) /\ next(s) \in Lock
             /\ \E u \in set : next(s) \in Holds(u)
  <2>1. tx[s].busy /\ tx[s].held < Len(tx[s].plan)
        /\ \E u \in set : tx[s].plan[tx[s].held + 1] \in Holds(u)
    BY DEF WaitsFor
  <2>2. tx[s].held \in Nat /\ tx[s].plan \in Seq(Lock)
    BY <2>1, Holding
  <2>3. tx[s].held + 1 \in 1..Len(tx[s].plan)
    BY <2>1, <2>2
  <2>4. next(s) \in Lock
    BY <2>2, <2>3
  <2> QED
    BY <2>1, <2>3, <2>4
<1>3. \A x, y \in set : (<<x, y>> \in R) <=> Below(next(x), next(y))
  OBVIOUS
<1>4. \A x \in set : next(x) \in Lock
  BY <1>2
<1>5. ASSUME NEW s \in set, NEW u \in set, next(s) \in Holds(u) PROVE Below(next(s), next(u))
  <2>1. /\ tx[u].plan \in Seq(Lock) /\ Sorted(tx[u].plan) /\ tx[u].held \in Nat
        /\ Holds(u) = {tx[u].plan[i] : i \in 1..tx[u].held}
    BY <1>2, Holding
  <2>2. PICK i \in 1..tx[u].held : next(s) = tx[u].plan[i]
    BY <1>5, <2>1
  <2>3. i < tx[u].held + 1 /\ tx[u].held + 1 \in 1..Len(tx[u].plan) /\ i \in 1..Len(tx[u].plan)
    BY <1>2, <2>1, <2>2, SMTT(30)
  <2> QED
    BY <2>1, <2>2, <2>3 DEF Sorted
<1> HIDE DEF R, next
<1>6. Strict(set, R)
  <2>1. \A x \in set : <<x, x>> \notin R
    BY <1>3, <1>4, BelowStrict
  <2>2. \A x, y, z \in set : <<x, y>> \in R /\ <<y, z>> \in R => <<x, z>> \in R
    BY <1>3, <1>4, BelowStrict
  <2> QED
    BY <2>1, <2>2 DEF Strict
<1>7. PICK s \in set : \A y \in set : <<s, y>> \notin R
  BY <1>1, <1>6, LastMember
<1>8. PICK u \in set : next(s) \in Holds(u)
  BY <1>2 DEF next
<1>9. Below(next(s), next(u))
  BY <1>5, <1>8 DEF next
<1> QED
  BY <1>3, <1>7, <1>9

-----------------------------------------------------------------------------
(* Steps that write no table *)

\* Plans, and what transactions have read, depend on the tables alone.
LEMMA QuietTables ==
    ASSUME agents' = agents, nodes' = nodes, missions' = missions
    PROVE  /\ \A r, h : PlanAt(r, h)' = PlanAt(r, h)
           /\ \A r : Stands(r)' <=> Stands(r)
           /\ \A r : MissionsOf(Lost(r))' = MissionsOf(Lost(r))
           /\ Tables => Tables'
<1>1. \A x : OwnNodes(x)' = OwnNodes(x) /\ MissionsOf(x)' = MissionsOf(x)
  BY DEF OwnNodes, MissionsOf
<1>2. \A r : Lost(r)' = Lost(r)
  BY <1>1 DEF Lost
<1>3. \A r : MissionsOf(Lost(r))' = MissionsOf(Lost(r))
  BY <1>1, <1>2
<1>4. \A x : MissionLocks(x)' = MissionLocks(x)
  BY <1>1 DEF MissionLocks
<1>5. \A r, h : NodePart(r, h)' = NodePart(r, h) /\ Found(r, h)' = Found(r, h)
  BY <1>1 DEF NodePart, Found
<1>6. \A r, h : MissionPart(r, h)' = MissionPart(r, h)
  BY <1>2, <1>4, <1>5 DEF MissionPart
<1>7. \A r, h : PlanAt(r, h)' = PlanAt(r, h)
  BY <1>5, <1>6 DEF PlanAt, Base
<1>8. \A b : RoutesActive(b)' <=> RoutesActive(b)
  BY DEF RoutesActive
<1>9. \A r : (Accepts(r)' <=> Accepts(r)) /\ (Creates(r)' <=> Creates(r))
  BY <1>8 DEF Accepts, Creates
<1>10. \A r : (EnrollAdmitted(r)' <=> EnrollAdmitted(r)) /\ (RotateAdmitted(r)' <=> RotateAdmitted(r))
  BY DEF EnrollAdmitted, RotateAdmitted
<1>11. ASSUME NEW r PROVE Stands(r)' <=> Stands(r)
  BY <1>9, <1>10 DEF Stands
<1>12. ASSUME Tables PROVE Tables'
  <2>1. Accounts' /\ OneKey'
    BY <1>12 DEF Tables, Accounts, OneKey
  <2>2. Credentials' /\ OneName'
    BY <1>12 DEF Tables, Credentials, OneName
  <2>3. \A m \in Missions : Routed(m)'
    BY <1>12 DEF Tables, Routed
  <2>4. RevokedNoWork'
    BY <1>8, <1>12 DEF Tables, RevokedNoWork
  <2>5. DisabledHoldsNothing'
    BY <1>12 DEF Tables, DisabledHoldsNothing
  <2> QED
    BY <2>1, <2>2, <2>3, <2>4, <2>5 DEF Tables
<1> QED
  BY <1>3, <1>7, <1>11, <1>12

\* What a session relies on stays so when it and the tables do.
LEMMA QuietSession ==
    ASSUME agents' = agents, nodes' = nodes, missions' = missions,
           NEW u \in Sessions, tx'[u] = tx[u]
    PROVE  /\ Steps(u) => Steps(u)'
           /\ Ready(u) => Ready(u)'
           /\ Holds(u)' = Holds(u)
<1>1. /\ \A r, h : PlanAt(r, h)' = PlanAt(r, h)
      /\ \A r : Stands(r)' <=> Stands(r)
      /\ \A r : MissionsOf(Lost(r))' = MissionsOf(Lost(r))
  BY QuietTables
<1>2. Steps(u) => Steps(u)'
  BY <1>1 DEF Steps
<1>3. Ready(u) => Ready(u)'
  BY <1>1 DEF Ready
<1>4. Holds(u)' = Holds(u)
  BY DEF Holds
<1> QED
  BY <1>2, <1>3, <1>4

\* A step of one session that writes no table.
LEMMA SessionStep ==
    ASSUME AInv, NEW s \in Sessions, NEW row, tx' = [tx EXCEPT ![s] = row],
           row \in SessionRow \cup {Idle},
           agents' = agents, nodes' = nodes, missions' = missions,
           invites' = invites, blocks' = blocks, scenario' = scenario,
           Steps(s)', Enrols(s)', Ready(s)',
           \A u \in Sessions \ {s} : Holds(s)' \cap Holds(u) = {},
           \A u \in Sessions \ {s} :
              tx[u].busy /\ tx[u].req.op = "enroll" /\ row.busy => row.req # tx[u].req
    PROVE  AInv'
<1>1. tx'[s] = row /\ \A u \in Sessions \ {s} : tx'[u] = tx[u]
  BY DEF AInv, Shape
<1>2. Shape'
  <2>1. tx' \in [Sessions -> SessionRow \cup {Idle}]
    BY DEF AInv, Shape
  <2>2. (SessionRow \cup {Idle})' = SessionRow \cup {Idle}
    BY DEF SessionRow, Idle
  <2> QED
    BY <2>1 DEF AInv, Shape
<1>3. \A u \in Sessions \ {s} : Holds(u)' = Holds(u)
  BY <1>1, QuietSession
<1>4. Exclusive'
  BY <1>3 DEF AInv, Exclusive
<1>5. ASSUME NEW u \in Sessions \ {s} PROVE Steps(u)' /\ Enrols(u)' /\ Ready(u)'
  <2>1. Steps(u)' /\ Ready(u)'
    BY <1>1, QuietSession DEF AInv
  <2>2. Enrols(u)'
    BY <1>1 DEF AInv, Enrols
  <2> QED
    BY <2>1, <2>2
<1>6. Tables'
  BY QuietTables DEF AInv
<1> QED
  BY <1>2, <1>4, <1>5, <1>6 DEF AInv

\* A transaction that ends without a commit.
LEMMA EndsQuietly ==
    ASSUME AInv, NEW s \in Sessions, tx' = [tx EXCEPT ![s] = Idle],
           agents' = agents, nodes' = nodes, missions' = missions,
           invites' = invites, blocks' = blocks, scenario' = scenario
    PROVE  AInv'
<1>1. tx'[s] = Idle
  BY DEF AInv, Shape
<1>2. ~tx'[s].busy /\ ~Idle.busy
  BY <1>1 DEF Idle
<1>3. Steps(s)' /\ Enrols(s)' /\ Ready(s)' /\ Holds(s)' = {}
  BY <1>2 DEF Steps, Enrols, Ready, Holds
<1> QED
  BY <1>2, <1>3, SessionStep

\* Rolling back.
LEMMA RollbackStep ==
    ASSUME AInv, NEW s \in Sessions, Rollback(s), scenario' = scenario
    PROVE  AInv'
BY EndsQuietly DEF Rollback

\* Invitations are minted and expire.
LEMMA InviteStep ==
    ASSUME AInv, NEW i \in Invites, MintInvite(i) \/ Expire(i), scenario' = scenario
    PROVE  AInv'
<1>1. agents' = agents /\ nodes' = nodes /\ missions' = missions /\ blocks' = blocks /\ tx' = tx
  BY DEF MintInvite, Expire
<1>2. invites' \in [Invites -> {"none", "open", "expired", "used"}]
  BY DEF MintInvite, Expire, AInv, Shape
<1>3. Shape'
  BY <1>1, <1>2 DEF AInv, Shape
<1>4. \A u \in Sessions : Holds(u)' = Holds(u) /\ Steps(u)' /\ Ready(u)'
  BY <1>1, QuietSession DEF AInv
<1>5. \A u \in Sessions : Enrols(u)'
  BY <1>1 DEF AInv, Enrols
<1>6. Exclusive'
  BY <1>4 DEF AInv, Exclusive
<1>7. Tables'
  BY <1>1, QuietTables DEF AInv
<1> QED
  BY <1>3, <1>4, <1>5, <1>6, <1>7 DEF AInv

-----------------------------------------------------------------------------
(* A transaction begins, takes its locks and checks *)

\* The Nodes that resolve are Nodes of their agents with a workspace.
LEMMA Resolves ==
    ASSUME Resolvable
    PROVE  /\ Bindings \in [Agents -> Nodes]
           /\ \A a \in Agents : NodeOwner[Bindings[a]] = a /\ nodes[Bindings[a]].status = "active"
<1>1. ASSUME NEW a \in Agents PROVE (CHOOSE n \in Candidates(a) : TRUE) \in Candidates(a)
  <2>1. Cardinality(Candidates(a)) = 1
    BY DEF Resolvable
  <2>2. Candidates(a) # {}
    BY <2>1, FS_EmptySet
  <2> QED
    BY <2>2
<1>2. \A a \in Agents : Bindings[a] \in Candidates(a)
  BY <1>1 DEF Bindings
<1>3. \A a \in Agents : \A n \in Candidates(a) : n \in Nodes /\ NodeOwner[n] = a /\ nodes[n].status = "active"
  BY DEF Candidates
<1>4. Bindings \in [Agents -> Nodes]
  BY <1>2, <1>3 DEF Bindings
<1> QED
  BY <1>2, <1>3, <1>4

\* What a client may ask is a request.
LEMMA Asked ==
    ASSUME Shape, NEW r \in Requests
    PROVE  r \in Request
<1>1. scenario.missions \subseteq Missions
  BY AuthorityAssumption DEF Shape
<1>2. CASE r \in {x \in WorkRequest : x.mission \in scenario.missions}
  BY <1>2 DEF Request
<1>3. CASE Resolvable /\ r \in [op : {"createMission"}, agent : Agents, mission : scenario.missions,
                                bind : {Bindings}]
  <2>1. Bindings \in [Agents -> Nodes]
    BY <1>3, Resolves
  <2>2. r \in MissionRequest
    BY <1>1, <1>3, <2>1 DEF MissionRequest
  <2> QED
    BY <2>2 DEF Request
<1>4. CASE r \in AccountRequest \cup RedeemRequest \cup OwnerRequest \cup RotateRequest
                 \cup WorkspaceRequest \cup BlockRequest
  BY <1>4 DEF Request
<1> QED
  BY <1>2, <1>3, <1>4 DEF Requests

\* Nothing is found before the first lock.
LEMMA FirstPlan ==
    ASSUME NEW r \in Request
    PROVE  PlanAt(r, 0) = Plan(r)
<1>1. Plan(r) \in Seq(Lock)
  BY Planned
<1>2. NodePart(r, 0) = <<>>
  BY DEF NodePart
<1>3. Base(r, 0) = Plan(r)
  BY <1>1, <1>2, NoLocks DEF Base
<1>4. ~Found(r, 0)
  <2>1. CASE r.op \in Revocation
    <3>1. Len(Base(r, 0)) >= 1 /\ (Found(r, 0) <=> (0 >= Len(Base(r, 0)))) /\ Len(Base(r, 0)) \in Nat
      BY <2>1, BaseLocks
    <3> QED
      BY <3>1
  <2>2. CASE r.op \notin Revocation
    BY <2>2 DEF Found, Revocation
  <2> QED
    BY <2>1, <2>2
<1> QED
  BY <1>1, <1>3, <1>4, NoLocks DEF PlanAt, MissionPart

\* A transaction begins.
LEMMA BeginStep ==
    ASSUME AInv, NEW s \in Sessions, NEW r \in Requests, Begin(s, r), scenario' = scenario
    PROVE  AInv'
<1> DEFINE row == Busy(r, Plan(r))
<1>1. /\ agents' = agents /\ nodes' = nodes /\ missions' = missions
      /\ invites' = invites /\ blocks' = blocks
      /\ tx' = [tx EXCEPT ![s] = row] /\ Authenticated(r) /\ ~tx[s].busy
  BY DEF Begin
<1>2. r \in Request
  BY Asked DEF AInv
<1>3. Plan(r) \in Seq(Lock) /\ PlanAt(r, 0) = Plan(r)
  BY <1>2, Planned, FirstPlan
<1>4. row \in SessionRow
  BY <1>2, <1>3 DEF Busy, SessionRow
<1>5. row.busy /\ row.req = r /\ row.plan = Plan(r) /\ row.held = 0 /\ ~row.ready
  BY DEF Busy
<1> HIDE DEF row
<1>6. tx'[s] = row
  BY <1>1 DEF AInv, Shape
<1>7. PlanAt(r, 0)' = Plan(r)
  BY <1>1, <1>3, QuietTables
<1>8. Steps(s)'
  <2>1. Len(Plan(r)) \in Nat
    BY <1>3
  <2> QED
    BY <1>5, <1>6, <1>7, <2>1 DEF Steps
<1>9. Ready(s)'
  BY <1>5, <1>6 DEF Ready
<1>10. Holds(s)' = {}
  BY <1>5, <1>6 DEF Holds
<1>11. r.op = "enroll" =>
          nodes[r.node].status = "none" /\ \A u \in Sessions : tx[u].busy => tx[u].req # r
  BY <1>1 DEF Authenticated, NodeOp
<1>12. Enrols(s)'
  <2>1. \A u \in Sessions \ {s} : tx'[u] = tx[u]
    BY <1>1 DEF AInv, Shape
  <2> QED
    BY <1>1, <1>5, <1>6, <1>11, <2>1 DEF Enrols
<1>13. \A u \in Sessions \ {s} :
          tx[u].busy /\ tx[u].req.op = "enroll" /\ row.busy => row.req # tx[u].req
  BY <1>5, <1>11
<1> QED
  BY <1>1, <1>4, <1>8, <1>9, <1>10, <1>12, <1>13, SessionStep

\* It takes its next lock.
LEMMA AcquireStep ==
    ASSUME AInv, NEW s \in Sessions, Acquire(s), scenario' = scenario
    PROVE  AInv'
<1> DEFINE t == tx[s]
           r == t.req
           h == t.held
           p == t.plan
           q == IF h + 1 = Len(p) THEN p \o MoreLocks(r, p) ELSE p
           row == [t EXCEPT !.held = h + 1, !.plan = q]
<1>1. /\ agents' = agents /\ nodes' = nodes /\ missions' = missions
      /\ invites' = invites /\ blocks' = blocks /\ t.busy /\ h < Len(p) /\ Free(s, p[h + 1])
  BY DEF Acquire
<1>2. tx \in [Sessions -> SessionRow \cup {Idle}] /\ Shape /\ Steps(s)
  BY DEF AInv, Shape
<1>3. t \in SessionRow
  BY <1>1, <1>2, BusyRow
<1>4. tx' = [tx EXCEPT ![s] = row]
  BY <1>2, <1>3 DEF Acquire, SessionRow
<1>5. r \in Request /\ h \in Nat /\ p \in Seq(Lock) /\ p = PlanAt(r, h) /\ Holds(s) = {p[i] : i \in 1..h}
  BY <1>1, <1>2, Holding
<1>6. q = PlanAt(r, h + 1)
  BY <1>1, <1>5, AcquiredPlan
<1>7. q \in Seq(Lock)
  <2> HIDE DEF q
  <2>1. h + 1 \in Nat
    BY <1>5
  <2>2. PlanAt(r, h + 1) \in Seq(Lock)
    BY <1>5, <2>1, PlanInOrder
  <2> QED
    BY <1>6, <2>2
<1>8. row \in SessionRow
  <2> HIDE DEF q, h
  <2>1. h + 1 \in Nat
    BY <1>5
  <2> QED
    BY <1>3, <1>7, <2>1 DEF SessionRow
<1>9. row.busy /\ row.req = r /\ row.held = h + 1 /\ row.plan = q /\ row.ready = t.ready
  BY <1>3 DEF SessionRow
<1>10. Len(q) >= h + 1 /\ Len(q) \in Nat /\ \A i \in 1..h + 1 : q[i] = p[i]
  <2>1. CASE h + 1 = Len(p)
    <3>1. MoreLocks(r, p) \in Seq(Lock)
      <4>1. {n \in Nodes : NodeOwner[n] = r.agent /\ nodes[n].status # "none"} \in SUBSET Nodes
        OBVIOUS
      <4>2. NodeLocks({n \in Nodes : NodeOwner[n] = r.agent /\ nodes[n].status # "none"}) \in Seq(Lock)
        BY <4>1, NodeSequence
      <4>3. MissionLocks(PlannedNodes(p)) \in Seq(Lock) /\ <<>> \in Seq(Lock)
        BY MissionSequence, NoLocks
      <4> QED
        BY <4>2, <4>3 DEF MoreLocks
    <3>2. q = p \o MoreLocks(r, p)
      BY <2>1
    <3> HIDE DEF q, p
    <3> QED
      BY <1>5, <2>1, <3>1, <3>2, Joined
  <2>2. CASE h + 1 # Len(p)
    <3>1. q = p /\ Len(p) \in Nat
      BY <1>5, <2>2
    <3> QED
      BY <1>1, <1>5, <3>1
  <2> QED
    BY <2>1, <2>2
<1> HIDE DEF row, q, p, h, r
<1>11. tx'[s] = row
  BY <1>2, <1>4
<1>12. ~t.ready
  <2>1. t.ready => h = Len(p)
    BY <1>1, <1>2 DEF Steps, h, p
  <2> QED
    BY <1>1, <1>5, <2>1
<1>13. Steps(s)'
  <2>1. PICK x, k : x = r /\ k = h + 1
    OBVIOUS
  <2>2. PlanAt(x, k)' = PlanAt(x, k)
    BY <1>1, QuietTables
  <2>3. tx'[s].req = x /\ tx'[s].held = k /\ tx'[s].plan = PlanAt(x, k) /\ ~tx'[s].ready
    BY <1>6, <1>9, <1>11, <1>12, <2>1
  <2>4. tx'[s].plan = PlanAt(tx[s].req, tx[s].held)'
    BY <2>2, <2>3
  <2>5. tx'[s].held <= Len(tx'[s].plan)
    BY <1>5, <1>9, <1>10, <1>11
  <2> QED
    BY <2>3, <2>4, <2>5 DEF Steps
<1>14. Ready(s)'
  BY <1>9, <1>11, <1>12 DEF Ready
<1>15. Enrols(s)'
  <2>1. \A u \in Sessions \ {s} : tx'[u] = tx[u]
    BY <1>2, <1>4
  <2>2. Enrols(s)
    BY DEF AInv
  <2> QED
    BY <1>1, <1>9, <1>11, <2>1, <2>2 DEF Enrols, r
<1>16. \A u \in Sessions \ {s} : Holds(s)' \cap Holds(u) = {}
  <2>1. Holds(s)' = {q[i] : i \in 1..h + 1}
    BY <1>9, <1>11 DEF Holds
  <2>2. Holds(s)' \subseteq Holds(s) \cup {p[h + 1]}
    <3>1. ASSUME NEW i \in 1..h + 1 PROVE q[i] \in Holds(s) \cup {p[h + 1]}
      <4>1. i \in 1..h \/ i = h + 1
        BY <1>5
      <4> QED
        BY <1>5, <1>10, <4>1
    <3> QED
      BY <2>1, <3>1
  <2>3. \A u \in Sessions \ {s} : p[h + 1] \notin Holds(u) /\ Holds(s) \cap Holds(u) = {}
    BY <1>1 DEF Free, AInv, Exclusive
  <2> QED
    BY <2>2, <2>3
<1>17. \A u \in Sessions \ {s} :
          tx[u].busy /\ tx[u].req.op = "enroll" /\ row.busy => row.req # tx[u].req
  <2>1. \A u \in Sessions \ {s} : Enrols(u)
    BY DEF AInv
  <2> QED
    BY <1>1, <1>9, <2>1 DEF Enrols, r
<1> QED
  BY <1>1, <1>4, <1>8, <1>13, <1>14, <1>15, <1>16, <1>17, SessionStep

\* What a transaction is admitted on is what it relies on.
LEMMA Relies ==
    ASSUME AInv, NEW r \in Request, Admitted(r)
    PROVE  Stands(r)
<1>1. CASE r.op \in {"create", "redeem", "adminRotate", "selfRotate", "disable"}
  <2>1. AccountAdmitted(r)
    BY <1>1 DEF Admitted
  <2> QED
    BY <1>1, <2>1 DEF AccountAdmitted, Stands
<1>2. CASE r.op = "enroll"
  <2>1. EnrollAdmitted(r)
    BY <1>2 DEF Admitted
  <2> QED
    BY <1>2, <2>1 DEF Stands
<1>3. CASE r.op = "rotateCredential"
  <2>1. RotateAdmitted(r)
    BY <1>3 DEF Admitted
  <2> QED
    BY <1>3, <2>1 DEF Stands
<1>4. CASE r.op \in {"revokeNode", "register", "revokeWorkspace"}
  <2>1. nodes[r.node].status = "active"
    BY <1>4 DEF Admitted, RegisterAdmitted, ActiveNodeCredential
  <2> QED
    BY <1>4, <2>1 DEF Stands
<1>5. CASE r.op = "accept"
  <2>1. AcceptAdmitted(r)
    BY <1>5 DEF Admitted
  <2>2. Accepts(r)
    BY <2>1 DEF AcceptAdmitted, Accepts
  <2> QED
    BY <1>5, <2>2 DEF Stands
<1>6. CASE r.op = "createMission"
  <2>1. CreateMissionAdmitted(r)
    BY <1>6 DEF Admitted
  <2>2. missions[r.mission].work = "uncreated" /\ Resolvable /\ Bindings = r.bind
    BY <2>1 DEF CreateMissionAdmitted
  <2>3. Creates(r)
    BY <2>2, Resolves DEF Creates
  <2> QED
    BY <1>6, <2>3 DEF Stands
<1>7. CASE r.op = "deliver"
  <2>1. missions[r.mission].work = "live"
    BY <1>7 DEF Admitted, DeliverAdmitted
  <2> QED
    BY <1>7, <2>1 DEF Stands
<1>8. CASE r.op \in {"block", "unblock"}
  BY <1>8 DEF Stands
<1> QED
  BY <1>1, <1>2, <1>3, <1>4, <1>5, <1>6, <1>7, <1>8, Names

\* It reads what its locks protect.
LEMMA CheckStep ==
    ASSUME AInv, NEW s \in Sessions, Check(s), scenario' = scenario
    PROVE  AInv'
<1>1. /\ agents' = agents /\ nodes' = nodes /\ missions' = missions
      /\ invites' = invites /\ blocks' = blocks
      /\ tx[s].busy /\ tx[s].held = Len(tx[s].plan) /\ ~tx[s].ready
  BY DEF Check
<1>2. tx \in [Sessions -> SessionRow \cup {Idle}] /\ Shape /\ Steps(s)
  BY DEF AInv, Shape
<1>3. tx[s] \in SessionRow
  BY <1>1, <1>2, BusyRow
<1>4. tx[s].req \in Request
  BY <1>3 DEF SessionRow
<1>5. CASE ~Admitted(tx[s].req)
  <2>1. tx' = [tx EXCEPT ![s] = Idle]
    BY <1>5 DEF Check
  <2> QED
    BY <1>1, <2>1, EndsQuietly
<1>6. CASE Admitted(tx[s].req)
  <2> DEFINE v == Victims(tx[s].req, tx[s].plan)
             row == [tx[s] EXCEPT !.ready = TRUE, !.victims = v]
  <2>1. tx' = [tx EXCEPT ![s] = row]
    BY <1>6 DEF Check
  <2>2. v \subseteq Missions
    BY DEF Victims, PlannedMissions
  <2>3. tx[s].req.op \in Revocation =>
           v = {m \in MissionsOf(Lost(tx[s].req)) : missions[m].work = "live"}
    BY <1>1, <1>2, Locked DEF Victims, Revocation
  <2> HIDE DEF v
  <2>4. row \in SessionRow
    BY <1>3, <2>2 DEF SessionRow
  <2>5. /\ row.busy /\ row.req = tx[s].req /\ row.held = tx[s].held /\ row.plan = tx[s].plan
        /\ row.victims = v
    BY <1>1, <1>3 DEF SessionRow
  <2> HIDE DEF row
  <2>6. tx'[s] = row
    BY <1>2, <2>1
  <2>7. Steps(s)'
    <3>1. PICK x, k : x = tx[s].req /\ k = tx[s].held
      OBVIOUS
    <3>2. PlanAt(x, k)' = PlanAt(x, k)
      BY <1>1, QuietTables
    <3>3. tx'[s].req = x /\ tx'[s].held = k /\ tx'[s].plan = PlanAt(x, k)
      BY <1>1, <1>2, <2>5, <2>6, <3>1 DEF Steps
    <3>4. tx'[s].plan = PlanAt(tx[s].req, tx[s].held)'
      BY <3>2, <3>3
    <3>5. tx'[s].held = Len(tx'[s].plan) /\ Len(tx[s].plan) \in Nat
      BY <1>1, <1>3, <2>5, <2>6 DEF SessionRow
    <3>6. tx'[s].held <= Len(tx'[s].plan)
      BY <1>1, <2>5, <2>6, <3>5
    <3> QED
      BY <3>4, <3>5, <3>6 DEF Steps
  <2>8. Stands(tx[s].req)
    BY <1>4, <1>6, Relies
  <2>9. Ready(s)'
    <3>1. PICK x : x = tx[s].req
      OBVIOUS
    <3>2. tx'[s].req = x /\ tx'[s].victims = v
      BY <2>5, <2>6, <3>1
    <3>3. Stands(x)'
      BY <1>1, <2>8, <3>1, QuietTables
    <3>4. x.op \in Revocation => v = {m \in MissionsOf(Lost(x)) : missions[m].work = "live"}
      BY <2>3, <3>1
    <3>5. MissionsOf(Lost(x))' = MissionsOf(Lost(x))
      BY <1>1, QuietTables
    <3>6. x.op \in Revocation => v = {m \in MissionsOf(Lost(x))' : missions'[m].work = "live"}
      BY <1>1, <3>4, <3>5
    <3> QED
      BY <3>2, <3>3, <3>6 DEF Ready
  <2>10. Enrols(s)'
    <3>1. \A u \in Sessions \ {s} : tx'[u] = tx[u]
      BY <1>2, <2>1
    <3>2. Enrols(s)
      BY DEF AInv
    <3> QED
      BY <1>1, <2>5, <2>6, <3>1, <3>2 DEF Enrols
  <2>11. \A u \in Sessions \ {s} : Holds(s)' \cap Holds(u) = {}
    <3>1. Holds(s)' = Holds(s)
      BY <1>1, <2>5, <2>6 DEF Holds
    <3> QED
      BY <3>1 DEF AInv, Exclusive
  <2>12. \A u \in Sessions \ {s} :
            tx[u].busy /\ tx[u].req.op = "enroll" /\ row.busy => row.req # tx[u].req
    <3>1. \A u \in Sessions \ {s} : Enrols(u)
      BY DEF AInv
    <3> QED
      BY <1>1, <2>5, <3>1 DEF Enrols
  <2> QED
    BY <1>1, <2>1, <2>4, <2>7, <2>9, <2>10, <2>11, <2>12, SessionStep
<1> QED
  BY <1>5, <1>6

-----------------------------------------------------------------------------
(* What a commit may do to the tables, and under which locks *)

Empty(row) == row.status # "active" /\ row.creds = {} /\ row.workspace # "active"
Working(row) == row.status = "active" /\ row.workspace = "active"
Off(s, m) == MissionLock(m) \in Holds(s) /\ missions'[m].work # "live"

AgentEffect(s, a) ==
    /\ AgentFits(agents'[a])
    /\ \/ agents'[a].status = agents[a].status
       \/ /\ agents[a].status = "none" /\ agents'[a].status = "active"
          /\ <<"handle", a>> \in Holds(s)
       \/ /\ agents[a].status # "none" /\ agents'[a].status = "disabled"
          /\ LifecycleLock(a) \in Holds(s)
          /\ \A m \in MissionsOf(OwnNodes(a)) : Off(s, m)
          /\ \A n \in Nodes : NodeOwner[n] = a => Empty(nodes'[n])

\* A new Node, and a change to one under its lock.
NewNode(s, n) ==
    /\ agents' = agents /\ nodes[n].status = "none" /\ nodes'[n].status = "active"
    /\ tx[s].req.op = "enroll" /\ tx[s].req.node = n
    /\ agents[NodeOwner[n]].status = "active"
    /\ \A x \in SameName(n) : nodes[x].status # "active"
    /\ LifecycleLock(NodeOwner[n]) \in Holds(s)
    /\ <<"node-enroll", NodeOwner[n], NodeName[n]>> \in Holds(s)
LockedNode(s, n) ==
    /\ NodeLock(n) \in Holds(s)
    /\ nodes[n].status # "none" /\ nodes'[n].status # "none"
    /\ nodes[n].status = "active" \/ Empty(nodes'[n])
    /\ nodes'[n].status = "active" => nodes[n].status = "active"
    /\ Working(nodes[n]) /\ ~Working(nodes'[n]) => \A m \in MissionsOf({n}) : Off(s, m)
NodeEffect(s, n) ==
    \/ nodes'[n] = nodes[n]
    \/ NodeFits(nodes'[n]) /\ (NewNode(s, n) \/ LockedNode(s, n))

\* A change to a Mission, and a new one.
LockedMission(m) ==
    /\ missions'[m].bind = missions[m].bind
    /\ missions[m].work # "uncreated" /\ missions'[m].work # "uncreated"
    /\ missions'[m].work = "live" =>
          agents' = agents /\ nodes' = nodes /\ RoutesActive(missions[m].bind)
NewMission(s, m) ==
    /\ missions[m].work = "uncreated" /\ missions'[m].work = "none" /\ nodes' = nodes
    /\ \A a \in Agents : LET n == missions'[m].bind[a]
                         IN n \in Nodes /\ NodeOwner[n] = a /\ nodes[n].status # "none"
                            /\ NodeLock(n) \in Holds(s)
MissionEffect(s, m) ==
    \/ missions'[m] = missions[m]
    \/ MissionLock(m) \in Holds(s) /\ (LockedMission(m) \/ NewMission(s, m))

Effects(s) ==
    /\ \A a \in Agents : AgentEffect(s, a)
    /\ \A n \in Nodes : NodeEffect(s, n)
    /\ \A m \in Missions : MissionEffect(s, m)

\* Nothing that exists ceases to.
LEMMA Remains ==
    ASSUME NEW s, Effects(s)
    PROVE  /\ \A a \in Agents : agents[a].status # "none" => agents'[a].status # "none"
           /\ \A n \in Nodes : nodes[n].status # "none" => nodes'[n].status # "none"
           /\ \A m \in Missions : missions[m].work # "uncreated" => missions'[m].work # "uncreated"
<1>1. ASSUME NEW a \in Agents, agents[a].status # "none" PROVE agents'[a].status # "none"
  BY <1>1 DEF Effects, AgentEffect
<1>2. ASSUME NEW n \in Nodes, nodes[n].status # "none" PROVE nodes'[n].status # "none"
  BY <1>2 DEF Effects, NodeEffect, NewNode, LockedNode
<1>3. ASSUME NEW m \in Missions, missions[m].work # "uncreated" PROVE missions'[m].work # "uncreated"
  BY <1>3 DEF Effects, MissionEffect, LockedMission, NewMission
<1> QED
  BY <1>1, <1>2, <1>3

\* What another transaction has locked stays as it is.
LEMMA Protects ==
    ASSUME AInv, NEW s \in Sessions, NEW u \in Sessions, u # s, Effects(s)
    PROVE  /\ \A a \in Agents : <<"handle", a>> \in Holds(u) /\ agents[a].status = "none" =>
                 agents'[a].status = "none"
           /\ \A a \in Agents : LifecycleLock(a) \in Holds(u) /\ agents[a].status = "active" =>
                 agents'[a].status = "active"
           /\ \A n \in Nodes : NodeLock(n) \in Holds(u) /\ nodes[n].status # "none" =>
                 nodes'[n] = nodes[n]
           /\ \A m \in Missions : MissionLock(m) \in Holds(u) => missions'[m] = missions[m]
           /\ \A m \in Missions : MissionLock(m) \in Holds(u) => ~Off(s, m)
           /\ \A a \in Agents : LifecycleLock(a) \in Holds(u) => OwnNodes(a)' = OwnNodes(a)
<1>1. \A l : l \in Holds(u) => l \notin Holds(s)
  BY DEF AInv, Exclusive
<1>2. ASSUME NEW a \in Agents, <<"handle", a>> \in Holds(u), agents[a].status = "none"
      PROVE  agents'[a].status = "none"
  BY <1>1, <1>2 DEF Effects, AgentEffect
<1>3. ASSUME NEW a \in Agents, LifecycleLock(a) \in Holds(u), agents[a].status = "active"
      PROVE  agents'[a].status = "active"
  BY <1>1, <1>3 DEF Effects, AgentEffect
<1>4. ASSUME NEW n \in Nodes, NodeLock(n) \in Holds(u), nodes[n].status # "none"
      PROVE  nodes'[n] = nodes[n]
  BY <1>1, <1>4 DEF Effects, NodeEffect, NewNode, LockedNode
<1>5. ASSUME NEW m \in Missions, MissionLock(m) \in Holds(u) PROVE missions'[m] = missions[m]
  BY <1>1, <1>5 DEF Effects, MissionEffect
<1>6. ASSUME NEW m \in Missions, MissionLock(m) \in Holds(u) PROVE ~Off(s, m)
  BY <1>1, <1>6 DEF Off
<1>7. ASSUME NEW a \in Agents, LifecycleLock(a) \in Holds(u) PROVE OwnNodes(a)' = OwnNodes(a)
  <2>1. ASSUME NEW n \in Nodes, NodeOwner[n] = a
        PROVE  (nodes'[n].status # "none") <=> (nodes[n].status # "none")
    BY <1>1, <1>7, <2>1 DEF Effects, NodeEffect, NewNode, LockedNode
  <2> QED
    BY <2>1 DEF OwnNodes
<1> QED
  BY <1>2, <1>3, <1>4, <1>5, <1>6, <1>7

\* The Missions of Nodes another transaction has locked stay the same ones.
LEMMA SameMissions ==
    ASSUME AInv, NEW s \in Sessions, NEW u \in Sessions, u # s, Effects(s),
           NEW set \in SUBSET Nodes, \A n \in set : NodeLock(n) \in Holds(u)
    PROVE  MissionsOf(set)' = MissionsOf(set)
<1>1. \A n \in set : n \in Nodes /\ n # NoNode /\ NodeLock(n) \notin Holds(s)
  BY AuthorityAssumption DEF NoNode, AInv, Exclusive
<1>2. ASSUME NEW m \in Missions
      PROVE  (\E a \in Agents : missions'[m].bind[a] \in set) <=> (\E a \in Agents : missions[m].bind[a] \in set)
  <2>1. CASE missions'[m].bind = missions[m].bind
    BY <2>1
  <2>2. CASE NewMission(s, m)
    <3>1. \A a \in Agents : missions'[m].bind[a] \notin set
      BY <1>1, <2>2 DEF NewMission
    <3>2. \A a \in Agents : missions[m].bind[a] \notin set
      BY <1>1, <2>2 DEF NewMission, AInv, Tables, Routed
    <3> QED
      BY <3>1, <3>2
  <2> QED
    BY <2>1, <2>2 DEF Effects, MissionEffect, LockedMission
<1> QED
  BY <1>2 DEF MissionsOf

\* The plan of another transaction stays the one of its request.
LEMMA PlanStays ==
    ASSUME AInv, NEW s \in Sessions, NEW u \in Sessions, u # s, Effects(s),
           NEW r \in Request, NEW h \in Nat,
           r.op = "disable" /\ h >= 1 => LifecycleLock(r.agent) \in Holds(u),
           r.op \in Revocation /\ Found(r, h) => \A n \in Lost(r) : NodeLock(n) \in Holds(u)
    PROVE  /\ PlanAt(r, h)' = PlanAt(r, h)
           /\ r.op \in Revocation /\ Found(r, h) => MissionsOf(Lost(r))' = MissionsOf(Lost(r))
<1>1. CASE r.op \notin Revocation
  <2>1. NodePart(r, h) = <<>> /\ NodePart(r, h)' = <<>> /\ ~Found(r, h) /\ ~Found(r, h)'
    BY <1>1 DEF NodePart, Found, Revocation
  <2>2. MissionPart(r, h) = <<>> /\ MissionPart(r, h)' = <<>>
    BY <2>1 DEF MissionPart
  <2> QED
    BY <1>1, <2>1, <2>2 DEF PlanAt, Base
<1>2. CASE r.op \in Revocation
  <2>1. NodePart(r, h)' = NodePart(r, h) /\ (Found(r, h)' <=> Found(r, h))
        /\ (Found(r, h) => Lost(r)' = Lost(r))
    <3>1. CASE r.op = "disable" /\ h >= 1
      <4>1. r.agent \in Agents
        BY <3>1, Names
      <4>2. OwnNodes(r.agent)' = OwnNodes(r.agent)
        BY <3>1, <4>1, Protects
      <4> QED
        BY <3>1, <4>2 DEF NodePart, Found, Lost
    <3>2. CASE r.op = "disable" /\ h = 0
      <4>1. OwnNodes(r.agent) \in SUBSET Nodes /\ OwnNodes(r.agent)' \in SUBSET Nodes
        BY DEF OwnNodes
      <4>2. Cardinality(OwnNodes(r.agent)) \in Nat /\ Cardinality(OwnNodes(r.agent)') \in Nat
        BY <4>1, NodeSequence
      <4>3. ~Found(r, h) /\ ~Found(r, h)'
        BY <3>2, <4>2 DEF Found
      <4>4. NodePart(r, h) = <<>> /\ NodePart(r, h)' = <<>>
        BY <3>2 DEF NodePart
      <4> QED
        BY <4>3, <4>4
    <3>3. CASE r.op # "disable"
      <4>1. NodePart(r, h) = <<>> /\ NodePart(r, h)' = <<>>
        BY <3>3 DEF NodePart
      <4>2. Found(r, h)' <=> Found(r, h)
        BY <1>2, <3>3 DEF Found, Revocation
      <4>3. Lost(r)' = Lost(r)
        BY <3>3 DEF Lost
      <4> QED
        BY <4>1, <4>2, <4>3
    <3> QED
      BY <3>1, <3>2, <3>3
  <2>2. ASSUME Found(r, h) PROVE MissionsOf(Lost(r))' = MissionsOf(Lost(r))
    <3>1. PICK x : x = Lost(r)
      OBVIOUS
    <3>2. x \in SUBSET Nodes /\ \A n \in x : NodeLock(n) \in Holds(u)
      BY <1>2, <2>2, <3>1, LostNodes
    <3>3. MissionsOf(x)' = MissionsOf(x)
      BY <3>2, SameMissions
    <3>4. Lost(r)' = x
      BY <2>1, <2>2, <3>1
    <3> QED
      BY <3>1, <3>3, <3>4
  <2>3. MissionPart(r, h)' = MissionPart(r, h)
    <3>1. CASE ~Found(r, h)
      BY <2>1, <3>1 DEF MissionPart
    <3>2. CASE Found(r, h)
      <4>1. MissionsOf(Lost(r))' = MissionsOf(Lost(r))
        BY <2>2, <3>2
      <4>2. MissionLocks(Lost(r))' = MissionLocks(Lost(r))
        BY <4>1 DEF MissionLocks
      <4> QED
        BY <2>1, <3>2, <4>2 DEF MissionPart
    <3> QED
      BY <3>1, <3>2
  <2> QED
    BY <2>1, <2>2, <2>3 DEF PlanAt, Base
<1> QED
  BY <1>1, <1>2

\* The routes of a Mission another transaction has locked stay open.
LEMMA RoutesStay ==
    ASSUME AInv, NEW s \in Sessions, Effects(s), NEW m \in Missions, ~Off(s, m),
           missions'[m] = missions[m], missions[m].work # "uncreated", RoutesActive(missions[m].bind)
    PROVE  RoutesActive(missions[m].bind)'
<1> DEFINE n(a) == missions[m].bind[a]
<1>1. ASSUME NEW a \in Agents
      PROVE  /\ n(a) \in Nodes /\ NodeOwner[n(a)] = a /\ nodes[n(a)].status # "none"
             /\ agents[a].status = "active" /\ Working(nodes[n(a)])
             /\ m \in MissionsOf(OwnNodes(a)) /\ m \in MissionsOf({n(a)})
  <2>1. n(a) \in Nodes /\ NodeOwner[n(a)] = a /\ nodes[n(a)].status # "none"
    BY DEF AInv, Tables, Routed
  <2>2. n(a) \in OwnNodes(a)
    BY <2>1 DEF OwnNodes
  <2>3. m \in MissionsOf(OwnNodes(a)) /\ m \in MissionsOf({n(a)})
    BY <2>2 DEF MissionsOf
  <2> QED
    BY <2>1, <2>3 DEF RoutesActive, Working
<1>2. ASSUME NEW a \in Agents PROVE agents'[a].status = "active" /\ Working(nodes'[n(a)])
  <2>1. agents'[a].status = "active"
    BY <1>1 DEF Effects, AgentEffect
  <2>2. NodeEffect(s, n(a))
    BY <1>1 DEF Effects
  <2>3. Working(nodes'[n(a)])
    <3>1. CASE nodes'[n(a)] = nodes[n(a)]
      BY <1>1, <3>1
    <3>2. CASE NewNode(s, n(a))
      BY <1>1, <3>2 DEF NewNode
    <3>3. CASE LockedNode(s, n(a))
      BY <1>1, <3>3 DEF LockedNode
    <3> QED
      BY <2>2, <3>1, <3>2, <3>3 DEF NodeEffect
  <2> QED
    BY <2>1, <2>3
<1>3. PICK b : b = missions[m].bind
  OBVIOUS
<1>4. RoutesActive(b)'
  BY <1>2, <1>3 DEF RoutesActive, Working
<1>5. missions'[m].bind = b
  BY <1>3
<1> QED
  BY <1>4, <1>5

\* Another transaction's steps stay those of its plan.
LEMMA StepsStay ==
    ASSUME AInv, NEW s \in Sessions, NEW u \in Sessions, u # s, Effects(s), tx'[u] = tx[u]
    PROVE  Steps(u)'
<1>1. CASE ~tx[u].busy
  BY <1>1 DEF Steps
<1>2. CASE tx[u].busy
  <2>1. Shape /\ Steps(u)
    BY DEF AInv
  <2>2. /\ tx[u].req \in Request /\ tx[u].held \in Nat /\ tx[u].plan = PlanAt(tx[u].req, tx[u].held)
        /\ tx[u].req.op = "disable" /\ tx[u].held >= 1 => LifecycleLock(tx[u].req.agent) \in Holds(u)
        /\ tx[u].req.op \in Revocation /\ Found(tx[u].req, tx[u].held) =>
              \A n \in Lost(tx[u].req) : NodeLock(n) \in Holds(u)
    BY <1>2, <2>1, Holding
  <2>3. PICK r \in Request, h \in Nat : r = tx[u].req /\ h = tx[u].held
    BY <2>2
  <2>4. PlanAt(r, h)' = PlanAt(r, h)
    <3>1. r.op = "disable" /\ h >= 1 => LifecycleLock(r.agent) \in Holds(u)
      BY <2>2, <2>3
    <3>2. r.op \in Revocation /\ Found(r, h) => \A n \in Lost(r) : NodeLock(n) \in Holds(u)
      BY <2>2, <2>3
    <3> QED
      BY <3>1, <3>2, PlanStays
  <2>5. tx'[u].req = r /\ tx'[u].held = h
    BY <2>3
  <2>6. tx'[u].plan = PlanAt(tx[u].req, tx[u].held)'
    BY <2>2, <2>3, <2>4, <2>5
  <2> QED
    BY <2>1, <1>2, <2>6 DEF Steps
<1> QED
  BY <1>1, <1>2

\* What another transaction has read under its locks stays so.
LEMMA StandsStay ==
    ASSUME AInv, NEW s \in Sessions, NEW u \in Sessions, u # s, Effects(s),
           NEW r \in Request, Stands(r), LocksOf(Plan(r)) \subseteq Holds(u)
    PROVE  Stands(r)'
<1>1. CASE r.op = "create"
  <2>1. <<"handle", r.agent>> \in Holds(u) /\ r.agent \in Agents
    BY <1>1, Planned, Names
  <2>2. agents[r.agent].status = "none"
    BY <1>1 DEF Stands
  <2>3. agents'[r.agent].status = "none"
    BY <2>1, <2>2, Protects
  <2> QED
    BY <1>1, <2>3 DEF Stands
<1>2. CASE r.op = "redeem"
  <2>1. <<"handle", InviteFor[r.invite]>> \in Holds(u) /\ InviteFor[r.invite] \in Agents
    BY <1>2, Planned, Names
  <2>2. agents[InviteFor[r.invite]].status = "none"
    BY <1>2 DEF Stands
  <2>3. agents'[InviteFor[r.invite]].status = "none"
    BY <2>1, <2>2, Protects
  <2> QED
    BY <1>2, <2>3 DEF Stands
<1>3. CASE r.op \in {"adminRotate", "selfRotate"}
  <2>1. LifecycleLock(r.agent) \in Holds(u) /\ r.agent \in Agents
    BY <1>3, Planned, Names
  <2>2. agents[r.agent].status = "active"
    BY <1>3 DEF Stands
  <2>3. agents'[r.agent].status = "active"
    BY <2>1, <2>2, Protects
  <2> QED
    BY <1>3, <2>3 DEF Stands
<1>4. CASE r.op = "disable"
  <2>1. r.agent \in Agents
    BY <1>4, Names
  <2>2. agents[r.agent].status # "none"
    BY <1>4 DEF Stands
  <2>3. agents'[r.agent].status # "none"
    BY <2>1, <2>2, Remains
  <2> QED
    BY <1>4, <2>3 DEF Stands
<1>5. CASE r.op = "enroll"
  <2> DEFINE a == NodeOwner[r.node]
             l == <<"node-enroll", a, NodeName[r.node]>>
  <2>1. LifecycleLock(a) \in Holds(u) /\ l \in Holds(u) /\ r.node \in Nodes /\ a \in Agents
    BY <1>5, Planned, Names
  <2>2. agents[a].status = "active" /\ \A x \in SameName(r.node) : nodes[x].status # "active"
    BY <1>5 DEF Stands, EnrollAdmitted
  <2>3. agents'[a].status = "active"
    BY <2>1, <2>2, Protects
  <2>4. ASSUME NEW x \in SameName(r.node) PROVE nodes'[x].status # "active"
    <3>1. x \in Nodes /\ NodeOwner[x] = a /\ NodeName[x] = NodeName[r.node]
      BY DEF SameName
    <3>2. NodeEffect(s, x)
      BY <3>1 DEF Effects
    <3>3. ~NewNode(s, x)
      BY <2>1, <3>1 DEF NewNode, AInv, Exclusive
    <3> QED
      BY <2>2, <3>2, <3>3 DEF NodeEffect, LockedNode
  <2>5. EnrollAdmitted(r)'
    BY <2>3, <2>4 DEF EnrollAdmitted, SameName
  <2> QED
    BY <1>5, <2>5 DEF Stands
<1>6. CASE r.op \in {"rotateCredential", "revokeNode", "register", "revokeWorkspace"}
  <2>1. NodeLock(r.node) \in Holds(u) /\ r.node \in Nodes
    BY <1>6, Planned, Names DEF AtNode
  <2>2. nodes[r.node].status = "active"
    BY <1>6 DEF Stands, RotateAdmitted
  <2>3. nodes'[r.node] = nodes[r.node]
    BY <2>1, <2>2, Protects
  <2>4. CASE r.op = "rotateCredential"
    <3>1. RotateAdmitted(r)
      BY <2>4 DEF Stands
    <3>2. RotateAdmitted(r)'
      BY <2>3, <3>1 DEF RotateAdmitted
    <3> QED
      BY <2>4, <3>2 DEF Stands
  <2>5. CASE r.op # "rotateCredential"
    <3>1. nodes'[r.node].status = "active"
      BY <2>2, <2>3
    <3> QED
      BY <1>6, <2>5, <3>1 DEF Stands
  <2> QED
    BY <2>4, <2>5
<1>7. CASE r.op = "accept"
  <2> DEFINE m == r.mission
  <2>1. MissionLock(m) \in Holds(u) /\ m \in Missions
    BY <1>7, Planned, Names
  <2>2. Accepts(r)
    BY <1>7 DEF Stands
  <2>3. missions'[m] = missions[m] /\ ~Off(s, m)
    BY <2>1, Protects
  <2>4. RoutesActive(missions[m].bind) => RoutesActive(missions[m].bind)'
    BY <2>1, <2>2, <2>3, RoutesStay DEF Accepts
  <2>5. Accepts(r)'
    BY <2>2, <2>3, <2>4 DEF Accepts
  <2> QED
    BY <1>7, <2>5 DEF Stands
<1>8. CASE r.op = "createMission"
  <2>1. MissionLock(r.mission) \in Holds(u) /\ r.mission \in Missions /\ r.bind \in [Agents -> Nodes]
    BY <1>8, Planned, Names
  <2>2. Creates(r)
    BY <1>8 DEF Stands
  <2>3. missions'[r.mission] = missions[r.mission]
    BY <2>1, Protects
  <2>4. \A a \in Agents : nodes'[r.bind[a]].status # "none"
    BY <2>1, <2>2, Remains DEF Creates
  <2>5. Creates(r)'
    BY <2>2, <2>3, <2>4 DEF Creates
  <2> QED
    BY <1>8, <2>5 DEF Stands
<1>9. CASE r.op = "deliver"
  <2>1. r.mission \in Missions
    BY <1>9, Names
  <2>2. missions[r.mission].work # "uncreated"
    BY <1>9 DEF Stands
  <2>3. missions'[r.mission].work # "uncreated"
    BY <2>1, <2>2, Remains
  <2> QED
    BY <1>9, <2>3 DEF Stands
<1>10. CASE r.op \in {"block", "unblock"}
  BY <1>10 DEF Stands
<1> QED
  BY <1>1, <1>2, <1>3, <1>4, <1>5, <1>6, <1>7, <1>8, <1>9, <1>10, Names

\* So it stays ready to commit.
LEMMA ReadyStay ==
    ASSUME AInv, NEW s \in Sessions, NEW u \in Sessions, u # s, Effects(s), tx'[u] = tx[u]
    PROVE  Ready(u)'
<1>1. CASE ~(tx[u].busy /\ tx[u].ready)
  BY <1>1 DEF Ready
<1>2. CASE tx[u].busy /\ tx[u].ready
  <2>1. Shape /\ Steps(u) /\ Ready(u)
    BY DEF AInv
  <2>2. /\ tx[u].req \in Request /\ tx[u].held \in Nat
        /\ tx[u].req.op = "disable" /\ tx[u].held >= 1 => LifecycleLock(tx[u].req.agent) \in Holds(u)
        /\ LocksOf(Plan(tx[u].req)) \subseteq Holds(u)
        /\ tx[u].req.op \in Revocation /\ Found(tx[u].req, tx[u].held) =>
              \A n \in Lost(tx[u].req) : NodeLock(n) \in Holds(u)
    BY <1>2, <2>1, Holding
  <2>3. PICK r \in Request, h \in Nat : r = tx[u].req /\ h = tx[u].held
    BY <2>2
  <2>4. Stands(r)'
    <3>1. Stands(r) /\ LocksOf(Plan(r)) \subseteq Holds(u)
      BY <1>2, <2>1, <2>2, <2>3 DEF Ready
    <3> QED
      BY <3>1, StandsStay
  <2>5. ASSUME r.op \in Revocation
        PROVE  tx'[u].victims = {m \in MissionsOf(Lost(r))' : missions'[m].work = "live"}
    <3>1. tx[u].held = Len(tx[u].plan)
      BY <1>2, <2>1 DEF Steps
    <3>2. Found(r, h) /\ \A m \in MissionsOf(Lost(r)) : MissionLock(m) \in Holds(u)
      BY <1>2, <2>1, <2>3, <2>5, <3>1, Locked
    <3>3. \A m \in MissionsOf(Lost(r)) : missions'[m] = missions[m]
      <4>1. MissionsOf(Lost(r)) \subseteq Missions
        BY DEF MissionsOf
      <4> QED
        BY <3>2, <4>1, Protects
    <3>4. MissionsOf(Lost(r))' = MissionsOf(Lost(r))
      <4>1. r.op = "disable" /\ h >= 1 => LifecycleLock(r.agent) \in Holds(u)
        BY <2>2, <2>3
      <4>2. \A n \in Lost(r) : NodeLock(n) \in Holds(u)
        BY <2>2, <2>3, <2>5, <3>2
      <4> QED
        BY <2>5, <3>2, <4>1, <4>2, PlanStays
    <3>5. tx[u].victims = {m \in MissionsOf(Lost(r)) : missions[m].work = "live"}
      BY <1>2, <2>1, <2>3, <2>5 DEF Ready
    <3> QED
      BY <3>3, <3>4, <3>5
  <2>6. tx'[u].req = r
    BY <2>3
  <2> QED
    BY <2>4, <2>5, <2>6 DEF Ready
<1> QED
  BY <1>1, <1>2

\* A Node that another transaction enrols stays new.
LEMMA EnrolsStay ==
    ASSUME AInv, NEW s \in Sessions, NEW u \in Sessions, u # s, Effects(s),
           tx[s].busy, tx' = [tx EXCEPT ![s] = Idle]
    PROVE  Enrols(u)'
<1>1. tx'[u] = tx[u] /\ ~tx'[s].busy /\ \A v \in Sessions : tx'[v].busy => tx'[v] = tx[v]
  BY DEF AInv, Shape, Idle
<1>2. CASE tx[u].busy /\ tx[u].req.op = "enroll"
  <2>1. tx[u].req \in Request
    BY <1>2, BusyRow DEF AInv, SessionRow
  <2>2. tx[u].req.node \in Nodes
    BY <1>2, <2>1, Names
  <2>3. Enrols(u)
    BY DEF AInv
  <2>4. nodes[tx[u].req.node].status = "none" /\ tx[s].req # tx[u].req
    BY <1>2, <2>3 DEF Enrols
  <2>5. ~NewNode(s, tx[u].req.node)
    <3>1. CASE tx[s].req.op = "enroll"
      <4>1. tx[s].req \in Request
        BY BusyRow DEF AInv, SessionRow
      <4>2. \A x \in Request : x.op = "enroll" => x \in OwnerRequest
        <5>1. ASSUME NEW x \in Request, x.op = "enroll" PROVE x \in OwnerRequest
          BY <5>1 DEF Request, AccountRequest, RedeemRequest, RotateRequest, WorkspaceRequest,
                      WorkRequest, MissionRequest, BlockRequest
        <5> QED
          BY <5>1
      <4>3. tx[s].req \in OwnerRequest /\ tx[u].req \in OwnerRequest
        BY <1>2, <2>1, <3>1, <4>1, <4>2
      <4>4. tx[s].req.node # tx[u].req.node
        BY <1>2, <2>4, <3>1, <4>3 DEF OwnerRequest
      <4> QED
        BY <4>4 DEF NewNode
    <3>2. CASE tx[s].req.op # "enroll"
      BY <3>2 DEF NewNode
    <3> QED
      BY <3>1, <3>2
  <2>6. nodes'[tx[u].req.node] = nodes[tx[u].req.node]
    BY <2>2, <2>4, <2>5 DEF Effects, NodeEffect, LockedNode
  <2>7. nodes'[tx'[u].req.node].status = "none"
    BY <1>1, <2>4, <2>6
  <2>8. \A v \in Sessions \ {u} : tx'[v].busy => tx'[v].req # tx'[u].req
    BY <1>1, <1>2, <2>3 DEF Enrols
  <2> QED
    BY <2>7, <2>8 DEF Enrols
<1>3. CASE ~(tx[u].busy /\ tx[u].req.op = "enroll")
  BY <1>1, <1>3 DEF Enrols
<1> QED
  BY <1>2, <1>3

\* What the tables say together holds after a commit.
LEMMA TablesAfter ==
    ASSUME AInv, NEW s \in Sessions, Effects(s)
    PROVE  Tables'
<1>0. Accounts /\ Credentials /\ OneName /\ (\A m \in Missions : Routed(m)) /\ RevokedNoWork
      /\ DisabledHoldsNothing
  BY DEF AInv, Tables
<1>1. Accounts'
  BY DEF Effects, AgentEffect, Accounts
<1>2. Credentials'
  <2>1. ASSUME NEW n \in Nodes PROVE NodeFits(nodes'[n])
    <3>1. NodeEffect(s, n) /\ NodeFits(nodes[n])
      BY <1>0 DEF Effects, Credentials
    <3> QED
      BY <3>1 DEF NodeEffect
  <2> QED
    BY <2>1 DEF Credentials
<1>3. OneName'
  <2>1. ASSUME NEW n \in Nodes, NEW k \in Nodes, NodeOwner[n] = NodeOwner[k],
               NodeName[n] = NodeName[k], nodes'[n].status = "active", nodes'[k].status = "active"
        PROVE  n = k
    <3>1. \A x \in Nodes : NewNode(s, x) \/ (nodes'[x].status = "active" => nodes[x].status = "active")
      BY DEF Effects, NodeEffect, LockedNode
    <3>2. CASE NewNode(s, n)
      <4>1. k \in SameName(n)
        BY <2>1 DEF SameName
      <4>2. nodes[k].status # "active"
        BY <3>2, <4>1 DEF NewNode
      <4>3. NewNode(s, k)
        BY <2>1, <3>1, <4>2
      <4> QED
        BY <3>2, <4>3 DEF NewNode
    <3>3. CASE NewNode(s, k)
      <4>1. n \in SameName(k)
        BY <2>1 DEF SameName
      <4>2. nodes[n].status # "active"
        BY <3>3, <4>1 DEF NewNode
      <4>3. NewNode(s, n)
        BY <2>1, <3>1, <4>2
      <4> QED
        BY <3>3, <4>3 DEF NewNode
    <3>4. CASE ~NewNode(s, n) /\ ~NewNode(s, k)
      <4>1. nodes[n].status = "active" /\ nodes[k].status = "active"
        BY <2>1, <3>1, <3>4
      <4> QED
        BY <1>0, <2>1, <4>1 DEF OneName
    <3> QED
      BY <3>2, <3>3, <3>4
  <2> QED
    BY <2>1 DEF OneName
<1>4. ASSUME NEW m \in Missions PROVE Routed(m)'
  <2>0. Routed(m) /\ MissionEffect(s, m)
    BY <1>0 DEF Effects
  <2>1. \A n \in Nodes : nodes[n].status # "none" => nodes'[n].status # "none"
    BY Remains
  <2>2. CASE missions'[m] = missions[m]
    BY <2>0, <2>1, <2>2 DEF Routed
  <2>3. CASE LockedMission(m)
    BY <2>0, <2>1, <2>3 DEF Routed, LockedMission
  <2>4. CASE NewMission(s, m)
    BY <2>4 DEF Routed, NewMission
  <2> QED
    BY <2>0, <2>2, <2>3, <2>4 DEF MissionEffect
<1>5. RevokedNoWork'
  <2>1. ASSUME NEW m \in Missions, missions'[m].work = "live" PROVE RoutesActive(missions[m].bind)'
                                                                    /\ missions'[m].bind = missions[m].bind
    <3>0. MissionEffect(s, m)
      BY DEF Effects
    <3>1. CASE missions'[m] = missions[m]
      <4>1. ~Off(s, m) /\ missions[m].work = "live"
        BY <2>1, <3>1 DEF Off
      <4>2. RoutesActive(missions[m].bind)
        BY <1>0, <4>1 DEF RevokedNoWork
      <4>3. RoutesActive(missions[m].bind)'
        BY <3>1, <4>1, <4>2, RoutesStay
      <4> QED
        BY <3>1, <4>3
    <3>2. CASE LockedMission(m)
      <4>1. /\ missions'[m].bind = missions[m].bind /\ agents' = agents /\ nodes' = nodes
            /\ RoutesActive(missions[m].bind)
        BY <2>1, <3>2 DEF LockedMission
      <4>2. RoutesActive(missions[m].bind)'
        BY <4>1 DEF RoutesActive
      <4> QED
        BY <4>1, <4>2
    <3>3. CASE NewMission(s, m)
      BY <2>1, <3>3 DEF NewMission
    <3> QED
      BY <3>0, <3>1, <3>2, <3>3 DEF MissionEffect
  <2> QED
    BY <2>1 DEF RevokedNoWork
<1>6. OneKey'
  BY <1>1 DEF Accounts, AgentFits, OneKey
<1>7. DisabledHoldsNothing'
  <2>1. ASSUME NEW a \in Agents, agents'[a].status = "disabled", NEW n \in Nodes, NodeOwner[n] = a
        PROVE  Empty(nodes'[n])
    <3>0. NodeEffect(s, n) /\ AgentEffect(s, a)
      BY DEF Effects
    <3>1. CASE agents[a].status = "disabled"
      <4>1. Empty(nodes[n])
        BY <1>0, <2>1, <3>1 DEF DisabledHoldsNothing, Empty
      <4>2. ~NewNode(s, n)
        BY <2>1, <3>1 DEF NewNode
      <4>3. nodes[n].status # "active"
        BY <4>1 DEF Empty
      <4> QED
        BY <3>0, <4>1, <4>2, <4>3 DEF NodeEffect, LockedNode
    <3>2. CASE agents[a].status # "disabled"
      BY <2>1, <3>0, <3>2 DEF AgentEffect
    <3> QED
      BY <3>1, <3>2
  <2>2. ASSUME NEW a \in Agents, agents'[a].status = "disabled" PROVE agents'[a].keys = 0
    BY <1>1, <2>2 DEF Accounts, AgentFits
  <2> QED
    BY <2>1, <2>2 DEF DisabledHoldsNothing, Empty
<1> QED
  BY <1>1, <1>2, <1>3, <1>4, <1>5, <1>6, <1>7 DEF Tables

\* The types of the tables.
TableTypes ==
    /\ agents \in [Agents -> AgentRow]
    /\ nodes \in [Nodes -> NodeRow]
    /\ missions \in [Missions -> MissionRow]
    /\ invites \in [Invites -> {"none", "open", "expired", "used"}]
    /\ blocks \subseteq Agents \X Agents

\* A commit with such effects keeps the invariant.
LEMMA CommitKeeps ==
    ASSUME AInv, NEW s \in Sessions, tx[s].busy, tx' = [tx EXCEPT ![s] = Idle],
           scenario' = scenario, Effects(s), TableTypes'
    PROVE  AInv'
<1>1. tx'[s] = Idle /\ \A u \in Sessions \ {s} : tx'[u] = tx[u]
  BY DEF AInv, Shape
<1>2. ~tx'[s].busy
  BY <1>1 DEF Idle
<1>3. Shape'
  <2>1. tx' \in [Sessions -> SessionRow \cup {Idle}]
    BY DEF AInv, Shape
  <2> QED
    BY <2>1 DEF AInv, Shape, TableTypes
<1>4. Holds(s)' = {} /\ \A u \in Sessions \ {s} : Holds(u)' = Holds(u)
  BY <1>1, <1>2 DEF Holds
<1>5. Exclusive'
  BY <1>4 DEF AInv, Exclusive
<1>6. Steps(s)' /\ Enrols(s)' /\ Ready(s)'
  BY <1>2 DEF Steps, Enrols, Ready
<1>7. \A u \in Sessions \ {s} : Steps(u)' /\ Enrols(u)' /\ Ready(u)'
  BY <1>1, StepsStay, EnrolsStay, ReadyStay
<1>8. Tables'
  BY TablesAfter
<1> QED
  BY <1>3, <1>5, <1>6, <1>7, <1>8 DEF AInv

-----------------------------------------------------------------------------
(* The commits *)

\* What a transaction that commits relies on.
LEMMA Committing ==
    ASSUME AInv, NEW s \in Sessions, tx[s].busy, tx[s].ready
    PROVE  /\ tx[s].req \in Request /\ Stands(tx[s].req) /\ TableTypes
           /\ LocksOf(Plan(tx[s].req)) \subseteq Holds(s)
           /\ \A a \in Agents : AgentFits(agents[a])
           /\ \A n \in Nodes : NodeFits(nodes[n])
           /\ tx[s].req.op \in Revocation =>
                 /\ PlannedNodes(tx[s].plan) = Lost(tx[s].req)
                 /\ \A n \in Lost(tx[s].req) : NodeLock(n) \in Holds(s)
                 /\ \A m \in MissionsOf(Lost(tx[s].req)) : MissionLock(m) \in Holds(s)
                 /\ tx[s].req.op = "disable" => LifecycleLock(tx[s].req.agent) \in Holds(s)
                 /\ tx[s].victims = {m \in MissionsOf(Lost(tx[s].req)) : missions[m].work = "live"}
<1>1. Shape /\ Steps(s) /\ Ready(s)
  BY DEF AInv
<1>2. tx[s].held = Len(tx[s].plan)
  BY <1>1 DEF Steps
<1>3. tx[s].req \in Request /\ LocksOf(Plan(tx[s].req)) \subseteq Holds(s)
  BY <1>1, Holding
<1>4. TableTypes
  BY <1>1 DEF Shape, TableTypes
<1>5. \A a \in Agents : AgentFits(agents[a])
  BY DEF AInv, Tables, Accounts
<1>6. \A n \in Nodes : NodeFits(nodes[n])
  BY DEF AInv, Tables, Credentials
<1>7. Stands(tx[s].req) /\ (tx[s].req.op \in Revocation =>
          tx[s].victims = {m \in MissionsOf(Lost(tx[s].req)) : missions[m].work = "live"})
  BY <1>1 DEF Ready
<1>8. tx[s].req.op \in Revocation =>
        /\ PlannedNodes(tx[s].plan) = Lost(tx[s].req)
        /\ \A n \in Lost(tx[s].req) : NodeLock(n) \in Holds(s)
        /\ \A m \in MissionsOf(Lost(tx[s].req)) : MissionLock(m) \in Holds(s)
        /\ tx[s].req.op = "disable" => LifecycleLock(tx[s].req.agent) \in Holds(s)
  BY <1>1, <1>2, Locked
<1> QED
  BY <1>3, <1>4, <1>5, <1>6, <1>7, <1>8

\* Tables that are not written show no effect.
LEMMA NoEffect ==
    ASSUME AInv, NEW s
    PROVE  /\ agents' = agents => \A a \in Agents : AgentEffect(s, a)
           /\ nodes' = nodes => \A n \in Nodes : NodeEffect(s, n)
           /\ missions' = missions => \A m \in Missions : MissionEffect(s, m)
<1>1. \A a \in Agents : AgentFits(agents[a])
  BY DEF AInv, Tables, Accounts
<1> QED
  BY <1>1 DEF AgentEffect, NodeEffect, MissionEffect

\* Creating an account and rotating its key.
LEMMA AccountCommit ==
    ASSUME AInv, NEW s \in Sessions, tx[s].busy, tx[s].ready,
           tx[s].req.op \in {"create", "redeem", "adminRotate", "selfRotate"}, WriteAccount(tx[s].req)
    PROVE  Effects(s) /\ TableTypes'
<1> DEFINE r == tx[s].req
           x == IF r.op = "redeem" THEN InviteFor[r.invite] ELSE r.agent
<1>1. r \in Request /\ Stands(r) /\ TableTypes /\ LocksOf(Plan(r)) \subseteq Holds(s)
      /\ \A a \in Agents : AgentFits(agents[a])
  BY Committing
<1>2. nodes' = nodes /\ missions' = missions /\ blocks' = blocks
      /\ invites' = (IF r.op = "redeem" THEN [invites EXCEPT ![r.invite] = "used"] ELSE invites)
  BY DEF WriteAccount
<1>3. x \in Agents
  BY <1>1, Names
<1>4. agents \in [Agents -> AgentRow]
  BY <1>1 DEF TableTypes
<1>5. /\ agents' \in [Agents -> AgentRow]
      /\ \A a \in Agents \ {x} : agents'[a] = agents[a]
      /\ agents'[x].status = "active" /\ agents'[x].keys = 1
      /\ \/ agents[x].status = "active"
         \/ agents[x].status = "none" /\ <<"handle", x>> \in Holds(s)
  <2>1. CASE r.op \in {"create", "redeem"}
    <3>1. agents' = [agents EXCEPT ![x].status = "active", ![x].keys = @ + 1]
      BY <2>1 DEF WriteAccount, Register
    <3>2. agents[x].status = "none" /\ <<"handle", x>> \in Holds(s)
      BY <1>1, <2>1, Planned DEF Stands
    <3>3. agents[x].keys = 0 /\ agents[x] \in AgentRow
      BY <1>1, <1>3, <1>4, <3>2 DEF AgentFits
    <3> HIDE DEF x
    <3>4. agents'[x] = [status |-> "active", keys |-> 1]
      BY <1>3, <1>4, <3>1, <3>3 DEF AgentRow
    <3>5. [status |-> "active", keys |-> 1] \in AgentRow
      BY DEF AgentRow
    <3>6. DOMAIN agents' = Agents /\ agents' = [a \in Agents |-> agents'[a]]
      BY <1>4, <3>1
    <3>7. \A a \in Agents \ {x} : agents'[a] = agents[a]
      BY <1>4, <3>1
    <3>8. agents' \in [Agents -> AgentRow]
      BY <1>4, <3>4, <3>5, <3>6, <3>7
    <3> QED
      BY <3>2, <3>4, <3>7, <3>8
  <2>2. CASE r.op \in {"adminRotate", "selfRotate"}
    <3>1. agents' = [agents EXCEPT ![x].keys = 1]
      BY <2>2 DEF WriteAccount, RotateKeys
    <3>2. agents[x].status = "active"
      BY <1>1, <2>2 DEF Stands
    <3> HIDE DEF x
    <3>3. agents' \in [Agents -> AgentRow]
      BY <1>3, <1>4, <3>1 DEF AgentRow
    <3>4. agents'[x].status = "active" /\ agents'[x].keys = 1
      BY <1>3, <1>4, <3>1, <3>2 DEF AgentRow
    <3> QED
      BY <1>4, <3>1, <3>2, <3>3, <3>4
  <2> QED
    BY <2>1, <2>2
<1> HIDE DEF x
<1>6. \A a \in Agents : AgentEffect(s, a)
  <2>1. ASSUME NEW a \in Agents PROVE AgentEffect(s, a)
    <3>1. CASE a = x
      BY <1>5, <3>1 DEF AgentEffect, AgentFits
    <3>2. CASE a # x
      BY <1>1, <1>5, <3>2 DEF AgentEffect
    <3> QED
      BY <3>1, <3>2
  <2> QED
    BY <2>1
<1>7. TableTypes'
  <2>1. invites' \in [Invites -> {"none", "open", "expired", "used"}]
    BY <1>1, <1>2 DEF TableTypes
  <2> QED
    BY <1>1, <1>2, <1>5, <2>1 DEF TableTypes
<1> QED
  BY <1>2, <1>6, <1>7, NoEffect DEF Effects

\* A commit that writes one Node.
LEMMA OneNodeCommit ==
    ASSUME AInv, NEW s \in Sessions, tx[s].busy, tx[s].ready, NEW n \in Nodes, NEW row \in NodeRow,
           nodes' = [nodes EXCEPT ![n] = row], agents' = agents, invites' = invites, blocks' = blocks,
           missions' \in [Missions -> MissionRow], \A m \in Missions : MissionEffect(s, m),
           NodeFits(row), NewNode(s, n) \/ LockedNode(s, n)
    PROVE  Effects(s) /\ TableTypes'
<1>1. TableTypes
  BY Committing
<1>2. nodes \in [Nodes -> NodeRow]
  BY <1>1 DEF TableTypes
<1>3. nodes'[n] = row /\ \A k \in Nodes \ {n} : nodes'[k] = nodes[k]
  BY <1>2
<1>4. \A k \in Nodes : NodeEffect(s, k)
  BY <1>3 DEF NodeEffect
<1>5. nodes' \in [Nodes -> NodeRow]
  BY <1>2
<1>6. TableTypes'
  BY <1>1, <1>5 DEF TableTypes
<1> QED
  BY <1>4, <1>6, NoEffect DEF Effects

\* Enrolling a Node.
LEMMA EnrollmentCommit ==
    ASSUME AInv, NEW s \in Sessions, tx[s].busy, tx[s].ready,
           tx[s].req.op = "enroll", WriteEnrollment(tx[s].req)
    PROVE  Effects(s) /\ TableTypes'
<1> DEFINE n == tx[s].req.node
           row == [status |-> "active", creds |-> {1}, issued |-> 1, workspace |-> "none"]
<1>1. /\ tx[s].req \in Request /\ Stands(tx[s].req) /\ TableTypes
      /\ LocksOf(Plan(tx[s].req)) \subseteq Holds(s) /\ \A k \in Nodes : NodeFits(nodes[k])
  BY Committing
<1>2. /\ agents' = agents /\ missions' = missions /\ invites' = invites /\ blocks' = blocks
      /\ nodes' = [Issue(n, {}) EXCEPT ![n].status = "active"]
  BY DEF WriteEnrollment
<1>3. n \in Nodes
  BY <1>1, Names
<1>4. nodes[n].status = "none"
  BY DEF AInv, Enrols
<1>5. nodes \in [Nodes -> NodeRow] /\ missions \in [Missions -> MissionRow]
  BY <1>1 DEF TableTypes
<1>6. nodes[n].workspace = "none" /\ nodes[n].issued = 0 /\ nodes[n].creds = {} /\ nodes[n] \in NodeRow
  BY <1>1, <1>3, <1>4, <1>5 DEF NodeFits
<1>7. nodes' = [nodes EXCEPT ![n] = row]
  <2>1. Issue(n, {})[n] = [status |-> "none", creds |-> {1}, issued |-> 1, workspace |-> "none"]
    <3>1. Issue(n, {})[n] =
             [nodes[n] EXCEPT !.issued = nodes[n].issued + 1,
                              !.creds = (nodes[n].creds \ {}) \cup {nodes[n].issued + 1}]
      BY <1>3, <1>5, <1>6 DEF Issue, NodeRow
    <3>2. nodes[n].issued + 1 = 1 /\ (nodes[n].creds \ {}) \cup {nodes[n].issued + 1} = {1}
      BY <1>6
    <3>3. ASSUME NEW x \in NodeRow, x.status = "none", x.workspace = "none"
          PROVE  [x EXCEPT !.issued = 1, !.creds = {1}]
                    = [status |-> "none", creds |-> {1}, issued |-> 1, workspace |-> "none"]
      <4>1. PICK y : y = [x EXCEPT !.issued = 1, !.creds = {1}]
        OBVIOUS
      <4>2. y.status = "none" /\ y.workspace = "none" /\ y.issued = 1 /\ y.creds = {1}
        BY <3>3, <4>1 DEF NodeRow
      <4>3. y = [status |-> y.status, creds |-> y.creds, issued |-> y.issued,
                 workspace |-> y.workspace]
        BY <4>1 DEF NodeRow
      <4> QED
        BY <4>1, <4>2, <4>3
    <3>4. [nodes[n] EXCEPT !.issued = 1, !.creds = {1}]
             = [status |-> "none", creds |-> {1}, issued |-> 1, workspace |-> "none"]
      BY <1>4, <1>6, <3>3
    <3> QED
      BY <3>1, <3>2, <3>4
  <2>2. DOMAIN Issue(n, {}) = Nodes /\ \A k \in Nodes \ {n} : Issue(n, {})[k] = nodes[k]
    BY <1>5 DEF Issue
  <2>3. nodes'[n] = row /\ \A k \in Nodes \ {n} : nodes'[k] = nodes[k]
    BY <1>2, <1>3, <2>1, <2>2
  <2>4. DOMAIN nodes' = Nodes /\ nodes' = [k \in Nodes |-> nodes'[k]]
    BY <1>2, <2>2 DEF Issue
  <2> QED
    BY <1>3, <1>5, <2>3, <2>4
<1>8. row \in NodeRow /\ NodeFits(row)
  <2>1. 1 \in 1..MaxCreds /\ 1 \in 0..MaxCreds /\ {1} \in SUBSET (1..MaxCreds)
    BY AuthorityAssumption
  <2>2. row \in NodeRow
    BY <2>1 DEF NodeRow
  <2> QED
    BY <2>1, <2>2 DEF NodeFits
<1>9. NewNode(s, n)
  <2>1. /\ LifecycleLock(NodeOwner[n]) \in Holds(s)
        /\ <<"node-enroll", NodeOwner[n], NodeName[n]>> \in Holds(s)
    BY <1>1, Planned
  <2>2. agents[NodeOwner[n]].status = "active" /\ \A x \in SameName(n) : nodes[x].status # "active"
    BY <1>1 DEF Stands, EnrollAdmitted
  <2>3. nodes'[n].status = "active"
    BY <1>3, <1>5, <1>7
  <2> QED
    BY <1>2, <1>4, <2>1, <2>2, <2>3 DEF NewNode
<1> HIDE DEF row, n
<1>10. \A m \in Missions : MissionEffect(s, m)
  BY <1>2, NoEffect
<1> QED
  BY <1>2, <1>3, <1>5, <1>7, <1>8, <1>9, <1>10, OneNodeCommit

\* Rotating a Node's credential and registering its workspace.
LEMMA NodeCommit ==
    ASSUME AInv, NEW s \in Sessions, tx[s].busy, tx[s].ready,
           \/ tx[s].req.op = "rotateCredential" /\ WriteRotation(tx[s].req)
           \/ tx[s].req.op = "register" /\ WriteWorkspace(tx[s].req)
    PROVE  Effects(s) /\ TableTypes'
<1> DEFINE n == tx[s].req.node
           row == nodes'[n]
<1>1. /\ tx[s].req \in Request /\ Stands(tx[s].req) /\ TableTypes
      /\ LocksOf(Plan(tx[s].req)) \subseteq Holds(s) /\ \A k \in Nodes : NodeFits(nodes[k])
  BY Committing
<1>2. agents' = agents /\ missions' = missions /\ invites' = invites /\ blocks' = blocks
  BY DEF WriteRotation, WriteWorkspace
<1>3. n \in Nodes /\ NodeLock(n) \in Holds(s)
  BY <1>1, Names, Planned DEF AtNode
<1>4. nodes \in [Nodes -> NodeRow] /\ nodes[n] \in NodeRow /\ missions \in [Missions -> MissionRow]
  BY <1>1, <1>3 DEF TableTypes
<1>5. CASE tx[s].req.op = "rotateCredential" /\ WriteRotation(tx[s].req)
  <2> DEFINE i == nodes[n].issued
  <2>1. nodes[n].status = "active" /\ nodes[n].creds = {tx[s].req.cred}
    BY <1>1, <1>5 DEF Stands, RotateAdmitted
  <2>2. i < MaxCreds /\ i \in 0..MaxCreds
    BY <1>4, <1>5 DEF WriteRotation, NodeRow
  <2>3. i + 1 \in 1..MaxCreds /\ i + 1 \in 0..MaxCreds
    BY <2>2, AuthorityAssumption
  <2>4. nodes' = Issue(n, {tx[s].req.cred})
    BY <1>5 DEF WriteRotation
  <2>5. nodes' = [nodes EXCEPT ![n] = [status |-> "active", creds |-> {i + 1}, issued |-> i + 1,
                                       workspace |-> nodes[n].workspace]]
    <3>1. nodes'[n] = [status |-> "active", creds |-> {i + 1}, issued |-> i + 1,
                       workspace |-> nodes[n].workspace]
      BY <1>3, <1>4, <2>1, <2>4 DEF Issue, NodeRow
    <3>2. DOMAIN nodes' = Nodes /\ \A k \in Nodes \ {n} : nodes'[k] = nodes[k]
      BY <1>4, <2>4 DEF Issue
    <3>3. nodes' = [k \in Nodes |-> nodes'[k]]
      BY <1>4, <2>4 DEF Issue
    <3> QED
      BY <1>3, <1>4, <3>1, <3>2, <3>3
  <2> DEFINE new == [status |-> "active", creds |-> {i + 1}, issued |-> i + 1,
                     workspace |-> nodes[n].workspace]
  <2>6. new \in NodeRow /\ NodeFits(new)
    <3>1. nodes[n].workspace \in {"none", "active", "revoked"}
      BY <1>4 DEF NodeRow
    <3>2. {i + 1} \in SUBSET (1..MaxCreds)
      BY <2>3
    <3> HIDE DEF i
    <3>3. new \in NodeRow
      BY <2>3, <3>1, <3>2 DEF NodeRow
    <3>4. NodeFits(new)
      BY <2>3 DEF NodeFits
    <3> QED
      BY <3>3, <3>4
  <2>7. LockedNode(s, n)
    <3>1. nodes'[n].status = "active" /\ nodes'[n].workspace = nodes[n].workspace
      BY <1>3, <1>4, <2>5
    <3>2. Working(nodes[n]) => Working(nodes'[n])
      BY <3>1 DEF Working
    <3> QED
      BY <1>3, <2>1, <3>1, <3>2 DEF LockedNode
  <2>8. \A m \in Missions : MissionEffect(s, m)
    BY <1>2, NoEffect
  <2>9. nodes' = [nodes EXCEPT ![n] = new]
    BY <2>5
  <2> HIDE DEF new, n
  <2> QED
    BY <1>2, <1>3, <1>4, <2>6, <2>7, <2>8, <2>9, OneNodeCommit
<1>6. CASE tx[s].req.op = "register" /\ WriteWorkspace(tx[s].req)
  <2> DEFINE new == [nodes[n] EXCEPT !.workspace = "active"]
  <2>1. nodes[n].status = "active"
    BY <1>1, <1>6 DEF Stands
  <2>2. nodes' = [nodes EXCEPT ![n] = new]
    BY <1>3, <1>4, <1>6 DEF WriteWorkspace
  <2>3. new \in NodeRow /\ new.status = "active" /\ new.workspace = "active" /\ new.creds = nodes[n].creds
    BY <1>4, <2>1 DEF NodeRow
  <2>4. NodeFits(nodes[n])
    BY <1>1, <1>3
  <2> HIDE DEF new, n
  <2>5. NodeFits(new)
    BY <2>1, <2>3, <2>4 DEF NodeFits
  <2>6. nodes'[n] = new
    BY <1>3, <1>4, <2>2
  <2>7. LockedNode(s, n)
    BY <1>3, <2>1, <2>3, <2>6 DEF LockedNode, Working
  <2>8. \A m \in Missions : MissionEffect(s, m)
    BY <1>2, NoEffect
  <2> QED
    BY <1>2, <1>3, <1>4, <2>2, <2>3, <2>5, <2>7, <2>8, OneNodeCommit
<1> QED
  BY <1>5, <1>6

\* A revocation cancels what is live in the Missions it has locked.
LEMMA Cancels ==
    ASSUME AInv, NEW s \in Sessions, tx[s].busy, tx[s].ready, tx[s].req.op \in Revocation,
           CancelMissionDeliveries(tx[s])
    PROVE  /\ missions' \in [Missions -> MissionRow]
           /\ \A m \in Missions : MissionEffect(s, m)
           /\ \A m \in MissionsOf(Lost(tx[s].req)) : Off(s, m)
<1> DEFINE v == tx[s].victims
<1>1. /\ TableTypes /\ \A m \in MissionsOf(Lost(tx[s].req)) : MissionLock(m) \in Holds(s)
      /\ v = {m \in MissionsOf(Lost(tx[s].req)) : missions[m].work = "live"}
  BY Committing
<1>2. missions' = [m \in Missions |->
                      IF m \in v THEN [missions[m] EXCEPT !.work = "cancelled"] ELSE missions[m]]
  BY DEF CancelMissionDeliveries
<1>3. missions \in [Missions -> MissionRow]
  BY <1>1 DEF TableTypes
<1>4. MissionsOf(Lost(tx[s].req)) \subseteq Missions
  BY DEF MissionsOf
<1> HIDE DEF v
<1>5. ASSUME NEW m \in v
      PROVE  /\ missions'[m].work = "cancelled" /\ missions'[m].bind = missions[m].bind
             /\ missions'[m] \in MissionRow /\ missions[m].work = "live"
             /\ MissionLock(m) \in Holds(s)
  <2>1. m \in Missions /\ missions[m].work = "live" /\ MissionLock(m) \in Holds(s)
    BY <1>1, <1>4
  <2>2. missions'[m] = [missions[m] EXCEPT !.work = "cancelled"] /\ missions[m] \in MissionRow
    BY <1>2, <1>3, <2>1
  <2> QED
    BY <2>1, <2>2 DEF MissionRow
<1>6. \A m \in Missions \ v : missions'[m] = missions[m] /\ missions'[m] \in MissionRow
  BY <1>2, <1>3
<1>7. missions' \in [Missions -> MissionRow]
  <2>1. missions' = [m \in Missions |-> missions'[m]]
    BY <1>2
  <2> QED
    BY <1>5, <1>6, <2>1
<1>8. ASSUME NEW m \in Missions PROVE MissionEffect(s, m)
  <2>1. CASE m \in v
    <3>1. LockedMission(m) /\ MissionLock(m) \in Holds(s)
      BY <1>5, <2>1 DEF LockedMission
    <3> QED
      BY <3>1 DEF MissionEffect
  <2>2. CASE m \notin v
    BY <1>6, <2>2 DEF MissionEffect
  <2> QED
    BY <2>1, <2>2
<1>9. ASSUME NEW m \in MissionsOf(Lost(tx[s].req)) PROVE Off(s, m)
  <2>1. MissionLock(m) \in Holds(s) /\ m \in Missions
    BY <1>1, <1>4
  <2>2. missions'[m].work # "live"
    BY <1>1, <1>5, <1>6, <2>1
  <2> QED
    BY <2>1, <2>2 DEF Off
<1> QED
  BY <1>7, <1>8, <1>9

\* The Missions of one Node are among those of several.
LEMMA OfOne ==
    ASSUME NEW set, NEW n \in set
    PROVE  MissionsOf({n}) \subseteq MissionsOf(set)
BY DEF MissionsOf

\* Revoking a Node, and disabling an agent.
LEMMA RevocationCommit ==
    ASSUME AInv, NEW s \in Sessions, tx[s].busy, tx[s].ready,
           tx[s].req.op \in {"disable", "revokeNode"}, WriteRevocation(tx[s])
    PROVE  Effects(s) /\ TableTypes'
<1> DEFINE r == tx[s].req
           gone == Lost(r)
<1>0. r.op \in Revocation
  BY DEF Revocation
<1>1. /\ r \in Request /\ Stands(r) /\ TableTypes
      /\ (\A k \in Nodes : NodeFits(nodes[k])) /\ (\A a \in Agents : AgentFits(agents[a]))
      /\ PlannedNodes(tx[s].plan) = gone /\ (\A n \in gone : NodeLock(n) \in Holds(s))
      /\ r.op = "disable" => LifecycleLock(r.agent) \in Holds(s)
  BY <1>0, Committing
<1>2. /\ nodes' = RevokeNodes(gone) /\ invites' = invites /\ blocks' = blocks
      /\ CancelMissionDeliveries(tx[s])
      /\ agents' = (IF r.op = "disable"
                    THEN [agents EXCEPT ![r.agent] = [status |-> "disabled", keys |-> 0]] ELSE agents)
  BY <1>1 DEF WriteRevocation
<1>3. /\ missions' \in [Missions -> MissionRow] /\ \A m \in Missions : MissionEffect(s, m)
      /\ \A m \in MissionsOf(gone) : Off(s, m)
  BY <1>0, <1>2, Cancels
<1>4. gone \in SUBSET Nodes /\ \A n \in gone : nodes[n].status # "none"
  <2>1. gone \in SUBSET Nodes
    BY <1>0, <1>1, LostNodes
  <2>2. CASE r.op = "disable"
    BY <2>1, <2>2 DEF Lost, OwnNodes
  <2>3. CASE r.op = "revokeNode"
    BY <1>1, <2>1, <2>3 DEF Lost, Stands
  <2> QED
    BY <2>1, <2>2, <2>3
<1>5. nodes \in [Nodes -> NodeRow] /\ agents \in [Agents -> AgentRow]
  BY <1>1 DEF TableTypes
<1> HIDE DEF gone, r
<1>6. ASSUME NEW n \in gone
      PROVE  /\ nodes'[n] \in NodeRow /\ NodeFits(nodes'[n]) /\ Empty(nodes'[n])
             /\ nodes'[n].status = "revoked"
  <2>1. nodes'[n] = [nodes[n] EXCEPT !.status = "revoked", !.creds = {},
                                     !.workspace = RevokedWorkspace(nodes[n])]
    BY <1>2, <1>4 DEF RevokeNodes
  <2>2. nodes[n] \in NodeRow
    BY <1>4, <1>5
  <2>3. RevokedWorkspace(nodes[n]) \in {"none", "revoked"}
    BY <2>2 DEF RevokedWorkspace, NodeRow
  <2>4. /\ nodes'[n].status = "revoked" /\ nodes'[n].creds = {}
        /\ nodes'[n].workspace = RevokedWorkspace(nodes[n]) /\ nodes'[n] \in NodeRow
    BY <2>1, <2>2, <2>3 DEF NodeRow
  <2> QED
    BY <2>3, <2>4 DEF NodeFits, Empty
<1>7. \A n \in Nodes \ gone : nodes'[n] = nodes[n]
  BY <1>2 DEF RevokeNodes
<1>8. nodes' \in [Nodes -> NodeRow]
  <2>1. nodes' = [n \in Nodes |-> nodes'[n]]
    BY <1>2 DEF RevokeNodes
  <2> QED
    BY <1>5, <1>6, <1>7, <2>1
<1>9. ASSUME NEW n \in Nodes PROVE NodeEffect(s, n)
  <2>1. CASE n \in gone
    <3>1. \A m \in MissionsOf({n}) : Off(s, m)
      BY <1>3, <2>1, OfOne
    <3>2. LockedNode(s, n)
      BY <1>1, <1>4, <1>6, <2>1, <3>1 DEF LockedNode
    <3> QED
      BY <1>6, <2>1, <3>2 DEF NodeEffect
  <2>2. CASE n \notin gone
    BY <1>7, <2>2 DEF NodeEffect
  <2> QED
    BY <2>1, <2>2
<1>10. agents' \in [Agents -> AgentRow] /\ \A a \in Agents : AgentEffect(s, a)
  <2>1. CASE r.op # "disable"
    <3>1. agents' = agents
      BY <1>2, <2>1
    <3> QED
      BY <1>5, <3>1, NoEffect
  <2>2. CASE r.op = "disable"
    <3>1. r.agent \in Agents /\ gone = OwnNodes(r.agent) /\ agents[r.agent].status # "none"
      BY <1>1, <2>2, Names DEF Lost, gone, Stands
    <3>2. agents' = [agents EXCEPT ![r.agent] = [status |-> "disabled", keys |-> 0]]
      BY <1>2, <2>2
    <3>3. agents' \in [Agents -> AgentRow]
      <4>1. [status |-> "disabled", keys |-> 0] \in AgentRow
        BY DEF AgentRow
      <4> QED
        BY <1>5, <3>2, <4>1
    <3>4. agents'[r.agent].status = "disabled" /\ agents'[r.agent].keys = 0
          /\ \A a \in Agents \ {r.agent} : agents'[a] = agents[a]
      BY <1>5, <3>1, <3>2
    <3>5. ASSUME NEW n \in Nodes, NodeOwner[n] = r.agent PROVE Empty(nodes'[n])
      <4>1. CASE n \in gone
        BY <1>6, <4>1
      <4>2. CASE n \notin gone
        <5>1. nodes[n].status = "none" /\ nodes'[n] = nodes[n]
          BY <1>7, <3>1, <3>5, <4>2 DEF OwnNodes
        <5>2. NodeFits(nodes[n])
          BY <1>1
        <5> QED
          BY <5>1, <5>2 DEF NodeFits, Empty
      <4> QED
        BY <4>1, <4>2
    <3>6. AgentEffect(s, r.agent)
      <4>1. AgentFits(agents'[r.agent])
        BY <3>4 DEF AgentFits
      <4>2. LifecycleLock(r.agent) \in Holds(s)
        BY <1>1, <2>2
      <4>3. \A m \in MissionsOf(OwnNodes(r.agent)) : Off(s, m)
        BY <1>3, <3>1
      <4> QED
        BY <3>1, <3>4, <3>5, <4>1, <4>2, <4>3 DEF AgentEffect
    <3>7. \A a \in Agents \ {r.agent} : AgentEffect(s, a)
      BY <1>1, <3>4 DEF AgentEffect
    <3> QED
      BY <3>3, <3>6, <3>7
  <2> QED
    BY <2>1, <2>2
<1>11. TableTypes'
  BY <1>1, <1>2, <1>3, <1>8, <1>10 DEF TableTypes
<1> QED
  BY <1>3, <1>9, <1>10, <1>11 DEF Effects

\* Revoking a workspace.
LEMMA WorkspaceCommit ==
    ASSUME AInv, NEW s \in Sessions, tx[s].busy, tx[s].ready,
           tx[s].req.op = "revokeWorkspace", WriteWorkspaceRevocation(tx[s])
    PROVE  Effects(s) /\ TableTypes'
<1> DEFINE n == tx[s].req.node
           new == [nodes[n] EXCEPT !.workspace = "revoked"]
<1>0. tx[s].req.op \in Revocation
  BY DEF Revocation
<1>1. /\ tx[s].req \in Request /\ Stands(tx[s].req) /\ TableTypes
      /\ LocksOf(Plan(tx[s].req)) \subseteq Holds(s) /\ \A k \in Nodes : NodeFits(nodes[k])
  BY Committing
<1>2. /\ agents' = agents /\ invites' = invites /\ blocks' = blocks
      /\ CancelMissionDeliveries(tx[s]) /\ nodes' = [nodes EXCEPT ![n].workspace = "revoked"]
  BY DEF WriteWorkspaceRevocation
<1>3. n \in Nodes /\ NodeLock(n) \in Holds(s)
  BY <1>1, Names, Planned DEF AtNode
<1>4. nodes \in [Nodes -> NodeRow] /\ nodes[n] \in NodeRow
  BY <1>1, <1>3 DEF TableTypes
<1>5. nodes[n].status = "active" /\ Lost(tx[s].req) = {n}
  BY <1>1 DEF Stands, Lost
<1>6. nodes' = [nodes EXCEPT ![n] = new]
  BY <1>2, <1>3, <1>4
<1>7. new \in NodeRow /\ new.status = "active" /\ new.creds = nodes[n].creds
  BY <1>4, <1>5 DEF NodeRow
<1>8. NodeFits(nodes[n])
  BY <1>1, <1>3
<1>9. /\ missions' \in [Missions -> MissionRow] /\ \A m \in Missions : MissionEffect(s, m)
      /\ \A m \in MissionsOf({n}) : Off(s, m)
  BY <1>0, <1>2, <1>5, Cancels
<1> HIDE DEF new, n
<1>10. NodeFits(new)
  BY <1>5, <1>7, <1>8 DEF NodeFits
<1>11. nodes'[n] = new
  BY <1>3, <1>4, <1>6
<1>12. LockedNode(s, n)
  BY <1>3, <1>5, <1>7, <1>9, <1>11 DEF LockedNode
<1> QED
  BY <1>2, <1>3, <1>6, <1>7, <1>9, <1>10, <1>12, OneNodeCommit

\* A commit that writes one Mission.
LEMMA OneMissionCommit ==
    ASSUME AInv, NEW s \in Sessions, tx[s].busy, tx[s].ready, NEW m \in Missions, NEW row \in MissionRow,
           missions' = [missions EXCEPT ![m] = row], agents' = agents, nodes' = nodes,
           invites' = invites, blocks' = blocks, MissionLock(m) \in Holds(s),
           LockedMission(m) \/ NewMission(s, m)
    PROVE  Effects(s) /\ TableTypes'
<1>1. TableTypes
  BY Committing
<1>2. missions \in [Missions -> MissionRow]
  BY <1>1 DEF TableTypes
<1>3. \A k \in Missions \ {m} : missions'[k] = missions[k]
  BY <1>2
<1>4. \A k \in Missions : MissionEffect(s, k)
  BY <1>3 DEF MissionEffect
<1>5. missions' \in [Missions -> MissionRow]
  BY <1>2
<1>6. TableTypes'
  BY <1>1, <1>5 DEF TableTypes
<1> QED
  BY <1>4, <1>6, NoEffect DEF Effects

\* Creating a Mission.
LEMMA CreationCommit ==
    ASSUME AInv, NEW s \in Sessions, tx[s].busy, tx[s].ready,
           tx[s].req.op = "createMission", WriteMission(tx[s].req)
    PROVE  Effects(s) /\ TableTypes'
<1> DEFINE r == tx[s].req
           m == r.mission
           new == [missions[m] EXCEPT !.bind = r.bind, !.work = "none"]
<1>1. r \in Request /\ Stands(r) /\ TableTypes /\ LocksOf(Plan(r)) \subseteq Holds(s)
  BY Committing
<1>2. /\ agents' = agents /\ nodes' = nodes /\ invites' = invites /\ blocks' = blocks
      /\ missions' = [missions EXCEPT ![m].bind = r.bind, ![m].work = "none"]
  BY DEF WriteMission
<1>3. /\ m \in Missions /\ r.bind \in [Agents -> Nodes] /\ MissionLock(m) \in Holds(s)
      /\ \A a \in Agents : NodeLock(r.bind[a]) \in Holds(s)
  BY <1>1, Names, Planned
<1>4. missions \in [Missions -> MissionRow] /\ missions[m] \in MissionRow
  BY <1>1, <1>3 DEF TableTypes
<1>5. missions' = [missions EXCEPT ![m] = new]
  BY <1>2, <1>3, <1>4 DEF MissionRow
<1>6. r.bind \in [Agents -> Nodes \cup {NoNode}]
  BY <1>3
<1>7. new \in MissionRow /\ new.bind = r.bind /\ new.work = "none"
  BY <1>4, <1>6 DEF MissionRow
<1>8. missions'[m] = new
  BY <1>3, <1>4, <1>5
<1>9. Creates(r)
  BY <1>1 DEF Stands
<1>10. NewMission(s, m)
  <2>1. missions[m].work = "uncreated" /\ missions'[m].work = "none" /\ missions'[m].bind = r.bind
    BY <1>7, <1>8, <1>9 DEF Creates
  <2>2. \A a \in Agents : /\ r.bind[a] \in Nodes /\ NodeOwner[r.bind[a]] = a
                          /\ nodes[r.bind[a]].status # "none" /\ NodeLock(r.bind[a]) \in Holds(s)
    BY <1>3, <1>9 DEF Creates
  <2> QED
    BY <1>2, <2>1, <2>2 DEF NewMission
<1> HIDE DEF new, m
<1> QED
  BY <1>2, <1>3, <1>5, <1>7, <1>10, OneMissionCommit

\* Accepting a Mission and delivering its work.
LEMMA WorkCommit ==
    ASSUME AInv, NEW s \in Sessions, tx[s].busy, tx[s].ready,
           \/ tx[s].req.op = "accept" /\ WriteAcceptance(tx[s].req)
           \/ tx[s].req.op = "deliver" /\ WriteDelivery(tx[s].req)
    PROVE  Effects(s) /\ TableTypes'
<1> DEFINE r == tx[s].req
           m == r.mission
<1>1. r \in Request /\ Stands(r) /\ TableTypes /\ LocksOf(Plan(r)) \subseteq Holds(s)
  BY Committing
<1>2. agents' = agents /\ nodes' = nodes /\ invites' = invites /\ blocks' = blocks
  BY DEF WriteAcceptance, WriteDelivery
<1>3. m \in Missions /\ MissionLock(m) \in Holds(s)
  BY <1>1, Names, Planned
<1>4. missions \in [Missions -> MissionRow] /\ missions[m] \in MissionRow
  BY <1>1, <1>3 DEF TableTypes
<1>5. CASE r.op = "accept" /\ WriteAcceptance(r)
  <2> DEFINE all == missions[m].accepted \cup {NodeOwner[r.node]}
             work == IF all = Agents THEN "live" ELSE missions[m].work
             new == [missions[m] EXCEPT !.accepted = all, !.work = work]
  <2>1. Accepts(r)
    BY <1>1, <1>5 DEF Stands
  <2>2. NodeOwner[r.node] \in Agents
    BY <1>1, <1>5, Names
  <2>3. missions' = [missions EXCEPT ![m].accepted = all, ![m].work = IF all = Agents THEN "live" ELSE @]
    BY <1>5 DEF WriteAcceptance
  <2>4. missions[m].work # "uncreated" /\ (all = Agents => RoutesActive(missions[m].bind))
    BY <2>1 DEF Accepts
  <2>5. all \subseteq Agents
    BY <1>4, <2>2 DEF MissionRow
  <2>6. missions[m].work \in {"uncreated", "none", "live", "done", "cancelled"}
    BY <1>4 DEF MissionRow
  <2>7. missions' = [missions EXCEPT ![m] = new]
    <3> HIDE DEF all, m
    <3> QED
      BY <1>3, <1>4, <2>3 DEF MissionRow
  <2>8. work \in {"uncreated", "none", "live", "done", "cancelled"} /\ work # "uncreated"
    BY <2>4, <2>6
  <2> HIDE DEF all
  <2>9. work = "live" => RoutesActive(missions[m].bind)
    <3>1. CASE all = Agents
      BY <2>4, <3>1
    <3>2. CASE all # Agents
      BY <1>3, <3>2 DEF AInv, Tables, RevokedNoWork
    <3> QED
      BY <3>1, <3>2
  <2> HIDE DEF work
  <2>10. new \in MissionRow /\ new.bind = missions[m].bind /\ new.work = work
    BY <1>4, <2>5, <2>8 DEF MissionRow
  <2> HIDE DEF new
  <2>11. missions'[m] = new
    BY <1>3, <1>4, <2>7
  <2>12. LockedMission(m)
    BY <1>2, <2>4, <2>8, <2>9, <2>10, <2>11 DEF LockedMission
  <2> HIDE DEF m
  <2> QED
    BY <1>2, <1>3, <2>7, <2>10, <2>12, OneMissionCommit
<1>6. CASE r.op = "deliver" /\ WriteDelivery(r)
  <2> DEFINE new == [missions[m] EXCEPT !.work = "done"]
  <2>1. missions[m].work # "uncreated"
    BY <1>1, <1>6 DEF Stands
  <2>2. missions' = [missions EXCEPT ![m].work = "done"]
    BY <1>6 DEF WriteDelivery
  <2>3. missions' = [missions EXCEPT ![m] = new]
    BY <1>3, <1>4, <2>2
  <2>4. new \in MissionRow /\ new.bind = missions[m].bind /\ new.work = "done"
    BY <1>4 DEF MissionRow
  <2> HIDE DEF new
  <2>5. missions'[m] = new
    BY <1>3, <1>4, <2>3
  <2>6. LockedMission(m)
    BY <2>1, <2>4, <2>5 DEF LockedMission
  <2> HIDE DEF m
  <2> QED
    BY <1>2, <1>3, <2>3, <2>4, <2>6, OneMissionCommit
<1> QED
  BY <1>5, <1>6

\* A transaction commits.
LEMMA CommitStep ==
    ASSUME AInv, NEW s \in Sessions, Commit(s), scenario' = scenario
    PROVE  AInv'
<1> DEFINE r == tx[s].req
<1>1. tx[s].busy /\ tx[s].ready /\ tx' = [tx EXCEPT ![s] = Idle]
  BY DEF Commit
<1>2. \/ r.op \in {"create", "redeem", "adminRotate", "selfRotate"} /\ WriteAccount(r)
      \/ r.op = "enroll" /\ WriteEnrollment(r)
      \/ r.op = "rotateCredential" /\ WriteRotation(r)
      \/ r.op = "register" /\ WriteWorkspace(r)
      \/ r.op \in {"disable", "revokeNode"} /\ WriteRevocation(tx[s])
      \/ r.op = "revokeWorkspace" /\ WriteWorkspaceRevocation(tx[s])
      \/ r.op = "createMission" /\ WriteMission(r)
      \/ r.op = "accept" /\ WriteAcceptance(r)
      \/ r.op = "deliver" /\ WriteDelivery(r)
      \/ r.op \in {"block", "unblock"} /\ WriteBlock(r)
  BY DEF Commit
<1>3. Effects(s) /\ TableTypes'
  <2>1. CASE r.op \in {"create", "redeem", "adminRotate", "selfRotate"} /\ WriteAccount(r)
    BY <1>1, <2>1, AccountCommit
  <2>2. CASE r.op = "enroll" /\ WriteEnrollment(r)
    BY <1>1, <2>2, EnrollmentCommit
  <2>3. CASE \/ r.op = "rotateCredential" /\ WriteRotation(r)
             \/ r.op = "register" /\ WriteWorkspace(r)
    BY <1>1, <2>3, NodeCommit
  <2>4. CASE r.op \in {"disable", "revokeNode"} /\ WriteRevocation(tx[s])
    BY <1>1, <2>4, RevocationCommit
  <2>5. CASE r.op = "revokeWorkspace" /\ WriteWorkspaceRevocation(tx[s])
    BY <1>1, <2>5, WorkspaceCommit
  <2>6. CASE r.op = "createMission" /\ WriteMission(r)
    BY <1>1, <2>6, CreationCommit
  <2>7. CASE \/ r.op = "accept" /\ WriteAcceptance(r)
             \/ r.op = "deliver" /\ WriteDelivery(r)
    BY <1>1, <2>7, WorkCommit
  <2>8. CASE r.op \in {"block", "unblock"} /\ WriteBlock(r)
    <3>1. r \in Request /\ TableTypes
      BY <1>1, Committing
    <3>2. r.agent \in Agents /\ r.other \in Agents
      BY <2>8, <3>1, Names
    <3>3. agents' = agents /\ nodes' = nodes /\ missions' = missions /\ invites' = invites
      BY <2>8 DEF WriteBlock
    <3>4. blocks' \subseteq Agents \X Agents
      BY <2>8, <3>1, <3>2 DEF WriteBlock, TableTypes
    <3>5. Effects(s)
      BY <3>3, NoEffect DEF Effects
    <3>6. TableTypes'
      BY <3>1, <3>3, <3>4 DEF TableTypes
    <3> QED
      BY <3>5, <3>6
  <2> QED
    BY <1>2, <2>1, <2>2, <2>3, <2>4, <2>5, <2>6, <2>7, <2>8
<1> QED
  BY <1>1, <1>3, CommitKeeps

-----------------------------------------------------------------------------
(* The specification *)

\* The Relay starts within the invariant.
LEMMA StartsSound == AuthorityInit => AInv
<1> SUFFICES ASSUME AuthorityInit PROVE AInv
  OBVIOUS
<1>1. /\ scenario \in Scenarios /\ blocks = {} /\ invites = [i \in Invites |-> "none"]
      /\ tx = [s \in Sessions |-> Idle]
      /\ scenario.registered \subseteq Agents /\ scenario.enrolled \subseteq Nodes
      /\ scenario.created \subseteq scenario.missions /\ scenario.missions \subseteq Missions
      /\ \A n \in scenario.enrolled : NodeOwner[n] \in scenario.registered
      /\ \A n, k \in scenario.enrolled :
            NodeOwner[n] = NodeOwner[k] /\ NodeName[n] = NodeName[k] => n = k
      /\ scenario.created # {} =>
            \A a \in Agents : Bound[a] \in scenario.enrolled /\ NodeOwner[Bound[a]] = a
      /\ MaxCreds \in Nat \ {0}
  BY AuthorityAssumption DEF AuthorityInit
<1>2. \A a \in Agents : agents[a] = (IF a \in scenario.registered
                                     THEN [status |-> "active", keys |-> 1]
                                     ELSE [status |-> "none", keys |-> 0])
  BY DEF AuthorityInit
<1>3. \A n \in Nodes : nodes[n] =
         (IF n \in scenario.enrolled
          THEN [status |-> "active", creds |-> {1}, issued |-> 1, workspace |-> "active"]
          ELSE [status |-> "none", creds |-> {}, issued |-> 0, workspace |-> "none"])
  BY DEF AuthorityInit
<1>4. \A m \in Missions : missions[m] =
         [bind |-> [a \in Agents |-> IF m \in scenario.created THEN Bound[a] ELSE NoNode],
          accepted |-> {}, work |-> IF m \in scenario.created THEN "none" ELSE "uncreated"]
  BY DEF AuthorityInit
<1>5. \A s \in Sessions : ~tx[s].busy
  BY <1>1 DEF Idle
<1>6. Shape
  <2>1. agents \in [Agents -> AgentRow]
    <3>1. [status |-> "active", keys |-> 1] \in AgentRow /\ [status |-> "none", keys |-> 0] \in AgentRow
      BY DEF AgentRow
    <3> QED
      BY <3>1 DEF AuthorityInit
  <2>2. nodes \in [Nodes -> NodeRow]
    <3>1. [status |-> "active", creds |-> {1}, issued |-> 1, workspace |-> "active"] \in NodeRow
      <4>1. 1 \in 1..MaxCreds /\ 1 \in 0..MaxCreds /\ {1} \in SUBSET (1..MaxCreds)
        BY <1>1
      <4> QED
        BY <4>1 DEF NodeRow
    <3>2. [status |-> "none", creds |-> {}, issued |-> 0, workspace |-> "none"] \in NodeRow
      <4>1. 0 \in 0..MaxCreds
        BY <1>1
      <4> QED
        BY <4>1 DEF NodeRow
    <3> QED
      BY <3>1, <3>2 DEF AuthorityInit
  <2>3. missions \in [Missions -> MissionRow]
    <3>1. ASSUME NEW m \in Missions PROVE missions[m] \in MissionRow
      <4> DEFINE b == [a \in Agents |-> IF m \in scenario.created THEN Bound[a] ELSE NoNode]
                 w == IF m \in scenario.created THEN "none" ELSE "uncreated"
      <4>1. b \in [Agents -> Nodes \cup {NoNode}]
        BY <1>1
      <4>2. w \in {"uncreated", "none", "live", "done", "cancelled"}
        OBVIOUS
      <4>3. missions[m] = [bind |-> b, accepted |-> {}, work |-> w]
        BY <1>4
      <4> HIDE DEF b, w
      <4> QED
        BY <4>1, <4>2, <4>3 DEF MissionRow
    <3>2. missions = [m \in Missions |-> missions[m]]
      BY DEF AuthorityInit
    <3> QED
      BY <3>1, <3>2
  <2>4. tx \in [Sessions -> SessionRow \cup {Idle}]
    BY <1>1
  <2>5. invites \in [Invites -> {"none", "open", "expired", "used"}]
    BY <1>1
  <2> QED
    BY <1>1, <2>1, <2>2, <2>3, <2>4, <2>5 DEF Shape
<1>7. Exclusive /\ \A s \in Sessions : Steps(s) /\ Enrols(s) /\ Ready(s)
  BY <1>5 DEF Exclusive, Holds, Steps, Enrols, Ready
<1>8. Accounts /\ OneKey
  BY <1>2 DEF Accounts, AgentFits, OneKey
<1>9. Credentials
  <2>1. 1 \in 1..MaxCreds
    BY <1>1
  <2> QED
    BY <1>3, <2>1 DEF Credentials, NodeFits
<1>10. OneName
  BY <1>1, <1>3 DEF OneName
<1>11. ASSUME NEW m \in Missions PROVE Routed(m) /\ missions[m].work # "live"
  <2> DEFINE b == [a \in Agents |-> IF m \in scenario.created THEN Bound[a] ELSE NoNode]
             w == IF m \in scenario.created THEN "none" ELSE "uncreated"
  <2>0. missions[m].bind = b /\ missions[m].work = w
    <3>1. missions[m] = [bind |-> b, accepted |-> {}, work |-> w]
      BY <1>4
    <3> HIDE DEF b, w
    <3> QED
      BY <3>1
  <2>1. CASE m \in scenario.created
    <3>1. \A a \in Agents : Bound[a] \in scenario.enrolled /\ NodeOwner[Bound[a]] = a
      BY <1>1, <2>1
    <3>2. missions[m].work = "none" /\ \A a \in Agents : missions[m].bind[a] = Bound[a]
      BY <2>0, <2>1
    <3>3. \A a \in Agents : Bound[a] \in Nodes /\ nodes[Bound[a]].status # "none"
      BY <1>1, <1>3, <3>1
    <3> QED
      BY <3>1, <3>2, <3>3 DEF Routed
  <2>2. CASE m \notin scenario.created
    <3>1. missions[m].work = "uncreated" /\ \A a \in Agents : missions[m].bind[a] = NoNode
      BY <2>0, <2>2
    <3> QED
      BY <3>1 DEF Routed
  <2> QED
    BY <2>1, <2>2
<1>12. RevokedNoWork /\ DisabledHoldsNothing
  BY <1>2, <1>11 DEF RevokedNoWork, DisabledHoldsNothing
<1> QED
  BY <1>6, <1>7, <1>8, <1>9, <1>10, <1>11, <1>12 DEF AInv, Tables

\* Every step keeps the invariant.
LEMMA StepsSound == AInv /\ [AuthorityNext]_authorityVars => AInv'
<1> SUFFICES ASSUME AInv, [AuthorityNext]_authorityVars PROVE AInv'
  OBVIOUS
<1>1. CASE UNCHANGED authorityVars
  <2>1. /\ scenario' = scenario /\ agents' = agents /\ nodes' = nodes /\ missions' = missions
        /\ invites' = invites /\ blocks' = blocks /\ tx' = tx
    BY <1>1 DEF authorityVars
  <2>2. \A u \in Sessions : Holds(u)' = Holds(u) /\ Steps(u)' /\ Ready(u)'
    BY <2>1, QuietSession DEF AInv
  <2>3. \A u \in Sessions : Enrols(u)'
    BY <2>1 DEF AInv, Enrols
  <2>4. Shape' /\ Exclusive'
    BY <2>1, <2>2 DEF AInv, Shape, Exclusive
  <2>5. Tables'
    BY <2>1, QuietTables DEF AInv
  <2> QED
    BY <2>2, <2>3, <2>4, <2>5 DEF AInv
<1>2. CASE AuthorityNext
  <2>1. scenario' = scenario
    BY <1>2 DEF AuthorityNext
  <2>2. ASSUME NEW s \in Sessions, NEW r \in Requests, Begin(s, r) PROVE AInv'
    BY <2>1, <2>2, BeginStep
  <2>3. ASSUME NEW s \in Sessions, Acquire(s) PROVE AInv'
    BY <2>1, <2>3, AcquireStep
  <2>4. ASSUME NEW s \in Sessions, Check(s) PROVE AInv'
    BY <2>1, <2>4, CheckStep
  <2>5. ASSUME NEW s \in Sessions, Commit(s) PROVE AInv'
    BY <2>1, <2>5, CommitStep
  <2>6. ASSUME NEW s \in Sessions, Rollback(s) PROVE AInv'
    BY <2>1, <2>6, RollbackStep
  <2>7. ASSUME NEW i \in Invites, MintInvite(i) \/ Expire(i) PROVE AInv'
    BY <2>1, <2>7, InviteStep
  <2> QED
    BY <1>2, <2>2, <2>3, <2>4, <2>5, <2>6, <2>7 DEF AuthorityNext
<1> QED
  BY <1>1, <1>2

\* Cardinalities of sets with at most one member.
LEMMA AtMostOne ==
    /\ \A c : Cardinality({c}) = 1
    /\ \A S : (\A x, y \in S : x = y) => Cardinality(S) <= 1
<1>1. \A c : Cardinality({c}) = 1
  BY FS_Singleton
<1>2. Cardinality({}) = 0
  BY FS_EmptySet
<1>3. ASSUME NEW S, \A x, y \in S : x = y PROVE Cardinality(S) <= 1
  <2>1. CASE S = {}
    BY <1>2, <2>1
  <2>2. CASE S # {}
    <3>1. PICK x \in S : TRUE
      BY <2>2
    <3>2. S = {x}
      BY <1>3, <3>1
    <3>3. Cardinality(S) = 1
      BY <1>1, <3>2
    <3> QED
      BY <3>3
  <2> QED
    BY <2>1, <2>2
<1> QED
  BY <1>1, <1>3

\* What an agent holds follows from the tables.
LEMMA HoldingsFollow == AInv => Holdings
<1> SUFFICES ASSUME AInv PROVE Holdings
  OBVIOUS
<1>1. OneKey /\ DisabledHoldsNothing /\ Credentials /\ OneName
  BY DEF AInv, Tables
<1>2. OneCredential
  <2>1. ASSUME NEW n \in Nodes
        PROVE  Cardinality(nodes[n].creds) = (IF nodes[n].status = "active" THEN 1 ELSE 0)
    <3>1. NodeFits(nodes[n])
      BY <1>1 DEF Credentials
    <3>2. CASE nodes[n].status = "active"
      <4>1. PICK c : nodes[n].creds = {c}
        BY <3>1, <3>2 DEF NodeFits
      <4> QED
        BY <3>2, <4>1, AtMostOne
    <3>3. CASE nodes[n].status # "active"
      <4>1. nodes[n].creds = {}
        BY <3>1, <3>3 DEF NodeFits
      <4> QED
        BY <3>3, <4>1, FS_EmptySet
    <3> QED
      BY <3>2, <3>3
  <2> QED
    BY <2>1 DEF OneCredential
<1>3. OneNodePerName
  <2>1. ASSUME NEW n \in Nodes
        PROVE  Cardinality({x \in SameName(n) : nodes[x].status = "active"}) <= 1
    <3>1. \A x, y \in {x \in SameName(n) : nodes[x].status = "active"} : x = y
      BY <1>1 DEF OneName, SameName
    <3> QED
      BY <3>1, AtMostOne
  <2> QED
    BY <2>1 DEF OneNodePerName
<1> QED
  BY <1>1, <1>2, <1>3 DEF Holdings

\* The rows have their types.
LEMMA TypesFollow == AInv => AuthorityTypeOK
<1> SUFFICES ASSUME AInv PROVE AuthorityTypeOK
  OBVIOUS
<1>1. ASSUME NEW s \in Sessions, tx[s].busy
      PROVE  /\ tx[s].req \in Request /\ tx[s].held \in 0..Len(tx[s].plan)
             /\ (tx[s].ready => tx[s].held = Len(tx[s].plan)) /\ tx[s].victims \subseteq Missions
  <2>1. tx[s] \in SessionRow /\ Steps(s)
    BY <1>1, BusyRow DEF AInv
  <2>2. /\ tx[s].req \in Request /\ tx[s].held \in Nat /\ tx[s].plan \in Seq(Lock)
        /\ tx[s].victims \subseteq Missions
    BY <2>1 DEF SessionRow
  <2>3. tx[s].held <= Len(tx[s].plan) /\ (tx[s].ready => tx[s].held = Len(tx[s].plan))
    BY <1>1, <2>1 DEF Steps
  <2> QED
    BY <2>2, <2>3
<1> QED
  BY <1>1 DEF AInv, Shape, AuthorityTypeOK

\* The invariant, for any agents, Nodes, Missions and sessions.
THEOREM AuthorityIsSound == AuthoritySpec => []AInv
BY StartsSound, StepsSound, PTL DEF AuthoritySpec

\* The rows keep their types, and a transaction that may commit has all of the
\* locks of its plan.
THEOREM AuthorityTypesHold == AuthoritySpec => []AuthorityTypeOK
BY AuthorityIsSound, TypesFollow, PTL

\* No set of transactions ever waits for itself (node-locks.ts, mission-locks.ts,
\* mission-trust.ts:14), whatever the requests and however many sessions there are.
THEOREM LocksNeverDeadlock == AuthoritySpec => []NoDeadlock
<1>1. AInv => NoDeadlock
  BY OrderedLocks DEF AInv
<1> QED
  BY <1>1, AuthorityIsSound, PTL

\* No Mission has a live delivery once an agent, a Node or a workspace on one of
\* its routes has been revoked.
THEOREM RevocationEndsWork == AuthoritySpec => []RevokedNoWork
<1>1. AInv => RevokedNoWork
  BY DEF AInv, Tables
<1> QED
  BY <1>1, AuthorityIsSound, PTL

\* Keys, credentials, Nodes and names fit the status of their agent.
THEOREM HoldingsFitStatus == AuthoritySpec => []Holdings
BY AuthorityIsSound, HoldingsFollow, PTL

=============================================================================
