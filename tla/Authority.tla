------------------------------- MODULE Authority -------------------------------
(***************************************************************************)
(* Who may act on the Relay: agents and their API keys, invitations,       *)
(* enrolled Nodes with their credentials and workspaces, blocks, and the   *)
(* Missions whose work depends on all of them.                             *)
(*                                                                         *)
(* A request is authenticated first, outside any transaction.  Its         *)
(* transaction then takes advisory locks one at a time, some of them found *)
(* by reading under the earlier ones, reads what the locks protect, and    *)
(* commits.  Transactions of different sessions interleave between any two *)
(* of these steps, and may roll back at any of them.                       *)
(***************************************************************************)
EXTENDS Integers, Sequences, FiniteSets, SequencesExt

CONSTANTS
    Agents,       \* handles, in the order of their ids
    Nodes,        \* Node ids, in order
    Missions,     \* Mission ids, in order; every agent takes part in each
    Invites,      \* jti of the invitations
    Sessions,     \* database sessions
    NodeOwner,    \* nodes.agent_id of each Node
    NodeName,     \* nodes.name of each Node
    InviteFor,    \* invites.handle of each invitation
    Bound,        \* the Node each agent uses in a Mission created at the start
    Scenarios,    \* where the system starts and what it is then asked for
    MaxCreds      \* bound: credentials issued to one Node

ASSUME AuthorityAssumption ==
    /\ Agents \subseteq Nat /\ Nodes \subseteq Nat \ {0} /\ Missions \subseteq Nat
    /\ IsFiniteSet(Agents) /\ IsFiniteSet(Nodes) /\ IsFiniteSet(Missions) /\ IsFiniteSet(Sessions)
    /\ NodeOwner \in [Nodes -> Agents]
    /\ InviteFor \in [Invites -> Agents]
    /\ MaxCreds \in Nat \ {0}
    /\ \A x \in Scenarios :
          /\ x.registered \subseteq Agents /\ x.enrolled \subseteq Nodes
          /\ x.missions \subseteq Missions /\ x.created \subseteq x.missions
          /\ \A n \in x.enrolled : NodeOwner[n] \in x.registered
          /\ \A n, k \in x.enrolled :
                NodeOwner[n] = NodeOwner[k] /\ NodeName[n] = NodeName[k] => n = k
          /\ x.created # {} =>
                \A a \in Agents : /\ Bound[a] \in x.enrolled /\ NodeOwner[Bound[a]] = a
                                  /\ \A n \in x.enrolled \ {Bound[a]} : NodeOwner[n] # a

VARIABLES
    scenario,     \* accounts, Nodes and Missions at the start, the operations requested,
                  \* the Missions they are about and the size of the connection pool
    agents,       \* agents.status and the number of live api_keys
    nodes,        \* nodes, their live credentials and their workspace
    missions,     \* missions, participants and the state of their deliveries
    invites,      \* invites
    blocks,       \* agent_blocks: <<blocker, blocked>>
    tx            \* the transaction of each session

authorityVars == <<scenario, agents, nodes, missions, invites, blocks, tx>>

NoNode == 0

\* A request, by what it is about.
AccountRequest == [op : {"create", "adminRotate", "selfRotate", "disable"}, agent : Agents]
RedeemRequest == [op : {"redeem"}, invite : Invites]
OwnerRequest == [op : {"enroll", "revokeNode"}, node : Nodes]
RotateRequest == [op : {"rotateCredential"}, node : Nodes, cred : 1..MaxCreds]
WorkspaceRequest == [op : {"register", "revokeWorkspace"}, node : Nodes, cred : 1..MaxCreds]
WorkRequest ==
    [op : {"accept", "deliver"}, node : Nodes, cred : 1..MaxCreds, mission : Missions]
MissionRequest == [op : {"createMission"}, agent : Agents, mission : Missions,
                   bind : [Agents -> Nodes]]
BlockRequest == [op : {"block", "unblock"}, agent : Agents, other : Agents]
Request ==
    AccountRequest \cup RedeemRequest \cup OwnerRequest \cup RotateRequest
        \cup WorkspaceRequest \cup WorkRequest \cup MissionRequest \cup BlockRequest

NodeOp == {"register", "revokeWorkspace", "accept", "deliver"}

\* A session: its request, its lock plan as far as it is known, how many of
\* those locks it has, whether it has read everything and may commit, and the
\* Missions whose live deliveries it is going to cancel.
Idle == [busy |-> FALSE]
Busy(r, plan) ==
    [busy |-> TRUE, req |-> r, plan |-> plan, held |-> 0, ready |-> FALSE, victims |-> {}]

AgentRow == [status : {"none", "active", "disabled"}, keys : 0..2]
NodeRow == [status : {"none", "active", "revoked"}, creds : SUBSET (1..MaxCreds),
            issued : 0..MaxCreds, workspace : {"none", "active", "revoked"}]
MissionRow == [bind : [Agents -> Nodes \cup {NoNode}], accepted : SUBSET Agents,
               work : {"uncreated", "none", "live", "done", "cancelled"}]

AuthorityTypeOK ==
    /\ agents \in [Agents -> AgentRow]
    /\ nodes \in [Nodes -> NodeRow]
    /\ missions \in [Missions -> MissionRow]
    /\ invites \in [Invites -> {"none", "open", "expired", "used"}]
    /\ blocks \subseteq Agents \X Agents
    /\ \A s \in Sessions :
          tx[s].busy =>
             /\ tx[s].req \in Request
             /\ tx[s].held \in 0..Len(tx[s].plan)
             /\ tx[s].ready => tx[s].held = Len(tx[s].plan)
             /\ tx[s].victims \subseteq Missions

-----------------------------------------------------------------------------
(* Locks *)

\* Ids in ascending order, as every loop over several locks takes them.
Ascending(set) ==
    CHOOSE s \in [1..Cardinality(set) -> set] :
        \A i, j \in 1..Cardinality(set) : i < j => s[i] < s[j]

LifecycleLock(a) == <<"lifecycle", a>>
NodeLock(n) == <<"node", n>>
NodeLocks(set) == [i \in 1..Cardinality(set) |-> NodeLock(Ascending(set)[i])]
MissionLock(m) == <<"mission", m>>

\* lockAgentBlockPair for each directed pair of the principals, sorted by
\* blocker, then by blocked.
PairLock(a, b) == <<"pair", a, b>>
Pairs == {p \in Agents \X Agents : p[1] # p[2]}
Earlier(p, q) == p[1] < q[1] \/ (p[1] = q[1] /\ p[2] < q[2])
PairOrder ==
    CHOOSE s \in [1..Cardinality(Pairs) -> Pairs] :
        \A i, j \in 1..Cardinality(Pairs) : i < j => Earlier(s[i], s[j])
TrustLocks == [i \in 1..Cardinality(Pairs) |-> PairLock(PairOrder[i][1], PairOrder[i][2])]

\* The Missions a Node takes part in.
MissionsOf(set) == {m \in Missions : \E a \in Agents : missions[m].bind[a] \in set}
MissionLocks(set) ==
    [i \in 1..Cardinality(MissionsOf(set)) |-> MissionLock(Ascending(MissionsOf(set))[i])]

\* Mutant: the locks follow the participants of the manifest.
ManifestOrder(r) ==
    [i \in 1..Cardinality(Agents) |->
        NodeLock(r.bind[IF i = 1 THEN r.agent
                        ELSE CHOOSE a \in Agents : a # r.agent])]

\* lockParticipantNodes.
LockParticipantNodes(r) == NodeLocks({r.bind[a] : a \in Agents})

\* The unique index on agents.handle makes the second insert of a handle wait
\* for the first; an invitation row is read FOR UPDATE.
AccountPlan(r) ==
    CASE r.op = "create" -> <<<<"handle", r.agent>>>>
      [] r.op = "redeem" -> <<<<"invite", r.invite>>, <<"handle", InviteFor[r.invite]>>>>
      [] OTHER -> <<LifecycleLock(r.agent)>>

EnrollPlan(r) ==
    LET a == NodeOwner[r.node]
    IN <<LifecycleLock(a), <<"node-enroll", a, NodeName[r.node]>>>>

\* Accepting a Mission.
AcceptPlan(r) == <<NodeLock(r.node), MissionLock(r.mission)>> \o TrustLocks

\* A delivery operation: its Node, then its Mission, then the trust boundary.
DeliverPlan(r) == <<NodeLock(r.node), MissionLock(r.mission)>> \o TrustLocks

CreateMissionPlan(r) ==
    LockParticipantNodes(r) \o <<MissionLock(r.mission)>> \o TrustLocks

\* The locks a transaction knows it will take when it begins.
Plan(r) ==
    CASE r.op \in {"create", "redeem", "adminRotate", "selfRotate", "disable"} -> AccountPlan(r)
      [] r.op = "enroll" -> EnrollPlan(r)
      [] r.op \in {"revokeNode", "rotateCredential"} -> <<NodeLock(r.node)>>
      [] r.op \in {"register", "revokeWorkspace"} ->
            <<NodeLock(r.node), <<"workspace", r.node>>>>
      [] r.op = "accept" -> AcceptPlan(r)
      [] r.op = "deliver" -> DeliverPlan(r)
      [] r.op = "createMission" -> CreateMissionPlan(r)
      [] r.op \in {"block", "unblock"} -> <<PairLock(r.agent, r.other)>>

PlannedNodes(plan) == {n \in Nodes : \E i \in DOMAIN plan : plan[i] = NodeLock(n)}
PlannedMissions(plan) == {m \in Missions : \E i \in DOMAIN plan : plan[i] = MissionLock(m)}

\* The locks it finds it needs once it has those: disabling an agent locks its
\* Nodes, active or not, and every revocation the Missions of its Nodes.
MoreLocks(r, plan) ==
    CASE r.op = "disable" /\ Last(plan) = LifecycleLock(r.agent) ->
            NodeLocks({n \in Nodes : NodeOwner[n] = r.agent /\ nodes[n].status # "none"})
      [] \/ r.op \in {"disable", "revokeNode"} /\ Last(plan)[1] = "node"
         \/ r.op = "revokeWorkspace" /\ Last(plan)[1] = "workspace" ->
            MissionLocks(PlannedNodes(plan))
      [] OTHER -> <<>>

Holds(s) == IF tx[s].busy THEN {tx[s].plan[i] : i \in 1..tx[s].held} ELSE {}

\* Mutant: Mission locks do not exclude each other.
SharedMission(s, lock) ==
    lock[1] = "mission" \/ \A u \in Sessions \ {s} : lock \notin Holds(u)
SharedPair(s, lock) ==
    lock[1] = "pair" \/ \A u \in Sessions \ {s} : lock \notin Holds(u)

\* An advisory lock is granted when no other transaction holds it.
Free(s, lock) == \A u \in Sessions \ {s} : lock \notin Holds(u)

-----------------------------------------------------------------------------
(* What a transaction reads under its locks *)

\* bearerAuth, before the transaction.
AuthenticatedAgent(a) == agents[a].status = "active" /\ agents[a].keys > 0

\* nodeBearerAuth before the transaction, assertActiveNodeCredential in it.
ActiveNodeCredential(n, c) ==
    /\ c \in nodes[n].creds
    /\ nodes[n].status = "active"
    /\ agents[NodeOwner[n]].status = "active"

\* resolveActiveParticipantBindings: the one active Node of the agent with the
\* alias.
Candidates(a) ==
    {n \in Nodes : /\ NodeOwner[n] = a
                   /\ nodes[n].status = "active" /\ nodes[n].workspace = "active"}
Resolvable == \A a \in Agents : Cardinality(Candidates(a)) = 1
Bindings == [a \in Agents |-> CHOOSE n \in Candidates(a) : TRUE]

\* assertAllParticipantBindingsActive, assertMissionRoutingAuthority.
RoutesActive(bind) ==
    \A a \in Agents :
        /\ agents[a].status = "active"
        /\ nodes[bind[a]].status = "active"
        /\ nodes[bind[a]].workspace = "active"

\* assertMissionTrustBoundary.
Trusted == blocks = {}

\* The registration, rotation or disabling of an account may go on.
AccountAdmitted(r) ==
    CASE r.op = "create" -> agents[r.agent].status = "none"
      [] r.op = "redeem" ->
            invites[r.invite] = "open" /\ agents[InviteFor[r.invite]].status = "none"
      [] r.op \in {"adminRotate", "selfRotate"} -> agents[r.agent].status = "active"
      [] r.op = "disable" -> agents[r.agent].status # "none"

SameName(n) == {x \in Nodes : NodeOwner[x] = NodeOwner[n] /\ NodeName[x] = NodeName[n]}

\* Mutant: only the owner is checked.
OwnerOnly(r) == agents[NodeOwner[r.node]].status = "active"

EnrollAdmitted(r) ==
    /\ agents[NodeOwner[r.node]].status = "active"
    /\ \A x \in SameName(r.node) : nodes[x].status # "active"

RotateAdmitted(r) ==
    nodes[r.node].status = "active" /\ nodes[r.node].creds = {r.cred}

\* An alias, once revoked, is never registered again; a registration that is
\* repeated changes nothing.
RegisterAdmitted(r) ==
    ActiveNodeCredential(r.node, r.cred) /\ nodes[r.node].workspace = "none"

AcceptAdmitted(r) ==
    LET m == missions[r.mission]
        a == NodeOwner[r.node]
    IN /\ ActiveNodeCredential(r.node, r.cred)
       /\ m.work # "uncreated" /\ m.bind[a] = r.node
       /\ nodes[r.node].workspace = "active"
       /\ a \notin m.accepted
       /\ Trusted
       /\ m.accepted \cup {a} = Agents => RoutesActive(m.bind)

DeliverAdmitted(r) ==
    LET m == missions[r.mission]
    IN /\ ActiveNodeCredential(r.node, r.cred)
       /\ m.work = "live" /\ m.bind[NodeOwner[r.node]] = r.node
       /\ RoutesActive(m.bind)
       /\ Trusted

\* The bindings read before the locks must still be the ones that resolve.
CreateMissionAdmitted(r) ==
    /\ missions[r.mission].work = "uncreated"
    /\ \A a \in Agents : agents[a].status = "active"
    /\ Resolvable /\ Bindings = r.bind
    /\ Trusted

Admitted(r) ==
    CASE r.op \in {"create", "redeem", "adminRotate", "selfRotate", "disable"} ->
            AccountAdmitted(r)
      [] r.op = "enroll" -> EnrollAdmitted(r)
      [] r.op = "rotateCredential" -> RotateAdmitted(r)
      [] r.op = "revokeNode" -> nodes[r.node].status = "active"
      [] r.op = "register" -> RegisterAdmitted(r)
      [] r.op = "revokeWorkspace" ->
            ActiveNodeCredential(r.node, r.cred) /\ nodes[r.node].workspace = "active"
      [] r.op = "accept" -> AcceptAdmitted(r)
      [] r.op = "deliver" -> DeliverAdmitted(r)
      [] r.op = "createMission" -> CreateMissionAdmitted(r)
      [] r.op \in {"block", "unblock"} -> TRUE

\* The live deliveries a revocation reads FOR UPDATE under its Mission locks.
Victims(r, plan) ==
    IF r.op \in {"disable", "revokeNode", "revokeWorkspace"}
    THEN {m \in PlannedMissions(plan) : missions[m].work = "live"}
    ELSE {}

-----------------------------------------------------------------------------
(* Transactions *)

\* A request has been authenticated and its transaction begins.  A new Node
\* has a fresh id, an invitation token is checked for expiry before the row is.
Authenticated(r) ==
    CASE r.op \in {"create", "adminRotate", "disable"} -> TRUE
      [] r.op = "redeem" -> invites[r.invite] = "open"
      [] r.op \in {"selfRotate", "block", "unblock"} -> AuthenticatedAgent(r.agent)
      [] r.op = "createMission" ->
            AuthenticatedAgent(r.agent) /\ Resolvable /\ r.bind = Bindings
      [] r.op = "enroll" ->
            /\ AuthenticatedAgent(NodeOwner[r.node])
            /\ nodes[r.node].status = "none"
            /\ \A s \in Sessions : tx[s].busy => tx[s].req # r
      [] r.op \in {"revokeNode", "rotateCredential"} ->
            AuthenticatedAgent(NodeOwner[r.node]) /\ nodes[r.node].status # "none"
      [] r.op \in NodeOp -> ActiveNodeCredential(r.node, r.cred)

Begin(s, r) ==
    /\ ~tx[s].busy
    /\ r.op \in scenario.ops
    /\ Cardinality({u \in Sessions : tx[u].busy}) < scenario.pool
    /\ r.op \in {"block", "unblock"} => r.agent # r.other
    /\ r.op = "rotateCredential" => r.cred <= nodes[r.node].issued
    /\ Authenticated(r)
    /\ tx' = [tx EXCEPT ![s] = Busy(r, Plan(r))]
    /\ UNCHANGED <<agents, nodes, missions, invites, blocks>>

\* It takes its next lock and reads which further locks it needs.
Acquire(s) ==
    /\ tx[s].busy /\ tx[s].held < Len(tx[s].plan)
    /\ LET t == tx[s]
           lock == t.plan[t.held + 1]
       IN /\ Free(s, lock)
          /\ tx' = [tx EXCEPT ![s].held = @ + 1,
                ![s].plan = IF t.held + 1 = Len(t.plan) THEN @ \o MoreLocks(t.req, @) ELSE @]
    /\ UNCHANGED <<agents, nodes, missions, invites, blocks>>

\* It reads what its locks protect, and is refused or goes on.
Check(s) ==
    /\ tx[s].busy /\ tx[s].held = Len(tx[s].plan) /\ ~tx[s].ready
    /\ LET t == tx[s]
       IN tx' = [tx EXCEPT ![s] =
             IF Admitted(t.req)
             THEN [t EXCEPT !.ready = TRUE, !.victims = Victims(t.req, t.plan)]
             ELSE Idle]
    /\ UNCHANGED <<agents, nodes, missions, invites, blocks>>

\* registerAgentWithInitialKey.
Register(a) == [agents EXCEPT ![a].status = "active", ![a].keys = @ + 1]

\* A rotation revokes all of the agent's keys and inserts a new one.
RotateKeys(a) == [agents EXCEPT ![a].keys = 1]

WriteAccount(r) ==
    /\ agents' = CASE r.op = "create" -> Register(r.agent)
                   [] r.op = "redeem" -> Register(InviteFor[r.invite])
                   [] r.op \in {"adminRotate", "selfRotate"} -> RotateKeys(r.agent)
    /\ invites' = IF r.op = "redeem" THEN [invites EXCEPT ![r.invite] = "used"] ELSE invites
    /\ UNCHANGED <<nodes, missions, blocks>>

Issue(n, revoked) ==
    [nodes EXCEPT ![n].issued = @ + 1, ![n].creds = (@ \ revoked) \cup {nodes[n].issued + 1}]

WriteEnrollment(r) ==
    /\ nodes' = [Issue(r.node, {}) EXCEPT ![r.node].status = "active"]
    /\ UNCHANGED <<agents, missions, invites, blocks>>

WriteRotation(r) ==
    /\ nodes[r.node].issued < MaxCreds
    /\ nodes' = Issue(r.node, {r.cred})
    /\ UNCHANGED <<agents, missions, invites, blocks>>

WriteWorkspace(r) ==
    /\ nodes' = [nodes EXCEPT ![r.node].workspace = "active"]
    /\ UNCHANGED <<agents, missions, invites, blocks>>

RevokedWorkspace(row) == IF row.workspace = "active" THEN "revoked" ELSE row.workspace

\* cancelMissionDeliveries: every live delivery of the locked Missions.
CancelMissionDeliveries(t) ==
    missions' = [m \in Missions |->
        IF m \in t.victims THEN [missions[m] EXCEPT !.work = "cancelled"] ELSE missions[m]]

\* The Nodes are revoked with their credentials and workspaces.
RevokeNodes(gone) ==
    [n \in Nodes |->
        IF n \in gone
        THEN [nodes[n] EXCEPT !.status = "revoked", !.creds = {},
                              !.workspace = RevokedWorkspace(nodes[n])]
        ELSE nodes[n]]

\* revokeNode, and disabling an agent with all of its Nodes.
WriteRevocation(t) ==
    /\ nodes' = RevokeNodes(PlannedNodes(t.plan))
    /\ agents' = IF t.req.op = "disable"
                 THEN [agents EXCEPT ![t.req.agent] = [status |-> "disabled", keys |-> 0]]
                 ELSE agents
    /\ CancelMissionDeliveries(t)
    /\ UNCHANGED <<invites, blocks>>

WriteWorkspaceRevocation(t) ==
    /\ nodes' = [nodes EXCEPT ![t.req.node].workspace = "revoked"]
    /\ CancelMissionDeliveries(t)
    /\ UNCHANGED <<agents, invites, blocks>>

WriteMission(r) ==
    /\ missions' = [missions EXCEPT ![r.mission].bind = r.bind, ![r.mission].work = "none"]
    /\ UNCHANGED <<agents, nodes, invites, blocks>>

\* The last acceptance activates the Mission and derives its first delivery.
WriteAcceptance(r) ==
    LET accepted == missions[r.mission].accepted \cup {NodeOwner[r.node]}
    IN /\ missions' = [missions EXCEPT
             ![r.mission].accepted = accepted,
             ![r.mission].work = IF accepted = Agents THEN "live" ELSE @]
       /\ UNCHANGED <<agents, nodes, invites, blocks>>

WriteDelivery(r) ==
    /\ missions' = [missions EXCEPT ![r.mission].work = "done"]
    /\ UNCHANGED <<agents, nodes, invites, blocks>>

WriteBlock(r) ==
    /\ blocks' = IF r.op = "block" THEN blocks \cup {<<r.agent, r.other>>}
                 ELSE blocks \ {<<r.agent, r.other>>}
    /\ UNCHANGED <<agents, nodes, missions, invites>>

\* The writes of a transaction become visible together and its locks go.
Commit(s) ==
    /\ tx[s].busy /\ tx[s].ready
    /\ LET t == tx[s]
           r == tx[s].req
       IN \/ r.op \in {"create", "redeem", "adminRotate", "selfRotate"} /\ WriteAccount(r)
          \/ r.op = "enroll" /\ WriteEnrollment(r)
          \/ r.op = "rotateCredential" /\ WriteRotation(r)
          \/ r.op = "register" /\ WriteWorkspace(r)
          \/ r.op \in {"disable", "revokeNode"} /\ WriteRevocation(t)
          \/ r.op = "revokeWorkspace" /\ WriteWorkspaceRevocation(t)
          \/ r.op = "createMission" /\ WriteMission(r)
          \/ r.op = "accept" /\ WriteAcceptance(r)
          \/ r.op = "deliver" /\ WriteDelivery(r)
          \/ r.op \in {"block", "unblock"} /\ WriteBlock(r)
    /\ tx' = [tx EXCEPT ![s] = Idle]

\* A lost connection or an error rolls the transaction back.
Rollback(s) ==
    /\ tx[s].busy
    /\ tx' = [tx EXCEPT ![s] = Idle]
    /\ UNCHANGED <<agents, nodes, missions, invites, blocks>>

\* POST /admin/invites: the inviter has an account, disabled or not.
MintInvite(i) ==
    /\ "redeem" \in scenario.ops
    /\ invites[i] = "none"
    /\ \E a \in Agents : agents[a].status # "none"
    /\ invites' = [invites EXCEPT ![i] = "open"]
    /\ UNCHANGED <<agents, nodes, missions, blocks, tx>>

Expire(i) ==
    /\ invites[i] = "open"
    /\ invites' = [invites EXCEPT ![i] = "expired"]
    /\ UNCHANGED <<agents, nodes, missions, blocks, tx>>

AuthorityInit ==
    /\ scenario \in Scenarios
    /\ agents = [a \in Agents |-> IF a \in scenario.registered
                                  THEN [status |-> "active", keys |-> 1]
                                  ELSE [status |-> "none", keys |-> 0]]
    /\ nodes = [n \in Nodes |->
          IF n \in scenario.enrolled
          THEN [status |-> "active", creds |-> {1}, issued |-> 1, workspace |-> "active"]
          ELSE [status |-> "none", creds |-> {}, issued |-> 0, workspace |-> "none"]]
    /\ missions = [m \in Missions |->
          [bind |-> [a \in Agents |-> IF m \in scenario.created THEN Bound[a] ELSE NoNode],
           accepted |-> {}, work |-> IF m \in scenario.created THEN "none" ELSE "uncreated"]]
    /\ invites = [i \in Invites |-> "none"]
    /\ blocks = {}
    /\ tx = [s \in Sessions |-> Idle]

\* The requests a client could send in the present state.
Requests ==
    AccountRequest \cup RedeemRequest \cup OwnerRequest \cup RotateRequest
        \cup WorkspaceRequest \cup {r \in WorkRequest : r.mission \in scenario.missions}
        \cup BlockRequest
        \cup (IF Resolvable
              THEN [op : {"createMission"}, agent : Agents, mission : scenario.missions,
                    bind : {Bindings}]
              ELSE {})

AuthorityNext ==
    /\ \/ \E s \in Sessions :
             \/ \E r \in Requests : Begin(s, r)
             \/ Acquire(s)
             \/ Check(s)
             \/ Commit(s)
             \/ Rollback(s)
       \/ \E i \in Invites : MintInvite(i) \/ Expire(i)
    /\ UNCHANGED scenario

AuthoritySpec == AuthorityInit /\ [][AuthorityNext]_authorityVars

-----------------------------------------------------------------------------
(* Properties *)

\* The sessions u waits for.
WaitsFor(s) ==
    IF tx[s].busy /\ tx[s].held < Len(tx[s].plan)
    THEN {u \in Sessions \ {s} : tx[s].plan[tx[s].held + 1] \in Holds(u)}
    ELSE {}

\* No set of transactions waits for itself: enrolment, rotation, revocation of
\* a Node or of a workspace, disabling an agent, creating and accepting a
\* Mission, delivery operations and blocks all take their locks in one order,
\* although revocations only find out which Missions to lock on the way.
NoDeadlock ==
    \A set \in (SUBSET Sessions) \ {{}} : \E s \in set : WaitsFor(s) \cap set = {}

\* No delivery of a Mission is live once one of its participants, Nodes or
\* workspaces has been revoked, however the revocation interleaves with the
\* creation and the acceptances of the Mission.  The follow-up work of a completed
\* delivery is not created here: RevocationFence (MissionLedger) is about it.
RevokedNoWork ==
    \A m \in Missions : missions[m].work = "live" => RoutesActive(missions[m].bind)

\* Disabling an agent leaves it nothing: no API key, no Node, no credential and
\* no workspace, not even from an enrolment or a rotation that was under way.
DisabledHoldsNothing ==
    \A a \in Agents : agents[a].status = "disabled" =>
        /\ agents[a].keys = 0
        /\ \A n \in Nodes : NodeOwner[n] = a =>
              nodes[n].status # "active" /\ nodes[n].creds = {} /\ nodes[n].workspace # "active"

\* An enrolled Node has exactly one live credential, so of two rotations that
\* expect the same one only the first succeeds; a revoked Node has none.
OneCredential ==
    \A n \in Nodes :
        Cardinality(nodes[n].creds) = (IF nodes[n].status = "active" THEN 1 ELSE 0)

\* An agent has at most one active Node of a name.
OneNodePerName ==
    \A n \in Nodes :
        Cardinality({x \in SameName(n) : nodes[x].status = "active"}) <= 1

\* An active account has exactly one live API key, whether it was created by
\* the administrator or by one of several invitations to the same handle.
OneKey == \A a \in Agents : agents[a].status = "active" => agents[a].keys = 1

\* What an agent holds is what its status allows, however registrations,
\* enrolments, rotations and disabling interleave (admin.ts:119,
\* node-enrollment.ts:186, agent-registration.ts:28).
Holdings == OneKey /\ OneCredential /\ OneNodePerName /\ DisabledHoldsNothing

================================================================================
