------------------------------ MODULE MCAuthority ------------------------------
(* Two agents; the first may have two Nodes of one name.  Sessions are        *)
(* interchangeable.                                                           *)
EXTENDS Authority

MCOwner == [n \in Nodes |-> IF n = 3 THEN 2 ELSE 1]
MCName == [n \in Nodes |-> "main"]
MCBound == [a \in Agents |-> IF a = 1 THEN 1 ELSE 3]
MCInviteFor == [i \in Invites |-> 2]

MCSymmetry == Permutations(Sessions)

Scenario(ops, pool, registered, enrolled, set, created) ==
    [ops |-> ops, pool |-> pool, registered |-> registered, enrolled |-> enrolled,
     missions |-> set, created |-> created]

\* Revocations of all kinds meet the start of two Missions at different stages.
Revoking ==
    Scenario({"createMission", "accept", "revokeNode", "revokeWorkspace", "disable"},
             2, {1, 2}, {1, 3}, {1, 2}, {1})

\* Blocks and a revocation meet the work of one Mission.
Blocking ==
    Scenario({"accept", "deliver", "revokeNode", "block", "unblock"},
             3, {1, 2}, {1, 3}, {1}, {1})

\* The first agent enrols two Nodes of one name.
Enrolling ==
    Scenario({"enroll", "rotateCredential", "register", "revokeWorkspace", "revokeNode",
              "selfRotate", "disable"},
             2, {1}, {}, {}, {})

\* The second agent is created and invited twice.
Registering ==
    Scenario({"create", "redeem", "adminRotate", "selfRotate", "disable"}, 2, {1}, {}, {}, {})

MCScenarios == {Revoking, Blocking, Enrolling, Registering}
================================================================================
