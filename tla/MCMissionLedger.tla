---------------------------- MODULE MCMissionLedger ----------------------------
(***************************************************************************)
(* TLC instance of MissionLedger on the variables of the delivery ledger:  *)
(* EXTENDS gives those variables and the delivery ledger's own properties. *)
(* The initial state chooses between two sets of bounds: long Missions     *)
(* without retries, and short ones with retries and renewals.              *)
(***************************************************************************)
EXTENDS DeliveryLedger, TLC

CONSTANTS First, Second, Commands, BaseVersion

CONSTANTS p1, p2, c1, c2

VARIABLES coord, accepted, bounds

\* Four turns, one attempt, a deadline at the first tick.
Long == INSTANCE MissionLedger WITH
            MaxTurns <- 4, MaxAttempts <- 1, MaxRenewals <- 0, MissionExpiry <- 1, MaxClock <- 1

\* One turn, two attempts, time for a lease to lapse and be granted again.
Short == INSTANCE MissionLedger WITH
            MaxTurns <- 1, MaxAttempts <- 2, MaxRenewals <- 1, MissionExpiry <- 3, MaxClock <- 3

ASSUME MissionAssumption == Long!Coordinator!Configured /\ Short!Coordinator!Configured

\* One participant has two verification commands, the other has one.
CommandsValue == (p1 :> {c1, c2}) @@ (p2 :> {c1})

\* The kinds of work; versions and rounds grow with the Mission.
WorkValue == [kind : {"turn", "contract_acknowledgement", "verification"},
              version : Nat, round : Nat]

missionVars == <<vars, coord, accepted, bounds>>

MissionInit == bounds \in {"long", "short"} /\ Long!Init

MissionNext ==
    /\ \/ bounds = "long" /\ Long!Next
       \/ bounds = "short" /\ Short!Next
    /\ UNCHANGED bounds

\* The fairness of MissionLedger.
MissionSpec ==
    /\ MissionInit /\ [][MissionNext]_missionVars
    /\ WF_missionVars(bounds = "long" /\ Long!Tick /\ UNCHANGED bounds)
    /\ WF_missionVars(bounds = "short" /\ Short!Tick /\ UNCHANGED bounds)
    /\ WF_missionVars(bounds = "long" /\ Long!ReconcileMission /\ UNCHANGED bounds)
    /\ WF_missionVars(bounds = "short" /\ Short!ReconcileMission /\ UNCHANGED bounds)

\* Ledger and coordinator agree on the work (deriveDeliveryTargets,
\* completeDelivery, reconcileMissionInTransaction); see MissionLedger.
WorkMatches == IF bounds = "long" THEN Long!WorkMatches ELSE Short!WorkMatches

\* The coordinator waits for exactly one thing and completes a Mission only on
\* unanimous evidence for an agreed contract (reduceMissionCoordinator); see
\* MissionCoordinator.
Agreement == IF bounds = "long" THEN Long!Coordinator!Agreement ELSE Short!Coordinator!Agreement

\* Every accepted Mission ends (reconcileMissionInTransaction); see MissionLedger.
MissionEnds == Long!MissionEnds
=============================================================================
