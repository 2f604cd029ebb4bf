SPECIFICATION Spec
CONSTANTS
  MaxTime = 6
  MaxFence = 2
  LeaseLen = 2
  TurnLen = 4
  MissionEnd = 6
  MaxInstalls = 3
  MaxResolves = 2
  MaxFaults = 1
INVARIANTS EffectsInTime CapsuleFenced DeadlinesKept
CHECK_DEADLOCK FALSE
