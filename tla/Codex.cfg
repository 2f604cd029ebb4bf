SPECIFICATION FairSpec
CONSTANTS
  Turns = {1}
  MaxGens = 3
INVARIANTS
  AtMostOnce
  ResultsSound
PROPERTY TurnEnds
CHECK_DEADLOCK FALSE
