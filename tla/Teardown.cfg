SPECIFICATION FairSpec
CONSTANTS
  MaxGens = 2
  MaxFaults = 2
  MaxBoots = 2
INVARIANT GroupsOnRecord
PROPERTIES QuiescentFinal Freed
CHECK_DEADLOCK FALSE
