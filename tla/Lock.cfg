SPECIFICATION FairLock
CONSTANTS
  Procs = {p1, p2, p3}
  MaxCrashes = 2
PROPERTIES OwnershipKept LockAvailable
