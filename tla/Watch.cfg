SPECIFICATION FairWatch
CONSTANTS
  Threads = {t1, t2}
  MaxEvents = 2
  PageSize = 1
  MaxStreams = 1
  MaxBreaks = 2
INVARIANTS EventsAccounted
PROPERTY Disposed
