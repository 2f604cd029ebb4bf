SPECIFICATION FairStream
CONSTANTS
  Artifacts = {"a", "b"}
  Size <- MCSize
  Forbidden = {"b"}
  Payloads <- MCPayloads
  DefaultPolicy <- MCDefault
  NodePolicy <- MCNode
  Limits <- MCLimits
  MaxLog = 4
  MaxWire = 1
  MaxBreaks = 2
INVARIANTS JournalFaithful
PROPERTY Delivered
CHECK_DEADLOCK FALSE
