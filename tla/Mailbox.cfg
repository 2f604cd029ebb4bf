SPECIFICATION Spec
CONSTANTS
    a = a
    b = b
    th1 = th1
    th2 = th2
    Agents = {a, b}
    Threads = {th1, th2}
    Sender <- SenderValue
    Recipient <- RecipientValue
    Keys = {k}
    NoKey = NoKey
    Slots = {s1, s2}
    PageSize = 1
    MaxCursor = 3
INVARIANTS
    CommitOrder
    NoEventSkipped
    ThreadsSound
    SomeoneProceeds
PROPERTIES
    BlockFence
SYMMETRY SlotSymmetry
CHECK_DEADLOCK FALSE
