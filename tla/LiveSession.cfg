\* Two turns, three posted messages and two retryable errors: a second turn
\* meets a restart, a late copy of the first reply and a thread that grows.
CONSTANTS
    MaxTurns = 2
    MaxPosts = 3
    MaxRetries = 2
SPECIFICATION Spec
INVARIANTS TurnsOnce RepliesInOrder SavesAccepted
PROPERTIES Answering
CHECK_DEADLOCK FALSE
