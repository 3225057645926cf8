CONSTANTS
    w1 = w1
    w2 = w2
    Writer = {w1, w2}
    Window = 1
    Lag = {0}
    Reported = {"degraded"}
    Edited = {}
SPECIFICATION CalmSpec
INVARIANT InSync
CHECK_DEADLOCK FALSE
