CONSTANTS
    w1 = w1
    w2 = w2
    Writer = {w1, w2}
    Window = 0
    Lag = {1}
    Reported = {"online"}
    Edited = {"offline"}
SPECIFICATION FairSpec
INVARIANTS
    TypeOK
    ShownRecovers
    TrailRecovers
PROPERTIES
    WatchdogCatches
    HeardNotOffline
CHECK_DEADLOCK FALSE
