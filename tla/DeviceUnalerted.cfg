CONSTANTS
    w1 = w1
    w2 = w2
    Writer = {w1}
    Window = 1
    Lag = {0}
    Reported = {"online"}
    Edited = {}
SPECIFICATION FairSpec
PROPERTY OfflineAlerted
CHECK_DEADLOCK FALSE
