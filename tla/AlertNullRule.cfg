CONSTANTS
    threshold = threshold
    offline = offline
    w1 = w1
    w2 = w2
    a1 = a1
    a2 = a2
    a3 = a3
    Key = {offline}
    NullRuleKey = {offline}
    Worker = {w1, w2}
    Id = {a1, a2}
    Cooldown = 1
    None = None
SPECIFICATION Spec
SYMMETRY Symmetry
INVARIANT SingleOpenAlert
CHECK_DEADLOCK FALSE
