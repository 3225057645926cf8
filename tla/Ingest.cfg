CONSTANTS
    None = None
    w1 = w1
    w2 = w2
    engine = engine
    hot = hot
    org1 = org1
    dev1 = dev1
    Worker = {w1, w2}
    Key = {engine}
    Needles <- MCNeedles
    MaxTime = 2
    Sample <- MCSample
    Rule = {hot}
    RuleRow <- MCRuleRow
    Org = org1
    Dev = dev1
    Batch = 1
    MaxFaults = 1
    base <- MCBase
    Level <- MCLevel
    NoMatch = NoMatch
SPECIFICATION FairSpec
INVARIANTS TypeOK LatestBacked AlertsHaveCause
PROPERTIES PurgeSparesFresh AlertClears AlertRaised PurgeCatchesUp
