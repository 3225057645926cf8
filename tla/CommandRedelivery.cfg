CONSTANTS
    Command = {c1}
    c1 = c1
    NoCommand = NoCommand
    Report <- MCReportDone
    TTL = 0
    MaxResults = 2
    MaxLinkLoss = 1
SPECIFICATION Spec
PROPERTY RedeliveryIdempotent
CHECK_DEADLOCK FALSE
