CONSTANTS
    Command = {c1}
    c1 = c1
    NoCommand = NoCommand
    Report <- MCReport
    TTL = 1
    MaxResults = 2
    MaxLinkLoss = 1
SPECIFICATION FairSpec
INVARIANTS TypeOK OutcomeReported RecordedBeforeShown FailureExcludesSent ConvergesToLastAnswer
PROPERTIES OutcomeLossHasCause ImplementsCommandSpec Settles AnswersLand
CHECK_DEADLOCK FALSE
