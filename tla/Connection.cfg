SPECIFICATION FairSpec
CONSTANTS
    MaxSends = 4
    Bodiless = {2, 3}
    MaxErrors = 2
INVARIANTS TypeOK PendingCounts OneWriter QueueIsDriven FlushMeansWritten NothingCutOff
PROPERTIES ImplementsChannel FlushReturns CloseHappens
CHECK_DEADLOCK FALSE
