SPECIFICATION FairSpec
CONSTANTS
    MaxSends = 2
    Bodiless = {2}
    MaxErrors = 1
PROPERTY FlushAlwaysReturns
CHECK_DEADLOCK FALSE
