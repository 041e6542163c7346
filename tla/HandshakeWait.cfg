SPECIFICATION FairSpec
CONSTANTS
    MaxMessages = 1
    MaxErrors = 1
PROPERTY WaitForConnectionEnds
CHECK_DEADLOCK FALSE
