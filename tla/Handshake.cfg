SPECIFICATION FairSpec
CONSTANTS
    MaxMessages = 3
    MaxErrors = 2
INVARIANTS TypeOK InStep WritesDoNotMix OnlyValidated
PROPERTIES ConnectionComesUp MessagesArrive
CHECK_DEADLOCK FALSE
