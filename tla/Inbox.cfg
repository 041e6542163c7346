SPECIFICATION FairSpec
CONSTANTS
    c1 = c1
    c2 = c2
    Conn = {c1, c2}
    Scripts <- TheScripts
    ByteModulus = 4
    WordLength = 2
    HashLength = 2
INVARIANT TypeOK
INVARIANT TakenAsSent
PROPERTY SaidIsTaken
PROPERTY PollEnds
CHECK_DEADLOCK FALSE
