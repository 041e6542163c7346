SPECIFICATION FairSpec
CONSTANTS
    s1 = s1
    s2 = s2
    r1 = r1
    r2 = r2
    p1 = p1
    p2 = p2
    short = short
    long = long
    None = None
    Sender = {s1, s2}
    Receiver = {r1, r2}
    Phrase = {p1}
    File = {short, long}
    FileOf <- MCFileOf
    Parts <- MCParts
    MaxIncoming = 1
    MaxOut = 2
    MaxFaults = 0
INVARIANT TypeOK
PROPERTIES StartedTransferCompletes LinkedReceiverCompletes RequestIsAnswered ImplementsServer
CHECK_DEADLOCK FALSE
