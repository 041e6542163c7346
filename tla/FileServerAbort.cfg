SPECIFICATION Spec
CONSTANTS
    c1 = c1
    c2 = c2
    c3 = c3
    p1 = p1
    p2 = p2
    f1 = f1
    runt = runt
    full = full
    fat = fat
    None = None
    Client = {c1, c2}
    Phrase = {p1}
    File = {f1}
    Body = {runt, full, fat}
    BodySize <- MCBodySize
    HashLength = 2
    MaxChunkSize = 1
    SizeModulus = 8
    MaxIncoming = 1
    MaxOut = 2
PROPERTY BadChunkAbortsBoth
CHECK_DEADLOCK FALSE
