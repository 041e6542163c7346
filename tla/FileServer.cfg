SPECIFICATION Spec
CONSTANTS
    c1 = c1
    c2 = c2
    c3 = c3
    p1 = p1
    p2 = p2
    f1 = f1
    runt = runt
    full = full
    fat = fat
    None = None
    Client = {c1, c2, c3}
    Phrase = {p1, p2}
    File = {f1}
    Body = {runt, full, fat}
    BodySize <- MCBodySize
    HashLength = 2
    MaxChunkSize = 1
    SizeModulus = 8
    MaxIncoming = 2
    MaxOut = 1
SYMMETRY Symmetry
INVARIANTS TypeOK StorageConsistent ChunksFit
PROPERTIES SessionEndsLoudly ImplementsRendezvous
CHECK_DEADLOCK FALSE
