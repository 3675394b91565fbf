SPECIFICATION FairSpec
CONSTANTS
    OutBufs = 3
    InBufs = {b1, b2}
    NoBuf = NoBuf
    Closed = Closed
    FileBlocks = 3
INVARIANTS SlotFree PlaysInOrder ReadHasToken NotStranded
PROPERTY Recycled
