SPECIFICATION FormatsSpec
CONSTANTS
    WORD = 65536
    ByteValues = {0, 90, 255}
    MaxLen = 6
    Texts = {hello}
    Wrong = Wrong
    None = None
    Empty = Empty
INVARIANTS
    WritesAllBits
    ReadsWhatWasMeant
CHECK_DEADLOCK FALSE
