SPECIFICATION Spec
CONSTANTS
    na = na
    nb = nb
    nc = nc
    v0 = v0
    v1 = v1
    NoField = NoField
    Name = {na, nb, nc}
    Value = {v0, v1}
    NameSize <- MCNameSize
    ValueSize <- MCValueSize
    Overhead = 1
    Pad = 3
    Chunk = 4
    StaticTable <- MCStatic
    EmptyValue = v0
    BadName = {nc}
    BadValue = {}
    UpdateBit = 2
    MaxSize = 8
    Discipline = {"skip", "buffer", "iterate"}
    Apis = {"hpack_decode", "hpack_decode_fields"}
    InitialMax = 8
    Sizes = {3}
    Blocks <- MCBlocks
    BufLen = 6
    IntMask = 3
INVARIANTS
    TypeOK
    NoAbort
    InStep
    AsWhole
    FieldsGiven
    Measured
    BufferHolds
    ResultBySize
    Inductive
PROPERTY IterationEnds
CHECK_DEADLOCK FALSE
