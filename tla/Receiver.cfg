SPECIFICATION Spec
CONSTANTS
    na = na
    nb = nb
    v0 = v0
    v1 = v1
    NoField = NoField
    Name = {na, nb}
    Value = {v0, v1}
    NameSize <- MCNameSize
    ValueSize <- MCValueSize
    Overhead = 1
    Pad = 3
    Chunk = 4
    StaticTable <- MCStatic
    EmptyValue = v0
    BadName = {}
    BadValue = {}
    UpdateBit = 2
    MaxSize = 9
    InitialMax = 6
    Announced = {0, 4, 7, 9, 10}
    Updates = {0, 3, 4, 6, 7, 9}
    MaxIndex = 6
    Fields <- MCFields
INVARIANTS
    TypeOK
    DecoderHolds
    TableHolds
    HeldToSize
    UpdatesBeforePlain
    Inductive
CHECK_DEADLOCK FALSE
