SPECIFICATION Spec
CONSTANTS
    na = na
    nb = nb
    v0 = v0
    v1 = v1
    NoField = NoField
    Name = {na, nb}
    Value = {v0, v1}
    NameSize <- MCNameSize
    ValueSize <- MCValueSize
    Overhead = 1
    Pad = 2
    Chunk = 4
    StaticTable <- MCStatic
    EmptyValue = v0
    BadName = {}
    BadValue = {}
    UpdateBit = 2
    MaxSize = 7
    Discipline = {"limit", "memory", "raise", "trim", "move", "list", "names"}
    InitialMax = {6}
    InitialLimits <- MCNoLimit
    Resizes = {0, 4, 7, 8}
    Limits = {}
    Reallocs = {TRUE}
    Failures = {FALSE}
    Fields <- MCFields
    Literals = {"DYN", "NONE"}
    MaxWire = 2
INVARIANTS
    NoAbort
    PeerAccepts
    InSync
    Inductive
    MemorySuffices
PROPERTY
    ListsArrive
CHECK_DEADLOCK FALSE
