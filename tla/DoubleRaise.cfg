SPECIFICATION Spec
CONSTANTS
    na = na
    nb = nb
    v0 = v0
    v1 = v1
    NoField = NoField
    Name = {na, nb}
    Value = {v0, v1}
    NameSize <- MCNameSize
    ValueSize <- MCValueSize
    Overhead = 1
    Pad = 3
    Chunk = 4
    StaticTable <- MCStatic
    EmptyValue = v0
    BadName = {}
    BadValue = {}
    UpdateBit = 2
    MaxSize = 8
    Discipline = {"limit", "memory", "trim", "move", "list", "names"}
    InitialMax = {6}
    InitialLimits <- MCNoLimit
    Resizes = {7, 8}
    Limits = {}
    Reallocs = {TRUE}
    Failures = {FALSE}
    Fields <- MCFields
    Literals = {"DYN"}
    MaxWire = 2
INVARIANT PeerAccepts
CHECK_DEADLOCK FALSE
