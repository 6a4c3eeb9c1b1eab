SPECIFICATION Spec
CONSTANTS
    na = na
    nb = nb
    v0 = v0
    v1 = v1
    NoField = NoField
    Name = {na, nb}
    Value = {v0, v1}
    NameSize <- MCNameSize
    ValueSize <- MCValueSize
    Overhead = 1
    Pad = 3
    Chunk = 4
    StaticTable <- MCStatic
    EmptyValue = v0
    BadName = {nb}
    BadValue = {}
    UpdateBit = 2
    MaxSize = 8
    Discipline = {"memory", "raise", "trim", "move", "list", "names"}
    InitialMax = {6}
    InitialLimits <- MCLimits
    Resizes = {3}
    Limits = {4, 8, 9}
    Reallocs = {TRUE, FALSE}
    Failures = {TRUE, FALSE}
    Fields <- MCFields
    Literals = {"DYN"}
    MaxWire = 2
INVARIANT NoAbort
CHECK_DEADLOCK FALSE
