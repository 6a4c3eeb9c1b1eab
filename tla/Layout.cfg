SPECIFICATION Spec
CONSTANTS
    na = na
    nb = nb
    nc = nc
    v0 = v0
    v1 = v1
    Garbage = Garbage
    Name = {na, nb}
    Value = {v0, v1}
    NameSize <- MCNameSize
    ValueSize <- MCValueSize
    Pad = 3
    Chunk = 8
    Memory = 36
    Limits = {12, 24, 36}
INVARIANTS
    TypeOK
    Linked
    StringsWhole
    Inductive
PROPERTY ImplementsTable
CHECK_DEADLOCK FALSE
