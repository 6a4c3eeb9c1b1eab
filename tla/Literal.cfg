SPECIFICATION Spec
CONSTANTS
    LengthOctets <- MCLengthOctets
    MaxGroups = 40
    MaxString = 5
INVARIANTS
    TypeOK
    LengthExact
    LengthRead
    LengthWrites
    SameCharacters
    Aligned
    StringRefused
CHECK_DEADLOCK FALSE
