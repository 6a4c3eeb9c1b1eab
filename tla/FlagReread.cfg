SPECIFICATION Spec
CONSTANTS
    LengthOctets <- MCLengthOctets
    MaxGroups = 40
    MaxString = 5
INVARIANT ReadAsFlagged
CHECK_DEADLOCK FALSE
