SPECIFICATION Spec
CONSTANTS
    LengthOctets <- MCLengthOctets
    MaxGroups = 40
    MaxString = 5
INVARIANT LargeRefused
CHECK_DEADLOCK FALSE
