CONSTANTS
    Null = Null
    Absent = Absent
    Other = Other
    MaxRounds = 1
    Combo = 2
    Directions = {1}
SPECIFICATION Spec
INVARIANT BusinessIdAccepted
