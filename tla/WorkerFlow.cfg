CONSTANTS
    Null = Null
    Absent = Absent
    Other = Other
    MaxRounds = 2
    Combo = 1
    Directions <- BothDirections
SPECIFICATION Spec
INVARIANT AcceptedIsOneChain
INVARIANT SoundIsAccepted
INVARIANT MatchingIsForced
