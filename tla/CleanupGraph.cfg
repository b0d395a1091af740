SPECIFICATION Spec
CONSTANTS
  MaxForeign = 2
  NullOwners = FALSE
INVARIANTS
  NoDanglingReference
  AllOrNothing
  BlockedOnlyByInterference
  LeftoverStaysTracked
PROPERTY OthersKept
