SPECIFICATION Spec
CONSTANTS
  MaxForeign = 1
  NullOwners = TRUE
INVARIANT BlockedOnlyByInterference
