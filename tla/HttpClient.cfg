SPECIFICATION FairSpec
CONSTANT RetryAttempts = 3
INVARIANTS
  CreatesAtMostOnce
  WholeBudget
PROPERTY Terminates
