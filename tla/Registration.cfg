SPECIFICATION FairSpec
CONSTANTS
  MaxRegistrations = 3
  MaxTechnicalRetries = 1
  MaxRefreshPolls = 2
INVARIANTS
  EndsInContract
  PassMeansRefreshed
PROPERTY Terminates
