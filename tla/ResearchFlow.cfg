SPECIFICATION FairSpec
CONSTANTS
    MaxRuns = 4
    MaxStarts = 4
    MaxRounds = 2
    MaxTechnicalRetries = 1
    PollBudget = 2
INVARIANTS
    TypeOK
    SingleActiveRun
    FreshOnlyAfterFailure
    ProtectedWhileInUse
    DeletedOnlyWhenIdle
    PassIsFinal
PROPERTIES
    FollowsThisRound
    Terminates
    ImplementsLifecycle
