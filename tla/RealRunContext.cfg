SPECIFICATION Spec
CONSTANTS
    MaxRuns = 2
    MaxStarts = 2
    MaxTechnicalRetries = 1
    PollBudget = 2
INVARIANTS
    UnprotectedOnlyByReplay
PROPERTY
    ImplementsLifecycle
