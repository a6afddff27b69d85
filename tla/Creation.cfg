CONSTANTS
    Job = {j1, j2}
    Cron = Cron
    Nobody = Nobody
    MaxTries = 2
    MaxOutages = 1
SPECIFICATION FairSpec
INVARIANT CreationInvariant
INVARIANT OneCreationUntilFailure
PROPERTY MirrorStays
PROPERTY MarkedIsCompleted
