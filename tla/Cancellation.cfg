CONSTANTS
    Job = {j1, j2}
    Webhook = {w1}
    Reconciler = {r1}
    Nobody = Nobody
    MaxTries = 2
    MaxOutages = 1
SPECIFICATION FairSpec
INVARIANT CancellationAgreement
PROPERTY CanceledStays
PROPERTY EveryJobEnds
PROPERTY MarkedIsCompleted
