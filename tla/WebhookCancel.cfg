SPECIFICATION FairSpec
CONSTANTS
    Period = 3
    Invoice = {"inv1", "inv2"}
    Provisional = "sub"
    EventId <- Ids
    Job <- CancelJobsNames
    NoJob = NoJob
    EventOf <- CancelJobs
    InitialSubscriptions <- Subscriptions
    InitialPayments <- Payments
INVARIANT LockingInvariant
PROPERTIES CanceledIsTerminal LiveSubscriptionKeepsPaidTime EveryExecutionEnds
