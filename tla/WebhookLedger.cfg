SPECIFICATION Spec
CONSTANTS
    Period = 3
    Invoice = {"inv1", "inv2"}
    Provisional = "sub"
    EventId <- Ids
    Job <- LedgerJobsNames
    NoJob = NoJob
    EventOf <- LedgerJobs
    InitialSubscriptions <- Subscriptions
    InitialPayments <- Payments
INVARIANT EventCreditedAtMostOnce
PROPERTY ImplementsLedger
