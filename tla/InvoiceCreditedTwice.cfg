SPECIFICATION Spec
CONSTANTS
    Period = 3
    Invoice = {"inv1", "inv2"}
    Provisional = "sub"
    EventId <- Ids
    Job <- MonthlyCardJobsNames
    NoJob = NoJob
    EventOf <- MonthlyCardJobs
    InitialSubscriptions <- PendingSubscription
    InitialPayments <- FirstInvoice
INVARIANT InvoiceCreditedOnce
