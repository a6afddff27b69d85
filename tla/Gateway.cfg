CONSTANTS
    MaxPayments = 2
    Starts <- MCStarts
    LastMonth <- MCLastMonth
    MaxDelay = 3
SPECIFICATION FairSpec
INVARIANTS RowIsTrue ExpiredIsOver ExpiresNearTheCharge
PROPERTIES RefundStays CheckoutEnds
CHECK_DEADLOCK FALSE
