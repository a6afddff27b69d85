CONSTANTS
    Providers = {"mercadopago"}
    Job = {j1}
    Session = {s1}
    NoSession = none
    Sync = {c1}
    Nobody = nobody
    MaxRequests <- MCOneProvider
    MaxStamp = 4
SPECIFICATION Spec
INVARIANT PaidNotifiedOnce
CHECK_DEADLOCK FALSE
