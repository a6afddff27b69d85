CONSTANTS
    Providers = {"asaas", "mercadopago"}
    Job = {j1, j2}
    Session = {s1, s2, s3}
    NoSession = none
    Sync = {c1, c2}
    Nobody = nobody
    MaxRequests <- MCMaxRequests
    MaxStamp = 5
SPECIFICATION Spec
SYMMETRY Symmetric
VIEW MCView
INVARIANTS PaymentInvariant OnePayable PaymentIsRecorded
PROPERTY PaidIsKept
CHECK_DEADLOCK FALSE
