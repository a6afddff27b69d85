CONSTANTS
    a1 = a1
    a2 = a2
    a3 = a3
    a4 = a4
    Account = {a1, a2, a3, a4}
    documentOf <- MCDocumentOf
    emailOf <- MCEmailOf
    Typed <- MCTyped
    Customer = {k1, k2, k3}
    NoCustomer = none
    Call = {c1, c2, c3}
    Gateways = {"asaas", "mercadopago"}
SPECIFICATION Spec
SYMMETRY Symmetric
INVARIANTS ToldTheTruth OneCustomer OnlyZerosSlip
CHECK_DEADLOCK FALSE
