CONSTANTS
    n1 = n1
    n2 = n2
    n3 = n3
    n4 = n4
    n5 = n5
    Notification <- MCNotification
    Body <- MCBody
    BodyOf <- MCBodyOf
    States <- MCStates
    Event <- MCEvent
    Ignored = "ignored"
    Key = {"received", "refund", "settled card"}
    OnChange = {"refund"}
    NoKey = "no key"
    KeyOf <- MCKeyOf
    Nobody = "nobody"
    MaxTries = 2
    MaxFaults = 1
    Stories <- MCStories
SPECIFICATION Spec
INVARIANT PipelineInvariant
INVARIANT SwallowedIsInHand
INVARIANT LostOnlyInTheGap
PROPERTY KeepsPromise
PROPERTY JobsEnd
SYMMETRY Redelivered
