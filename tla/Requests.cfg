CONSTANTS
    Request = {r1, r2, r3}
    Payload = {p1, p2}
    NoPayload = none
    NoJob = nojob
    Limit = 2
    MaxFaults = 2
SPECIFICATION Spec
SYMMETRY Symmetric
INVARIANTS OneJob JobOfThePayload AnswersAreVisible StatusIsTrue CounterRunsOut
CHECK_DEADLOCK FALSE
