CONSTANTS
    Runs = {r1}
    Workers = {w1, w2}
    Handlers = {h1}
    MaxAttempts = 3
    NumStages = 3
    Faults = {"crash", "gateway"}
    MaxStalls = 0
    MaxErrors = 2
    NoToken = NoToken
    Nobody = Nobody
SPECIFICATION Spec
SYMMETRY MCSymmetry
INVARIANTS RetryBudgetKept
PROPERTIES QueueSpec
