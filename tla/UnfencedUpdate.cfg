CONSTANTS
    Runs = {r1}
    Workers = {w1, w2}
    Handlers = {h1}
    MaxAttempts = 2
    NumStages = 2
    Faults = {"database"}
    MaxStalls = 0
    MaxErrors = 0
    NoToken = NoToken
    Nobody = Nobody
SPECIFICATION Spec
PROPERTIES CompletedIsFinal
