CONSTANTS
    Runs = {r1}
    Workers = {w1, w2}
    Handlers = {h1}
    MaxAttempts = 2
    NumStages = 2
    Faults = {"crash"}
    MaxStalls = 1
    MaxErrors = 0
    NoToken = NoToken
    Nobody = Nobody
SPECIFICATION Spec
SYMMETRY MCSymmetry
INVARIANTS SystemTypeOK RunningIsOwned ExclusiveAnalysis OneDiagnosisPerRun OrphansAreRegistered InterruptedStagesAreClosed
PROPERTIES CompletedIsFinal
