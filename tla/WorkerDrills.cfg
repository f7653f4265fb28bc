CONSTANTS
    v = v
    w1 = w1
    w2 = w2
    r1 = r1
    r2 = r2
    Workers <- MCWorkers
    Runs <- MCRuns
    Batch <- MCBatch
    MaxAttempts = 2
    Victim = v
    VictimRun = r1
    Driver = Driver
    NoRun = NoRun
    MaxBreaks = 1
SPECIFICATION Spec
SYMMETRY MCSymmetry
CHECK_DEADLOCK FALSE
INVARIANTS PassIsTrue FailureHasCause HealthySoakIsAccepted PlanIsPaced
