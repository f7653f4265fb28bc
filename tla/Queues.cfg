CONSTANTS
    Runs = {r1, r2, r3}
    Workers = {w1, w2, w3}
    MaxAttempts = 2
    MemoryAttempts = 2
    Nobody = Nobody
    Process = Process
SPECIFICATION BackendsSpec
SYMMETRY MCSymmetry
INVARIANTS QueueTypeOK DedupeMatchesJobs OneJobPerRun
PROPERTIES LeaseProtectsJobs KeepsPromise
