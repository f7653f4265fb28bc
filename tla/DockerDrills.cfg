CONSTANTS
    d1 = d1
    d2 = d2
    Drills <- MCDrills
    Nobody = Nobody
    MaxDefects = 3
SPECIFICATION MCSpec
SYMMETRY MCSymmetry
CHECK_DEADLOCK FALSE
INVARIANTS NothingLeftBehind LaterDrillsKeepOff EvidenceIsDeserved NoDefectIsMasked
