CONSTANTS
    Instances = {i1, i2}
    Requests = {q1, q2}
    Sessions = {s1, s2}
    Installations = {"acme"}
    NoSession = NoSession
    Nowhere = Nowhere
SPECIFICATION AuthSpec
SYMMETRY MCSymmetry
INVARIANTS AccessIsCurrent
PROPERTIES RotationKeepsSessions EndedSessionsStayEnded
