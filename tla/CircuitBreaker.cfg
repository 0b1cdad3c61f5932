SPECIFICATION Spec
CONSTANTS
    Callers = {c1, c2, c3}
    Threshold = 2
    Recovery = 1
    HalfOpenMax = 2
INVARIANTS TrialBound
PROPERTIES Recovers
