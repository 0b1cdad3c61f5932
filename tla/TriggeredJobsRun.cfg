SPECIFICATION Spec
CONSTANTS
    Calls = {c1, c2}
    NoCall = NoCall
INVARIANT TriggeredJobsRun
CHECK_DEADLOCK FALSE
