SPECIFICATION Spec
CONSTANTS
    Tasks = {t1}
    Workers = {w1, w2}
    NoTask = NoTask
    StreamModes = {"updates"}
    StoreFails = FALSE
    MaxAccepted = 2
    MaxCrashes = 0
CHECK_DEADLOCK FALSE
INVARIANT InterruptedIsPaused
