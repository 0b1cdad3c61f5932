SPECIFICATION StreamSpec
CONSTANTS
    Tasks = {t1}
    Workers = {w1}
    NoTask = NoTask
    StreamModes = {"updates", "values"}
    StoreFails = FALSE
    MaxAccepted = 0
    MaxCrashes = 0
    Clients = {c1}
    QueueSize = 3
CHECK_DEADLOCK FALSE
PROPERTY StreamOfFinishedTaskEnds
