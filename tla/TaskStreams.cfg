SPECIFICATION StreamSpec
CONSTANTS
    Tasks = {t1}
    Workers = {w1, w2, w3}
    NoTask = NoTask
    StreamModes = {"updates", "values"}
    StoreFails = TRUE
    MaxAccepted = 2
    MaxCrashes = 1
    Clients = {c1}
    QueueSize = 3
CHECK_DEADLOCK FALSE
INVARIANTS OneDriver StoredEndIsReal EndNotLost
PROPERTIES RunsComeToRest ImplementsLifecycle
