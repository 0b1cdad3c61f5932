SPECIFICATION Spec
CONSTANTS
    Limits = {0, 1, 3}
    PassThreshold = 85
    ReplanThreshold = 70
    Scores = {69, 70, 85}
    NoReport = NoReport
    MaxCrashes = 1
CHECK_DEADLOCK FALSE
INVARIANTS AssembledIsEvaluated LoopIsBounded RuntimeAndTrace
PROPERTIES ComesToRest ImplementsGraphRun
