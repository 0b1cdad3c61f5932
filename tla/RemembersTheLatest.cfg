SPECIFICATION Spec
CONSTANTS
    Tasks = {t1, t2}
    Requests = {r1, r2}
    Existing = {s}
    Page = 1
    NoSession = NoSession
INVARIANT RemembersTheLatest
CHECK_DEADLOCK FALSE
