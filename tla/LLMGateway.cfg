SPECIFICATION Spec
CONSTANTS
    Requests = {r1, r2}
    Providers <- MCProviders
    Route <- MCRoute
    DowngradedRoute <- MCDowngradedRoute
    Limit = 2
    Spent = {0, 2}
    Threshold = 2
    Recovery = 0
    HalfOpenMax = 1
CHECK_DEADLOCK FALSE
INVARIANTS ReturnedIsSettled PaidOnce LedgerBalances
PROPERTIES BreakersGuardProviders
