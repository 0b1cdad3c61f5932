SPECIFICATION ServicesSpec
CONSTANTS
    Builds = {b1, b2}
    Names <- MCNames
    Same <- MCSame
    Downgrade = 0
    Archive = 0
    Delete = 1
    Horizon = 1
    Uploaders = {r1}
    Scripts = {s1, s2}
    Contents = {k1, k2}
    Indexable = {k1}
    MaxRetries = 1
    Runs = {t1, t2}
    Visitors = {q1, q2}
    Existing = {s}
    PageSize = 1
    NoSession = NoSession
    Urls = {u1, u2}
    Calls = {w1, w2}
    NoUrl = NoUrl
    p1 = p1
    p2 = p2
    p3 = p3
    p4 = p4
    Prompts <- MCPrompts
    Pictures = {p4}
    Similar <- MCSimilar
    Models = {m1, m2}
    TTL = 1
    MaxSize = 2
    Callers = {d1, d2}
    MaxTime = 2
    MaxCalls = 2
    MaxChunks = 2
    MaxRounds = 2
    TopK = 2
    c1 = c1
    c2 = c2
    NoChain = NoChain
    TaskNames <- MCTaskNames
    Normal <- MCNormal
    Layer <- MCLayer
    Providers <- MCProviders
    ModelNames <- MCModelNames
    Chains <- MCChains
    Environment <- MCEnvironment
    FileModels <- MCFileModels
    FileRules <- MCFileRules
    DefaultRules <- MCDefaultRules
    MaxRequests = 2
    Pages = {g1, g2, g3}
    Start = g0
    Home = g1
    MaxPages = 3
    MaxTokens = 6
    Spare = 3
    Longest = 4
    Largest = 4
    Embeds = {e1, e2}
    Remotes = {"cohere", "openai"}
    Column = 2
    Limit = 1
    Dimension <- MCDimension
    Reservations = {l1, l2, l3}
    Window = 2
    Estimates <- MCEstimates
    Usages = {0, 3}
    RpmLimits = {0, 2}
    TpmLimits = {0, 4}
    Spenders = {n1, n2}
    Given <- MCGiven
    Updates = {v1, v2}
    DefaultBudget = 2
    Threshold = 9
    Prices = {1, 2}
    Dearest = 2
    MaxSpent = 3
SYMMETRY MCAlike
INVARIANTS
    SerialBuildsKeepNamesUnique VectorsBehindGraph LiveRelationsHaveLiveEnds
    OneRowPerContent ObjectsOutliveRows
    TurnsAreConsecutive ExchangesStayTogether OnlySavesCollide NoCircularWait
    LastWordCounts
    NoDrift StaleAtMostTwice
    EndsOnce ModesAgree
    RankedByTheirQuery
    CrawlsNearestFirst
    ContextFits
    ComparesLikeWithLike
    LogIsTheWindow
    OvershootIsInFlight UpdatesAccumulate
PROPERTIES
    RefreshedOnlyByMention PutChangesWhatItNames AdmittedWithinLimits
CHECK_DEADLOCK FALSE
