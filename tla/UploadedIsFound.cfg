SPECIFICATION Spec
CONSTANTS
    Requests = {r1}
    Scripts = {s1, s2}
    Contents = {k1, k2}
    Indexable = {k1}
    MaxRetries = 1
INVARIANT UploadedIsFound
CHECK_DEADLOCK FALSE
