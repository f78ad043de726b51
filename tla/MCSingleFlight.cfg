\* Three concurrent misses of one key, within one TTL.
SPECIFICATION HistorySpec
CONSTANTS
    r1 = r1
    r2 = r2
    r3 = r3
    k1 = k1
    i1 = i1
    None = None
    Request = {r1, r2, r3}
    Key = {k1}
    Instance = {i1}
    KeyOf <- OneKey
    Home <- OneHome
    Backend = "memory"
    Ttl <- TtlOne
    StaleTtl = 1
    MaxTime = 1
    MaxVersion = 1
INVARIANT WaitersShareTheCall
