\* Two processes that share Redis, two calls in one, one in the other; fairly.
SPECIFICATION FairSpec
CONSTANTS
    r1 = r1
    r2 = r2
    r3 = r3
    r4 = r4
    k1 = k1
    i1 = i1
    i2 = i2
    None = None
    Request = {r1, r2, r3}
    Key = {k1}
    Instance = {i1, i2}
    KeyOf <- OneKey
    Home <- TwoHomes
    Backend = "redis"
    Ttl <- TtlOne
    StaleTtl = 1
    MaxTime = 3
    MaxVersion = 1
INVARIANTS
    AgeWithinWindow
    MetricsAccount
PROPERTIES
    EveryLookupEnds
