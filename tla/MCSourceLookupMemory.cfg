\* Four calls for one key, in one process with the memory cache.
SPECIFICATION Spec
CONSTANTS
    r1 = r1
    r2 = r2
    r3 = r3
    r4 = r4
    k1 = k1
    i1 = i1
    i2 = i2
    None = None
    Request = {r1, r2, r3, r4}
    Key = {k1}
    Instance = {i1}
    KeyOf <- OneKey
    Home <- OneHome
    Backend = "memory"
    Ttl <- TtlOne
    StaleTtl = 1
    MaxTime = 6
    MaxVersion = 2
SYMMETRY Symmetry
INVARIANTS
    TypeOK
    OneCallPerKey
    FetchesOneTtlApart
    AgeFitsStatus
    EmptyOnlyPastWindow
    TimesOrderData
PROPERTIES
    CacheMovesForward
    ImplementsContract
