\* Two requests to a window of two, bodies of up to three bytes.
SPECIFICATION Spec
CONSTANTS
    r1 = r1
    r2 = r2
    r3 = r3
    r4 = r4
    r5 = r5
    mcp = mcp
    metrics = metrics
    health = health
    Request = {r1, r2, r3, r4, r5}
    Key = {mcp, metrics, health}
    KeyOf <- Keys
    Limited = {mcp, metrics}
    Window = 2
    PerWindow = 2
    BodyLimit = TRUE
    MaxBody = 2
    Size <- Sizes
    MaxTime = 4
SYMMETRY Symmetry
INVARIANTS
    SlidingWindow
    RefusedOnlyIfFull
    BodyFits
    BodyIsWhole
