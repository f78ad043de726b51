\* Elevators whose state is partly unknown; every lookup succeeds.
SPECIFICATION Spec
CONSTANTS
    NoLine = "none"
    Station = {"a", "t", "b"}
    Line = {"1", "2"}
    RegistryLines <- Registry
    LastLine <- RowOrder
    Uncovered <- OtherOperator
    Uncoded <- Codeless
    Requests <- AskedForElevators
    RouteLists <- Lists
    Worlds <- Known
    StaleRows <- Cached
    Outcomes <- Undisturbed
CHECK_DEADLOCK FALSE
INVARIANTS
    RestrictionIsReal
