\* A restroom anywhere on the way.
SPECIFICATION Spec
CONSTANTS
    NoLine = "none"
    Station = {"a", "t", "b"}
    Line = {"1", "2"}
    RegistryLines <- Registry
    LastLine <- RowOrder
    Uncovered <- OtherOperator
    Uncoded <- Codeless
    Requests <- AskedAnywhere
    RouteLists <- Lists
    Worlds <- Known
    StaleRows <- Cached
    Outcomes <- Ending
CHECK_DEADLOCK FALSE
INVARIANTS
    FailuresAreReported
