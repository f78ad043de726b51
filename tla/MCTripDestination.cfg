\* A route whose segments the normalizer made.
SPECIFICATION Spec
CONSTANTS
    NoLine = "none"
    Station = {"a", "t", "b"}
    Line = {"1", "2"}
    RegistryLines <- Registry
    LastLine <- RowOrder
    Uncovered <- OtherOperator
    Uncoded <- Codeless
    Requests <- AskedAtDestination
    RouteLists <- BareOnly
    Worlds <- Known
    StaleRows <- Cached
    Outcomes <- Undisturbed
CHECK_DEADLOCK FALSE
INVARIANTS
    DestinationIsChecked
