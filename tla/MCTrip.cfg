\* Trips of travellers who need elevators, or restrooms; every lookup may fail.
SPECIFICATION Spec
CONSTANTS
    NoLine = "none"
    Station = {"a", "t", "b"}
    Line = {"1", "2"}
    RegistryLines <- Registry
    LastLine <- RowOrder
    Uncovered <- OtherOperator
    Uncoded <- Codeless
    Requests <- Asked
    RouteLists <- Lists
    Worlds <- Known
    StaleRows <- Cached
    Outcomes <- Ending
CHECK_DEADLOCK FALSE
INVARIANTS
    TypeOK
    LowMeansRunning
    UnknownWhereFailed
    VerdictAgrees
    LineIsOfTheRoute
    HighConfidenceIsFresh
    ElevatorsAreTold
    UnknownIsTold
    PartsAgree
    RestroomWhereNeeded
