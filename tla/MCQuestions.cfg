SPECIFICATION Spec
CONSTANTS
    NoLine = NoLine
    NoText = NoText
    NoStation = NoStation
    NoPlace = NoPlace
    Station = {"a", "b", "c", "d"}
    Line = {"1", "2", "9"}
    MaxRows = 3
    MaxAlternatives = 2
    RegistryLines <- Registry
    Uncovered <- OtherOperator
    Candidates <- Places
    OwnWords <- Own
    Starts <- StartsHere
    Ageing = {"elevator_info", "restroom"}
INVARIANTS TypeOK AskedOrDecided StatesAreTold SourcesAreTold AlternativeAgrees
PROPERTIES AskedOnce
