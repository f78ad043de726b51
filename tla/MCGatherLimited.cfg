\* Up to five operations over two permits.
SPECIFICATION FairSpec
CONSTANTS
    MaxJobs = 5
    Limit = 2
INVARIANTS
    WithinLimit
    NothingLeftBehind
PROPERTIES
    EverythingEnds
