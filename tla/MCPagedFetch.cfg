\* One fetch of up to seven rows, two to a page, over two permits.
SPECIFICATION FairSpec
CONSTANTS
    Fetch = {f1}
    StartIndex = 1
    EndIndex = 2
    Retries = 1
    Limit = 2
    MaxRows = 7
    None = None
INVARIANTS
    TypeOK
    ResultIsComplete
    CallsCounted
    ErrorAfterLastAttempt
PROPERTIES
    PagesAreGathered
    EverythingEnds
