SPECIFICATION Spec
CONSTANTS
    MaxHosts = 2
    Ip <- Two
    Mac <- Two
    Blobs <- MCBlobs
    LanValues = {1, 2}
    Scenarios <- MCScenarios
INVARIANTS
    TypeOK
    LanEntryCurrent
PROPERTIES
    AppliedAsAsked
    RollbackRestores
    InvalidBlobChangesNothing
    RequestEnds
CHECK_DEADLOCK FALSE
