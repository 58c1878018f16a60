SPECIFICATION Spec
CONSTANTS
    MaxEntries = 2
    Blobs <- MCBlobs
    MaxUpsets = 2
    FaultSets <- MCFaultSets
INVARIANTS
    TypeOK
    RefusalKeepsRules
    FlashComplete
    StoreTracked
    FlagFollowsBlob
