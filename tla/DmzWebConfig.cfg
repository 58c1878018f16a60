SPECIFICATION Spec
CONSTANTS
    Hosts = {1, 2}
    V6Hosts = {7}
    Blobs <- MCBlobs
    MaxFailures = 1
    FaultSets <- MCFaultSets
INVARIANTS
    TypeOK
    RefusalKeepsDmz
    SavedHasHost
    BroadcastNeverStored
    DmlFollowsStore
