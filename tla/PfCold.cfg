SPECIFICATION Spec
CONSTANTS
    MaxEntries = 2
    Blobs <- MCBlobs
    MaxUpsets = 0
    FaultSets <- MCNoFaults
INVARIANT
    RulesRestored
