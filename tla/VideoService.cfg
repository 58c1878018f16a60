SPECIFICATION Spec
CONSTANT Workers = {w1, w2}
INVARIANTS
    OneWorker
    ServiceReachable
PROPERTY
    WorkEnds
