SPECIFICATION Spec
CONSTANTS
    MaxInstance = 2
    PortSpace = 3
    Kinds = {"pf", "hs"}
    UserCfgs <- MCOverlapCfgs
    UserAliases = {}
    FaultSets <- MCNoFaults
INVARIANT
    NoOverlap
    NothingResurrected
PROPERTY
    KeepsRuleBook
