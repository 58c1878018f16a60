SPECIFICATION Spec
CONSTANTS
    MaxInstance = 2
    PortSpace = 4
    Kinds = {"pf"}
    UserCfgs <- MCAliasCfgs
    UserAliases = {1, 2, 3}
    FaultSets <- MCNoFaults
PROPERTY
    AliasExclusive
