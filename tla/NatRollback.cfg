SPECIFICATION Spec
CONSTANTS
    MaxInstance = 2
    PortSpace = 4
    Kinds = {"pf", "nat"}
    UserCfgs <- MCTableCfgs
    UserAliases = {}
    FaultSets <- MCNoFaults
PROPERTY
    RollbackRestores
