SPECIFICATION Spec
CONSTANTS
    MaxInstance = 2
    PortSpace = 3
    Kinds = {"pf"}
    UserCfgs <- MCFaultCfgs
    UserAliases = {1}
    FaultSets <- MCFaultSets
INVARIANTS
    TypeOK
    OneRulePerInstance
    PendingDurable
