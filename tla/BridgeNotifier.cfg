SPECIFICATION FairSpec
CONSTANTS
    MaxTickets = 3
    FaultSets = {{}, {"component", "count", "set"}, {"task", "crash"}}
INVARIANTS
    OneAtATime
    WifiFollowsMode
PROPERTY
    TurnComes
CHECK_DEADLOCK FALSE
