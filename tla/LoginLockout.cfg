SPECIFICATION FairSpec
CONSTANTS
    Threads = {t1, t2, t3}
    MaxAttempts = 2
    LockoutTime = 2
INVARIANTS
    TypeOK
    TimeSettles
    LockoutHasThread
PROPERTY
    LockoutEnds
