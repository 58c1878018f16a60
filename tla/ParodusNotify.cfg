SPECIFICATION FairSpec
CONSTANTS
    Notifiers = {"a", "b"}
    NoMac = NoMac
    MaxCallFailures = 6
    MaxInitFailures = 4
INVARIANT
    TypeOK
PROPERTIES
    MacSettled
    NotifierEnds
    ConnectionMade
    NotificationSent
CHECK_DEADLOCK FALSE
