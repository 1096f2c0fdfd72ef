SPECIFICATION FairSpec
CONSTANTS
    PageLimit = 1
    QueueLimit = 1
    MaxLog = 4
    MaxGen = 3
CHECK_DEADLOCK FALSE
INVARIANTS
    TypeOK
    HandoverSound
PROPERTIES
    OldReplayIgnored
    Delivered
