\* Three threads, three calls, two crashes and two torn lines.
SPECIFICATION FairSpec
CONSTANTS
    Thread = {main, heartbeat, handler}
    NoThread = NoThread
    MaxAppends = 3
    MaxCrashes = 2
    MaxTears = 2
INVARIANTS TypeOK DamageContained LossBounded
PROPERTIES SyncedLinesKept LockReleased ImplementsProofChain
CHECK_DEADLOCK FALSE
