SPECIFICATION Spec
CONSTANTS
    retain_events = 1
    retain_count = 2
    MaxSeq = 5
    MaxFailures = 1
    MaxOffLock = 1
    MaxDamaged = 2
    MaxRestarts = 2
INVARIANTS
    
    NoDoubleReplay
    RefusalNeeded
CHECK_DEADLOCK FALSE
