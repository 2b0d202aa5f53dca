SPECIFICATION Spec
CONSTANTS
    retain_events = 1
    retain_count = 2
    MaxSeq = 4
    MaxFailures = 1
    MaxOffLock = 0
    MaxDamaged = 0
    MaxRestarts = 2
INVARIANT
    NoSilentLoss
CHECK_DEADLOCK FALSE
