SPECIFICATION FairSpec
CONSTANTS
    k1 = k1
    k2 = k2
    c1 = c1
    NoKey = NoKey
    Keys = {k1, k2}
    Clients = {c1}
    Configs <- MCConfigs
    Window = 1
    MaxLog = 2
    MaxVersion = 2
    MaxBoots = 3
INVARIANTS
    
    
    RefusalWritesNothing
    ListenersSafe
PROPERTY
    ShutdownCompletes
CHECK_DEADLOCK FALSE
