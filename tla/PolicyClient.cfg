SPECIFICATION FairSpec
CONSTANTS
    CfgMaxAttempts = 3
    CfgThreshold = 2
    Cooldown = 3
    Timeout = 2
    InitialBackoff = 1
    MaxBackoff = 2
    U32Max = 3
    None = None
INVARIANTS
    GaugeFollowsInstant
PROPERTIES
    ImplementsBreaker
    BreakerRecovers
