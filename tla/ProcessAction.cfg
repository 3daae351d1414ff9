SPECIFICATION LlmdFairSpec
CONSTANTS
    CfgMaxAttempts = 2
    CfgThreshold = 2
    Cooldown = 2
    Timeout = 1
    InitialBackoff = 1
    MaxBackoff = 1
    U32Max = 5
    None = None
    NumRequests = 5
    BadIds = {3}
    Invokes = {2, 4}
    ContextLengths = {1, 2}
    PromptTokens = {1, 2}
    MaxTokens = 2
    Nothing = Nothing
INVARIANTS
    FailClosed
    ExecutedOnce
    AuditTruthful
    CountersAddUp
    InvocationKeepsModel
PROPERTIES
    RefusedIffTripped
    AllRequestsFinish
