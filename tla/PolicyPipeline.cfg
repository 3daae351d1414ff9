SPECIFICATION PipelineFairSpec
CONSTANTS
    Calls = {1, 2}
    MaxEdits = 2
    None = None
    Requests = {"connect", "write"}
    Allows <- MCAllows
    CfgMaxAttempts = 2
    CfgThreshold = 1
    Cooldown = 1
    Timeout = 0
    InitialBackoff = 0
    MaxBackoff = 0
    U32Max = 1
INVARIANTS
    SkipMeansLoaded
    DecisionFresh
PROPERTIES
    ImplementsAuthoriser
    EditEventuallyActive
    RevocationTakesEffect
