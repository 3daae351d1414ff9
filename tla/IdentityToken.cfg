SPECIFICATION TokenSpec
CONSTANTS
    Claims <- MCClaims
    Json <- MCJson
    Keys <- MCKeys
    KeyDigest <- MCKeyDigest
    BLOCK_SIZE = 2
    OtherBodies <- MCOtherBodies
    MaxTime = 3
    MaxTokens = 2
    Nothing = Nothing
INVARIANTS
    SignedMeansIssued
    IssuedIsAccepted
