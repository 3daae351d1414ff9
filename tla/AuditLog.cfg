SPECIFICATION FairSpec
CONSTANTS
    CfgMaxFiles = 2
    MaxBytes = 2
    Lengths = {1, 3}
    MaxEvents = 6
    MaxFaults = 2
    Absent = Absent
INVARIANTS
    RetainedIsSuffix
    RetainedInOrder
    SizeBounded
    EveryEventAccounted
PROPERTIES
    SinkRecovers
