SPECIFICATION FairSpec
CONSTANTS
    StartupRequests = 1
    None = None
INVARIANTS
    StatusTruthful
PROPERTIES
    CommandEnds
    StartupEnds
    ProbeKeepsGoing
