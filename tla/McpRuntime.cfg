SPECIFICATION FairSpec
CONSTANTS
    NumPlugins = 2
    Declared <- MCDeclared
    Autostart = TRUE
    MaxSpawns = 4
    QueueSize = 2
    None = None
INVARIANTS
    EveryProcessManaged
    OneProcessPerPlugin
    ConfigOnRecord
PROPERTIES
    CommandsEnd
    ProgramEnds
