SPECIFICATION FairSpec
CONSTANTS
    t1 = t1
    t2 = t2
    pc = pc
    lap = lap
    Agent <- MCAgent
    Terminal <- MCTerminal
    Absent = Absent
    Garbled = Garbled
    None = None
    MaxMishaps = 2
INVARIANTS
    Adopted
PROPERTIES
    PluginFollowsFile
    PairingCompletes
