SPECIFICATION FairSpec
CONSTANTS
    MaxUp <- MCMaxUp
    MaxDown <- MCMaxDown
    LongUp <- MCLongUp
    LongDown <- MCLongDown
INVARIANTS
    DownIsPrefix
    UpIsContiguous
    RunningIsTracked
PROPERTIES
    BothEndsClose
