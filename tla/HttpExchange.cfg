SPECIFICATION FairSpec
CONSTANTS
    Limit <- MCLimit
    MaxBody <- MCMaxBody
    MaxAnswer <- MCMaxAnswer
INVARIANTS
    TypeOK
    UploadIntact
    CleanEndIsWhole
    RunningIsTracked
PROPERTIES
    AnswerIsStream
    HostReleases
    ResponseEnds
