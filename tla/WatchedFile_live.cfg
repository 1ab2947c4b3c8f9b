SPECIFICATION RetrySpec
CONSTANTS
    relay = relay
    cli = cli
    touch = touch
    revoke = revoke
    NoEdit = NoEdit
    Free = Free
    Proc <- MCProc
    Readers <- NoReaders
    Edit <- MCEdit
    Resizing <- MCResizing
    Size <- MCSize
    LockTimeout = 0
    LockStale = 1
    MaxTime = 0
    MaxCrashes = 1
    MaxGarbles = 0
    RemovalFails = FALSE
PROPERTIES
    AccessesEnd
    CrashCannotWedge
