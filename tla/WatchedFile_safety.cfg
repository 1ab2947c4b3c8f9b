SPECIFICATION Spec
CONSTANTS
    relay = relay
    cli = cli
    touch = touch
    revoke = revoke
    NoEdit = NoEdit
    Free = Free
    Proc <- MCProc
    Readers <- MCReaders
    Edit <- MCEdit
    Resizing <- MCResizing
    Size <- MCSize
    LockTimeout = 0
    LockStale = 1
    MaxTime = 2
    MaxCrashes = 1
    MaxGarbles = 1
    RemovalFails = TRUE
INVARIANTS
    ExclusiveUnlessUsurped
    RevocationsDurable
PROPERTIES
    ReadsSeeRevocations
    UpdatesAreAtomic
