SPECIFICATION FairSpec
CONSTANTS
    p1 = p1
    p2 = p2
    p3 = p3
    u1 = u1
    u2 = u2
    Procs <- MCProcs
    Updates <- MCUpdates
    Torn = Torn
    ReadOnly = ReadOnly
    MaxCrashes = 1
INVARIANTS
    TypeOK
    NoLostUpdate
    NoTornLoad
PROPERTIES
    ImplementsAtomicStore
    LockIsRecovered
