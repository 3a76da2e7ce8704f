SPECIFICATION FairSpec
CONSTANTS
    j1 = j1
    p1 = p1
    p2 = p2
    s1 = s1
    s2 = s2
    None = None
    Jobs <- MCJobs
    Procs <- MCProcs
    Slots <- MCSlots
    Delays <- MCDelays
    Lease = 1
    MaxCount = 2
PROPERTIES
    LeaseExpires
    Recurs
    ImplementsJobLease
INVARIANTS
    TypeOK
    SingleFlight
    EveryRunIsCounted
    OnceFiresOnce
