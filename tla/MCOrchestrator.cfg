SPECIFICATION FairSpec
CONSTANTS
    Clients = {c1}
    long = long
    short = short
    Runs <- MCRuns
    Capacity = 1
    Room = 1
    Chunk = 2
    MaxRounds = 2
    Workflows <- MCWorkflows
INVARIANTS
    TypeOK
    NoEndLost
    SuccessIsTrue
PROPERTIES
    InOrder EndArrives
