SPECIFICATION FairSpec
CONSTANTS
    Calls = {q1, q2, q3}
    Threshold = 2
    MaxRetries = 2
INVARIANTS
    TypeOK
    StragglersStop
PROPERTIES
    Recovery
