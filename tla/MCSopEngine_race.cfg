SPECIFICATION FairSpec
CONSTANTS
    Steps <- MCSteps
    Deps <- SmallDeps
    Runs = {r1, r2}
    Serial = FALSE
    None = None
CHECK_DEADLOCK FALSE
INVARIANTS CompletedIsDone DepsFirst
PROPERTY RunEnds
