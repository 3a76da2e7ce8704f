SPECIFICATION Spec
CONSTANTS
    Steps <- FourSteps
    Deps <- JoinDeps
    Runs = {r1, r2}
    Serial = TRUE
    None = None
CHECK_DEADLOCK FALSE
INVARIANTS TypeOK StepExclusive FailedIsRetried
PROPERTIES NothingRedone ImplementsDagRun
