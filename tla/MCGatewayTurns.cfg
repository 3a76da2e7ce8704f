CONSTANTS
    Clients = {c1, c2}
    Chats = {h}
    Turns = {t1, t2}
    None = None
    Permits = 1
    MaxIterations = 1
    MaxCalls = 1
SPECIFICATION FairSpec
INVARIANTS TypeOK GoneLeavesNothing StopHolds
PROPERTIES AnswerCounts TurnEnds
CHECK_DEADLOCK FALSE
