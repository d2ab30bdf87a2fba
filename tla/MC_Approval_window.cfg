CONSTANTS
    p1 = p1  p2 = p2  w = w
    Procs = {p1, p2}
    Records = {w}
    MaxCalls = 4  MaxFaults = 1
SPECIFICATION FairSpec
INVARIANTS TypeOK RunnerHoldsClaim LandsOnce ClosedWithoutExecuting ApprovedHasLanded
PROPERTIES DecisionIsFinal ClaimsEnd
CHECK_DEADLOCK FALSE
