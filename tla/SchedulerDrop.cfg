SPECIFICATION Spec
CONSTANTS
    Workers = {w1, w2}
    JobsCap = 1
    ResultsCap = 1
    InitMayFail = FALSE
    MaxCmds = 3
INVARIANTS
    MsgsReachDispatch
