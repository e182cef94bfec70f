SPECIFICATION Spec
CONSTANTS
    CtrlCap = 4
    LineBufCap = 4
    TextKinds = {"line"}
    MaxStamps = 3
    MaxRuns = 1
INVARIANTS
    NothingLostOnCancel
