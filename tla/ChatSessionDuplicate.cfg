SPECIFICATION Spec
CONSTANTS
    CtrlCap = 2
    LineBufCap = 4
    TextKinds = {"part"}
    MaxStamps = 1
    MaxRuns = 1
INVARIANTS
    NoDuplicateText
