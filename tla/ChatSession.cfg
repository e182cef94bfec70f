SPECIFICATION Spec
CONSTANTS
    CtrlCap = 3
    LineBufCap = 4
    TextKinds = {"part", "line"}
    MaxStamps = 3
    MaxRuns = 1
INVARIANTS
    ShownComplete
    ToolsSettled
    BacklogBounded
