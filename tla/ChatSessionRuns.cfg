SPECIFICATION FairSpec
CONSTANTS
    CtrlCap = 1
    LineBufCap = 4
    TextKinds = {"part"}
    MaxStamps = 2
    MaxRuns = 2
INVARIANTS
    RunsIsolated
PROPERTIES
    StreamEnds
