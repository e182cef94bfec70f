SPECIFICATION MCSpec
CONSTANTS
    QuitWindow = 1
    PrioCap = 2
    UserEvents = {"ctrlC", "ctrlBackslash", "key"}
    MaxEvents = 3
    MaxTime = 3
    MaxLines = 5
    MaxBufferSize = 2
    MaxFlushCalls = 1
    MaxFaults = 1
    MaxDrains = 2
    ShWorkers = {w1, w2}
    ShCtrlCap = 1
    MaxLoopEvents = 3
    MaxSubmits = 2
    MaxDropped = 1
    Workers = {w1, w2}
    JobsCap = 1
    ResultsCap = 1
    InitMayFail = TRUE
    MaxCmds = 2
INVARIANTS
    WriterKeepsLines
    ShutdownSound
    SafeShutdown
PROPERTIES
    QuitKeysAnswered
    EventuallyFlushed
    QuitEnds
    KeepsRunning
