SPECIFICATION MCSpec
CONSTANTS
    Producers = {p1, p2}
    Kinds = {"part", "line", "fence"}
    LineBufCap = 2
    ChanCap = 2
    MaxChunks = 3
    FbSizes <- MCFbSizes
    SmallCapacity = 3
    MediumCapacity = 4
    LargeCapacity = 5
    GenLimit = 2
    MaxFrames = 3
    MaxDraws = 2
    MaxResizes = 1
    SbHeight <- MCSbHeight
    MaxNodes = 3
    Overscan = 1
    CacheSize = 2
    SbViewports <- MCSbViewports
    MaxPushes = 5
    MaxMoves = 5
    FlexTrees <- MCFlexTrees
    FlexViewports <- MCFlexViewports
    MaxDim = 7
    MaxChildren = 3
    MantissaBits = 5
    MsgCols = {3, 5}
    MaxRunes = 5
    Renderers = {r1, r2}
    DiffCols = {1, 2}
    BlockCacheCap = 2
    MaxDiffSteps = 5
    ToolIds = {"t1", "t2"}
    MaxToolNodes = 4
    InputRunes = {"a", "b"}
    RingCapacity = 2
    MaxLineLen = 2
    MaxEntries = 3
    QuitWindow = 1
    PrioCap = 2
    UserEvents = {"ctrlC", "ctrlBackslash", "key"}
    MaxEvents = 4
    MaxTime = 4
    Workers = {w1, w2}
    JobsCap = 1
    ResultsCap = 1
    InitMayFail = TRUE
    MaxCmds = 3
INVARIANTS
    LayoutTiles
    MessageWhole
    DiffFaithful
    ToolOutcomeShown
    QuitSound
    LaneOrder
PROPERTIES
    StreamContract
    FrameContract
    ViewportContract
    InputContract
    ImplementsExecutor
