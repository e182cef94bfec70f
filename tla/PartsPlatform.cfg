SPECIFICATION MCSpec
CONSTANTS
    CfDefault <- MCCfDefault
    CfSection <- MCCfSection
    CfWorlds <- MCCfWorlds
    CfOptions <- MCCfOptions
    Alnum = {"p", "q"}
    MaxPort = 3
    StCommands <- MCStCommands
    StMachines <- MCStMachines
    DbConfigs <- MCDbConfigs
    DbAliases <- MCDbAliases
    DbDrivers <- MCDbDrivers
    DbErrors <- MCDbErrors
    DbCallers = {"g1", "g2"}
    LlmConfigs <- MCLlmConfigs
    LlmRequests <- MCLlmRequests
    OpenaiChunks <- MCOpenaiChunks
    AnthropicEvents <- MCAnthropicEvents
    MaxToolBlocks = 2
    MaxToolInputBytes = 2
    MinThinkingBudget = 2
    MaxServerEvents = 3
    SkInputs <- MCSkInputs
    SkDirs <- MCSkDirs
    SkEntries <- MCSkEntries
    SkDocs <- MCSkDocs
    SkDisabled <- MCSkDisabled
    MaxFilesPerRoot = 2
    MaxEdits = 1
    LgInputs <- MCLgInputs
    LgMessages <- MCLgMessages
    DefaultLevel = 1
    MaxRecords = 2
    MaxSlog = 3
    Spans = {1, 2}
    Keys = {"a", "event"}
    Goroutines = {"g1", "g2"}
    SeqLimit = 3
    MaxMs = 1
    MaxEvents = 1
    MaxSwaps = 1
    CallIds = {"c1", "c2"}
    MaxResultLines = 2
    MaxResultBytes = 3
    MaxReportSteps = 6
    MaxReports = 2
INVARIANTS
    
    StartupSound
    ConnectionSafe
    ToolTrafficWhole
    SkillsResolved
    LogComplete
    TracesSound
    ReportSound
