SPECIFICATION FairSpec
CONSTANTS
    ToolNames = {"Skill", "query"}
    UnknownNames = {"ghost"}
    SkillTool = "Skill"
    Cacheable = {"Skill", "query"}
    Inputs = {"a"}
    Filters <- MCFilters
    NoFilter = NoFilter
    MaxTurns = 3
    MaxCalls = 2
    MaxTexts = 1
    DedupEnabled = TRUE
    DedupWindow = 2
INVARIANTS
    PairedTranscript
    AnswersInOrder
    ScopeBinds
    CachedIsFresh
    TruthfulVerdict
    OfferHonoured
PROPERTIES
    ScopeNeverLifted
    NoNeedlessRun
    Terminates
