SPECIFICATION PgSpec
CONSTANTS
    QuitWindow = 2
    PrioCap = 4
    UserEvents = {"ctrlC"}
    MaxEvents = 3
    MaxTime = 4
INVARIANTS
    DecisionIsTimeBased
