SPECIFICATION MsgSpec
CONSTANTS
    MsgCols = {3, 5}
    MaxRunes = 5
INVARIANTS
    SoftRowsFit
