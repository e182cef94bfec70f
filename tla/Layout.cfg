SPECIFICATION FlexSpec
CONSTANTS
    FlexTrees <- MCFlexTrees
    FlexViewports <- MCFlexViewports
    MaxDim = 7
    MaxChildren = 3
    MantissaBits = 5
INVARIANTS
    NoShrinkKeepsBasis
