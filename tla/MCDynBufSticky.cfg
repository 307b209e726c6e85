CONSTANTS
    GROW = 2
    InitCaps = {0, 2}
    Sizes = {1, 3}
    SubCaps = {1}
    SubAtOffsets = {0, 1}
    SubAtLengths = {1}
    Codepoints = {}
    Tags = {}
    TagLens = {}
    MaxDepth = 3
    MaxOps = 4
    MallocMayFail = TRUE
    PriorErr = {0}
SPECIFICATION NestingSpec
PROPERTY StickyError
