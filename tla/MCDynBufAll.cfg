CONSTANTS
    GROW = 2
    InitCaps = {0, 2}
    Sizes = {1, 3}
    SubCaps = {1}
    SubAtOffsets = {0, 1}
    SubAtLengths = {1}
    Codepoints <- MCCodepoints
    Tags = {48, 4}
    TagLens = {1, 2}
    MaxDepth = 3
    MaxOps = 5
    MallocMayFail = TRUE
    PriorErr = {0}
SPECIFICATION DynBufSpec
INVARIANT TypeOK
INVARIANT Layout
PROPERTY Refinement
