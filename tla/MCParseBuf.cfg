CONSTANTS
    Inputs <- MCInputs
    Tags <- MCTags
    Literals <- MCLiterals
    Capacities = {2}
    MaxDepth = 4
    MaxOps = 9
SPECIFICATION Spec
INVARIANT TypeOK
INVARIANT NoOverread
INVARIANT ChildSpansTlv
PROPERTY CursorAdvance
PROPERTY CopyAllTwoPhase
