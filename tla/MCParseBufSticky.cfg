CONSTANTS
    Inputs <- MCInputs
    Tags <- MCTags
    Literals <- MCLiterals
    Capacities = {2}
    MaxDepth = 4
    MaxOps = 3
SPECIFICATION Spec
PROPERTY StickyParseError
