CONSTANTS
    Inputs <- LengthInputs
    GarbageBytes <- MCGarbage
    OidTable <- MCOidTable
    OidCollision <- MCOidCollision
    OidNotFound <- MCOidNotFound
    MaxOps = 3
SPECIFICATION LengthSpec
INVARIANT NoOverread
INVARIANT LengthFits
