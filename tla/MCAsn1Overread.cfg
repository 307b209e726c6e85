CONSTANTS
    Inputs <- OverreadInputs
    GarbageBytes <- MCGarbage
    OidTable <- MCOidTable
    OidCollision <- MCOidCollision
    OidNotFound <- MCOidNotFound
    MaxOps = 3
SPECIFICATION ValueSpec
INVARIANT NoOverread
