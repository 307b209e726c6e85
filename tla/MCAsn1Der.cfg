CONSTANTS
    Inputs <- DerInputs
    GarbageBytes <- MCGarbage
    OidTable <- MCOidTable
    OidCollision <- MCOidCollision
    OidNotFound <- MCOidNotFound
    MaxOps = 3
SPECIFICATION DerSpec
INVARIANT AcceptsOnlyDer
