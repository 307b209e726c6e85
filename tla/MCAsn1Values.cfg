CONSTANTS
    Inputs <- ValueInputs
    GarbageBytes <- MCGarbage
    OidTable <- MCOidTable
    OidCollision <- MCOidCollision
    OidNotFound <- MCOidNotFound
    MaxOps = 3
SPECIFICATION ValueSpec
INVARIANT TypeOK
INVARIANT IntegerRoundTrip
INVARIANT OidLookupExact
