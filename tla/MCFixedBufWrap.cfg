CONSTANTS
    AddrBits = 5
    HeapAddrs = {8}
    StaticAddr = 24
    Capacities = {0, 3}
    Sizes <- MCWrapSizes
    Datas <- MCDatas
    Values = {15}
    MaxOps = 6
    MallocMayFail = TRUE
INIT Init0
NEXT Next
INVARIANT InsideAllocation
