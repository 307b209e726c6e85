CONSTANTS
    AddrBits = 5
    HeapAddrs = {8}
    StaticAddr = 24
    Capacities = {0, 2, 5}
    Sizes <- MCSizes
    Datas <- MCDatas
    Values = {15, 160}
    MaxOps = 8
    MallocMayFail = TRUE
INIT Init0
NEXT Next
INVARIANT TypeOK
INVARIANT InsideAllocation
INVARIANT SpanIsWritten
PROPERTY HexDumpExact
