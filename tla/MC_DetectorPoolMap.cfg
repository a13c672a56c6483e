CONSTANTS
    ta = ta
    tb = tb
    p1 = p1
    p2 = p2
    r1 = r1
    r2 = r2
    Absent = Absent
    Tokens <- MCTokens
    Pools <- MCPools
    Tok0 <- MCTok0
    Tok1 <- MCTok1
    Reserves <- MCReserves
    InitReserves <- MCInitReserves
    LoadList <- MCLoadList
    Swaps <- MCSwaps
    Readers <- MCReaders
    MaxUpdates = 1
    MaxSearches = 1
SPECIFICATION FairSpec
INVARIANT TypeOK
PROPERTY DetectorMapRefined
INVARIANT LoadedPairsSearched
PROPERTY SearchesComplete
