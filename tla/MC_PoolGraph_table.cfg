CONSTANTS
    pV3 = pV3
    pV2 = pV2
    c1 = c1
    c2 = c2
    Callers = {c1, c2}
    Pools <- MCPools
    Zero = Zero
    Tokens <- MCTokens
    V3PoolAt <- MCV3PoolAt
    V2PairAt <- MCV2PairAt
    ChainTokens <- MCChainTokens
    MaxVersion = 2
    Liquidity <- InTickLiquidity
    SqrtPrice <- InTickSqrtPrice
    PairReserves <- MCPairReserves
    Q96 = 4
    DustMin = 5
    RpcCanFail = TRUE
SPECIFICATION Spec
INVARIANT TypeOK
INVARIANT StoredFromChain
PROPERTY PoolTableRefined
