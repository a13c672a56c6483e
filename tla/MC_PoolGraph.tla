---------------------------- MODULE MC_PoolGraph ----------------------------
(***************************************************************************)
(* Model values and chain histories for PoolGraph.  One token pair, found *)
(* through the 0.05% V3 tier (pool pV3) and the SushiSwap factory (pool   *)
(* pV2); the other tiers and Camelot have no pool.  Prices are scaled so  *)
(* that Q96 = 4 and the dust threshold is 5.                              *)
(***************************************************************************)
EXTENDS PoolGraph

CONSTANTS pV3, pV2, c1, c2   \* model values

MCPools == {pV3, pV2}

MCTokens == {<<1, 2>>, <<2, 1>>}
MCChainTokens == <<1, 2>>

MCV3PoolAt(fee) == IF fee = 500 THEN pV3 ELSE Zero
MCV2PairAt(kind) == IF kind = Sushi THEN pV2 ELSE Zero

\* Swaps inside one tick: the price moves, the liquidity stays; version 1
\* prices the pool to (4, 16), a reserve below dust.
InTickLiquidity(p, v) == 8
InTickSqrtPrice(p, v) == <<4, 8, 2>>[v + 1]

\* A mint (or a tick crossing) changes the liquidity as well as the price.
MovingLiquidity(p, v) == <<16, 8, 8>>[v + 1]
MovingSqrtPrice(p, v) == <<4, 8, 8>>[v + 1]

\* The last liquidity position is burnt: liquidity drops to zero.
BurntLiquidity(p, v) == <<8, 8, 0>>[v + 1]
BurntSqrtPrice(p, v) == 4

\* The SushiSwap pair's reserves; version 1 is below dust on one side.
MCPairReserves(p, v) == <<<<10, 10>>, <<3, 30>>, <<20, 6>>>>[v + 1]

=============================================================================
