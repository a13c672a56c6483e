------------------------- MODULE MC_DetectorPoolMap -------------------------
EXTENDS DetectorPoolMap, TLC

CONSTANTS ta, tb, p1, p2, r1, r2

\* Two pools on the same pair, listed token0/token1 in opposite orders, so
\* that a swap of ta for tb reaches every (pool1, pool2) pair, pool1 = pool2
\* included.  p1 is loaded twice, as a second load_pools call would.
MCTokens == {ta, tb}
MCPools == {p1, p2}
MCTok0 == (p1 :> ta) @@ (p2 :> tb)
MCTok1 == (p1 :> tb) @@ (p2 :> ta)
MCReserves == {1, 2}
MCInitReserves == [a \in MCPools |-> [r0 |-> 1, r1 |-> 1]]
MCLoadList == <<p1, p2, p1>>
MCSwaps == {[tin |-> ta, tout |-> tb]}
MCReaders == {r1, r2}

=============================================================================
