----------------------------- MODULE PoolGraph -----------------------------
(***************************************************************************)
(* The pool table of arbitrum/pools.rs (PoolManager) under concurrent     *)
(* callers of discover_pools, refresh_all and refresh_pool, against an    *)
(* upstream chain whose pools change between RPC replies.                  *)
(*                                                                         *)
(* Every lock section of PoolManager (the read-lock snapshot of            *)
(* refresh_all, the clone of refresh_pool, the write-lock inserts) holds   *)
(* the lock without an await inside, so each is one atomic step here; the *)
(* interleaving points are the RPC awaits and the lock acquisitions that   *)
(* follow them.  Each RPC reads the chain state of its pool at the moment  *)
(* of the reply and may fail (Err) when RpcCanFail.                        *)
(*                                                                         *)
(* The chain state of pool p is its version ver[p]; the values an RPC      *)
(* returns at version v are Liquidity(p, v), SqrtPrice(p, v) (V3) and     *)
(* PairReserves(p, v) (V2).  A stored record keeps, as ghost fields, the   *)
(* versions its liquidity (lver) and price or reserves (pver) were read at.*)
(***************************************************************************)
EXTENDS Integers, Sequences, FiniteSets

CONSTANTS
    Callers,            \* tasks calling into one PoolManager concurrently
    Pools,              \* addresses of the pools that exist on chain
    Zero,               \* Address::zero()
    Tokens,             \* the token pairs discover_pools is called with
    V3PoolAt(_),        \* V3 factory getPool(token0, token1, fee): Pools or Zero
    V2PairAt(_),        \* V2 factory getPair of SushiSwap / Camelot: Pools or Zero
    ChainTokens,        \* <<token0, token1>> that every pool reports on chain
    MaxVersion,         \* bound on the number of chain changes of one pool
    Liquidity(_, _),    \* V3 pool.liquidity() of pool p at version v
    SqrtPrice(_, _),    \* V3 pool.slot0().0 (sqrtPriceX96) at version v
    PairReserves(_, _), \* V2 pair.getReserves() <<r0, r1>> at version v
    Q96,                \* 2^96, scaled down with the prices
    DustMin,            \* the 1000-unit dust threshold, scaled likewise
    RpcCanFail          \* whether an RPC call may return Err

VARIABLES
    ver,    \* [Pools -> 0..MaxVersion]: the chain state of each pool
    pools,  \* PoolManager.pools: [Pools -> Pool record or NoPool]
    loc     \* [Callers -> local state of the caller's current call]

vars == <<ver, pools, loc>>

V3 == "UniswapV3"
Sushi == "SushiSwap"
Camelot == "Camelot"

\* The value of a HashMap slot that holds no pool (and Option::None).
NoPool == [absent |-> TRUE]

\* discover_pools's sources in order: the four V3 fee tiers, then the two
\* V2 factories.
Slots == <<[kind |-> V3, fee |-> 100], [kind |-> V3, fee |-> 500],
           [kind |-> V3, fee |-> 3000], [kind |-> V3, fee |-> 10000],
           [kind |-> Sushi, fee |-> 0], [kind |-> Camelot, fee |-> 0]>>

\* Mutant: fee_bps left in the factory's millionths.
V3RecordFeeMicro(p, t0, t1, fee, lv, pv) ==
    LET l == Liquidity(p, lv)
        s == SqrtPrice(p, pv)
        r0 == (l * Q96) \div s
        r1 == (l * s) \div Q96
    IN  IF l = 0 \/ s = 0 \/ r0 < DustMin \/ r1 < DustMin THEN NoPool
        ELSE [token0 |-> t0, token1 |-> t1, kind |-> V3, fee |-> fee,
              fee_bps |-> fee, reserve0 |-> r0, reserve1 |-> r1,
              liquidity |-> l, lver |-> lv, pver |-> pv]

\* The reply of a V3 pool at the liquidity version lv and price version pv,
\* converted to virtual reserves as fetch_v3_pool and refresh_all do.
\* NoPool where the code returns None: zero liquidity, zero price, dust.
V3Record(p, t0, t1, fee, lv, pv) ==
    LET l == Liquidity(p, lv)
        s == SqrtPrice(p, pv)
        r0 == (l * Q96) \div s
        r1 == (l * s) \div Q96
    IN  IF l = 0 \/ s = 0 \/ r0 < DustMin \/ r1 < DustMin THEN NoPool
        ELSE [token0 |-> t0, token1 |-> t1, kind |-> V3, fee |-> fee,
              fee_bps |-> fee \div 100, reserve0 |-> r0, reserve1 |-> r1,
              liquidity |-> l, lver |-> lv, pver |-> pv]

\* A V2 pair record with the reserves getReserves returned at version v.
V2Record(p, t0, t1, kind, v) ==
    LET r == PairReserves(p, v)
    IN  [token0 |-> t0, token1 |-> t1, kind |-> kind, fee |-> 0,
         fee_bps |-> 30, reserve0 |-> r[1], reserve1 |-> r[2],
         liquidity |-> r[1] + r[2], lver |-> v, pver |-> v]

\* `Pool { reserve0, reserve1, liquidity, ..pool }`: fresh reserves over a
\* snapshot's token, kind and fee fields.
WithReserves(pool, r0, r1, l, lv, pv) ==
    [pool EXCEPT !.reserve0 = r0, !.reserve1 = r1, !.liquidity = l,
                 !.lver = lv, !.pver = pv]

\* The state of one of refresh_all's per-pool futures.
FutDone == [st |-> "done", liq |-> 0, lver |-> 0]

Idle == [pc |-> "idle", slot |-> 0, pair |-> <<0, 0>>, found |-> <<>>,
         cur |-> Zero, fee |-> 0, liq |-> 0, lver |-> 0, out |-> NoPool,
         ret |-> "none", snap |-> [p \in Pools |-> NoPool],
         fut |-> [p \in Pools |-> FutDone],
         res |-> [p \in Pools |-> NoPool]]

\* The outcomes of one RPC call.
RpcOk == IF RpcCanFail THEN BOOLEAN ELSE {TRUE}

Init ==
    /\ ver = [p \in Pools |-> 0]
    /\ pools = [p \in Pools |-> NoPool]
    /\ loc = [c \in Callers |-> Idle]

\* A swap, mint or burn on chain changes a pool's state.
ChainStep(p) ==
    /\ ver[p] < MaxVersion
    /\ ver' = [ver EXCEPT ![p] = @ + 1]
    /\ UNCHANGED <<pools, loc>>

-----------------------------------------------------------------------------
(* refresh_all: snapshot under the read lock, one future per pool run in  *)
(* parallel (join_all), then one write-lock section inserting every Some. *)

RefreshAllStart(c) ==
    /\ loc[c].pc = "idle"
    /\ loc' = [loc EXCEPT ![c] =
                 [Idle EXCEPT
                    !.pc = "ra_fetch", !.snap = pools,
                    !.fut = [p \in Pools |->
                               IF pools[p] = NoPool THEN FutDone
                               ELSE [st |-> IF pools[p].kind = V3 THEN "liq"
                                            ELSE "res",
                                     liq |-> 0, lver |-> 0]]]]
    /\ UNCHANGED <<ver, pools>>

\* The V3 future's liquidity() call: Err or zero liquidity end it with None.
RefreshAllLiquidity(c, p) ==
    /\ loc[c].pc = "ra_fetch" /\ loc[c].fut[p].st = "liq"
    /\ \E ok \in RpcOk :
         loc' = [loc EXCEPT ![c].fut[p] =
                   IF ok /\ Liquidity(p, ver[p]) # 0
                   THEN [st |-> "slot0", liq |-> Liquidity(p, ver[p]),
                         lver |-> ver[p]]
                   ELSE FutDone]
    /\ UNCHANGED <<ver, pools>>

\* Mutant: refresh_all without the dust check.
RefreshAllSlot0NoDust(c, p) ==
    /\ loc[c].pc = "ra_fetch" /\ loc[c].fut[p].st = "slot0"
    /\ \E ok \in RpcOk :
         LET snap == loc[c].snap[p]
             l == Liquidity(p, loc[c].fut[p].lver)
             sp == SqrtPrice(p, ver[p])
         IN  loc' = [loc EXCEPT
                       ![c].fut[p] = FutDone,
                       ![c].res[p] =
                         IF ok /\ sp # 0
                         THEN WithReserves(snap, (l * Q96) \div sp,
                                           (l * sp) \div Q96, l,
                                           loc[c].fut[p].lver, ver[p])
                         ELSE NoPool]
    /\ UNCHANGED <<ver, pools>>

\* The V3 future's slot0() call, then the conversion and the dust filter.
RefreshAllSlot0(c, p) ==
    /\ loc[c].pc = "ra_fetch" /\ loc[c].fut[p].st = "slot0"
    /\ \E ok \in RpcOk :
         LET snap == loc[c].snap[p]
             r == V3Record(p, snap.token0, snap.token1, snap.fee,
                           loc[c].fut[p].lver, ver[p])
         IN  loc' = [loc EXCEPT
                       ![c].fut[p] = FutDone,
                       ![c].res[p] =
                         IF ok /\ r # NoPool
                         THEN WithReserves(snap, r.reserve0, r.reserve1,
                                           r.liquidity, r.lver, r.pver)
                         ELSE NoPool]
    /\ UNCHANGED <<ver, pools>>

\* The V2 future's getReserves() call.
RefreshAllReserves(c, p) ==
    /\ loc[c].pc = "ra_fetch" /\ loc[c].fut[p].st = "res"
    /\ \E ok \in RpcOk :
         LET snap == loc[c].snap[p]
             r == PairReserves(p, ver[p])
         IN  loc' = [loc EXCEPT
                       ![c].fut[p] = FutDone,
                       ![c].res[p] =
                         IF ok THEN WithReserves(snap, r[1], r[2], r[1] + r[2],
                                                 ver[p], ver[p])
                         ELSE NoPool]
    /\ UNCHANGED <<ver, pools>>

\* Mutant: the table replaced by the results, dropping failed pools.
RefreshAllCommitReplace(c) ==
    /\ loc[c].pc = "ra_fetch"
    /\ \A p \in Pools : loc[c].fut[p].st = "done"
    /\ pools' = loc[c].res
    /\ loc' = [loc EXCEPT ![c] = Idle]
    /\ UNCHANGED ver

\* join_all returned: insert every updated pool under the write lock.
RefreshAllCommit(c) ==
    /\ loc[c].pc = "ra_fetch"
    /\ \A p \in Pools : loc[c].fut[p].st = "done"
    /\ pools' = [p \in Pools |->
                   IF loc[c].res[p] # NoPool THEN loc[c].res[p] ELSE pools[p]]
    /\ loc' = [loc EXCEPT ![c] = Idle]
    /\ UNCHANGED ver

-----------------------------------------------------------------------------
(* discover_pools: the four V3 fee tiers through getPool and              *)
(* fetch_v3_pool, then the SushiSwap and Camelot factories through        *)
(* fetch_v2_pool, one RPC at a time; then one write-lock section that     *)
(* inserts every pool found, in order.                                     *)

\* The step of discover_pools's loop that handles slot k.
SlotPc(k) ==
    IF k <= 4 THEN "d_factory" ELSE IF k <= 6 THEN "d_pair" ELSE "d_store"

\* Move a discover call on to the next source.
NextSlot(l) ==
    [l EXCEPT !.slot = l.slot + 1, !.pc = SlotPc(l.slot + 1), !.cur = Zero,
              !.fee = 0, !.liq = 0, !.lver = 0, !.ret = "none"]

DiscoverStart(c) ==
    /\ loc[c].pc = "idle"
    /\ \E t \in Tokens :
         loc' = [loc EXCEPT ![c] =
                   [Idle EXCEPT !.pc = "d_factory", !.slot = 1,
                                !.pair = IF t[1] < t[2] THEN <<t[1], t[2]>>
                                         ELSE <<t[2], t[1]>>]]
    /\ UNCHANGED <<ver, pools>>

\* v3_factory.get_pool(token0, token1, fee): Err and the zero address
\* skip the tier; a pool address goes to fetch_v3_pool.
DiscoverGetPool(c) ==
    /\ loc[c].pc = "d_factory"
    /\ \E ok \in RpcOk :
         LET l == loc[c]
             addr == V3PoolAt(Slots[l.slot].fee)
         IN  loc' = [loc EXCEPT ![c] =
                       IF ok /\ addr # Zero
                       THEN [l EXCEPT !.pc = "f_tokens", !.cur = addr,
                                      !.fee = Slots[l.slot].fee,
                                      !.ret = "discover"]
                       ELSE NextSlot(l)]
    /\ UNCHANGED <<ver, pools>>

\* fetch_v2_pool's factory get_pair(token0, token1).
DiscoverGetPair(c) ==
    /\ loc[c].pc = "d_pair"
    /\ \E ok \in RpcOk :
         LET l == loc[c]
             addr == V2PairAt(Slots[l.slot].kind)
         IN  loc' = [loc EXCEPT ![c] =
                       IF ok /\ addr # Zero
                       THEN [l EXCEPT !.pc = "d_reserves", !.cur = addr]
                       ELSE NextSlot(l)]
    /\ UNCHANGED <<ver, pools>>

\* fetch_v2_pool's pair.get_reserves(); the pair is kept whatever its
\* reserves, with the caller's (sorted) tokens.
DiscoverGetReserves(c) ==
    /\ loc[c].pc = "d_reserves"
    /\ \E ok \in RpcOk :
         LET l == loc[c]
             found == IF ok
                      THEN Append(l.found,
                                  <<l.cur, V2Record(l.cur, l.pair[1], l.pair[2],
                                                    Slots[l.slot].kind,
                                                    ver[l.cur])>>)
                      ELSE l.found
         IN  loc' = [loc EXCEPT ![c] = NextSlot([l EXCEPT !.found = found])]
    /\ UNCHANGED <<ver, pools>>

\* The write-lock section: insert every pool found, later ones last.
DiscoverStore(c) ==
    /\ loc[c].pc = "d_store"
    /\ LET found == loc[c].found
           at(p) == {i \in DOMAIN found : found[i][1] = p}
       IN  pools' = [p \in Pools |->
                       IF at(p) = {} THEN pools[p]
                       ELSE found[CHOOSE i \in at(p) :
                                    \A j \in at(p) : j <= i][2]]
    /\ loc' = [loc EXCEPT ![c] = Idle]
    /\ UNCHANGED ver

-----------------------------------------------------------------------------
(* fetch_v3_pool, called by discover_pools and by refresh_pool: token0()  *)
(* and token1(), liquidity(), slot0() in sequence, then the checks.       *)

\* Hand fetch_v3_pool's result back to the call that made it.
FetchReturn(l, r) ==
    IF l.ret = "discover"
    THEN NextSlot([l EXCEPT !.found = IF r = NoPool THEN l.found
                                      ELSE Append(l.found, <<l.cur, r>>)])
    ELSE IF r = NoPool THEN Idle
    ELSE [l EXCEPT !.pc = "rp_store", !.out = r]

\* token0() and token1(): replies of immutable fields, one step.
FetchTokens(c) ==
    /\ loc[c].pc = "f_tokens"
    /\ \E ok \in RpcOk :
         loc' = [loc EXCEPT ![c] = IF ok THEN [loc[c] EXCEPT !.pc = "f_liq"]
                                   ELSE FetchReturn(loc[c], NoPool)]
    /\ UNCHANGED <<ver, pools>>

FetchLiquidity(c) ==
    /\ loc[c].pc = "f_liq"
    /\ \E ok \in RpcOk :
         LET l == loc[c] IN
         loc' = [loc EXCEPT ![c] =
                   IF ok THEN [l EXCEPT !.pc = "f_slot0",
                                        !.liq = Liquidity(l.cur, ver[l.cur]),
                                        !.lver = ver[l.cur]]
                   ELSE FetchReturn(l, NoPool)]
    /\ UNCHANGED <<ver, pools>>

\* slot0(), then: zero liquidity, zero price and dust give None.
FetchSlot0(c) ==
    /\ loc[c].pc = "f_slot0"
    /\ \E ok \in RpcOk :
         LET l == loc[c] IN
         loc' = [loc EXCEPT ![c] =
                   FetchReturn(l, IF ok
                                  THEN V3Record(l.cur, ChainTokens[1],
                                                ChainTokens[2], l.fee, l.lver,
                                                ver[l.cur])
                                  ELSE NoPool)]
    /\ UNCHANGED <<ver, pools>>

-----------------------------------------------------------------------------
(* refresh_pool(addr): clone the stored pool under the read lock (an      *)
(* unknown address returns at once, a step that changes nothing), then    *)
(* fetch_v3_pool again for V3 or getReserves for V2, then insert on Some. *)

RefreshPoolStart(c, p) ==
    /\ loc[c].pc = "idle"
    /\ pools[p] # NoPool
    /\ loc' = [loc EXCEPT ![c] =
                 [Idle EXCEPT !.cur = p, !.fee = pools[p].fee,
                              !.ret = "refresh_pool",
                              !.snap = [Idle.snap EXCEPT ![p] = pools[p]],
                              !.pc = IF pools[p].kind = V3 THEN "f_tokens"
                                     ELSE "rp_res"]]
    /\ UNCHANGED <<ver, pools>>

RefreshPoolReserves(c) ==
    /\ loc[c].pc = "rp_res"
    /\ \E ok \in RpcOk :
         LET l == loc[c]
             r == PairReserves(l.cur, ver[l.cur])
         IN  loc' = [loc EXCEPT ![c] =
                       IF ok
                       THEN [l EXCEPT !.pc = "rp_store",
                                      !.out = WithReserves(l.snap[l.cur], r[1],
                                                r[2], r[1] + r[2], ver[l.cur],
                                                ver[l.cur])]
                       ELSE Idle]
    /\ UNCHANGED <<ver, pools>>

RefreshPoolStore(c) ==
    /\ loc[c].pc = "rp_store"
    /\ pools' = [pools EXCEPT ![loc[c].cur] = loc[c].out]
    /\ loc' = [loc EXCEPT ![c] = Idle]
    /\ UNCHANGED ver

-----------------------------------------------------------------------------

Next ==
    \/ \E p \in Pools : ChainStep(p)
    \/ \E c \in Callers :
         \/ RefreshAllStart(c)
         \/ \E p \in Pools : RefreshAllLiquidity(c, p)
         \/ \E p \in Pools : RefreshAllSlot0(c, p)
         \/ \E p \in Pools : RefreshAllReserves(c, p)
         \/ RefreshAllCommit(c)
         \/ DiscoverStart(c)
         \/ DiscoverGetPool(c)
         \/ DiscoverGetPair(c)
         \/ DiscoverGetReserves(c)
         \/ DiscoverStore(c)
         \/ FetchTokens(c)
         \/ FetchLiquidity(c)
         \/ FetchSlot0(c)
         \/ \E p \in Pools : RefreshPoolStart(c, p)
         \/ RefreshPoolReserves(c)
         \/ RefreshPoolStore(c)

Spec == Init /\ [][Next]_vars

-----------------------------------------------------------------------------
(* Views of the state.                                                     *)

\* Whether the V3 factory names p for one of the fee tiers.
IsV3(p) == \E k \in 1 .. 4 : V3PoolAt(Slots[k].fee) = p

\* The reserves pool p had at chain version v, read in one piece.
ChainView(p, v) ==
    IF IsV3(p)
    THEN IF SqrtPrice(p, v) = 0 THEN [reserve0 |-> 0, reserve1 |-> 0]
         ELSE [reserve0 |-> (Liquidity(p, v) * Q96) \div SqrtPrice(p, v),
               reserve1 |-> (Liquidity(p, v) * SqrtPrice(p, v)) \div Q96]
    ELSE [reserve0 |-> PairReserves(p, v)[1],
          reserve1 |-> PairReserves(p, v)[2]]

\* The reserves the table shows for each pool.
TableView ==
    [p \in Pools |->
       IF pools[p] = NoPool THEN NoPool
       ELSE [reserve0 |-> pools[p].reserve0, reserve1 |-> pools[p].reserve1]]

PT == INSTANCE PoolTable WITH table <- TableView, Absent <- NoPool

-----------------------------------------------------------------------------
(* Properties.                                                             *)

PCs == {"idle", "ra_fetch", "d_factory", "d_pair", "d_reserves", "d_store",
        "f_tokens", "f_liq", "f_slot0", "rp_res", "rp_store"}

TypeOK ==
    /\ ver \in [Pools -> 0 .. MaxVersion]
    /\ \A p \in Pools :
          pools[p] = NoPool
          \/ /\ pools[p].kind \in {V3, Sushi, Camelot}
             /\ {pools[p].reserve0, pools[p].reserve1} \subseteq Nat
             /\ pools[p].fee_bps \in {30} \cup {Slots[k].fee \div 100 : k \in 1 .. 4}
    /\ \A c \in Callers : loc[c].pc \in PCs /\ loc[c].slot \in 0 .. 7

\* Every stored pool is exactly what the code's conversion makes of replies
\* the chain really gave (at versions not later than now), with the kind
\* and fee of the factory slot that names it: V3 records pass the zero and
\* dust checks of both fetch_v3_pool and refresh_all.
StoredFromChain ==
    \A p \in Pools : pools[p] # NoPool =>
        LET r == pools[p] IN
        /\ r.lver <= ver[p] /\ r.pver <= ver[p]
        /\ \E k \in 1 .. 6 :
              /\ Slots[k].kind = r.kind /\ Slots[k].fee = r.fee
              /\ IF k <= 4 THEN V3PoolAt(r.fee) = p ELSE V2PairAt(r.kind) = p
        /\ IF r.kind = V3
           THEN r = V3Record(p, r.token0, r.token1, r.fee, r.lver, r.pver)
           ELSE r = V2Record(p, r.token0, r.token1, r.kind, r.pver)

\* Spec 4.1 and 5: a pool slot only ever holds reserves its pool had on
\* chain at one moment (never a mixture of two chain states), and a
\* discovered pool stays: the table refines PoolTable.
PoolTableRefined == PT!Spec

=============================================================================
