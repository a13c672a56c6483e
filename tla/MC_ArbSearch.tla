---------------------------- MODULE MC_ArbSearch ----------------------------
(***************************************************************************)
(* Checks the pure operators of ArbSearch over bounded inputs.  The one    *)
(* variable, input, holds an input the code can be called with; Init       *)
(* enumerates every input of a family and Next leaves it unchanged, so    *)
(* each invariant is checked on every input of the family.                 *)
(*                                                                         *)
(* Reserves are small (at most 300) so that every product of the swap      *)
(* formula stays inside TLC's integers; the formula is scale-free except   *)
(* for truncation, which small reserves make more frequent, not rarer.     *)
(***************************************************************************)
EXTENDS ArbSearch, FiniteSets

\* Tokens: the base token (WETH) and two alts; canonical order is numeric.
Base == 1
AltX == 2
AltY == 3

Reserves == {0, 60, 150, 300}
Amounts == {10, 40}
MinBpsValues == {0, 300}
GasPrices == {0, 1}

\* A V3 pool of the 0.05% tier (fee 500 -> 5 bps) and a SushiSwap pair.
Variants == {[kind |-> V3, fee_bps |-> 5], [kind |-> Sushi, fee_bps |-> 30]}

MkPool(addr, t0, t1, v, r0, r1) ==
    [addr |-> addr, token0 |-> t0, token1 |-> t1, kind |-> v.kind,
     fee_bps |-> v.fee_bps, reserve0 |-> r0, reserve1 |-> r1]

PoolsOn(addr, t0, t1, rs) ==
    {MkPool(addr, t0, t1, v, r0, r1) : v \in Variants, r0 \in rs, r1 \in rs}

\* Two pools on WETH/X, in either iteration order.
TwoHopInputs ==
    [amount : Amounts, min_bps : MinBpsValues, gas_price : GasPrices,
     graph : {<<p, q>> : p \in PoolsOn(1, Base, AltX, Reserves),
                         q \in PoolsOn(2, Base, AltX, Reserves)}]

\* One pool on each leg of WETH -> X -> Y -> WETH.
TriangularInputs ==
    [amount : Amounts, min_bps : MinBpsValues, gas_price : GasPrices,
     graph : {<<p, q, r>> : p \in PoolsOn(3, Base, AltX, {60, 300}),
                            q \in PoolsOn(4, AltX, AltY, {60, 300}),
                            r \in PoolsOn(5, Base, AltY, {60, 300})}]

\* scan_all over WETH/X, WETH/Y and X/Y: two pools on each WETH leg, so
\* that both two-hop searches and the triangular one can each return an
\* opportunity and the sort has up to three results to order.
ScanVariant == {[kind |-> Sushi, fee_bps |-> 30]}

ScanPools(addr, t0, t1) ==
    {MkPool(addr, t0, t1, v, r0, r1) : v \in ScanVariant, r0 \in {60, 300}, r1 \in {60, 300}}

ScanInputs ==
    [amount : Amounts, min_bps : {0}, gas_price : GasPrices,
     graph : {<<p, q, r, s, t>> : p \in ScanPools(6, Base, AltX),
                                 q \in ScanPools(7, Base, AltX),
                                 r \in ScanPools(8, Base, AltY),
                                 s \in ScanPools(9, Base, AltY),
                                 t \in ScanPools(10, AltX, AltY)}]

VARIABLE input

SearchInit == input \in TwoHopInputs \cup TriangularInputs \cup ScanInputs

Next == UNCHANGED input

SpecSearch == SearchInit /\ [][Next]_input

TwoHopResult ==
    FindTwoHopArb(input.graph, Base, AltX, input.amount, input.min_bps,
                  input.gas_price)

TriangularResult ==
    FindTriangularArb(input.graph, Base, AltX, AltY, input.amount,
                      input.min_bps, input.gas_price)

\* Every opportunity the searches return carries U256 amounts: a net profit
\* below zero would be an underflow of net_profit = profit - gas_cost.
ScanResult ==
    ScanAll(input.graph, <<Base, AltX, AltY>>, input.amount, input.min_bps,
            input.gas_price)

TypeOK ==
    /\ \A o \in {TwoHopResult, TriangularResult} :
          o.found \in BOOLEAN /\ (o.found => {o.profit, o.net_profit} \subseteq Nat)
    /\ input.amount \in Nat \ {0}
    /\ input.gas_price \in Nat
    /\ \A i \in DOMAIN input.graph :
          LET p == input.graph[i] IN
          /\ p.kind \in PoolKinds /\ p.fee_bps \in 0 .. FeeDenom - 1
          /\ p.token0 < p.token1 /\ {p.reserve0, p.reserve1} \subseteq Nat

-----------------------------------------------------------------------------
(* Reference definitions, from spec section 4.2 rather than the code.      *)

\* Gas of a two-hop path: V3 legs 150k, V2-style legs 100k, plus 50k.
RefGas(a, b) == 1 + (IF a.kind = V3 THEN 3 ELSE 2) + (IF b.kind = V3 THEN 3 ELSE 2)

RefOut(a, b) == GetAmountOut(b, GetAmountOut(a, input.amount, Base), AltX)

RefNet(a, b) == RefOut(a, b) - input.amount - RefGas(a, b) * input.gas_price

\* Ordered pairs of distinct pools whose round trip qualifies.
Qualifying ==
    {ab \in Range(input.graph) \X Range(input.graph) :
        LET a == ab[1]  b == ab[2] IN
        /\ a.addr # b.addr
        /\ GetAmountOut(a, input.amount, Base) > 0
        /\ RefOut(a, b) > input.amount
        /\ ((RefOut(a, b) - input.amount) * FeeDenom) \div input.amount
              >= input.min_bps
        /\ RefNet(a, b) > 0}

-----------------------------------------------------------------------------
(* Properties.                                                             *)

\* get_amount_out never pays out the whole output reserve, for the input
\* amount, an input equal to the input reserve and twice it (spec section 8
\* boundary behaviour: amount_in = R_in gives less than R_out).
SwapOutBelowReserve ==
    \A i \in DOMAIN input.graph : \A t \in {Base, AltX} :
        LET p == input.graph[i]
            r_in == ReserveIn(p, t)
        IN  \A x \in {input.amount, r_in, 2 * r_in} :
                ReserveOut(p, t) > 0 => GetAmountOut(p, x, t) < ReserveOut(p, t)

\* find_two_hop_arb returns an opportunity exactly when some ordered pair
\* of distinct pools qualifies, and then one whose net profit is the
\* largest of all qualifying pairs (spec 4.2: "pick the one with maximum
\* net profit"; the loop keeps the first of equal ones).
TwoHopOptimal ==
    Len(input.graph) = 2 =>
        /\ TwoHopResult.found <=> Qualifying # {}
        /\ TwoHopResult.found =>
              /\ \E ab \in Qualifying :
                    /\ ab[1].addr = TwoHopResult.path[1].pool
                    /\ ab[2].addr = TwoHopResult.path[2].pool
                    /\ RefNet(ab[1], ab[2]) = TwoHopResult.net_profit
              /\ \A ab \in Qualifying : RefNet(ab[1], ab[2]) <= TwoHopResult.net_profit

\* Spec section 8 invariants of every opportunity the searches return: the
\* path is a chain of steps from the input token back to it, the amounts
\* chain too, output exceeds input and net + gas * price = gross.
WellFormed(o) ==
    o.found =>
        LET path == o.path  n == Len(o.path) IN
        /\ path[1].token_in = o.input_token
        /\ path[n].token_out = o.input_token
        /\ path[1].amount_in = o.input_amount
        /\ path[n].amount_out = o.output_amount
        /\ \A i \in 1 .. n - 1 :
              /\ path[i].token_out = path[i + 1].token_in
              /\ path[i].amount_out = path[i + 1].amount_in
        /\ o.output_amount > o.input_amount
        /\ o.profit = o.output_amount - o.input_amount
        /\ o.net_profit + o.gas_estimate * input.gas_price = o.profit

\* Every result of the two-hop and triangular searches is well formed, and
\* scan_all returns its two-hop and triangular results well formed and in
\* descending order of net profit (spec 4.2: sort_by on b.net_profit
\* against a.net_profit), over graphs where several of them are found.
OpportunityWellFormed ==
    /\ WellFormed(TwoHopResult) /\ WellFormed(TriangularResult)
    /\ \A i \in DOMAIN ScanResult : WellFormed(ScanResult[i])
    /\ \A i, j \in DOMAIN ScanResult :
          i < j => ScanResult[i].net_profit >= ScanResult[j].net_profit

-----------------------------------------------------------------------------
(* The multi-threaded detector's path finder.  Three pools form the        *)
(* triangle WETH/X, X/Y, WETH/Y; the token index is the one load_pools     *)
(* builds (each pool under both of its tokens, in load order).  The swap   *)
(* is a victim's WETH -> X trade.                                          *)

PathPoolSets ==
    {[a \in {1, 2, 3} |-> CASE a = 1 -> p [] a = 2 -> q [] a = 3 -> r] :
        p \in PoolsOn(1, Base, AltX, {60, 300}),
        q \in PoolsOn(2, AltX, AltY, {60, 300}),
        r \in PoolsOn(3, Base, AltY, {60, 300})}

\* load_pools: every pool pushed onto the index of token0 and of token1.
LoadIndex(pools) ==
    [t \in {Base, AltX, AltY} |->
        SelectSeq(<<1, 2, 3>>, LAMBDA a : t \in {pools[a].token0, pools[a].token1})]

PathInputs ==
    [pools : PathPoolSets, gas_price : {0},
     swap : [token_in : {Base}, token_out : {AltX}, amount_in : {50, 200}]]

PathInit == input \in PathInputs

SpecPaths == PathInit /\ [][Next]_input

PathsResult ==
    FindArbitragePaths(input.pools, LoadIndex(input.pools), input.swap,
                       input.gas_price)

\* Spec section 8 (and 5, "an opportunity whose path does not form a
\* cycle" is an invariant violation): every opportunity find_arbitrage_paths
\* returns starts and ends at the same token and its steps chain.
OpportunityIsCycle ==
    \A i \in DOMAIN PathsResult :
        LET path == PathsResult[i].path IN
        /\ path[1].token_in = path[Len(path)].token_out
        /\ \A k \in 1 .. Len(path) - 1 : path[k].token_out = path[k + 1].token_in

-----------------------------------------------------------------------------
(* find_optimal_amount on one pair of WETH/X pools, with SizingLow = 10 so  *)
(* that the walk and its lower bound fall inside the reserves, and a pool  *)
(* of reserve 100 whose tenth does not exceed the lower bound.             *)

SizingInputs ==
    [graph : {<<p, q>> : p \in PoolsOn(1, Base, AltX, {100, 400, 600, 800, 1000}),
                         q \in PoolsOn(2, Base, AltX, {100, 200})}]

SizingInit == input \in SizingInputs

SpecSizing == SizingInit /\ [][Next]_input

\* Spec 4.2: "the returned amount satisfies profit(amount) >=
\* profit(lower_bound) and at least one evaluation occurred" for
\* find_optimal_amount's walk.
SizingContract ==
    LET a == input.graph[1]  b == input.graph[2]
    IN  /\ TwoHopGross(a, b, Base, AltX, FindOptimalAmount(a, b, Base, AltX))
             >= TwoHopGross(a, b, Base, AltX, SizingLow)
        /\ SizingProbes(a, b, Base, AltX) >= 1

=============================================================================
