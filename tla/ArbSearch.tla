----------------------------- MODULE ArbSearch -----------------------------
(***************************************************************************)
(* Swap math and the arbitrage search of the opportunity pipeline, as pure *)
(* operators over a snapshot of the pool graph.                            *)
(*                                                                         *)
(*   src/core/src/arbitrum/pools.rs     Pool::get_amount_out               *)
(*   src/core/src/arbitrum/detector.rs  find_two_hop_arb,                  *)
(*                                      find_triangular_arb, scan_all,     *)
(*                                      estimate_gas, find_optimal_amount  *)
(*   src/core/src/detector/multi_threaded.rs  find_arbitrage_paths,        *)
(*                                      calculate_2hop_profit,             *)
(*                                      simulate_swap_out                  *)
(*                                                                         *)
(* A pool is a record [addr, token0, token1, kind, reserve0, reserve1,     *)
(* fee_bps].  Tokens and addresses are naturals so that the canonical      *)
(* order token0 < token1 can be stated.  The HashMap the code iterates is  *)
(* a sequence: its order is the map's iteration order, which decides ties. *)
(*                                                                         *)
(* Gas is counted in units of 50_000 gas, the common factor of every gas   *)
(* literal of the code (150k, 100k, 50k, 400k, 200k); GasPrice is the      *)
(* price of one such unit, so  gas * GasPrice  is exactly the code's       *)
(* gas_estimate * gas_price_wei.                                           *)
(***************************************************************************)
EXTENDS Integers, Sequences, SequencesExt

CONSTANT
    SizingLow   \* the lower end of find_optimal_amount's walk (10^15 wei)

\* 10000: basis points in one unit (the fee and profit_bps denominators).
FeeDenom == 10000

\* Pool kinds of arbitrum/pools.rs PoolType.
V3 == "UniswapV3"
Sushi == "SushiSwap"
Camelot == "Camelot"
PoolKinds == {V3, Sushi, Camelot}

\* The result of a search that found nothing (Option::None).
NoOpp == [found |-> FALSE]

MinOf(a, b) == IF a <= b THEN a ELSE b

(***************************************************************************)
(* Swap math.                                                              *)
(***************************************************************************)

\* Orientation of the reserves to the input token: a token that is not
\* token0 is taken to be token1 (the code has no third case).
ReserveIn(pool, token_in) ==
    IF token_in = pool.token0 THEN pool.reserve0 ELSE pool.reserve1
ReserveOut(pool, token_in) ==
    IF token_in = pool.token0 THEN pool.reserve1 ELSE pool.reserve0

\* Mutant: the input amount missing from the denominator.
GetAmountOutNoSlippage(pool, amount_in, token_in) ==
    LET r_in == ReserveIn(pool, token_in)
        r_out == ReserveOut(pool, token_in)
        with_fee == amount_in * (FeeDenom - pool.fee_bps)
    IN  IF r_in = 0 \/ r_out = 0 THEN 0
        ELSE (with_fee * r_out) \div (r_in * FeeDenom)

\* Pool::get_amount_out: constant product output with the fee in bps,
\* truncating division; zero when either reserve is zero.
GetAmountOut(pool, amount_in, token_in) ==
    LET r_in == ReserveIn(pool, token_in)
        r_out == ReserveOut(pool, token_in)
        with_fee == amount_in * (FeeDenom - pool.fee_bps)
    IN  IF r_in = 0 \/ r_out = 0 THEN 0
        ELSE (with_fee * r_out) \div (r_in * FeeDenom + with_fee)

(***************************************************************************)
(* Two-hop and triangular search (arbitrum/detector.rs).                   *)
(***************************************************************************)

\* PoolManager::get_pools: the pools whose unordered token pair is {t0, t1},
\* in the map's iteration order.
GetPools(graph, t0, t1) ==
    SelectSeq(graph, LAMBDA p : \/ p.token0 = t0 /\ p.token1 = t1
                                \/ p.token0 = t1 /\ p.token1 = t0)

\* Gas of one swap leg, in 50k units: V3 150k, SushiSwap and Camelot 100k.
LegGas(kind) == IF kind = V3 THEN 3 ELSE 2

\* ArbitrageDetector::estimate_gas: 50k flash-loan overhead plus both legs.
EstimateGas(kind_a, kind_b) == 1 + LegGas(kind_a) + LegGas(kind_b)

Step(pool, t_in, t_out, a_in, a_out) ==
    [pool |-> pool.addr, kind |-> pool.kind, token_in |-> t_in,
     token_out |-> t_out, amount_in |-> a_in, amount_out |-> a_out]

\* The opportunity record built once a path passed every check.
Opportunity(path, token, amount, amount_out, gas, gas_price) ==
    LET profit == amount_out - amount
    IN  [found |-> TRUE, path |-> path, input_token |-> token,
         input_amount |-> amount, output_amount |-> amount_out,
         profit |-> profit, profit_bps |-> (profit * FeeDenom) \div amount,
         gas_estimate |-> gas, net_profit |-> profit - gas * gas_price]

\* Mutant: the min_profit_bps check dropped.
ProfitableNoBps(amount, amount_out, gas, min_bps, gas_price) ==
    /\ amount_out > amount
    /\ amount_out - amount > gas * gas_price

\* Mutant: the gas-cost check dropped.
ProfitableNoGasCheck(amount, amount_out, gas, min_bps, gas_price) ==
    /\ amount_out > amount
    /\ ((amount_out - amount) * FeeDenom) \div amount >= min_bps

\* The profitability checks every candidate path passes, in code order:
\* output above input, profit_bps at least min_profit_bps, profit above the
\* gas cost.  profit_bps is low_u32 of a U256; within the model's amounts
\* it stays far below 2^32, so the truncation is the identity here.
Profitable(amount, amount_out, gas, min_bps, gas_price) ==
    /\ amount_out > amount
    /\ ((amount_out - amount) * FeeDenom) \div amount >= min_bps
    /\ amount_out - amount > gas * gas_price

\* Body of the pool_a x pool_b loop of find_two_hop_arb: skip the same
\* pool, skip zero outputs, then the profitability checks.
TwoHopCandidate(a, b, token, mid, amount, min_bps, gas_price) ==
    LET amount_mid == GetAmountOut(a, amount, token)
        amount_out == GetAmountOut(b, amount_mid, mid)
        gas == EstimateGas(a.kind, b.kind)
    IN  IF /\ a.addr # b.addr /\ amount_mid # 0 /\ amount_out # 0
           /\ Profitable(amount, amount_out, gas, min_bps, gas_price)
        THEN Opportunity(<<Step(a, token, mid, amount, amount_mid),
                           Step(b, mid, token, amount_mid, amount_out)>>,
                         token, amount, amount_out, gas, gas_price)
        ELSE NoOpp

\* "Keep best opportunity": a candidate replaces the best only when its net
\* profit is strictly greater, so the first of equal candidates stays.
KeepBest(best, cand) ==
    IF ~cand.found THEN best
    ELSE IF ~best.found \/ cand.net_profit > best.net_profit THEN cand
    ELSE best

\* The nested loops of find_two_hop_arb, pool_a outer, pool_b inner.
FindTwoHopArb(graph, token, mid, amount, min_bps, gas_price) ==
    LET first == GetPools(graph, token, mid)
        second == GetPools(graph, mid, token)
        n == Len(second)
        cands == [k \in 1 .. Len(first) * n |->
                    TwoHopCandidate(first[(k - 1) \div n + 1],
                                    second[((k - 1) % n) + 1],
                                    token, mid, amount, min_bps, gas_price)]
    IN  IF first = <<>> \/ second = <<>> THEN NoOpp
        ELSE FoldLeft(KeepBest, NoOpp, cands)

\* Gas of a three-swap path: a flat 400k.
TriangularGas == 8

\* Body of the triple loop of find_triangular_arb.
TriangularCandidate(ab, bc, ca, ta, tb, tc, amount, min_bps, gas_price) ==
    LET amount_b == GetAmountOut(ab, amount, ta)
        amount_c == GetAmountOut(bc, amount_b, tb)
        amount_out == GetAmountOut(ca, amount_c, tc)
    IN  IF /\ amount_b # 0 /\ amount_c # 0 /\ amount_out # 0
           /\ Profitable(amount, amount_out, TriangularGas, min_bps, gas_price)
        THEN Opportunity(<<Step(ab, ta, tb, amount, amount_b),
                           Step(bc, tb, tc, amount_b, amount_c),
                           Step(ca, tc, ta, amount_c, amount_out)>>,
                         ta, amount, amount_out, TriangularGas, gas_price)
        ELSE NoOpp

\* Iterator::take(3) of each leg's pools.
Take3(s) == SubSeq(s, 1, MinOf(3, Len(s)))

\* find_triangular_arb: at most 3 pools per leg, ab outer, ca inner.
FindTriangularArb(graph, ta, tb, tc, amount, min_bps, gas_price) ==
    LET ab == Take3(GetPools(graph, ta, tb))
        bc == Take3(GetPools(graph, tb, tc))
        ca == Take3(GetPools(graph, tc, ta))
        n2 == Len(bc) * Len(ca)
        cands == [k \in 1 .. Len(ab) * n2 |->
                    TriangularCandidate(ab[(k - 1) \div n2 + 1],
                                        bc[((k - 1) % n2) \div Len(ca) + 1],
                                        ca[((k - 1) % Len(ca)) + 1],
                                        ta, tb, tc, amount, min_bps, gas_price)]
    IN  IF ab = <<>> \/ bc = <<>> \/ ca = <<>> THEN NoOpp
        ELSE FoldLeft(KeepBest, NoOpp, cands)

\* sort_by(|a, b| a.net_profit.cmp(&b.net_profit)): the arguments swapped.
AscendingNet(o1, o2) == o1.net_profit < o2.net_profit

\* sort_by(|a, b| b.net_profit.cmp(&a.net_profit)): highest net profit first.
DescendingNet(o1, o2) == o1.net_profit > o2.net_profit

\* scan_all: two-hop for every (base, alt), then triangular for every
\* (base, alt_i, alt_j) with i < j, sorted by descending net profit.  The
\* near-miss ratio pass only logs and is left out.
ScanAll(graph, tokens, amount, min_bps, gas_price) ==
    LET base == tokens[1]
        two == [i \in 1 .. Len(tokens) - 1 |->
                  FindTwoHopArb(graph, base, tokens[i + 1], amount,
                                min_bps, gas_price)]
        pairs == SelectSeq([k \in 1 .. Len(tokens) * Len(tokens) |->
                              <<(k - 1) \div Len(tokens) + 1,
                                ((k - 1) % Len(tokens)) + 1>>],
                           LAMBDA ij : 1 < ij[1] /\ ij[1] < ij[2])
        tri == [k \in DOMAIN pairs |->
                  FindTriangularArb(graph, base, tokens[pairs[k][1]],
                                    tokens[pairs[k][2]], amount,
                                    min_bps, gas_price)]
        found == SelectSeq(two \o tri, LAMBDA o : o.found)
    IN  SortSeq(found, DescendingNet)

(***************************************************************************)
(* find_optimal_amount: a directional walk of at most 64 probes between    *)
(* SizingLow and a tenth of pool_a's smaller reserve.  An improving probe  *)
(* moves low above it, any other probe moves high below it.  The walk     *)
(* yields the best amount and the number of probes it made.               *)
(***************************************************************************)
TwoHopGross(a, b, token, mid_token, amount) ==
    LET out == GetAmountOut(b, GetAmountOut(a, amount, token), mid_token)
    IN  IF out > amount THEN out - amount ELSE 0

RECURSIVE SizingWalk(_, _, _, _, _, _, _, _, _)
SizingWalk(a, b, token, mid_token, low, high, best_amount, best_profit, n) ==
    IF n = 64 \/ low >= high THEN [amount |-> best_amount, probes |-> n]
    ELSE LET mid == (low + high) \div 2
             profit == TwoHopGross(a, b, token, mid_token, mid)
         IN  IF profit > best_profit
             THEN SizingWalk(a, b, token, mid_token, mid + 1, high,
                             mid, profit, n + 1)
             ELSE SizingWalk(a, b, token, mid_token, low, mid - 1,
                             best_amount, best_profit, n + 1)

SizingRun(a, b, token, mid_token) ==
    SizingWalk(a, b, token, mid_token, SizingLow,
               MinOf(a.reserve0, a.reserve1) \div 10, SizingLow, 0, 0)

FindOptimalAmount(a, b, token, mid_token) == SizingRun(a, b, token, mid_token).amount

\* The number of probes the walk evaluated (not returned by the code).
SizingProbes(a, b, token, mid_token) == SizingRun(a, b, token, mid_token).probes

(***************************************************************************)
(* The path finder of the multi-threaded detector (multi_threaded.rs).     *)
(* pools is a function from address to pool (DashMap<Address, PoolState>), *)
(* index a function from token to a sequence of addresses                  *)
(* (DashMap<Address, Vec<Address>>); a swap is [token_in, token_out,       *)
(* amount_in].  Option results are sets: {} is None, {v} is Some(v).       *)
(***************************************************************************)

\* simulate_swap_out: None when a reserve is zero, else the same constant
\* product formula as get_amount_out.
SimulateSwapOut(amount_in, token_in, pool) ==
    IF ReserveIn(pool, token_in) = 0 \/ ReserveOut(pool, token_in) = 0
    THEN {}
    ELSE {GetAmountOut(pool, amount_in, token_in)}

\* Gas of the detector's backrun: a flat 200k.
BackrunGas == 4

\* calculate_2hop_profit: simulate the victim's swap on pool1, back-run a
\* tenth of its output token_out -> intermediate on pool1, then
\* intermediate -> token_in on pool2.
Calculate2HopProfit(swap, pool1, pool2, gas_price) ==
    LET mid == IF pool1.token0 = swap.token_out THEN pool1.token1
               ELSE pool1.token0
    IN  UNION { UNION { UNION {
          LET input == victim_out \div 10
              gross == step2_out - input
          IN  IF step2_out <= input \/ gross <= BackrunGas * gas_price THEN {}
              ELSE {[found |-> TRUE,
                     path |-> <<Step(pool1, swap.token_out, mid, input, step1_out),
                                Step(pool2, mid, swap.token_in, step1_out,
                                     step2_out)>>,
                     profit |-> gross, gas_estimate |-> BackrunGas,
                     net_profit |-> gross - BackrunGas * gas_price]}
            : step2_out \in SimulateSwapOut(step1_out, mid, pool2) }
            : step1_out \in SimulateSwapOut(victim_out \div 10,
                                            swap.token_out, pool1) }
            : victim_out \in SimulateSwapOut(swap.amount_in, swap.token_in,
                                             pool1) }

\* find_arbitrage_paths: for every pool holding token_out, every pool
\* indexed under its other token that also holds token_in.  Addresses the
\* index names but the map does not hold are skipped.
FindArbitragePaths(pools, index, swap, gas_price) ==
    LET Has(a) == a \in DOMAIN pools
        Holds(p, t) == p.token0 = t \/ p.token1 = t
        Other(p, t) == IF p.token0 = t THEN p.token1 ELSE p.token0
        Opps(a1) ==
          IF ~Has(a1) \/ ~Holds(pools[a1], swap.token_out) THEN <<>>
          ELSE LET p1 == pools[a1]
                   back == IF Other(p1, swap.token_out) \in DOMAIN index
                           THEN index[Other(p1, swap.token_out)] ELSE <<>>
               IN  FoldLeft(LAMBDA acc, a2 :
                              IF Has(a2) /\ Holds(pools[a2], swap.token_in)
                              THEN acc \o SetToSeq(Calculate2HopProfit(
                                              swap, p1, pools[a2], gas_price))
                              ELSE acc,
                            <<>>, back)
    IN  IF swap.token_out \notin DOMAIN index THEN <<>>
        ELSE FoldLeft(LAMBDA acc, a1 : acc \o Opps(a1), <<>>,
                      index[swap.token_out])

=============================================================================
