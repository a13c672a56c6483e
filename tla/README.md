# TLA+ models of the MEV engine core

These modules model the opportunity pipeline of `src/core` (spec.md
sections 3 to 8) and check it with TLC. Every definition is translated from
the Rust source. `PROJECT.json` maps each definition to the lines it models
and lists the runs, the mutants, the findings and the hazards.

## The system

| Part | Source | State | Operations |
|---|---|---|---|
| Pool graph | `arbitrum/pools.rs` `PoolManager` | `RwLock<HashMap<Address, Pool>>` | `discover_pools`, `fetch_v3_pool`, `fetch_v2_pool`, `refresh_all`, `refresh_pool`, `get_pools`, `Pool::get_amount_out` |
| Arbitrage search | `arbitrum/detector.rs` `ArbitrageDetector` | gas price, min bps | `find_two_hop_arb`, `find_triangular_arb`, `scan_all`, `estimate_gas`, `find_optimal_amount` |
| Worker dispatch | `detector/multi_threaded.rs` `MultiThreadedDetector` | `running`, DashMaps of pools and the token index, stats, the bounded(10 000) work channel, one `opp_id` per worker | `load_pools`, `start` (dispatcher and worker threads), `stop`, `update_pool`, `find_arbitrage_paths`, `calculate_2hop_profit`, `simulate_swap_out` |
| Mempool ingestor | `mempool/ultra_ws.rs` `MempoolMonitor`, `EnhancedMempoolMonitor` | `running`, the pending-hash batch, stats | `start` (a `select!` loop over frames and a 100 µs timer), `process_batch`, `extract_tx_hash_fast`, `start_enhanced`, `is_likely_swap`, `parse_swap_fast` |
| Engine | `lib.rs` `MevEngine`, `main.rs` | `MevEngine.running`, main's channel receiver | `MevEngine::start`/`stop`; `main` spawns the monitor and a ctrl-c task, then loops on a `select!` that only logs |

How the parts interact:
- The ingestor sends `MempoolTx` records over an unbounded tokio channel.
- `MultiThreadedDetector::start` takes a crossbeam receiver of the same type. Its dispatcher forwards into the work channel and its workers search the DashMap pool graph.
- The `ArbitrageDetector` searches the `PoolManager`'s table through `get_pools`.
- In `main.rs` the detector is constructed but never connected, so in the binary only the ingestor runs. Its output goes over an unbounded channel to main's `select!` loop, which also awaits ctrl-c. A spawned task awaits ctrl-c too and then calls `MevEngine::stop`.
- The pool graph has writers (discover and refresh, called concurrently on one `PoolManager`) and readers (the searches).
- The other files are stubs or fall outside the spec's core: the legacy detectors, builder, simulator, executor, FFI wrappers, config and bench. `PROJECT.json` lists them as not modelled, with the reason.

## Modules

- **ArbSearch** holds the swap math and the searches, as pure operators over a snapshot of the pool graph. A pool is a record. The HashMap's iteration order is the order of a sequence, which decides ties exactly as the code's loops do.
  - Gas is counted in units of 50 000, the common factor of every gas literal, so `gas * price` is exact.
  - `FindTwoHopArb` and `FindTriangularArb` fold `KeepBest`, which uses a strict `>`, over the candidates in loop order.
  - `SizingWalk` is `find_optimal_amount`'s loop, written as a `RECURSIVE` operator.
  - `FindArbitragePaths` and `Calculate2HopProfit` are the multi-threaded detector's path finder. Each `Option` is a set.
- **MC_ArbSearch** enumerates bounded inputs into a single variable `input`, so that each invariant is checked for every input. It compares the searches with reference definitions taken from spec 4.2. `LoadIndex` builds the token index as `load_pools` does.
- **PoolGraph** models `PoolManager` under concurrent callers, against an upstream chain.
  - `ver[p]` is pool p's chain state. `ChainStep` is a swap, mint or burn.
  - `pools` is the table. `loc[c]` is the local state of caller c's current call.
  - Every lock section holds its lock without an `await` inside, so each is one step: the snapshot in `RefreshAllStart`, the clone in `RefreshPoolStart`, and the inserts in `RefreshAllCommit`, `DiscoverStore` and `RefreshPoolStore`.
  - Every RPC reply is its own step, and it reads the chain at that moment. That covers the 4 tiers of `get_pool`, `get_pair`, `get_reserves`, `token0`/`token1`, `liquidity` and `slot0`. With `RpcCanFail` set, every RPC may also return `Err`.
  - `refresh_all`'s futures are one record per pool in `loc[c].fut`. They advance in any order, as `join_all` polls them.
  - Records carry two ghost fields: the chain versions at which their liquidity (`lver`) and their price or reserves (`pver`) were read.
- **PoolTable** is the abstract pool table that spec 4.1 and 5 promise. Each slot holds reserves its pool really had at one moment, possibly stale, and a pool once stored stays. `PoolGraph` instantiates it with the refinement mapping `TableView` (its reserves) and `ChainView` (the chain's state at one version).
- **MC_PoolGraph** sets the model values and chain histories. There is one token pair, one V3 pool of the 0.05 % tier and one SushiSwap pair. Prices are scaled so that `Q96 = 4` and the dust threshold is 5. Three chain histories:
  - *in tick*: liquidity fixed, the price moving;
  - *moving*: liquidity and price both change;
  - *burnt*: liquidity drops to 0.
- **MTDetector** models `MultiThreadedDetector::start` and `stop`.
  - Every call of `start` is a *generation*: it creates its own work channel of capacity `Cap`, one dispatcher and `NumWorkers` workers.
  - A thread is a record with its program counter. The dispatcher's pcs are `loop`, `recv` and `send`. A worker's are `loop`, `collect` and `process`, plus its batch and its `opp_id`.
  - The dispatcher's `recv_timeout` and the worker's `try_recv` are one step each, as is the processing of one transaction of a batch.
  - Crossbeam's `send` blocks while the channel is full and fails once every receiver is dropped. A generation's receivers are dropped when all its workers have exited.
  - The path search is abstracted to its result: `OppsOf(t)`, the opportunities found for t with a flag for `net_profit >= min_profit`. `ArbSearch` models the search itself.
- **DetectorPoolMap** models the two DashMaps of `MultiThreadedDetector` (`pools` and `token_to_pools`) shared by three kinds of thread: a caller of `load_pools`, a caller of `update_pool`, and the workers running `find_arbitrage_paths`.
  - Each key has its own lock. A DashMap guard read- or write-locks the key's shard, and the lock is reader-preferring: a shared lock is granted whenever no writer holds it, queued writers or not, and readers may take it twice.
  - `load_pools` takes three steps per pool: the push under token0, the push under token1, and the insert. Each is one write guard.
  - `update_pool` takes the `get_mut` guard, writes `reserve0`, then writes `reserve1` and releases the guard.
  - A search holds `output_pools` for its whole run. It holds `pool1` across the `return_pools` lookup and the inner loop. Each `pool2` guard is taken and dropped in one step. The locks a reader holds are derived from its pc (`HeldBy`), not stored.
  - `calculate_2hop_profit` is abstracted to the pair of reserve records it reads; `ArbSearch` models what it computes.
  - A ghost, `completed`, records the pairs evaluated by each finished search.
  - `TableView` is the table the two maps stand for. From `update_pool`'s first store onward it shows the new pair; the second store then changes nothing in it. `AM == INSTANCE AtomicPoolMap` maps `tindex` to the abstract index and `TableView` to the abstract table.
- **AtomicPoolMap** is the abstract pool index that spec 3, 4.1 and 5 promise the detector. It has:
  - a table of whole `(reserve0, reserve1)` records, replaced in one step by a load, or by an update of a pool the table holds (an update of an absent pool changes nothing);
  - per-token address lists that only grow, each by a pool holding the token;
  - searches that evaluate a pair of held pools from their current records.

  It has no locks and no two-store update.
- **MempoolIngestor** models `MempoolMonitor::start` and `EnhancedMempoolMonitor::start_enhanced` as one task. The mode is chosen at start.
  - The endpoint is the environment. It puts frames on the wire, up to `MaxFrames`, and may end the stream. A frame is reduced to its kind: a hash, a Text without a hash, a ping (or binary frame), or an error. The n-th hash frame carries hash n.
  - The hash-only loop has one action per branch of its `select!`: each frame kind, and the 100 µs timer. The timer can fire only when no frame is waiting.
  - `clock` stands for `rdtsc`. Every sent `MempoolTx` carries its stamp (`seen`) and, as a ghost, the time its frame was received (`rcv`).
- **Pipeline** composes `main.rs` with `MempoolIngestor` through `MI == INSTANCE MempoolIngestor`.
  - The spawned monitor runs the hash-only `start`, and nothing can call its `stop`. The channel is the part of the ingestor's `sent` that main has not consumed yet (`consumed`).
  - main starts at `init`: the set-up before any task is spawned. It may return there (benchmark mode, a config error) or panic (no chain 42161). A SIGINT during set-up kills the process.
  - main is then at `top` (a new `select!`), `wait` (pending, with its `ctrl_c()` listener registered) or gone (`exit`, or `killed` by a SIGINT before any handler existed). At `top` a queued message may win before `ctrl_c()` is polled. At `wait` a queued message and a seen signal may both be ready, and either branch may win.
  - `ctrl_c()` registers only when first polled and sees only later signals, as tokio's signal listeners do. `Signal` (at most `MaxSignals`) kills the process while no handler is installed, and otherwise reaches just the listeners registered at that moment.
  - The shutdown task (`hpc`) registers at its first poll. On a signal it runs `MevEngine::stop`, which clears `engineRunning` and calls stubs.
  - When main returns, the runtime ends every task, so every action requires main to be alive.
- **SwapClassifier** holds `is_likely_swap`, `parse_swap_fast` and the classification `start_enhanced` applies. Call data is abstracted to its first four bytes and its length. `MC_SwapClassifier` enumerates lengths 0, 3, 4 and 68 with four prefixes.

## Runs

| Run | Checks | Result |
|---|---|---|
| `arb_search` | `TypeOK`, `SwapOutBelowReserve`, `TwoHopOptimal`, `OpportunityWellFormed` over 16 384 inputs | pass |
| `mt_paths_cycle` | `OpportunityIsCycle` for `find_arbitrage_paths` | violation: the path ends in `token_in`, not where it started |
| `optimal_sizing` | `SizingContract` (spec 4.2: profit(amount) >= profit(low) and at least one probe) | violation: with a small pool the loop never runs; otherwise `best_profit` starts at 0, not at profit(low) |
| `pool_table` | `TypeOK`, `StoredFromChain`, `PoolTableRefined` with 2 callers, failing RPCs, in-tick chain | pass (185 795 states) |
| `pool_torn` | `PoolTableRefined` with liquidity changing | violation: `liquidity()` and `slot0()` come from different blocks |
| `mt_dispatch` | `TypeOK`, `IdsMonotonePerWorker`, `InputEventuallyProcessed`, `ShutdownCompletes`; 2 workers, batch 2, channel capacity 1, under fairness | pass |
| `detector_pool_map` | `TypeOK`, `LoadedPairsSearched`, `DetectorMapRefined`, `SearchesComplete`; 2 workers, 2 pools, a reload of one pool, 1 update, under fairness | pass (344 106 states) |
| `mt_ids` | `UniqueIds` with two calls of `start` | violation: the second generation's worker 0 reuses ids from 0 |
| `ingest` | `TypeOK`, `HashesForwardedInOrder`, `ReceivedEventuallyForwarded`; 4 frames of any kind, batch 2, both modes | pass |
| `ingest_exit` | `ExitsOnlyOnStop` (spec 4.3 reconnection) | violation: one `Err` frame ends `start` with `Ok(())` while running |
| `swap_classifier` | `SwapIffKnownSelector` (spec 4.3) | violation: any selector not starting with `0x00` counts as a swap |
| `pipeline_signal` | `SignalStopsMain` (spec 5: the signal handler's stop flag ends every loop) under fairness, 2 frames, 1 SIGINT | violation: a ctrl-c that arrives while main has no registered listener only reaches the shutdown task, whose `MevEngine::stop` stops nothing that runs |

What the passing runs show:
- **`TwoHopOptimal`** says `find_two_hop_arb` returns a path exactly when some ordered pair of distinct pools qualifies under spec 4.2, and then one with the largest net profit. It is checked over every pair of pool kinds and reserves from {0, 60, 150, 300}, in both iteration orders, at gas prices 0 and 1 and min bps 0 and 300.
- **`OpportunityWellFormed`** states the spec 8 invariants of every result of the two-hop, triangular and `scan_all` searches. It also checks that `scan_all` returns its results in descending order of net profit. An input family of its own (two pools on WETH/X, two on WETH/Y, one on X/Y) gives `scan_all` up to three results with different net profits.
- **`StoredFromChain`** says every stored pool is exactly what the code's conversion makes of replies the chain gave. It also requires the kind and fee of the factory slot that named the pool, and V3 records that passed the dust checks on both the discovery and the refresh path.
- **`PoolTableRefined`** says that, while V3 liquidity does not change between the two reads, the table implements `PoolTable`. That includes when RPCs fail and when refreshes race each other.
- **MTDetector properties.**
  - Per-thread ids are strictly increasing.
  - A transaction sent to a running detector reaches a worker.
  - `stop` ends every thread. The dispatcher may be blocked in `send` on a full channel at the time; it is released because the last exiting worker disconnects the channel, not because it checks `running`.
- **DetectorPoolMap properties.**
  - `TypeOK` also requires every pair a worker evaluates to be made of records the map held. A pool can be in the token index before `load_pools` inserts it, and only the `if let Some(pool2)` of `pools.get` keeps a search from reading it then.
  - `DetectorMapRefined` (spec 6, 3 and 5): the two maps, with their guards, implement `AtomicPoolMap`. So every pair a worker evaluates is the pool's whole current record, never `update_pool`'s new `reserve0` beside the old `reserve1`. `update_pool` writes its two reserves in two stores, and only the guard around both keeps readers out. The refinement also checks that a token's list only grows, by pools holding that token.
  - `LoadedPairsSearched`: a search begun after `load_pools` returned evaluates every two-hop pair of the loaded pools, even with updates running beside it.
  - `SearchesComplete`: every search returns. A worker holds `output_pools` and `pool1` while it takes `return_pools` and `pool2`, and `pool2` may be `pool1` itself. If queued writers blocked new readers, a writer waiting on such a key would deadlock the worker. DashMap's reader-preferring lock rules this out, and the mutant with a fair lock shows the deadlock.
- **MempoolIngestor properties.**
  - Hashes leave in the order they arrived, each exactly once.
  - `txs_parsed` counts them.
  - The timer flushes every partial batch.

Each property of a passing run has a mutant in `PROJECT.json`. The mutant is a plausible bug in the mapped code, and TLC finds it under the run's cfg:
- a missing slippage term;
- a dropped bps or gas check;
- a `sort_by` with its arguments swapped (ascending order);
- fee_bps left in millionths;
- a refresh without the dust filter;
- a commit that replaces the whole table;
- an unbounded batch;
- an id counter declared inside the worker loop;
- a dispatcher that exits on a timeout;
- a send that blocks after the receivers are gone;
- a `> batch_size` flush;
- a timer that does not clear the batch;
- a timer that flushes only full batches;
- `update_pool` writing each reserve through a guard of its own;
- `load_pools` indexing a pool under token0 only;
- a fair shard lock, where readers wait behind queued writers;
- `pools.get` read as a default zero-reserve record for a pool the map does not hold yet.

## Bounds and why they suffice

- **ArbSearch reserves.** Reserves are at most 300 (1000 for sizing) so that every product stays inside TLC's 32-bit integers. The swap formula is scale-free apart from truncation, and small reserves make truncation more frequent, not rarer. Two to three pools per leg exercise the same-pool skip, zero outputs, ties and every rejection branch.
- **Sizing.** `SizingLow` (10^15 in the code) is a constant, so the walk's lower bound lies inside the range being searched.
- **PoolGraph chain.** Two chain changes per pool is enough for a read to straddle a change and for a later change to follow. Two callers are enough for `refresh_all` to race `refresh_pool` and `discover_pools`. Calling discover with the token pair in both orders exercises the sort.
- **Dust threshold.** It is scaled with the prices, to 5. Version 1 of each history is below dust on one side.

- **MTDetector.** Two workers, batches of 2 and a work channel of capacity 1. With these, a batch can split across workers, the channel is full, and the dispatcher blocks. Three transactions: a swap with three paths (two profitable), a non-swap, and a swap with one path. So ids skip unprofitable paths, and two workers send. Two calls of `start` in `mt_ids` let a restart overlap the old threads. `IdStride` stands for 10^6; at 2 the range overflow is reachable, and at 10 it is not.
- **DetectorPoolMap.** Two pools on the same token pair, with token0 and token1 in opposite orders, so that one swap reaches all four (pool1, pool2) pairs, pool1 = pool2 included. That includes the same key read-locked twice. `load_pools` gets p1, p2, p1: loading p1 a second time pushes duplicate index entries and replaces its record, which may undo an update. Two workers do one search each and may start before, during or after the load. One update with reserves from {1, 2} can tear a pair. With two updates, the state space passes 1.3 million states without adding an interleaving of a new kind.
- **MempoolIngestor.** Four frames of any kind, with batch size 2. A batch can fill, a partial batch can wait for the timer, and an error can arrive with hashes pending.
- **Pipeline.** Two frames and one SIGINT. One signal is enough: the property fails when a single ctrl-c is lost. Two frames let main take a message and go round again while the signal lands.

## Fairness

- **`DetectorPoolMap`'s `FairSpec`** is weak fairness on the loader's, the updater's and each worker's steps once a call has started. They are OS threads; a blocked step is disabled until the guard it waits for is dropped. Nobody is obliged to call `update_pool` or to start a search.
- **`MTDetector`'s `FairSpec`** is weak fairness per thread. The dispatcher and the workers are OS threads that only sleep for bounded times. The caller's `start`, `stop` and sends get no fairness.
- **`MempoolIngestor`'s `FairSpec`** is weak fairness on the monitor task once it has started. The endpoint gets no fairness. The timer branch is enabled whenever no frame is waiting, which models the 100 µs sleep elapsing.
- **`Pipeline`'s `FairSpec`** is weak fairness on each task: main, the monitor (spawned, so its first poll is fair too) and the shutdown task. The multi-threaded runtime polls every woken task. The endpoint and the user who sends signals get no fairness.

## Not modelled yet, and the plan

The order below puts the behaviour most likely to be wrong first.
1. **Detector wiring**: `main.rs` builds a `MultiThreadedDetector` but never starts it or feeds it, so the binary's pipeline ends in main's logging loop (`Pipeline`). Composing `MempoolIngestor` with `MTDetector` would model a caller that does connect them, which the code does not contain.
2. Further properties the spec states that do not yet have runs of their own:
   - `first_seen` equal to the receipt time (spec 4.3). The code breaks it for every hash but the last of a batch.
   - The spec 8 dust filter for V2 pairs, which the code does not apply.
   - A loss counter for transactions dropped at stop.
   - `refresh_all` committing replies older than a concurrent `refresh_pool`'s. Spec 5 leaves the order of two concurrent refreshes open.
   - A main loop that notices the monitor has returned (`main.rs:107`).
   - A partial batch flushed within 100 µs of its first hash (spec 4.3). The code's sleep restarts at every frame, so a steady stream of pings can hold a partial batch back (`ultra_ws.rs:172`). This needs a model of time in microseconds; `MempoolIngestor`'s clock counts events.
   - An `update_pool` that races the `load_pools` of the same pool is dropped when it comes before the insert (`multi_threaded.rs:268`). `AtomicPoolMap` allows this, since an update of an absent pool changes nothing.
   - A V3 pool whose liquidity drops to zero keeps its last record for good (`pools.rs:281`). Spec 4.1 treats `None` as a failed read and leaves eviction open. `PoolGraph` keeps the record, as the code does.
   The hazards in `PROJECT.json` record them.

What stays out of reach:
- U256 overflow at 2^256 and the `low_u32` wrap. TLC's integers are 32-bit; these are listed as hazards.
- Wire formats: JSON parsing, ABI and RLP encoding, and FFI. They are pure I/O with no state.
- The legacy detectors, simulator, builder, executor and bench. They are stubs or off the core's path, and `PROJECT.json` says which. Spec 1 puts calldata layout and RPC submission outside the core.
  - Reading the legacy `ArbitrageDetector` shows it can never fire: `parse_v2_swap` turns the 32-byte slice `data[4..36]` into a `u128` with `try_into`, which always fails.
  - Nothing sets the contract address of `MevEngine`'s `BundleBuilder`. `set_contract` takes `&mut self`, and the engine holds the builder in a private `Arc`. Nothing calls `build` or the encoders either.
- `MevEngine::start` and `stats`. `main` never calls them.
