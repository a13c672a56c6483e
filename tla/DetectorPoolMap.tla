--------------------------- MODULE DetectorPoolMap ---------------------------
(***************************************************************************)
(* The two DashMaps of MultiThreadedDetector (multi_threaded.rs): `pools`  *)
(* (address -> PoolState) and `token_to_pools` (token -> Vec<address>),    *)
(* shared by a caller of load_pools, a caller of update_pool and the       *)
(* worker threads running find_arbitrage_paths.                            *)
(*                                                                         *)
(* Every key has its own lock here.  A DashMap guard (get, get_mut, entry) *)
(* read- or write-locks the key's shard; a shard holding several keys only *)
(* adds waiting and, the lock being reader-preferring, no new cycle.       *)
(* DashMap's RawRwLock grants a shared lock whenever no writer holds the   *)
(* shard, queued writers or not, and is re-entrant for readers.  A guard   *)
(* that is taken and dropped within one statement is one step; the guards  *)
(* find_arbitrage_paths keeps across iterations are read from the reader's *)
(* pc, so the lock table is derived rather than stored.                    *)
(***************************************************************************)
EXTENDS Naturals, Sequences, FiniteSets

CONSTANTS
    Tokens,         \* token addresses
    Pools,          \* pool addresses
    Tok0, Tok1,     \* [Pools -> Tokens]: a pool's token0 and token1
    Reserves,       \* the reserve values an update may write
    InitReserves,   \* [Pools -> [r0 : Reserves, r1 : Reserves]] as loaded
    LoadList,       \* the Vec<PoolState> handed to load_pools, by address
    Swaps,          \* the SwapInfos the workers search, as [tin, tout]
    Readers,        \* worker threads running find_arbitrage_paths
    MaxUpdates,     \* bound on update_pool calls
    MaxSearches,    \* bound on searches per worker
    Absent          \* the value of an address the pools map does not hold

VARIABLES
    tindex,     \* token_to_pools: token -> Vec<address> (<<>>: no entry)
    pmap,       \* pools: address -> [r0, r1] or Absent
    lpos,       \* load_pools: index into LoadList of the pool being loaded
    lstep,      \* 0: push to token0, 1: push to token1, 2: insert the pool
    upc,        \* update_pool: "idle", "acq" (called, waiting for get_mut),
                \* "w0", "w1" (guard held)
    uaddr,      \* its address
    unew,       \* its new reserves
    updates,    \* update_pool calls so far
    rpc,        \* reader: "idle", "loop1", "mid", "loop2"
    rswap,      \* the swap being searched
    i1, i2,     \* positions in output_pools and return_pools
    found,      \* pairs evaluated so far: [a1, v1, a2, v2]
    rafter,     \* the search began after load_pools returned
    searches,   \* searches per reader
    completed   \* ghost: [swap, after, pairs] of every finished search

vars == <<tindex, pmap, lpos, lstep, upc, uaddr, unew, updates, rpc, rswap,
          i1, i2, found, rafter, searches, completed>>
loadVars == <<lpos, lstep>>
updVars == <<upc, uaddr, unew, updates>>
readVars == <<rpc, rswap, i1, i2, found, rafter, searches, completed>>

Holds(a, t) == Tok0[a] = t \/ Tok1[a] = t
Other(a, t) == IF Tok0[a] = t THEN Tok1[a] ELSE Tok0[a]

Init ==
    /\ tindex = [t \in Tokens |-> <<>>]
    /\ pmap = [a \in Pools |-> Absent]
    /\ lpos = 1 /\ lstep = 0
    /\ upc = "idle" /\ uaddr = CHOOSE a \in Pools : TRUE
    /\ unew = InitReserves[uaddr]
    /\ updates = 0
    /\ rpc = [r \in Readers |-> "idle"]
    /\ rswap = [r \in Readers |-> CHOOSE s \in Swaps : TRUE]
    /\ i1 = [r \in Readers |-> 1] /\ i2 = [r \in Readers |-> 1]
    /\ found = [r \in Readers |-> {}]
    /\ rafter = [r \in Readers |-> FALSE]
    /\ searches = [r \in Readers |-> 0]
    /\ completed = {}

LoadDone == lpos > Len(LoadList)

-----------------------------------------------------------------------------
(* Locks.                                                                  *)

\* The guards a reader holds at its pc: output_pools, then pool1, then
\* return_pools.
Pool1(r) == tindex[rswap[r].tout][i1[r]]
Mid(r) == Other(Pool1(r), rswap[r].tout)
HeldBy(r) ==
    CASE rpc[r] = "loop1" -> {<<"T", rswap[r].tout>>}
      [] rpc[r] = "mid"   -> {<<"T", rswap[r].tout>>, <<"P", Pool1(r)>>}
      [] rpc[r] = "loop2" -> {<<"T", rswap[r].tout>>, <<"P", Pool1(r)>>,
                              <<"T", Mid(r)>>}
      [] OTHER            -> {}

ReadHeld(l) == \E r \in Readers : l \in HeldBy(r)
\* update_pool writing each reserve through a get_mut guard of its own.
WriteHeldPerStatement(l) == upc = "w0" /\ l = <<"P", uaddr>>
WriteHeld(l) == upc \in {"w0", "w1"} /\ l = <<"P", uaddr>>
WriteFree(l) == ~ReadHeld(l) /\ ~WriteHeld(l)

\* The lock a writer thread is about to take.
LoadTarget ==
    LET a == LoadList[lpos]
    IN  CASE lstep = 0 -> <<"T", Tok0[a]>>
          [] lstep = 1 -> <<"T", Tok1[a]>>
          [] OTHER     -> <<"P", a>>
WriterQueued(l) ==
    \/ ~LoadDone /\ l = LoadTarget
    \/ upc = "acq" /\ l = <<"P", uaddr>>

\* A fair RwLock: a shared lock also waits for queued writers.
ReadAllowedFair(l) == ~WriteHeld(l) /\ ~WriterQueued(l)

\* DashMap's shared lock: granted unless a writer holds the shard.
ReadAllowed(l) == ~WriteHeld(l)

-----------------------------------------------------------------------------
(* load_pools: for each pool, push its address under token0 and under      *)
(* token1 (entry().or_insert_with().push(), one write guard each), then    *)
(* insert the PoolState, replacing any earlier one.                        *)

LoadAdvance ==
    IF lstep = 2 THEN lpos' = lpos + 1 /\ lstep' = 0
    ELSE lstep' = lstep + 1 /\ UNCHANGED lpos

\* A load that indexes each pool under token0 only.
LoadIndexToken0Only ==
    /\ ~LoadDone /\ lstep \in {0, 1} /\ WriteFree(LoadTarget)
    /\ LET a == LoadList[lpos]
       IN  tindex' = [tindex EXCEPT ![Tok0[a]] = Append(@, a)]
    /\ LoadAdvance
    /\ UNCHANGED <<pmap, updVars, readVars>>

LoadIndex ==
    /\ ~LoadDone /\ lstep \in {0, 1} /\ WriteFree(LoadTarget)
    /\ LET a == LoadList[lpos]
           t == IF lstep = 0 THEN Tok0[a] ELSE Tok1[a]
       IN  tindex' = [tindex EXCEPT ![t] = Append(@, a)]
    /\ LoadAdvance
    /\ UNCHANGED <<pmap, updVars, readVars>>

LoadInsert ==
    /\ ~LoadDone /\ lstep = 2 /\ WriteFree(LoadTarget)
    /\ LET a == LoadList[lpos]
       IN  pmap' = [pmap EXCEPT ![a] = InitReserves[a]]
    /\ LoadAdvance
    /\ UNCHANGED <<tindex, updVars, readVars>>

-----------------------------------------------------------------------------
(* update_pool(address, reserve0, reserve1): get_mut write-locks the key;  *)
(* if the pool is held, reserve0, then reserve1 and last_update are        *)
(* written through the guard, which is dropped at the end of the if-let.   *)

UpdateCall ==
    /\ upc = "idle" /\ updates < MaxUpdates
    /\ \E a \in Pools, v \in [r0 : Reserves, r1 : Reserves] :
          upc' = "acq" /\ uaddr' = a /\ unew' = v
    /\ UNCHANGED <<updates, tindex, pmap, loadVars, readVars>>

UpdateLock ==
    /\ upc = "acq" /\ WriteFree(<<"P", uaddr>>)
    /\ IF pmap[uaddr] = Absent
       THEN upc' = "idle" /\ updates' = updates + 1
       ELSE upc' = "w0" /\ UNCHANGED updates
    /\ UNCHANGED <<uaddr, unew, tindex, pmap, loadVars, readVars>>

UpdateReserve0 ==
    /\ upc = "w0"
    /\ pmap' = [pmap EXCEPT ![uaddr].r0 = unew.r0]
    /\ upc' = "w1"
    /\ UNCHANGED <<uaddr, unew, updates, tindex, loadVars, readVars>>

UpdateReserve1 ==
    /\ upc = "w1"
    /\ pmap' = [pmap EXCEPT ![uaddr].r1 = unew.r1]
    /\ upc' = "idle" /\ updates' = updates + 1
    /\ UNCHANGED <<uaddr, unew, tindex, loadVars, readVars>>

-----------------------------------------------------------------------------
(* find_arbitrage_paths, run by a worker for a swap.  output_pools =       *)
(* token_to_pools.get(token_out)? is held for the whole search; for each   *)
(* pool1 the guard of pools.get(pool1) is held across the lookup of        *)
(* return_pools and the inner loop; each pools.get(pool2) is taken, used   *)
(* by calculate_2hop_profit (abstracted to the pair of reserve records it  *)
(* reads) and dropped within one iteration.                                *)

Finish(r, s, after, fs) ==
    /\ rpc' = [rpc EXCEPT ![r] = "idle"]
    /\ searches' = [searches EXCEPT ![r] = @ + 1]
    /\ completed' = completed \cup
         {[swap |-> s, after |-> after, pairs |-> {<<f.a1, f.a2>> : f \in fs}]}

\* token_to_pools.get(&swap.token_out)?: no entry returns None at once.
SearchBegin(r) ==
    /\ rpc[r] = "idle" /\ searches[r] < MaxSearches
    /\ \E s \in Swaps :
         /\ ReadAllowed(<<"T", s.tout>>)
         /\ rswap' = [rswap EXCEPT ![r] = s]
         /\ rafter' = [rafter EXCEPT ![r] = LoadDone]
         /\ found' = [found EXCEPT ![r] = {}]
         /\ i1' = [i1 EXCEPT ![r] = 1]
         /\ IF tindex[s.tout] = <<>>
            THEN Finish(r, s, LoadDone, {})
            ELSE /\ rpc' = [rpc EXCEPT ![r] = "loop1"]
                 /\ UNCHANGED <<searches, completed>>
    /\ UNCHANGED <<i2, tindex, pmap, loadVars, updVars>>

\* The outer loop: pools.get(pool1_addr); an address the map does not
\* hold yet is skipped.  At the end output_pools is dropped and the
\* search returns.
OuterStep(r) ==
    /\ rpc[r] = "loop1"
    /\ LET list == tindex[rswap[r].tout]
       IN  \/ /\ i1[r] <= Len(list)
              /\ ReadAllowed(<<"P", list[i1[r]]>>)
              /\ IF pmap[list[i1[r]]] = Absent
                 THEN /\ i1' = [i1 EXCEPT ![r] = @ + 1]
                      /\ UNCHANGED rpc
                 ELSE /\ rpc' = [rpc EXCEPT ![r] = "mid"]
                      /\ UNCHANGED i1
              /\ UNCHANGED <<searches, completed>>
           \/ /\ i1[r] > Len(list)
              /\ Finish(r, rswap[r], rafter[r], found[r])
              /\ UNCHANGED i1
    /\ UNCHANGED <<rswap, i2, found, rafter, tindex, pmap, loadVars, updVars>>

\* return_pools = token_to_pools.get(&intermediate); none: pool1's guard
\* is dropped and the outer loop goes on.
MidLookup(r) ==
    /\ rpc[r] = "mid"
    /\ ReadAllowed(<<"T", Mid(r)>>)
    /\ IF tindex[Mid(r)] = <<>>
       THEN /\ rpc' = [rpc EXCEPT ![r] = "loop1"]
            /\ i1' = [i1 EXCEPT ![r] = @ + 1]
            /\ UNCHANGED i2
       ELSE /\ rpc' = [rpc EXCEPT ![r] = "loop2"]
            /\ i2' = [i2 EXCEPT ![r] = 1]
            /\ UNCHANGED i1
    /\ UNCHANGED <<rswap, found, rafter, searches, completed, tindex, pmap,
                   loadVars, updVars>>

\* The inner loop: pools.get(pool2_addr); a held pool with token_in is
\* evaluated against pool1.  At the end return_pools and pool1 are dropped.
\* pools.get(addr) read as unwrap_or_default(): an absent pool becomes a
\* PoolState with zero reserves.
PoolGetOrDefault(a) == IF pmap[a] = Absent THEN {[r0 |-> 0, r1 |-> 0]} ELSE {pmap[a]}

\* pools.get(addr): the Option as a set, empty when the map lacks the key.
PoolGet(a) == IF pmap[a] = Absent THEN {} ELSE {pmap[a]}

InnerStep(r) ==
    /\ rpc[r] = "loop2"
    /\ LET list == tindex[Mid(r)]
           a1 == Pool1(r)
       IN  \/ /\ i2[r] <= Len(list)
              /\ ReadAllowed(<<"P", list[i2[r]]>>)
              /\ LET a2 == list[i2[r]]
                 IN  found' = [found EXCEPT ![r] =
                         IF Holds(a2, rswap[r].tin)
                         THEN @ \cup {[a1 |-> a1, v1 |-> pmap[a1],
                                       a2 |-> a2, v2 |-> v] : v \in PoolGet(a2)}
                         ELSE @]
              /\ i2' = [i2 EXCEPT ![r] = @ + 1]
              /\ UNCHANGED <<rpc, i1>>
           \/ /\ i2[r] > Len(list)
              /\ rpc' = [rpc EXCEPT ![r] = "loop1"]
              /\ i1' = [i1 EXCEPT ![r] = @ + 1]
              /\ UNCHANGED <<i2, found>>
    /\ UNCHANGED <<rswap, rafter, searches, completed, tindex, pmap,
                   loadVars, updVars>>

-----------------------------------------------------------------------------

\* Every call has returned: the threads are parked and nothing more
\* happens.
Finished ==
    /\ LoadDone /\ upc = "idle" /\ updates = MaxUpdates
    /\ \A r \in Readers : rpc[r] = "idle" /\ searches[r] = MaxSearches
    /\ UNCHANGED vars

Next ==
    \/ LoadIndex \/ LoadInsert
    \/ UpdateCall \/ UpdateLock \/ UpdateReserve0 \/ UpdateReserve1
    \/ \E r \in Readers : SearchBegin(r) \/ OuterStep(r) \/ MidLookup(r)
                          \/ InnerStep(r)
    \/ Finished

Spec == Init /\ [][Next]_vars

\* Each caller is an OS thread the kernel keeps scheduling.
FairSpec ==
    /\ Spec
    /\ WF_vars(LoadIndex \/ LoadInsert)
    /\ WF_vars(UpdateLock \/ UpdateReserve0 \/ UpdateReserve1)
    /\ \A r \in Readers : WF_vars(OuterStep(r) \/ MidLookup(r) \/ InnerStep(r))

-----------------------------------------------------------------------------
(* Properties.                                                             *)

Reserve == [r0 : Reserves, r1 : Reserves]
Found == [a1 : Pools, v1 : Reserve, a2 : Pools, v2 : Reserve]

TypeOK ==
    /\ tindex \in [Tokens -> Seq(Pools)]
    /\ pmap \in [Pools -> Reserve \cup {Absent}]
    /\ lstep \in 0..2 /\ lpos \in 1..Len(LoadList) + 1
    /\ upc \in {"idle", "acq", "w0", "w1"} /\ uaddr \in Pools
    /\ unew \in Reserve /\ updates \in 0..MaxUpdates
    /\ rpc \in [Readers -> {"idle", "loop1", "mid", "loop2"}]
    /\ found \in [Readers -> SUBSET Found]
    /\ searches \in [Readers -> 0..MaxSearches]

\* The table the two maps stand for: from update_pool's first store on, the
\* pool holds the new pair (the second store then changes nothing).
TableView ==
    [a \in Pools |-> IF upc = "w1" /\ a = uaddr
                     THEN [pmap[a] EXCEPT !.r1 = unew.r1]
                     ELSE pmap[a]]

AM == INSTANCE AtomicPoolMap WITH index <- tindex, table <- TableView

\* Spec 6 (refresh atomicity), 3 and 5: load_pools, update_pool and the
\* workers' find_arbitrage_paths implement AtomicPoolMap.  A worker
\* evaluating a pair reads each pool's whole current record, never
\* update_pool's new reserve0 beside the old reserve1; an update replaces a
\* held pool's record in one step and an update of an absent one changes
\* nothing; a token's address list only grows, by a pool holding it.
DetectorMapRefined == AM!Spec

\* The pairs find_arbitrage_paths evaluates for a swap once every loaded
\* pool is in both maps.
Expected(s) ==
    LET loaded == {LoadList[k] : k \in 1..Len(LoadList)}
    IN  {<<a1, a2>> \in loaded \X loaded :
            Holds(a1, s.tout) /\ Holds(a2, Other(a1, s.tout))
            /\ Holds(a2, s.tin)}

\* Spec 4.2: a search that starts after load_pools has returned evaluates
\* every two-hop pair of the loaded pools, whatever updates run beside it.
LoadedPairsSearched ==
    \A c \in completed : c.after => Expected(c.swap) \subseteq c.pairs

\* Spec 4.1 (the read path is never blocked for good): every search a
\* worker starts returns, though it holds guards of both maps while it
\* takes more of them and writers queue on the same keys.
SearchesComplete ==
    \A r \in Readers : (rpc[r] # "idle") ~> (rpc[r] = "idle")

=============================================================================
