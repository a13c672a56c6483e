----------------------------- MODULE MTDetector -----------------------------
(***************************************************************************)
(* MultiThreadedDetector::start / stop (detector/multi_threaded.rs): one   *)
(* dispatcher thread and NumWorkers worker threads per call of start,      *)
(* sharing the global running flag.  The dispatcher moves transactions     *)
(* from the caller's input channel into a bounded work channel of          *)
(* capacity Cap; the workers try_recv batches of up to BatchSize from it   *)
(* and run the path search on each swap, numbering the opportunities from  *)
(* a per-thread counter seeded with worker_id * IdStride (10^6 in the      *)
(* code).  Every call of start spawns a fresh generation of threads with   *)
(* its own work channel; a thread of an earlier generation keeps running   *)
(* for as long as it finds running = TRUE at its loop check.               *)
(*                                                                         *)
(* The path search is abstracted to its result: OppsOf(t) is the sequence  *)
(* of opportunities find_arbitrage_paths returns for t, each one TRUE if   *)
(* its net profit reaches min_profit_wei.  IsSwap(t) is tx.is_swap.        *)
(***************************************************************************)
EXTENDS Naturals, Sequences, SequencesExt, FiniteSets

CONSTANTS
    NumWorkers,     \* config.num_workers
    BatchSize,      \* config.batch_size
    Cap,            \* capacity of bounded::<MempoolTx>(10_000)
    IdStride,       \* the 1_000_000 of worker_id * 1_000_000
    MaxStarts,      \* bound on the calls of start
    NTx,            \* transactions the caller sends
    IsSwap(_),
    OppsOf(_)

VARIABLES
    running,        \* the AtomicBool shared by all threads
    starts,         \* calls of start so far
    next,           \* the next transaction the caller will send
    inq,            \* tx_receiver's channel
    work,           \* work[g]: the work channel of generation g
    disp,           \* disp[g]: the dispatcher thread of generation g
    wk,             \* wk[<<g, w>>]: worker w of generation g
    out,            \* the opportunities sent on opp_sender, in order
    stats,          \* DetectorStats
    handled         \* ghost: transactions some worker has processed

vars == <<running, starts, next, inq, work, disp, wk, out, stats, handled>>

TxIds == 1 .. NTx
Gens == 1 .. MaxStarts
Workers == 0 .. NumWorkers - 1
Threads == Gens \X Workers

Init ==
    /\ running = FALSE
    /\ starts = 0
    /\ next = 1
    /\ inq = <<>>
    /\ work = [g \in Gens |-> <<>>]
    /\ disp = [g \in Gens |-> [pc |-> "none", hand |-> 0]]
    /\ wk = [th \in Threads |-> [pc |-> "none", batch |-> <<>>, i |-> 1, opp_id |-> 0]]
    /\ out = <<>>
    /\ stats = [txs_processed |-> 0, opportunities_found |-> 0, profitable_count |-> 0]
    /\ handled = {}

\* The caller sends the next transaction on the input channel.
Arrive ==
    /\ next <= NTx
    /\ inq' = Append(inq, next)
    /\ next' = next + 1
    /\ UNCHANGED <<running, starts, work, disp, wk, out, stats, handled>>

\* start: set running, create the work channel, spawn the dispatcher and
\* the workers; each worker seeds opp_id with worker_id * IdStride.
Start ==
    /\ starts < MaxStarts
    /\ LET g == starts + 1 IN
       /\ starts' = g
       /\ running' = TRUE
       /\ disp' = [disp EXCEPT ![g] = [pc |-> "loop", hand |-> 0]]
       /\ wk' = [th \in Threads |->
                   IF th[1] = g
                   THEN [pc |-> "loop", batch |-> <<>>, i |-> 1, opp_id |-> th[2] * IdStride]
                   ELSE wk[th]]
    /\ UNCHANGED <<next, inq, work, out, stats, handled>>

\* stop: clear running; the threads notice at their next loop check.
Stop ==
    /\ running
    /\ running' = FALSE
    /\ UNCHANGED <<starts, next, inq, work, disp, wk, out, stats, handled>>

-----------------------------------------------------------------------------
(* The dispatcher: while running { match recv_timeout(10ms) { Ok(tx) =>     *)
(* { txs_processed += 1; work_tx.send(tx).ok() } Err(_) => continue } }     *)

\* All receivers of generation g's work channel are dropped once every one
\* of its workers has exited.
Disconnected(g) == \A w \in Workers : wk[<<g, w>>].pc = "exit"

SetPc(g, pc) == disp' = [disp EXCEPT ![g].pc = pc]

DispatcherLoop(g) ==
    /\ disp[g].pc = "loop"
    /\ SetPc(g, IF running THEN "recv" ELSE "exit")
    /\ UNCHANGED <<running, starts, next, inq, work, wk, out, stats, handled>>

DispatcherRecv(g) ==
    /\ disp[g].pc = "recv"
    /\ inq # <<>>
    /\ disp' = [disp EXCEPT ![g] = [pc |-> "send", hand |-> Head(inq)]]
    /\ inq' = Tail(inq)
    /\ stats' = [stats EXCEPT !.txs_processed = @ + 1]
    /\ UNCHANGED <<running, starts, next, work, wk, out, handled>>

DispatcherTimeoutExits(g) ==
    /\ disp[g].pc = "recv"
    /\ inq = <<>>
    /\ SetPc(g, "exit")
    /\ UNCHANGED <<running, starts, next, inq, work, wk, out, stats, handled>>

\* recv_timeout expires on an empty channel: continue.
DispatcherTimeout(g) ==
    /\ disp[g].pc = "recv"
    /\ inq = <<>>
    /\ SetPc(g, "loop")
    /\ UNCHANGED <<running, starts, next, inq, work, wk, out, stats, handled>>

\* send blocks while the channel is full and some receiver is alive.
DispatcherSend(g) ==
    /\ disp[g].pc = "send"
    /\ ~Disconnected(g)
    /\ Len(work[g]) < Cap
    /\ work' = [work EXCEPT ![g] = Append(@, disp[g].hand)]
    /\ SetPc(g, "loop")
    /\ UNCHANGED <<running, starts, next, inq, wk, out, stats, handled>>

DispatcherSendBlocks(g) == FALSE

\* send on a disconnected channel fails and .ok() discards the transaction.
DispatcherSendFail(g) ==
    /\ disp[g].pc = "send"
    /\ Disconnected(g)
    /\ SetPc(g, "loop")
    /\ UNCHANGED <<running, starts, next, inq, work, wk, out, stats, handled>>

Dispatcher(g) ==
    \/ DispatcherLoop(g) \/ DispatcherRecv(g) \/ DispatcherTimeout(g)
    \/ DispatcherSend(g) \/ DispatcherSendFail(g)

-----------------------------------------------------------------------------
(* A worker: while running { batch.clear(); try_recv up to batch_size;     *)
(* if empty { sleep; continue } for tx in batch { ... } }                  *)

SetWk(th, f) == wk' = [wk EXCEPT ![th] = f]

\* A worker whose counter is declared inside the loop, reseeded each round.
WorkerLoopResetId(th) ==
    /\ wk[th].pc = "loop"
    /\ SetWk(th, IF running
                 THEN [wk[th] EXCEPT !.pc = "collect", !.batch = <<>>,
                                     !.opp_id = th[2] * IdStride]
                 ELSE [wk[th] EXCEPT !.pc = "exit"])
    /\ UNCHANGED <<running, starts, next, inq, work, disp, out, stats, handled>>

WorkerLoop(th) ==
    /\ wk[th].pc = "loop"
    /\ SetWk(th, IF running THEN [wk[th] EXCEPT !.pc = "collect", !.batch = <<>>]
                            ELSE [wk[th] EXCEPT !.pc = "exit"])
    /\ UNCHANGED <<running, starts, next, inq, work, disp, out, stats, handled>>

WorkerTakeNoLimit(th) ==
    /\ wk[th].pc = "collect"
    /\ work[th[1]] # <<>>
    /\ SetWk(th, [wk[th] EXCEPT !.batch = Append(@, Head(work[th[1]]))])
    /\ work' = [work EXCEPT ![th[1]] = Tail(@)]
    /\ UNCHANGED <<running, starts, next, inq, disp, out, stats, handled>>

\* try_recv succeeds while the batch has room.
WorkerTake(th) ==
    /\ wk[th].pc = "collect"
    /\ Len(wk[th].batch) < BatchSize
    /\ work[th[1]] # <<>>
    /\ SetWk(th, [wk[th] EXCEPT !.batch = Append(@, Head(work[th[1]]))])
    /\ work' = [work EXCEPT ![th[1]] = Tail(@)]
    /\ UNCHANGED <<running, starts, next, inq, disp, out, stats, handled>>

\* The batch is full or try_recv failed: sleep and loop if the batch is
\* empty, otherwise process it.
WorkerCollectDone(th) ==
    /\ wk[th].pc = "collect"
    /\ Len(wk[th].batch) >= BatchSize \/ work[th[1]] = <<>>
    /\ SetWk(th, IF wk[th].batch = <<>> THEN [wk[th] EXCEPT !.pc = "loop"]
                                        ELSE [wk[th] EXCEPT !.pc = "process", !.i = 1])
    /\ UNCHANGED <<running, starts, next, inq, work, disp, out, stats, handled>>

\* The opportunities of a swap, numbered from opp_id; only those reaching
\* min_profit_wei are sent.
Numbered(t, th, base) ==
    [j \in DOMAIN OppsOf(t) |-> [id |-> base + j - 1, trigger |-> t, th |-> th]]

Sent(t, th, base) ==
    SelectSeq(Numbered(t, th, base), LAMBDA o : OppsOf(t)[o.id - base + 1])

\* One transaction of the batch: a non-swap is skipped; for a swap every
\* opportunity takes an id, the profitable ones are sent, and
\* opportunities_found counts the transaction.
WorkerProcess(th) ==
    /\ wk[th].pc = "process"
    /\ LET t == wk[th].batch[wk[th].i]
           n == Len(OppsOf(t))
           s == Sent(t, th, wk[th].opp_id)
           last == wk[th].i = Len(wk[th].batch)
       IN /\ SetWk(th, [wk[th] EXCEPT !.pc = IF last THEN "loop" ELSE "process",
                                      !.i = @ + 1,
                                      !.opp_id = IF IsSwap(t) THEN @ + n ELSE @])
          /\ out' = IF IsSwap(t) THEN out \o s ELSE out
          /\ stats' = IF IsSwap(t)
                      THEN [stats EXCEPT !.opportunities_found = @ + 1,
                                         !.profitable_count = @ + Len(s)]
                      ELSE stats
          /\ handled' = handled \cup {t}
    /\ UNCHANGED <<running, starts, next, inq, work, disp>>

Worker(th) ==
    WorkerLoop(th) \/ WorkerTake(th) \/ WorkerCollectDone(th) \/ WorkerProcess(th)

Next ==
    \/ Arrive \/ Start \/ Stop
    \/ \E g \in Gens : Dispatcher(g)
    \/ \E th \in Threads : Worker(th)

Spec == Init /\ [][Next]_vars

\* Threads are OS threads: each one that can step eventually does.
FairSpec ==
    /\ Spec
    /\ \A g \in Gens : WF_vars(Dispatcher(g))
    /\ \A th \in Threads : WF_vars(Worker(th))

-----------------------------------------------------------------------------
(* Properties.                                                             *)

ThreadPcs == {"none", "loop", "recv", "send", "collect", "process", "exit"}

\* Types, and a worker's batch never exceeds batch_size (the bound of the
\* try_recv loop).
TypeOK ==
    /\ running \in BOOLEAN /\ starts \in 0 .. MaxStarts /\ next \in 1 .. NTx + 1
    /\ \A g \in Gens : Len(work[g]) <= Cap /\ disp[g].pc \in ThreadPcs
    /\ \A th \in Threads : /\ wk[th].pc \in ThreadPcs
                           /\ Len(wk[th].batch) <= BatchSize
    /\ handled \subseteq TxIds

\* Spec 5: within a single worker, opportunity ids are strictly
\* increasing, in the order the worker sends them on opp_sender.
IdsMonotonePerWorker ==
    \A i, j \in DOMAIN out :
        (i < j /\ out[i].th = out[j].th) => out[i].id < out[j].id

\* Spec 4.4: workers have disjoint id ranges, so no two opportunities the
\* detector sends carry the same id.
UniqueIds ==
    \A i, j \in DOMAIN out : i # j => out[i].id # out[j].id

\* While the detector runs, every transaction sent on the input channel is
\* eventually processed by a worker (the dispatcher keeps polling, the
\* workers keep draining the work channel).
InputEventuallyProcessed ==
    \A t \in TxIds : (t \in Range(inq)) ~> (t \in handled \/ ~running)

Quiet ==
    /\ \A g \in Gens : disp[g].pc \in {"none", "exit"}
    /\ \A th \in Threads : wk[th].pc \in {"none", "exit"}

\* Spec 5: after stop, every loop notices the flag and every thread of
\* the detector exits, including a dispatcher blocked on a full channel.
ShutdownCompletes == <>[](~running) => <>[]Quiet

=============================================================================
