--------------------------- MODULE MempoolIngestor ---------------------------
(***************************************************************************)
(* MempoolMonitor::start (mempool/ultra_ws.rs), hash-only mode: connect,   *)
(* subscribe, then a loop that checks running and selects between the     *)
(* next WebSocket frame and a 100 us sleep.  A Text frame carrying a hash  *)
(* is pushed on pending_hashes, and a full batch is sent at once; the      *)
(* sleep branch sends a partial batch.  Each MempoolTx carries the time    *)
(* stamp taken when the batch was sent.                                    *)
(*                                                                         *)
(* The endpoint is the environment: it puts frames on the wire (at most    *)
(* MaxFrames), may end the stream, and a connect or a send may fail.  A    *)
(* frame is its kind: "hash" (Text with a "result":"0x... hash), "text"    *)
(* (Text without one), "ping" (or Binary: no state change), "error" (an   *)
(* Err from the stream).  The n-th hash frame carries hash n.  Time is a   *)
(* clock that advances at every frame received and every flush.           *)
(*                                                                         *)
(* EnhancedMempoolMonitor::start_enhanced is the same task in its other   *)
(* mode (pcs prefixed "e"): it awaits each frame, sends a MempoolTx at     *)
(* once for a Text carrying a transaction, and ignores everything else,    *)
(* errors and the end of the stream included.                              *)
(***************************************************************************)
EXTENDS Naturals, Sequences, SequencesExt

CONSTANTS
    BatchSize,      \* config.batch_size
    MaxFrames,      \* bound on the frames the endpoint sends
    FrameKinds,     \* subset of {"hash", "text", "ping", "error"}
    RpcCanFail      \* whether connect_async and the subscribe send may fail

VARIABLES
    running,        \* the AtomicBool
    pc,             \* "idle", "connect", "subscribe", "loop", "select", "done",
                    \* and "econnect", "esubscribe", "eloop", "enext"
    result,         \* what start returned: "none", "ok" or "err"
    wire,           \* frames sent by the endpoint and not yet read
    closed,         \* the endpoint ended the stream
    frames,         \* frames the endpoint has sent
    clock,          \* rdtsc
    pending,        \* pending_hashes: [h, rcv] with rcv the receipt time
    sent,           \* MempoolTx records sent on tx_sender: [h, seen, rcv]
    recvd,          \* ghost: the hashes received, in order
    stats           \* MempoolStats

vars == <<running, pc, result, wire, closed, frames, clock, pending, sent, recvd, stats>>

Init ==
    /\ running = FALSE
    /\ pc = "idle"
    /\ result = "none"
    /\ wire = <<>>
    /\ closed = FALSE
    /\ frames = 0
    /\ clock = 0
    /\ pending = <<>>
    /\ sent = <<>>
    /\ recvd = <<>>
    /\ stats = [txs_received |-> 0, txs_parsed |-> 0]

-----------------------------------------------------------------------------
(* The endpoint.                                                           *)

Deliver ==
    /\ frames < MaxFrames /\ ~closed
    /\ \E k \in FrameKinds : wire' = Append(wire, k)
    /\ frames' = frames + 1
    /\ UNCHANGED <<running, pc, result, closed, clock, pending, sent, recvd, stats>>

\* The stream ends: read.next() yields None once the wire is drained.
Close ==
    /\ ~closed
    /\ closed' = TRUE
    /\ UNCHANGED <<running, pc, result, wire, frames, clock, pending, sent, recvd, stats>>

\* stop(): clear running.
Stop ==
    /\ running
    /\ running' = FALSE
    /\ UNCHANGED <<pc, result, wire, closed, frames, clock, pending, sent, recvd, stats>>

-----------------------------------------------------------------------------
(* start.                                                                  *)

Unchanged == UNCHANGED <<wire, closed, frames, clock, pending, sent, recvd, stats>>

Start ==
    /\ pc = "idle"
    /\ running' = TRUE
    /\ pc' = "connect"
    /\ UNCHANGED result /\ Unchanged

StartEnhanced ==
    /\ pc = "idle"
    /\ running' = TRUE
    /\ pc' = "econnect"
    /\ UNCHANGED result /\ Unchanged

AfterConnect == [connect |-> "subscribe", subscribe |-> "loop",
                 econnect |-> "esubscribe", esubscribe |-> "eloop"]

\* connect_async(..).await? and write.send(subscribe).await?: an Err
\* returns from start (from start_enhanced in the "e" pcs).
Connect ==
    /\ pc \in DOMAIN AfterConnect
    /\ \/ /\ pc' = AfterConnect[pc]
          /\ UNCHANGED result
       \/ RpcCanFail /\ pc' = "done" /\ result' = "err"
    /\ UNCHANGED running /\ Unchanged

\* while self.running.load(..): the loop ends with Ok(()).
LoopCheck ==
    /\ pc = "loop"
    /\ IF running THEN pc' = "select" /\ UNCHANGED result
                  ELSE pc' = "done" /\ result' = "ok"
    /\ UNCHANGED running /\ Unchanged

\* process_batch: every hash becomes a MempoolTx stamped with tsc.
Stamp(p, tsc) == [i \in DOMAIN p |-> [h |-> p[i].h, seen |-> tsc, rcv |-> p[i].rcv]]

\* The off-by-one flush condition `> batch_size`.
FullOver(p) == Len(p) > BatchSize

\* pending_hashes.len() >= batch_size.
Full(p) == Len(p) >= BatchSize

\* The select's read branch takes the next frame off the wire; the clock
\* is read at receipt (receive_tsc).
Read(kind) ==
    /\ pc = "select"
    /\ wire # <<>> /\ Head(wire) = kind
    /\ wire' = Tail(wire)
    /\ clock' = clock + 1

\* Ok(Text) with a hash: push it; a full batch is sent, stamped with this
\* frame's receive_tsc, and cleared.
RecvHash ==
    /\ Read("hash")
    /\ LET p == Append(pending, [h |-> Len(recvd) + 1, rcv |-> clock + 1]) IN
       /\ recvd' = Append(recvd, Len(recvd) + 1)
       /\ stats' = [stats EXCEPT !.txs_received = @ + 1,
                                 !.txs_parsed = IF Full(p) THEN @ + Len(p) ELSE @]
       /\ IF Full(p) THEN sent' = sent \o Stamp(p, clock + 1) /\ pending' = <<>>
                     ELSE pending' = p /\ UNCHANGED sent
    /\ pc' = "loop"
    /\ UNCHANGED <<running, result, closed, frames>>

\* Ok(Text) in which extract_tx_hash_fast finds no hash.
RecvText ==
    /\ Read("text")
    /\ stats' = [stats EXCEPT !.txs_received = @ + 1]
    /\ pc' = "loop"
    /\ UNCHANGED <<running, result, closed, frames, pending, sent, recvd>>

\* Ok(Ping): answered with a Pong whose error is ignored; Ok(Binary) and
\* the other frames only log.
RecvPing ==
    /\ Read("ping")
    /\ pc' = "loop"
    /\ UNCHANGED <<running, result, closed, frames, pending, sent, recvd, stats>>

\* Err(e) => break: start returns Ok(()), pending_hashes are dropped.
RecvError ==
    /\ Read("error")
    /\ pc' = "done" /\ result' = "ok"
    /\ UNCHANGED <<running, closed, frames, pending, sent, recvd, stats>>

\* A timer branch that flushes only a full batch.
TimerFullOnly ==
    /\ pc = "select"
    /\ wire = <<>>
    /\ IF Full(pending)
       THEN /\ clock' = clock + 1
            /\ sent' = sent \o Stamp(pending, clock + 1)
            /\ pending' = <<>>
            /\ stats' = [stats EXCEPT !.txs_parsed = @ + Len(pending)]
       ELSE UNCHANGED <<clock, sent, pending, stats>>
    /\ pc' = "loop"
    /\ UNCHANGED <<running, result, wire, closed, frames, recvd>>

\* A timer branch that sends the batch but does not clear it.
TimerNoClear ==
    /\ pc = "select"
    /\ wire = <<>>
    /\ IF pending # <<>>
       THEN /\ clock' = clock + 1
            /\ sent' = sent \o Stamp(pending, clock + 1)
            /\ stats' = [stats EXCEPT !.txs_parsed = @ + Len(pending)]
       ELSE UNCHANGED <<clock, sent, stats>>
    /\ pc' = "loop"
    /\ UNCHANGED <<running, result, wire, closed, frames, recvd, pending>>

\* The sleep branch: no frame arrives within 100 us (or the stream has
\* ended, so read.next() yields None and its branch is disabled).  A
\* non-empty batch is sent, stamped with the current tsc, and cleared.
Timer ==
    /\ pc = "select"
    /\ wire = <<>>
    /\ IF pending # <<>>
       THEN /\ clock' = clock + 1
            /\ sent' = sent \o Stamp(pending, clock + 1)
            /\ pending' = <<>>
            /\ stats' = [stats EXCEPT !.txs_parsed = @ + Len(pending)]
       ELSE UNCHANGED <<clock, sent, pending, stats>>
    /\ pc' = "loop"
    /\ UNCHANGED <<running, result, wire, closed, frames, recvd>>

-----------------------------------------------------------------------------
(* start_enhanced: while running { if let Some(Ok(Text(text))) =           *)
(* read.next().await { parse; classify; tx_sender.send(..).ok() } }        *)

ELoopCheck ==
    /\ pc = "eloop"
    /\ IF running THEN pc' = "enext" /\ UNCHANGED result
                  ELSE pc' = "done" /\ result' = "ok"
    /\ UNCHANGED running /\ Unchanged

\* A Text frame whose params.result parses as a Transaction: it is sent at
\* once, stamped with the time of its receipt.
ERecvTx ==
    /\ pc = "enext"
    /\ wire # <<>> /\ Head(wire) = "hash"
    /\ wire' = Tail(wire)
    /\ clock' = clock + 1
    /\ recvd' = Append(recvd, Len(recvd) + 1)
    /\ sent' = Append(sent, [h |-> Len(recvd) + 1, seen |-> clock + 1, rcv |-> clock + 1])
    /\ pc' = "eloop"
    /\ UNCHANGED <<running, result, closed, frames, pending, stats>>

\* Any other frame (Text that does not parse, Ping, Binary, Err) fails
\* the if-let and is dropped.
ERecvOther ==
    /\ pc = "enext"
    /\ wire # <<>> /\ Head(wire) # "hash"
    /\ wire' = Tail(wire)
    /\ pc' = "eloop"
    /\ UNCHANGED <<running, result, closed, frames, clock, pending, sent, recvd, stats>>

\* The stream has ended: read.next() returns None at once, and the loop
\* goes round again.
EStreamEnded ==
    /\ pc = "enext"
    /\ wire = <<>> /\ closed
    /\ pc' = "eloop"
    /\ UNCHANGED result /\ UNCHANGED running /\ Unchanged

Monitor ==
    \/ Start \/ StartEnhanced \/ Connect \/ LoopCheck \/ ELoopCheck
    \/ RecvHash \/ RecvText \/ RecvPing \/ RecvError \/ Timer
    \/ ERecvTx \/ ERecvOther \/ EStreamEnded

Next == Monitor \/ Deliver \/ Close \/ Stop

Spec == Init /\ [][Next]_vars

\* The monitor is one tokio task: once started, it keeps being polled.
\* Start is the caller's decision and is left out of the fairness.
FairSpec == Spec /\ WF_vars(Monitor /\ pc # "idle")

-----------------------------------------------------------------------------
(* Properties.                                                             *)

Hashes(s) == [i \in DOMAIN s |-> s[i].h]

\* Types; pending_hashes stays below batch_size between frames (a full
\* batch is sent at once).
TypeOK ==
    /\ running \in BOOLEAN /\ result \in {"none", "ok", "err"}
    /\ frames \in 0 .. MaxFrames /\ closed \in BOOLEAN
    /\ Len(pending) < BatchSize
    /\ \A i \in DOMAIN sent : sent[i].rcv <= sent[i].seen

\* Every hash received is sent exactly once and in the order received,
\* apart from those still pending; in hash-only mode (the one that keeps
\* stats) txs_parsed counts what was sent.
HashesForwardedInOrder ==
    /\ Hashes(sent) \o Hashes(pending) = recvd
    /\ stats.txs_received > 0 => stats.txs_parsed = Len(sent)

\* Spec 4.3 batching: a received hash is sent within the batch or by the
\* timer, unless the monitor stops or has returned.
ReceivedEventuallyForwarded ==
    \A n \in 1 .. MaxFrames :
        (n \in Range(recvd)) ~> (n \in Range(Hashes(sent)) \/ ~running \/ pc = "done")

\* Spec 4.3 reconnection: the ingestor never exits on a transient error;
\* only an explicit stop ends it.
ExitsOnlyOnStop == pc = "done" => ~running

=============================================================================
