------------------------------ MODULE Pipeline ------------------------------
(***************************************************************************)
(* The engine binary (main.rs) composed with the mempool ingestor.  main   *)
(* creates an unbounded channel, spawns MempoolMonitor::start on its       *)
(* sending half and a task that awaits ctrl_c and then calls               *)
(* MevEngine::stop, and loops on a select! between the receiving half and *)
(* a fresh ctrl_c() future; the ctrl_c branch breaks and main returns,     *)
(* which ends the runtime and with it every task.                          *)
(*                                                                         *)
(* The channel is the suffix of the ingestor's `sent` past `consumed`.     *)
(* ctrl_c() registers its listener when it is first polled and only sees  *)
(* signals delivered after that; until some ctrl_c() has been polled the   *)
(* OS default action applies and a SIGINT kills the process.  select!     *)
(* polls its branches in random order, so a ready recv() may complete     *)
(* before the ctrl_c() future is ever polled.                              *)
(***************************************************************************)
EXTENDS Naturals, Sequences

CONSTANTS
    BatchSize, MaxFrames, FrameKinds, RpcCanFail,   \* as in MempoolIngestor
    MaxSignals      \* bound on the SIGINTs the user sends

VARIABLES
    running, pc, result, wire, closed, frames, clock, pending, sent, recvd, stats,
    mpc,            \* main: "init" (set-up before the tasks are spawned),
                    \* "top" (a new select!), "wait" (select! pending,
                    \* ctrl_c listener registered), "exit" (main returned),
                    \* "killed" (SIGINT before any handler was installed)
    consumed,       \* messages main has taken off tx_receiver
    mainSig,        \* main's current ctrl_c() listener has seen a signal
    hpc,            \* the shutdown task: "spawned", "wait", "done"
    hsig,           \* its ctrl_c() listener has seen a signal
    installed,      \* tokio's SIGINT handler is installed
    engineRunning,  \* MevEngine.running
    sigs            \* SIGINTs sent so far

MI == INSTANCE MempoolIngestor

ingVars == <<running, pc, result, wire, closed, frames, clock, pending, sent, recvd, stats>>
mainVars == <<mpc, consumed, mainSig, hpc, hsig, installed, engineRunning, sigs>>
vars == <<ingVars, mainVars>>

Init ==
    /\ MI!Init
    /\ mpc = "init"
    /\ consumed = 0
    /\ mainSig = FALSE
    /\ hpc = "spawned"
    /\ hsig = FALSE
    /\ installed = FALSE
    /\ engineRunning = FALSE
    /\ sigs = 0

\* The spawned tasks run from the end of main's set-up until main returns
\* (which ends the runtime) or the process is killed.
Alive == mpc \in {"top", "wait"}

\* A SIGINT can arrive from the moment the process exists.
Running == mpc \in {"init", "top", "wait"}

-----------------------------------------------------------------------------
(* The spawned monitor task runs MempoolMonitor::start (hash-only mode);   *)
(* nothing holds the monitor to call stop on it.                           *)

MonitorStep ==
    /\ Alive
    /\ \/ MI!Start \/ MI!Connect \/ MI!LoopCheck
       \/ MI!RecvHash \/ MI!RecvText \/ MI!RecvPing \/ MI!RecvError \/ MI!Timer
    /\ UNCHANGED mainVars

Endpoint ==
    /\ Alive
    /\ MI!Deliver \/ MI!Close
    /\ UNCHANGED mainVars

\* A SIGINT: fatal while no handler is installed, otherwise broadcast to
\* the listeners registered at this moment.
Signal ==
    /\ Running /\ sigs < MaxSignals
    /\ sigs' = sigs + 1
    /\ IF installed
       THEN /\ mainSig' = (mainSig \/ mpc = "wait")
            /\ hsig' = (hsig \/ hpc = "wait")
            /\ UNCHANGED mpc
       ELSE /\ mpc' = "killed"
            /\ UNCHANGED <<mainSig, hsig>>
    /\ UNCHANGED <<ingVars, consumed, hpc, installed, engineRunning>>

-----------------------------------------------------------------------------
(* The shutdown task and MevEngine::stop.                                  *)

\* The task's first poll of ctrl_c() installs the handler and registers.
HandlerPoll ==
    /\ Alive /\ hpc = "spawned"
    /\ hpc' = "wait" /\ installed' = TRUE
    /\ UNCHANGED <<ingVars, mpc, consumed, mainSig, hsig, engineRunning, sigs>>

\* MevEngine::stop: running = false, then the detector's, simulator's and
\* builder's stop, each of which only logs and returns Ok.
EngineStop == engineRunning' = FALSE

HandlerStop ==
    /\ Alive /\ hpc = "wait" /\ hsig
    /\ EngineStop
    /\ hpc' = "done"
    /\ UNCHANGED <<ingVars, mpc, consumed, mainSig, hsig, installed, sigs>>

-----------------------------------------------------------------------------
(* main's set-up and loop.                                                 *)

\* Before the loop: the logger, `benchmark` mode (run the benchmarks and
\* return), Config::from_env()? and the chain-42161 lookup, whose expect
\* panics; then the monitor, the unused detector and the engine are
\* built and the two tasks spawned.  A return or a panic ends main.
Startup ==
    /\ mpc = "init"
    /\ \E outcome \in {"benchmark", "config_err", "no_chain", "ok"} :
          mpc' = IF outcome = "ok" THEN "top" ELSE "exit"
    /\ UNCHANGED <<ingVars, consumed, mainSig, hpc, hsig, installed,
                   engineRunning, sigs>>

\* Some(tx) = tx_receiver.recv(): tx_count += 1 and the is_swap check only
\* log; the loop goes round to a new select!.
TakeTx ==
    /\ consumed < Len(sent)
    /\ consumed' = consumed + 1
    /\ mpc' = "top"
    /\ mainSig' = FALSE

\* A new select!: if a message is already queued, recv() may be polled
\* first and win (ctrl_c() then is never polled, or was polled and is
\* dropped); otherwise ctrl_c() is polled, installs the handler and
\* registers, and main waits.
MainTop ==
    /\ mpc = "top"
    /\ \/ /\ TakeTx
          /\ \E ctrlFirst \in BOOLEAN : installed' = (installed \/ ctrlFirst)
       \/ /\ consumed = Len(sent)
          /\ mpc' = "wait" /\ mainSig' = FALSE /\ installed' = TRUE
          /\ UNCHANGED consumed
    /\ UNCHANGED <<ingVars, hpc, hsig, engineRunning, sigs>>

\* Woken in select!: a queued message completes recv() (a signal seen at
\* the same moment is dropped with the ctrl_c() future), or the signal
\* completes ctrl_c() and main breaks.  When the monitor has returned the
\* channel is closed, recv() yields None and only ctrl_c() can complete.
MainWait ==
    /\ mpc = "wait"
    /\ \/ TakeTx /\ UNCHANGED installed
       \/ mainSig /\ mpc' = "exit" /\ UNCHANGED <<consumed, mainSig, installed>>
    /\ UNCHANGED <<ingVars, hpc, hsig, engineRunning, sigs>>

Main == Startup \/ MainTop \/ MainWait

Next == MonitorStep \/ Endpoint \/ Signal \/ HandlerPoll \/ HandlerStop \/ Main

Spec == Init /\ [][Next]_vars

\* Every task is polled whenever it is ready (tokio's multi-threaded
\* scheduler); the endpoint and the user are not obliged to act.
FairSpec ==
    /\ Spec
    /\ WF_vars(MonitorStep /\ pc # "idle") /\ WF_vars(MonitorStep /\ pc = "idle")
    /\ WF_vars(HandlerPoll) /\ WF_vars(HandlerStop) /\ WF_vars(Main)

-----------------------------------------------------------------------------
(* Properties.                                                             *)

\* Spec 5: a single global stop flag is set by the OS signal handler and
\* every loop checks it, so a ctrl-c shuts the engine down: once a SIGINT
\* has been sent, main eventually returns (or the process is killed).
SignalStopsMain == (sigs > 0) ~> (mpc \in {"exit", "killed"})

=============================================================================
