----------------------------- MODULE MC_Pipeline -----------------------------
(***************************************************************************)
(* The engine binary with its ingestor: every frame kind, two frames, one  *)
(* SIGINT.                                                                 *)
(***************************************************************************)
EXTENDS Pipeline

MCFrameKinds == {"hash", "text", "ping", "error"}

=============================================================================
