------------------------- MODULE MC_MempoolIngestor -------------------------
(***************************************************************************)
(* Frame kinds for MempoolIngestor: hash notifications, Text without a     *)
(* hash (the subscription reply), pings and stream errors.                 *)
(***************************************************************************)
EXTENDS MempoolIngestor

MCFrameKinds == {"hash", "text", "ping", "error"}

=============================================================================
