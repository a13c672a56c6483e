--------------------------- MODULE MC_MTDetector ---------------------------
(***************************************************************************)
(* Model values for MTDetector: three transactions: a swap with three    *)
(* paths (profitable, unprofitable, profitable), a non-swap, and a swap    *)
(* with one profitable path.                                               *)
(***************************************************************************)
EXTENDS MTDetector

MCIsSwap(t) == t # 2

MCOppsOf(t) == CASE t = 1 -> <<TRUE, FALSE, TRUE>>
                 [] t = 2 -> <<>>
                 [] t = 3 -> <<TRUE>>

=============================================================================
