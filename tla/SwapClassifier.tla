--------------------------- MODULE SwapClassifier ---------------------------
(***************************************************************************)
(* The enhanced monitor's classifier (mempool/ultra_ws.rs):                *)
(* is_likely_swap on a transaction's call data, parse_swap_fast, and the   *)
(* classification start_enhanced attaches to each MempoolTx.  Call data    *)
(* is abstracted to its first (at most 4) bytes and its length.            *)
(***************************************************************************)
EXTENDS Naturals, Sequences

\* The selectors matched in is_likely_swap, byte by byte: the three V2
\* router swaps, the three V3 router swaps and two Universal Router
\* execute variants.
KnownSwapSelectors ==
    { <<56, 237, 23, 57>>,      \* 0x38ed1739 swapExactTokensForTokens
      <<127, 243, 106, 181>>,   \* 0x7ff36ab5 swapExactETHForTokens
      <<24, 203, 175, 229>>,    \* 0x18cbafe5 swapExactTokensForETH
      <<192, 75, 141, 89>>,     \* 0xc04b8d59 exactInputSingle
      <<184, 88, 24, 63>>,      \* 0xb858183f exactInput
      <<65, 75, 243, 137>>,     \* 0x414bf389 exactOutputSingle
      <<54, 147, 216, 164>>,    \* 0x3693d8a4 execute
      <<36, 133, 107, 195>> }   \* 0x24856bc3 execute with deadline

Selector(input) == SubSeq(input.bytes, 1, 4)

\* is_likely_swap: call data shorter than 4 bytes is not a swap; otherwise
\* a known selector, or any selector whose first byte is not 0x00.
IsLikelySwap(input) ==
    /\ input.len >= 4
    /\ Selector(input) \in KnownSwapSelectors \/ input.bytes[1] # 0

NoHint == [none |-> TRUE]

\* parse_swap_fast: None below 68 bytes, otherwise a SwapInfo whose
\* addresses and amounts are all zero (0 stands for Address::zero()).
ParseSwapFast(input) ==
    IF input.len < 68
    THEN NoHint
    ELSE [token_in |-> 0, token_out |-> 0, amount_in |-> 0, min_amount_out |-> 0,
          pool_address |-> 0]

\* start_enhanced: is_swap and swap_info of the MempoolTx it sends.
Classify(input) ==
    [is_swap |-> IsLikelySwap(input),
     swap_info |-> IF IsLikelySwap(input) THEN ParseSwapFast(input) ELSE NoHint]

=============================================================================
