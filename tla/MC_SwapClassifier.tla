------------------------- MODULE MC_SwapClassifier -------------------------
(***************************************************************************)
(* Checks the classifier on call data of lengths 0, 3, 4 and 68 whose      *)
(* first bytes are a known swap selector, ERC-20 transfer (0xa9059cbb) or  *)
(* zeros.                                                                  *)
(***************************************************************************)
EXTENDS SwapClassifier

Prefixes == {<<56, 237, 23, 57>>, <<192, 75, 141, 89>>, <<169, 5, 156, 187>>, <<0, 0, 0, 0>>}

\* Call data of length len holds the first len bytes of its prefix.
Inputs == {[bytes |-> SubSeq(b, 1, IF l < 4 THEN l ELSE 4), len |-> l] :
              b \in Prefixes, l \in {0, 3, 4, 68}}

VARIABLE input

Init == input \in Inputs

Next == UNCHANGED input

Spec == Init /\ [][Next]_input

\* Spec 4.3 enhanced mode: a transaction is classified as a swap exactly
\* when the first 4 bytes of its call data are one of the configured swap
\* selectors.
SwapIffKnownSelector ==
    Classify(input).is_swap <=> (input.len >= 4 /\ Selector(input) \in KnownSwapSelectors)

=============================================================================
