---------------------------- MODULE AtomicPoolMap ----------------------------
(***************************************************************************)
(* What the pool index of the multi-threaded detector promises (spec 3,   *)
(* 4.1, 5): a table from pool address to a whole (reserve0, reserve1)      *)
(* record, replaced in one step by a load or an update of a pool it holds, *)
(* a per-token list of addresses that only grows, and searches that        *)
(* evaluate a pair of held pools from the records the table holds at that *)
(* moment.  Nothing here has locks, guards or a second store of an update; *)
(* DetectorPoolMap implements this specification.                          *)
(***************************************************************************)
EXTENDS Sequences

CONSTANTS Tokens, Pools, Tok0, Tok1, Reserves, Readers, Absent

VARIABLES
    index,  \* token -> the addresses listed under it, in order
    table,  \* address -> [r0, r1] or Absent
    found   \* reader -> the pairs its current search has evaluated

avars == <<index, table, found>>

Reserve == [r0 : Reserves, r1 : Reserves]

Init ==
    /\ index = [t \in Tokens |-> <<>>]
    /\ table = [a \in Pools |-> Absent]
    /\ found = [r \in Readers |-> {}]

\* A pool is listed, once more, under one of its own tokens.
IndexPool(a, t) ==
    /\ t \in {Tok0[a], Tok1[a]}
    /\ index' = [index EXCEPT ![t] = Append(@, a)]
    /\ UNCHANGED <<table, found>>

\* A load stores a whole record, whatever the table held before.
InsertPool(a, v) ==
    /\ table' = [table EXCEPT ![a] = v]
    /\ UNCHANGED <<index, found>>

\* An update replaces the whole record of a pool the table holds; an
\* update of any other address changes nothing.
UpdatePool(a, v) ==
    /\ table[a] # Absent
    /\ table' = [table EXCEPT ![a] = v]
    /\ UNCHANGED <<index, found>>

\* A search starts afresh.
BeginSearch(r) ==
    /\ found' = [found EXCEPT ![r] = {}]
    /\ UNCHANGED <<index, table>>

\* A search evaluates two held pools from their current records.
Evaluate(r, a1, a2) ==
    /\ table[a1] # Absent /\ table[a2] # Absent
    /\ found' = [found EXCEPT ![r] = @ \cup
                   {[a1 |-> a1, v1 |-> table[a1], a2 |-> a2, v2 |-> table[a2]]}]
    /\ UNCHANGED <<index, table>>

Next ==
    \/ \E a \in Pools, t \in Tokens : IndexPool(a, t)
    \/ \E a \in Pools, v \in Reserve : InsertPool(a, v) \/ UpdatePool(a, v)
    \/ \E r \in Readers : BeginSearch(r)
    \/ \E r \in Readers, a1, a2 \in Pools : Evaluate(r, a1, a2)

Spec == Init /\ [][Next]_avars

=============================================================================
