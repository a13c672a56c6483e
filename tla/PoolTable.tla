----------------------------- MODULE PoolTable -----------------------------
(***************************************************************************)
(* What the pool graph promises its readers (spec 4.1 and 5): each pool   *)
(* slot holds a state its pool really had on chain at some point up to    *)
(* now (possibly an old one: readers may compute from stale reserves),    *)
(* never a mixture of two chain states; once discovered, a pool stays.    *)
(* A commit may set any number of pools at once.                          *)
(***************************************************************************)
EXTENDS Naturals

CONSTANTS
    Pools,          \* pool addresses
    MaxVersion,     \* bound on the chain changes of one pool
    Absent,         \* the value of a slot that holds no pool
    ChainView(_, _) \* the reserves pool p had at chain version v

VARIABLES
    ver,    \* the chain version of each pool
    table   \* [Pools -> reserves or Absent]

\* The states pool p has held on chain so far.
Views(p) == {ChainView(p, v) : v \in 0 .. ver[p]}

Init ==
    /\ ver = [p \in Pools |-> 0]
    /\ table = [p \in Pools |-> Absent]

Chain(p) ==
    /\ ver[p] < MaxVersion
    /\ ver' = [ver EXCEPT ![p] = @ + 1]
    /\ UNCHANGED table

Commit ==
    /\ \A p \in Pools : table'[p] = table[p] \/ table'[p] \in Views(p)
    /\ UNCHANGED ver

Next == (\E p \in Pools : Chain(p)) \/ Commit

Spec == Init /\ [][Next]_<<ver, table>>

=============================================================================
