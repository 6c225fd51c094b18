-------------------------------- MODULE Sums --------------------------------
(***************************************************************************)
(* Finite sums, and Python's sort.  The code adds up its portfolio with    *)
(* sum(...) over the tuple of positions, the dictionary of pending orders  *)
(* and the list of closed trades; all three are indexed 1..n here.  The    *)
(* sum is a recursive function, not a fold with CHOOSE, and the sort gives *)
(* every element its place, so that module Sums_proofs can reason about    *)
(* them for every n.                                                       *)
(***************************************************************************)
EXTENDS Integers, FiniteSets

\* w[1] + w[2] + ... + w[n]
SumTo(w, n) ==
    LET sum[i \in 0 .. n] == IF i = 0 THEN 0 ELSE sum[i - 1] + w[i]
    IN  sum[n]

\* The members of 1..n for which picked(_) holds, counted.
CountTo(picked(_), n) == SumTo([i \in 1 .. n |-> IF picked(i) THEN 1 ELSE 0], n)

\* Element i is sorted before element j, by the pairs of places <<i, j>> whose
\* first is less than its second; what is equal keeps its order.
SortsBefore(less, i, j) == <<i, j>> \in less \/ (<<j, i>> \notin less /\ i < j)

\* sorted(list) and list.sort: each element goes behind those sorted before it.
StableSort(list, less) ==
    LET place(i) == Cardinality({j \in DOMAIN list : SortsBefore(less, j, i)}) + 1
    IN  [k \in DOMAIN list |-> list[CHOOSE i \in DOMAIN list : place(i) = k]]
=============================================================================
