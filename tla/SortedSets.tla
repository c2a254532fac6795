----------------------------- MODULE SortedSets -----------------------------
(* Finite sets of numbers, listed: what Python's sorted and pandas' groupby *)
(* return.                                                                  *)
EXTENDS Naturals, FiniteSets

\* In increasing order: the k-th member has k members up to it.
InOrder(S) ==
  [k \in 1..Cardinality(S) |-> CHOOSE e \in S : Cardinality({x \in S : x <= e}) = k]

\* The rows at some places of a list, in their order.
RowsAt(rows, S) == LET at == InOrder(S) IN [k \in DOMAIN at |-> rows[at[k]]]
=============================================================================
