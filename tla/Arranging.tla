----------------------------- MODULE Arranging ------------------------------
(***************************************************************************)
(* Array.filter and Array.sort, said by position: the n-th element of the  *)
(* result is the one with n - 1 before it.                                 *)
(***************************************************************************)
EXTENDS Integers, Sequences, FiniteSets

\* The elements at some positions, in the order they have.
Selected(s, positions) ==
    LET Nth(n) == CHOOSE i \in positions : Cardinality({j \in positions : j < i}) = n - 1
    IN  [n \in 1..Cardinality(positions) |-> s[Nth(n)]]

\* The pairs of positions of a sequence.
Pairs(s) == (DOMAIN s) \X (DOMAIN s)

\* The elements sorted; before has the pairs of positions whose first goes first, and
\* what neither precedes nor follows stays in order.
Arranged(s, before) ==
    LET Ahead(i) == {j \in DOMAIN s : <<j, i>> \in before \/ (<<i, j>> \notin before /\ j < i)}
        Nth(n)   == CHOOSE i \in DOMAIN s : Cardinality(Ahead(i)) = n - 1
    IN  [n \in DOMAIN s |-> s[Nth(n)]]
=============================================================================
