------------------------------ MODULE Positions ------------------------------
(***************************************************************************)
(* The members of a set of numbers in order, and the elements of a         *)
(* sequence at the positions in such a set: what filter and sort of the    *)
(* code return, defined without recursion, so that PositionsProofs can say *)
(* what they are.                                                          *)
(***************************************************************************)
EXTENDS Naturals, FiniteSets, Sequences

Nth(S, k) == CHOOSE i \in S : Cardinality({j \in S : j <= i}) = k
InOrder(S) == [k \in 1..Cardinality(S) |-> Nth(S, k)]
At(seq, S) == [k \in 1..Cardinality(S) |-> seq[Nth(S, k)]]

=============================================================================
