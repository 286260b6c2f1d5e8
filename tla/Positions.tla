------------------------------- MODULE Positions -------------------------------
(***************************************************************************)
(* What is left of a list when only some of its elements are kept, in the  *)
(* order they had: the comprehensions `[x for x in xs if ...]` of          *)
(* get_many and of history_to_messages, by the positions they keep.        *)
(***************************************************************************)
EXTENDS Naturals, Sequences, FiniteSets

\* The k-th of a set of positions.
Place(S, k) == CHOOSE i \in S : Cardinality({j \in S : j < i}) = k - 1

\* The elements of a list at a set of positions.
Chosen(s, S) == [k \in 1 .. Cardinality(S) |-> s[Place(S, k)]]

=============================================================================
