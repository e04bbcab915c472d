----------------------------- MODULE Selections -----------------------------
(***************************************************************************)
(* Elements of a sequence by their places.                                 *)
(***************************************************************************)
EXTENDS Naturals, FiniteSets

\* The k-th smallest of a set of numbers.
Nth(S, k) == CHOOSE i \in S : Cardinality({j \in S : j <= i}) = k

\* The elements of a sequence that pass a test, in their order: SelectSeq, of
\* which the proof system knows no definition.
Selected(seq, Test(_)) ==
    LET places == {i \in DOMAIN seq : Test(seq[i])}
    IN  [k \in 1..Cardinality(places) |-> seq[Nth(places, k)]]
=============================================================================
