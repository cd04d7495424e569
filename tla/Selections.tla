----------------------------- MODULE Selections -----------------------------
(***************************************************************************)
(* Two operators on the records a buffer holds, in the forms their lemmas  *)
(* are proved of (module MeteringBufferProofs): a loop that keeps some of  *)
(* a sequence, and a loop that adds up sizes.                              *)
(***************************************************************************)
EXTENDS Integers, Sequences, FiniteSets

\* The k-th smallest of the numbers in I.
Ranked(I, k) == CHOOSE i \in I : Cardinality({j \in I : j <= i}) = k

\* The elements of s at the positions in I, in the order they have in s.
Chosen(s, I) == [k \in 1 .. Cardinality(I) |-> s[Ranked(I, k)]]

\* The sum of the sizes of the elements of S, counted unit by unit.
Units(size, S) == UNION {{r} \X (1 .. size[r]) : r \in S}
Weight(size, S) == Cardinality(Units(size, S))
=============================================================================
