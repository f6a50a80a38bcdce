----------------------------- MODULE Selection ------------------------------
(***************************************************************************)
(* The elements of a set in an order, and those of a sequence that pass a  *)
(* test.  SelectSeq and SortSeq give the same, but are built into the      *)
(* proof system without a definition; these two can be proved about.       *)
(***************************************************************************)
EXTENDS Integers, SequencesExt

\* The k-th element of a finite set has k - 1 others before it, Before being a
\* strict total order on the set.
Sorted(S, Before(_, _)) ==
  LET ranked == {[at |-> 1 + Cardinality({y \in S : Before(y, x)}), it |-> x] : x \in S}
  IN [k \in 1..Cardinality(S) |-> (CHOOSE r \in ranked : r.at = k).it]

\* A set of numbers from the least to the greatest.
InOrder(I) == Sorted(I, LAMBDA i, j : i < j)

\* What a sequence has at some of its places, in order.
At(s, I) == LET at == InOrder(I) IN [n \in DOMAIN at |-> s[at[n]]]

\* The places of a sequence that pass a test, and the elements that pass one.
Places(s, Test(_)) == InOrder({i \in DOMAIN s : Test(i)})

Those(s, Test(_)) == At(s, {i \in DOMAIN s : Test(s[i])})
=============================================================================
