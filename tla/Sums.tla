------------------------------- MODULE Sums -------------------------------
(***************************************************************************)
(* The sum of an amount over a set of database rows, the aggregate          *)
(* (django Sum) that the billing services recompute on every request.       *)
(* A row that carries the amount n owns the n cents <<row, 1>>..<<row, n>>;  *)
(* the sum is the number of cents.  Stated so, the laws of sums follow from *)
(* the laws of cardinality, and no recursion over the rows is needed.       *)
(***************************************************************************)
EXTENDS Integers, FiniteSets

\* The cents owned by the rows of S, f giving each row its amount.
Cents(S, f) == UNION { {x} \X (1..f[x]) : x \in S }

SumOf(S, f) == Cardinality(Cents(S, f))
=============================================================================
