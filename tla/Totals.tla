------------------------------- MODULE Totals -------------------------------
(***************************************************************************)
(* Sums along a list, as the loops of the matching engine form them.       *)
(***************************************************************************)
EXTENDS Integers, Sequences

\* The sum of a sequence of numbers.
TotalOf(w) ==
  LET sum[i \in 0 .. Len(w)] == IF i = 0 THEN 0 ELSE sum[i - 1] + w[i]
  IN  sum[Len(w)]

=============================================================================
