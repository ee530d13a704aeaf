-------------------------------- MODULE Sums -------------------------------
(* The sum of a sequence of numbers, as a function recursive in the index. *)
EXTENDS Integers, Sequences

PartialSums(v) ==
  LET sums[k \in 0..Len(v)] == IF k = 0 THEN 0 ELSE sums[k - 1] + v[k]
  IN  sums

Total(v) == PartialSums(v)[Len(v)]
=============================================================================
