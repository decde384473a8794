-------------------------------- MODULE Sums --------------------------------
(* Sums over sequences of numbers, as functions of how many are added.     *)
EXTENDS Integers, Sequences

(* Sums(s)[j] is the sum of the first j numbers of s. *)
Sums(s) ==
  LET sum[j \in 0..Len(s)] == IF j = 0 THEN 0 ELSE sum[j - 1] + s[j] IN sum

Total(s) == Sums(s)[Len(s)]
=============================================================================
