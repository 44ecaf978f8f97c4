------------------------------- MODULE SeqSums -------------------------------
(***************************************************************************)
(* Sums and products of a sequence f and of its beginnings: Sums(f)[k] is  *)
(* f[1] + ... + f[k], Products(f)[k] is f[1] * ... * f[k].  They are       *)
(* recursive functions and not folds: their equations are what the proofs  *)
(* go by.                                                                  *)
(***************************************************************************)
EXTENDS Integers, Sequences

Sums(f) ==
  LET sum[k \in 0 .. Len(f)] == IF k = 0 THEN 0 ELSE sum[k - 1] + f[k]
  IN  sum

Products(f) ==
  LET prod[k \in 0 .. Len(f)] == IF k = 0 THEN 1 ELSE prod[k - 1] * f[k]
  IN  prod

Sum(f)  == Sums(f)[Len(f)]
Prod(f) == Products(f)[Len(f)]
==============================================================================
