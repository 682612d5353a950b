---------------------------------- MODULE Sums ----------------------------------
(***************************************************************************)
(* The sum of the first n values of a function on 1..n, written as a       *)
(* recursive function so that TLC evaluates it and TLAPS can reason about  *)
(* it.  The ledger uses it to say what a stored total must equal: the sum  *)
(* of the points of the rows it was accumulated from.                      *)
(***************************************************************************)
EXTENDS Integers

(* f[1] + ... + f[n]. *)
Sum(f, n) ==
  LET partial[i \in 0..n] == IF i = 0 THEN 0 ELSE partial[i - 1] + f[i]
  IN  partial[n]

================================================================================
