-------------------------------- MODULE Words --------------------------------
(***************************************************************************)
(* The arithmetic of machine words: powers of two, and the number that the *)
(* digits of a word make.  Both are recursive functions, which the provers *)
(* can reason about, where 2^n of a variable n means nothing to them.      *)
(***************************************************************************)
EXTENDS Integers

Pow2[n \in Nat] == IF n = 0 THEN 1 ELSE 2 * Pow2[n - 1]

\* f[0] + ... + f[n - 1]
Sum(f, n) ==
    LET s[i \in 0..n] == IF i = 0 THEN 0 ELSE s[i - 1] + f[i - 1]
    IN  s[n]

=============================================================================
