----------------------------- MODULE PowersOfTwo -----------------------------
(***************************************************************************)
(* The number of values of a word of n bits, by its recursive equation.    *)
(***************************************************************************)
EXTENDS Naturals

powers[n \in Nat] == IF n = 0 THEN 1 ELSE 2 * powers[n - 1]

Pow(n) == powers[n]
=============================================================================
