----------------------------- MODULE MCUniverse ------------------------------
(* Model-checking instances of Universe. *)
EXTENDS Universe, TLC

Symmetry == Permutations(Thread) \cup Permutations(Obj)

=============================================================================
