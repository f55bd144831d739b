-------------------------- MODULE MCThreadLifecycle --------------------------
(* Model-checking instances of ThreadLifecycle. *)
EXTENDS ThreadLifecycle, TLC

Symmetry == Permutations(Thr) \cup Permutations(Os \ Foreign)

(* Bound: after a start that failed, an NSThread is started again only     *)
(* while no other one is under way.                                        *)
OneStartsAgain ==
  \A t, u \in Thr : t # u /\ thr[t].handed > 1 => thr[u].handed = 0

==============================================================================
