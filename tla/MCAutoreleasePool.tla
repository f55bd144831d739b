------------------------- MODULE MCAutoreleasePool --------------------------
(***************************************************************************)
(* Model-checking instances of AutoreleasePool: a behaviour has calls in   *)
(* the pools of a -dealloc, with arrays of one slot, or it has the bounds  *)
(* of the configuration, chosen by its initial state.                      *)
(***************************************************************************)
EXTENDS AutoreleasePool

VARIABLE nested

Nested == INSTANCE AutoreleasePool
  WITH ChunkSize <- 1, MaxSlots <- 2, MaxRefs <- 1, MaxCalls <- 3

MCInit == Init /\ nested \in BOOLEAN

MCNext ==
  /\ UNCHANGED nested
  /\ \/ ~nested /\ Next
     \/ nested /\ Nested!Next

MCSpec == MCInit /\ [][MCNext]_<<vars, nested>>

(* Bound: the slots in use in all pools together.                          *)
FourSlots ==
  SumFunction([k \in DOMAIN pools |->
    SumFunction([c \in DOMAIN pools[k] |-> Len(pools[k][c].objects)])]) <= 4

Symmetry == Permutations(Obj \ ConstantObj)

=============================================================================
