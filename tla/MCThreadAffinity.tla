-------------------------- MODULE MCThreadAffinity ---------------------------
(* Model-checking instances of ThreadAffinity. *)
EXTENDS ThreadAffinity, TLC

CONSTANTS a, b

(* Pairs of strategies for the invocation a and the object b, so that each *)
(* strategy occurs and each kind of object holds each.                     *)
MCStrategies ==
  LET current == "CallerRemovesFromCurrentPool" all == "CallerRemovesFromAllPools"
  IN  {(a :> x[1]) @@ (b :> x[2]) : x \in
         {<<current, current>>, <<current, all>>, <<current, "KnownThreadSafeMethods">>,
          <<current, "KnownThreadSafe">>, <<all, "CallerRemovesFromCurrentPoolShallow">>,
          <<all, "CallerRemovesFromAllPoolsShallow">>,
          <<"ReceiverPerformsFinalize", "TransferIvars">>}}

Symmetry == Permutations(Thread)

==============================================================================
