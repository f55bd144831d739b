----------------------------- MODULE Invocations -----------------------------
(***************************************************************************)
(* NSInvocation: a message that is kept, to be sent later or by another    *)
(* thread.  It keeps its arguments and the value that the method returned, *)
(* and holds them only once it has been told to.  Invocations of standard  *)
(* size are not freed: they wait in a queue that all threads share for the *)
(* next one who wants an invocation.                                       *)
(*                                                                         *)
(* Several threads run -dealloc and +invocationWithMethodSignature: at the *)
(* same time, each of which handles an invocation that is its own.         *)
(***************************************************************************)
EXTENDS Naturals, Sequences, FiniteSets, Functions

CONSTANTS
  Invocation,  \* addresses of invocations
  Value,       \* addresses of the objects that they keep
  NULL,
  Reusable     \* how many released invocations reuseInvocations takes (8)

VARIABLES
  signature,   \* of the method: the types of its argument and what it returns
  invocation,  \* the instances
  reuse,       \* reuseInvocations
  refs,        \* retain counts of the values, 0 for what is not allocated
  held         \* held[v]: references to v of client code

vars == <<signature, invocation, reuse, refs, held>>

\* self is an object like the argument, if there is one.
Signature == [argument : {"none", "retain", "copy", "assign"}, rval : {"void", "retain", "block"}]

\* Index 0 is the target, 2 the argument.
Index == {0, 2}

Type(i) == IF i = 0 THEN "retain" ELSE signature.argument

Cleared ==
  [at |-> "live", sort |-> "standard", frame |-> [i \in Index |-> NULL], rval |-> NULL,
   _argumentsRetained |-> FALSE, _returnValueRetained |-> FALSE]

Init ==
  /\ signature \in Signature
  /\ invocation = [n \in Invocation |-> [Cleared EXCEPT !.at = "free"]]
  /\ reuse = <<>>
  /\ refs = [v \in Value |-> 0]
  /\ held = [v \in Value |-> 0]

-----------------------------------------------------------------------------
(* Client code: it passes objects that are alive, keeps what it has set    *)
(* alive until it is retained or the invocation is released, does not      *)
(* change what has been retained, does not let a returned struct overwrite *)
(* retained arguments, and does not retain what is left of an argument     *)
(* that one has overwritten.                                               *)

Live(n) == invocation[n].at = "live"

IsAlive(v) == v \in Value => refs[v] > 0

MaySet(n, v) == Live(n) /\ ~invocation[n]._argumentsRetained /\ IsAlive(v)

MayRetain(n) ==
  /\ Live(n)
  /\ \A i \in Index : IsAlive(invocation[n].frame[i])
  /\ \A i \in Index : Type(i) \in {"retain", "copy"} => invocation[n].frame[i] # "struct"

MayInvoke(n) ==
  /\ Live(n) /\ ~invocation[n]._returnValueRetained
  /\ \A i \in Index : invocation[n].frame[i] \in Value \cup {NULL} /\ IsAlive(invocation[n].frame[i])
  /\ signature.rval = "block" => ~invocation[n]._argumentsRetained

CreateValue(v) ==
  /\ refs[v] = 0
  /\ \A n \in Invocation : v \notin {invocation[n].frame[0], invocation[n].frame[2], invocation[n].rval}
  /\ refs' = [refs EXCEPT ![v] = 1]
  /\ held' = [held EXCEPT ![v] = 1]
  /\ UNCHANGED <<signature, invocation, reuse>>

ReleaseValue(v) ==
  /\ held[v] > 0
  /\ refs' = [refs EXCEPT ![v] = @ - 1]
  /\ held' = [held EXCEPT ![v] = @ - 1]
  /\ UNCHANGED <<signature, invocation, reuse>>

-----------------------------------------------------------------------------
(* Creation.                                                               *)

Allocate(sort) ==
  \E n \in Invocation :
    /\ invocation[n].at = "free"
    /\ invocation' = [invocation EXCEPT ![n] = [Cleared EXCEPT !.sort = sort]]
    /\ UNCHANGED <<signature, reuse, refs, held>>

\* With the header alone, flags of the life before are left.
PopHeaderOnly ==
  /\ reuse # <<>>
  /\ invocation' = [invocation EXCEPT ![Head(reuse)].at = "live"]
  /\ reuse' = Tail(reuse)
  /\ UNCHANGED <<signature, refs, held>>

\* The header is reset and everything cleared.
popStandardInvocation ==
  /\ reuse # <<>>
  /\ invocation' = [invocation EXCEPT ![Head(reuse)] = Cleared]
  /\ reuse' = Tail(reuse)
  /\ UNCHANGED <<signature, refs, held>>

\* The other sort is too large, or of a subclass: it is not reused.
invocationWithMethodSignature(sort) ==
  IF sort = "standard" /\ reuse # <<>> THEN popStandardInvocation ELSE Allocate(sort)

\* The caller knows the length; nothing is reused.
NSInvocationCreateWithMetaABIFrameAndLength(sort) ==
  /\ signature.argument # "none"
  /\ Allocate(sort)

-----------------------------------------------------------------------------
(* Use.                                                                    *)

NSInvocationSetArgumentAtIndex(n, i, v) ==
  /\ MaySet(n, v) /\ (i = 2 => signature.argument # "none")
  /\ invocation[n].frame[i] # v
  /\ invocation' = [invocation EXCEPT ![n].frame[i] = v]
  /\ UNCHANGED <<signature, reuse, refs, held>>

\* A copy is the object itself, if that is immutable, or a new one.
CopiesOf(v) == IF v = NULL THEN {NULL} ELSE {v} \cup {w \in Value : refs[w] = 0}

Retained(n) == {i \in Index : Type(i) \in {"retain", "copy"}}

\* How often v is in the frame where it is retained.
Uses(n, v) == Cardinality({i \in Retained(n) : invocation[n].frame[i] = v})

retainArguments(n) ==
  LET argument == invocation[n].frame[2] IN
  /\ MayRetain(n) /\ ~invocation[n]._argumentsRetained
  /\ \E w \in IF Type(2) = "copy" THEN CopiesOf(argument) ELSE {argument} :
       LET frame == [invocation[n].frame EXCEPT ![2] = w] IN
       /\ \A o \in Invocation \ {n} : w # argument => w \notin {invocation[o].frame[0], invocation[o].frame[2], invocation[o].rval}
       /\ invocation' = [invocation EXCEPT ![n].frame = frame, ![n]._argumentsRetained = TRUE]
       /\ refs' = [v \in Value |->
            refs[v] + Cardinality({i \in Retained(n) : frame[i] = v})]
  /\ UNCHANGED <<signature, reuse, held>>

(* The method gets its target and argument; a struct that it returns is    *)
(* written over the argument, or over the target if there is no argument.  *)
invoke(n) ==
  LET overwritten == IF signature.argument = "none" THEN 0 ELSE 2 IN
  /\ MayInvoke(n) /\ invocation[n].frame[0] # NULL
  /\ \E v \in {v \in Value : refs[v] > 0} \cup {NULL} :
       invocation' =
         IF signature.rval = "void" THEN invocation
         ELSE IF signature.rval = "retain" THEN [invocation EXCEPT ![n].rval = v]
         ELSE [invocation EXCEPT ![n].frame[overwritten] = "struct"]
  /\ UNCHANGED <<signature, reuse, refs, held>>

mulleRetainReturnValue(n) ==
  LET rval == invocation[n].rval IN
  /\ Live(n) /\ ~invocation[n]._returnValueRetained /\ IsAlive(rval)
  /\ invocation' = [invocation EXCEPT ![n]._returnValueRetained = TRUE]
  /\ refs' = IF rval = NULL THEN refs ELSE [refs EXCEPT ![rval] = @ + 1]
  /\ UNCHANGED <<signature, reuse, held>>

-----------------------------------------------------------------------------
(* -dealloc, when the last reference goes.                                 *)

ReleaseArgumentsAndReturnValue(n) ==
  /\ Live(n)
  /\ invocation' = [invocation EXCEPT ![n].at = "dealloc"]
  /\ refs' = [v \in Value |->
       refs[v] - (IF invocation[n]._argumentsRetained THEN Uses(n, v) ELSE 0)
               - (IF invocation[n]._returnValueRetained /\ invocation[n].rval = v THEN 1 ELSE 0)]
  /\ UNCHANGED <<signature, reuse, held>>

_isStandardInvocation(n) == invocation[n].sort = "standard"

pushStandardInvocation(n) ==
  /\ invocation[n].at = "dealloc"
  /\ _isStandardInvocation(n) /\ Len(reuse) < Reusable
  /\ reuse' = Append(reuse, n)
  /\ invocation' = [invocation EXCEPT ![n].at = "reuse"]
  /\ UNCHANGED <<signature, refs, held>>

InstanceFree(n) ==
  /\ invocation[n].at = "dealloc"
  /\ _isStandardInvocation(n) => Len(reuse) = Reusable
  /\ invocation' = [invocation EXCEPT ![n] = [Cleared EXCEPT !.at = "free"]]
  /\ UNCHANGED <<signature, reuse, refs, held>>

Next ==
  \/ \E v \in Value : CreateValue(v) \/ ReleaseValue(v)
  \/ \E sort \in {"standard", "other"} :
       invocationWithMethodSignature(sort) \/ NSInvocationCreateWithMetaABIFrameAndLength(sort)
  \/ \E n \in Invocation :
       \/ \E i \in Index, v \in Value \cup {NULL} : NSInvocationSetArgumentAtIndex(n, i, v)
       \/ retainArguments(n) \/ invoke(n) \/ mulleRetainReturnValue(n)
       \/ ReleaseArgumentsAndReturnValue(n)
       \/ pushStandardInvocation(n) \/ InstanceFree(n)

Spec == Init /\ [][Next]_vars

-----------------------------------------------------------------------------
(* Values are released as often as invocations have retained them, also by *)
(* an invocation that had another life before; and an invocation that waits*)
(* to be reused waits once and is nobody's.                                *)
InvocationsBalance ==
  LET Held(n, v) ==
        IF Live(n)
        THEN (IF invocation[n]._argumentsRetained THEN Uses(n, v) ELSE 0)
             + (IF invocation[n]._returnValueRetained /\ invocation[n].rval = v THEN 1 ELSE 0)
        ELSE 0
  IN  /\ \A v \in Value :
           refs[v] = held[v] + SumFunction([n \in Invocation |-> Held(n, v)])
      /\ IsInjective(reuse) /\ Len(reuse) <= Reusable
      /\ {n \in Invocation : invocation[n].at = "reuse"} = Range(reuse)
      /\ \A n \in Invocation : invocation[n].at = "reuse" => _isStandardInvocation(n)
=============================================================================
