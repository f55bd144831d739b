--------------------------- MODULE AtomicIntegers ----------------------------
(***************************************************************************)
(* NSUIntegerAtomic and NSIntegerAtomic of MulleObjCIntegralType.h: an     *)
(* integer in a pointer sized word that threads change by compare and      *)
(* swap.  A word is the set of its one bits, so that | and & are \cup and  *)
(* \cap.                                                                   *)
(***************************************************************************)
CONSTANTS
  Thread,
  Bits      \* the bits of a word

VARIABLES
  word,     \* the pointer of the union
  frame     \* the call that each thread is in

vars == <<word, frame>>

Word == SUBSET Bits

\* The word that each operation leaves in place of old.
NSUIntegerAtomicGet(old) == old

NSUIntegerAtomicUpdate(old, value) == value

NSIntegerAtomicUpdate(old, value) == value

NSUIntegerAtomicMaskedOr(old, mask, bits) == (old \cap mask) \cup bits

NSUIntegerAtomicOr(old, bits) == old \cup bits

Request ==
  [op : {"get"}]
  \cup [op : {"update", "signed update"}, value : Word]
  \cup [op : {"masked or"}, mask : Word, bits : Word]
  \cup [op : {"or"}, bits : Word]

NewValue(r, old) ==
  CASE r.op = "get"           -> NSUIntegerAtomicGet(old)
    [] r.op = "update"        -> NSUIntegerAtomicUpdate(old, r.value)
    [] r.op = "signed update" -> NSIntegerAtomicUpdate(old, r.value)
    [] r.op = "masked or"     -> NSUIntegerAtomicMaskedOr(old, r.mask, r.bits)
    [] r.op = "or"            -> NSUIntegerAtomicOr(old, r.bits)

-----------------------------------------------------------------------------
Idle           == [at |-> "idle"]
Reading(r)     == [at |-> "read", request |-> r]
Swapping(r, old) == [at |-> "cas", request |-> r, old |-> old]
Returning(r, x)  == [at |-> "return", request |-> r, result |-> x]

Init == word \in Word /\ frame = [t \in Thread |-> Idle]

Call(t, r) ==
  /\ frame[t] = Idle
  /\ frame' = [frame EXCEPT ![t] = Reading(r)]
  /\ UNCHANGED word

\* "can't cas with same value"
ReadPointer(t, r) ==
  /\ frame[t] = Reading(r)
  /\ frame' = [frame EXCEPT ![t] = IF NewValue(r, word) = word
                                   THEN Returning(r, word)
                                   ELSE Swapping(r, word)]
  /\ UNCHANGED word

CompareAndSwapBlind(t, r, old) ==
  /\ frame[t] = Swapping(r, old)
  /\ word' = NewValue(r, old)
  /\ frame' = [frame EXCEPT ![t] = Returning(r, old)]

CompareAndSwap(t, r, old) ==
  /\ frame[t] = Swapping(r, old)
  /\ IF word = old
     THEN /\ word' = NewValue(r, old)
          /\ frame' = [frame EXCEPT ![t] = Returning(r, old)]
     ELSE /\ frame' = [frame EXCEPT ![t] = Reading(r)]
          /\ UNCHANGED word

Return(t) ==
  /\ frame[t].at = "return"
  /\ frame' = [frame EXCEPT ![t] = Idle]
  /\ UNCHANGED word

Next ==
  \E t \in Thread :
    \/ \E r \in Request :
         \/ Call(t, r)
         \/ ReadPointer(t, r)
         \/ \E old \in Word : CompareAndSwap(t, r, old)
    \/ Return(t)

Spec == Init /\ [][Next]_vars

-----------------------------------------------------------------------------
(* The variable and its calls as an atomic register sees them: a call      *)
(* takes effect with its successful swap, or with the read that shows that *)
(* there is nothing to change.                                             *)

Effects(r, v) == {NewValue(r, v)}

Result(r, v, w) == v

AbstractCall(f) ==
  IF f.at = "idle" THEN [at |-> "idle"]
  ELSE IF f.at = "return"
  THEN [at |-> "answered", request |-> f.request, result |-> f.result]
  ELSE [at |-> "pending", request |-> f.request]

Register == INSTANCE AtomicRegister
  WITH Value <- Word, value <- word, call <- [t \in Thread |-> AbstractCall(frame[t])]

(* Get, update, or and masked or are atomic: whatever the interleaving, no *)
(* bit that a thread sets or clears gets lost, and each call returns the   *)
(* value that its change replaced.                                         *)
IntegersAreAtomic == Register!Spec
=============================================================================
