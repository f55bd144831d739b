--------------------------- MODULE TaggedPointers ---------------------------
(***************************************************************************)
(* Objects that are no memory: a pointer whose low bits hold the index of  *)
(* a class, and whose other bits hold an integer.  The runtime packs and   *)
(* unpacks; MulleObjC registers the classes, and asks before it packs.     *)
(* Floating point values have a packing of their own, which is not         *)
(* modelled.                                                               *)
(***************************************************************************)
EXTENDS Integers, PowersOfTwo

CONSTANTS PointerBits,  \* bits in a pointer
          TagBits,      \* of those, the bits for the class index
          NoClass

ASSUME TagAssumption == PointerBits \in Nat /\ TagBits \in 1 .. PointerBits - 2

Indexes == 1 .. Pow(TagBits) - 1

NSIntegers == -Pow(PointerBits - 1) .. Pow(PointerBits - 1) - 1

NSUIntegers == 0 .. Pow(PointerBits) - 1

ValueBits == PointerBits - TagBits

IsIntegerValue(value) == value \in -Pow(ValueBits - 1) .. Pow(ValueBits - 1) - 1

IsUnsignedIntegerValue(value) == value \in 0 .. Pow(ValueBits) - 1

\* The shift drops the highest bits.
CreateWithIntegerValueAndIndex(value, index) ==
    ((value * Pow(TagBits)) % Pow(PointerBits)) + index

CreateWithUnsignedIntegerValueAndIndex(value, index) ==
    ((value * Pow(TagBits)) % Pow(PointerBits)) + index

GetIndex(pointer) == pointer % Pow(TagBits)

GetUnsignedIntegerValue(pointer) == pointer \div Pow(TagBits)

GetIntegerValueUnsigned(pointer) == GetUnsignedIntegerValue(pointer)

GetIntegerValue(pointer) ==
    LET u == GetUnsignedIntegerValue(pointer)
    IN  IF u >= Pow(ValueBits - 1) THEN u - Pow(ValueBits) ELSE u

(* Registration.  classes is the class at each index, indexOf the index     *)
(* that each class knows, 0 for none.                                       *)
RegisterClassAtIndex(classes, indexOf, cls, index) ==
    IF cls = NoClass \/ index \notin Indexes
    THEN [rval |-> -1, classes |-> classes, indexOf |-> indexOf]
    ELSE [rval |-> 0,
          classes |-> [classes EXCEPT ![index] = cls],
          indexOf |-> [indexOf EXCEPT ![cls] = index]]

ClassGetIndex(indexOf, cls) == IF cls = NoClass THEN -1 ELSE indexOf[cls]
-----------------------------------------------------------------------------
(***************************************************************************)
(* A value that is said to fit comes back as it was, with its index, and   *)
(* one that does not fit would not.  The pointer is none of the aligned    *)
(* addresses that real objects have.                                       *)
(***************************************************************************)
FitsExactly(index, value) ==
    LET s == CreateWithIntegerValueAndIndex(value, index)
        u == CreateWithUnsignedIntegerValueAndIndex(value, index)
    IN  /\ value \in NSIntegers =>
              /\ IsIntegerValue(value) <=> GetIntegerValue(s) = value
              /\ GetIndex(s) = index
              /\ s \in NSUIntegers
              /\ s % Pow(TagBits) /= 0
        /\ value \in NSUIntegers =>
              /\ IsUnsignedIntegerValue(value) <=> GetUnsignedIntegerValue(u) = value
              /\ GetIndex(u) = index

(***************************************************************************)
(* After a class is registered a pointer that is made with the index the   *)
(* class knows leads back to the class; a failed registration changes      *)
(* nothing.                                                                *)
(***************************************************************************)
RegisteredLeadsBack(classes, indexOf, cls, index, value) ==
    LET r == RegisterClassAtIndex(classes, indexOf, cls, index)
        p == CreateWithIntegerValueAndIndex(value, ClassGetIndex(r.indexOf, cls))
    IN  IF r.rval = 0
        THEN /\ r.classes[GetIndex(p)] = cls
             /\ \A c \in DOMAIN indexOf \ {cls} :
                   ClassGetIndex(r.indexOf, c) = ClassGetIndex(indexOf, c)
        ELSE r.classes = classes /\ r.indexOf = indexOf
=============================================================================
