---------------------------- MODULE OwnedObjects ----------------------------
(***************************************************************************)
(* Functions that fill memory of the caller: the objects that an object    *)
(* owns, which are written to an array of maxCount places while all are    *)
(* counted (MulleObjCRootObject.m, MulleObjCAllocation.h), and an instance *)
(* that is constructed in a buffer.  A variable is a record of its type    *)
(* and its value; the value nil is None.                                   *)
(***************************************************************************)
EXTENDS Naturals, Sequences, SequencesExt

CONSTANT None

\* With a sentinel that is one place too far.
CopyObjectBeyond(r, obj, length) ==
    IF obj = None THEN r
    ELSE [array |-> IF Len(r.array) <= length THEN Append(r.array, obj) ELSE r.array,
          n |-> r.n + 1]

\* One step of the loops: a result is the array so far, and the count.
CopyObject(r, obj, length) ==
    IF obj = None THEN r
    ELSE [array |-> IF Len(r.array) < length THEN Append(r.array, obj) ELSE r.array,
          n |-> r.n + 1]

NoObjects == [array |-> <<>>, n |-> 0]

\* The objects are the arguments, or in an array.
MulleObjCCopyObjects(length, objects) ==
    LET Copy(r, obj) == CopyObject(r, obj, length)
    IN  FoldLeft(Copy, NoObjects, objects)

MulleObjCCopyObjectArray(length, objects) == MulleObjCCopyObjects(length, objects)

Owning == {"retain", "copy"}

\* A variable is counted whether it is nil or not.
collect(r, ivar, maxCount) ==
    IF ivar.type \notin Owning THEN r
    ELSE [array |-> IF Len(r.array) < maxCount /\ ivar.value /= None
                    THEN Append(r.array, ivar.value) ELSE r.array,
          n |-> r.n + 1]

GetOwnedObjects(ivars, maxCount) ==
    LET Collect(r, ivar) == collect(r, ivar, maxCount)
    IN  FoldLeft(Collect, NoObjects, ivars)
-----------------------------------------------------------------------------
(* An instance in a buffer: extra space, the header, the variables.        *)

MulleObjCClassGetInstanceSize(class) == class.extra + class.header + class.variables

\* The places of the buffer that are written; the object is at the first
\* one behind its header.
MulleObjCClassConstructInstance(class, length, isZeroed) ==
    LET object == class.extra + class.header
    IN  [object  |-> object,
         header  |-> class.extra .. object - 1,
         cleared |-> IF isZeroed THEN {}
                     ELSE object .. object + (length - class.extra - class.header) - 1]

-----------------------------------------------------------------------------
NotNil(obj) == obj /= None

ValueOf(ivar) == ivar.value

(***************************************************************************)
(* No more than maxCount objects are written, in order, and never nil.  If *)
(* the count says that they fit, all are there.  So a caller can ask with  *)
(* too little space, and then again with as much as the count says.        *)
(***************************************************************************)
Fills(r, objects, maxCount) ==
    /\ Len(r.array) <= maxCount
    /\ IsPrefix(r.array, objects)
    /\ r.n >= Len(objects)
    /\ r.n <= maxCount => r.array = objects

OwnedObjectsFit(ivars, maxCount) ==
    LET objects == [i \in DOMAIN ivars |-> ValueOf(ivars[i])]
        Owns(ivar) == ivar.type \in Owning
        owned == SelectSeq(ivars, Owns)
    IN  /\ Fills(GetOwnedObjects(ivars, maxCount),
                 SelectSeq([i \in DOMAIN owned |-> ValueOf(owned[i])], NotNil), maxCount)
        /\ Fills(MulleObjCCopyObjectArray(maxCount, objects), SelectSeq(objects, NotNil), maxCount)
        /\ MulleObjCCopyObjects(maxCount, objects).n = Len(SelectSeq(objects, NotNil))

(***************************************************************************)
(* Constructing an instance in a buffer that is large enough writes to     *)
(* places of the buffer only, and clears all variables of the object.      *)
(***************************************************************************)
ConstructsInside(class, length, isZeroed) ==
    LET r == MulleObjCClassConstructInstance(class, length, isZeroed)
    IN  length >= MulleObjCClassGetInstanceSize(class) =>
          /\ r.header \cup r.cleared \subseteq 0 .. length - 1
          /\ r.object .. r.object + class.variables - 1 \subseteq 0 .. length - 1
          /\ ~isZeroed => r.object .. r.object + class.variables - 1 \subseteq r.cleared
          /\ r.header \cap r.cleared = {}
=============================================================================
