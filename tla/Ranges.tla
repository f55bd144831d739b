------------------------------- MODULE Ranges -------------------------------
(***************************************************************************)
(* NSRange, the functions on it, and the two checks of a range against the *)
(* length of a container.  NSUInteger is an unsigned integer with Modulus  *)
(* values, so that a sum or a difference wraps.  The mulle_range functions *)
(* are library code; they are modelled as the wrappers here use them and   *)
(* as the tests of the repository show them.                               *)
(***************************************************************************)
EXTENDS Integers

CONSTANTS Modulus,     \* the number of NSUInteger values
          HashedBytes  \* how many bytes at the end of data are hashed (64)

ASSUME ModulusAssumption == Modulus \in Nat /\ Modulus >= 4

ASSUME HashedAssumption == HashedBytes \in 1 .. Modulus - 1

NSUInteger == 0 .. Modulus - 1

NSRange == [location : NSUInteger, length : NSUInteger]

Plus(x, y) == IF x + y >= Modulus THEN x + y - Modulus ELSE x + y

Minus(x, y) == IF x >= y THEN x - y ELSE x - y + Modulus

NSNotFound == (Modulus \div 2) - 1

NSRangeMake(location, length) == [location |-> location, length |-> length]

NSRangeGetLocation(r) == r.location

NSRangeGetLength(r) == r.length

MulleMakeFullRange == NSRangeMake(0, Modulus - 1)

MulleObjCMakeInvalidRange == NSRangeMake(NSNotFound, 0)

\* The end as the machine computes it: it may have wrapped.
NSRangeGetMax(r) == Plus(r.location, r.length)

\* The locations of a valid range are all below NSNotFound.
MulleObjCRangeIsValid(r) == /\ NSRangeGetMax(r) >= r.location
                            /\ NSRangeGetMax(r) <= NSNotFound
-----------------------------------------------------------------------------
(* Queries and set operations. *)

NSRangeContainsLocation(r, location) ==
    r.location <= location /\ location < NSRangeGetMax(r)

MulleObjCRangeContainsRange(big, small) ==
    /\ NSRangeContainsLocation(big, small.location)
    /\ NSRangeGetMax(small) <= NSRangeGetMax(big)

NSRangeIntersect(a, b) ==
    LET start == IF a.location > b.location THEN a.location ELSE b.location
        end   == IF NSRangeGetMax(a) < NSRangeGetMax(b)
                 THEN NSRangeGetMax(a) ELSE NSRangeGetMax(b)
    IN  IF end < start THEN NSRangeMake(0, 0)
                       ELSE NSRangeMake(start, end - start)

NSRangeUnion(a, b) ==
    LET start == IF a.location < b.location THEN a.location ELSE b.location
        end   == IF NSRangeGetMax(a) > NSRangeGetMax(b)
                 THEN NSRangeGetMax(a) ELSE NSRangeGetMax(b)
    IN  IF b.length = 0 THEN a
        ELSE IF a.length = 0 THEN b
        ELSE NSRangeMake(start, end - start)

\* What is left of a in front of b, and behind it; an empty part is a hole
\* at the edge.
MulleObjCRangeSubtract(a, b) ==
    LET I == NSRangeIntersect(a, b)
    IN  IF I.length = 0 THEN <<a, MulleObjCMakeInvalidRange>>
        ELSE <<NSRangeMake(a.location, I.location - a.location),
               NSRangeMake(NSRangeGetMax(I), NSRangeGetMax(a) - NSRangeGetMax(I))>>

NSRangeEqualToRange(a, b) == a.location = b.location /\ a.length = b.length

\* The old names.
NSMakeRange(location, length) == NSRangeMake(location, length)
NSMaxRange(r) == NSRangeGetMax(r)
NSLocationInRange(location, r) == NSRangeContainsLocation(r, location)
NSEqualRanges(a, b) == NSRangeEqualToRange(a, b)
NSUnionRange(a, b) == NSRangeUnion(a, b)
NSIntersectionRange(a, b) == NSRangeIntersect(a, b)

MulleObjCRangeIntersectsRange(a, b) == NSRangeIntersect(a, b).length /= 0

MulleObjCRangeCompare(a, b) ==
    IF a.location /= b.location
    THEN IF a.location < b.location THEN -1 ELSE 1
    ELSE IF a.length = b.length THEN 0
    ELSE IF a.length < b.length THEN -1 ELSE 1

CombineUnsorted(a, b) ==
    LET end == IF NSRangeGetMax(b) > NSRangeGetMax(a)
               THEN NSRangeGetMax(b) ELSE NSRangeGetMax(a)
    IN  IF NSRangeGetMax(a) < b.location
        THEN NSRangeMake(NSNotFound, 0)
        ELSE NSRangeMake(a.location, Minus(end, a.location))

\* One range for two that overlap; also for two that touch, of which the
\* documentation of the function says that they do not combine.
MulleObjCRangeCombine(aRange, bRange) ==
    LET swap == aRange.location > bRange.location
        a    == IF swap THEN bRange ELSE aRange
        b    == IF swap THEN aRange ELSE bRange
        end  == IF NSRangeGetMax(b) > NSRangeGetMax(a)
                THEN NSRangeGetMax(b) ELSE NSRangeGetMax(a)
    IN  IF NSRangeGetMax(a) < b.location
        THEN NSRangeMake(NSNotFound, 0)
        ELSE NSRangeMake(a.location, Minus(end, a.location))

MulleObjCRangeIsCombinableRange(a, b) == MulleObjCRangeCombine(a, b).length /= 0

\* The locations the MulleObjCRangeFor loop visits.
MulleObjCRangeFor(r) == r.location .. NSRangeGetMax(r) - 1

\* The part of data of some length that is hashed: the last bytes.
MulleObjCGetHashBytesRange(length) ==
    IF length > HashedBytes THEN NSRangeMake(length - HashedBytes, HashedBytes)
                            ELSE NSRangeMake(0, length)

\* A buffer is <<>> if it is NULL, or <<bytes>>.  The hash of bytes that
\* mulle_data_hash() computes is modelled as those bytes.
MulleObjCBytesHash(buf) == IF buf = <<>> THEN <<-1>> ELSE buf[1]

MulleObjCBytesHashRange(buf, r) ==
    IF buf = <<>> THEN <<-1>>
    ELSE [i \in 1 .. NSRangeGetLength(r) |-> buf[1][NSRangeGetLocation(r) + i]]

MulleObjCBytesPartialHash(buf, length) ==
    MulleObjCBytesHashRange(buf, MulleObjCGetHashBytesRange(length))
-----------------------------------------------------------------------------
(* Checking a range against a length. *)

\* A length of -1 stands for the rest of the container.
Resolved(r, length) ==
    IF r.length = Modulus - 1
    THEN NSRangeMake(r.location, Minus(length, r.location)) ELSE r

MissesWithoutWrap(r, length) == NSRangeGetMax(r) > length

Misses(r, length) ==
    NSRangeGetMax(r) > length \/ NSRangeGetMax(r) < r.location

\* The result, or that the exception was thrown.
MulleObjCValidateRangeAgainstLength(r, length) ==
    LET range == Resolved(r, length)
    IN  [thrown |-> Misses(range, length), range |-> range]

\* The same check for those who do not want an exception.
MulleObjCRangeValidateAgainstLength(r, length) ==
    LET range == Resolved(r, length)
    IN  IF Misses(range, length) THEN MulleObjCMakeInvalidRange ELSE range

MulleObjCAdjustRangeForLength(r, length) ==
    LET range == Resolved(r, length)
    IN  IF Misses(range, length) THEN NSRangeMake(range.location, 0) ELSE range
-----------------------------------------------------------------------------
(* The reference: locations as plain numbers, nothing wraps. *)

Locations(r) == r.location .. (r.location + r.length - 1)

\* What a caller means: the rest, or exactly these locations.
Meant(r, length) ==
    IF r.length = Modulus - 1 THEN r.location .. length - 1 ELSE Locations(r)

\* A range is inside if it starts and ends within 0 .. length.
Inside(r, length) ==
    /\ r.location <= length
    /\ r.length /= Modulus - 1 => r.location + r.length <= length

(***************************************************************************)
(* MulleObjCValidateRangeAgainstLength() throws exactly if the range is    *)
(* not inside the container, however its end wraps, and returns the        *)
(* locations that were meant; the full range means all there are.          *)
(***************************************************************************)
ValidateIsExact(r, length) ==
    LET v == MulleObjCValidateRangeAgainstLength(r, length)
    IN  /\ v.thrown <=> ~Inside(r, length)
        /\ ~v.thrown => /\ Locations(v.range) = Meant(r, length)
                        /\ v.range.location + v.range.length <= length
        /\ MulleObjCRangeValidateAgainstLength(r, length) =
             IF v.thrown THEN MulleObjCMakeInvalidRange ELSE v.range
        /\ Locations(MulleObjCRangeValidateAgainstLength(MulleMakeFullRange, length))
             = 0 .. length - 1

(***************************************************************************)
(* A loop over what MulleObjCAdjustRangeForLength() returns stays inside   *)
(* the container, and visits all that was meant, or nothing.               *)
(***************************************************************************)
AdjustedLoopIsSafe(r, length) ==
    LET visited == MulleObjCRangeFor(MulleObjCAdjustRangeForLength(r, length))
    IN  /\ visited \subseteq 0 .. length - 1
        /\ visited = IF Inside(r, length) THEN Meant(r, length) ELSE {}

(***************************************************************************)
(* The hashed bytes of data are in the data, and there are at most         *)
(* HashedBytes of them, the last ones.  So a change of a byte before them  *)
(* goes unnoticed, one of the last bytes does not, and a short buffer is   *)
(* hashed as a whole.                                                      *)
(***************************************************************************)
HashRangeIsTail(length) ==
    LET r == MulleObjCGetHashBytesRange(length)
        bytes == [i \in 1 .. length |-> i]
    IN  /\ ~MulleObjCValidateRangeAgainstLength(r, length).thrown
        /\ r.length <= HashedBytes
        /\ Locations(r) = {i \in 0 .. length - 1 : length - i <= HashedBytes}
        /\ MulleObjCBytesHashRange(<<bytes>>, NSMakeRange(0, length))
              = MulleObjCBytesHash(<<bytes>>)
        /\ length <= HashedBytes =>
              MulleObjCBytesPartialHash(<<bytes>>, length) = MulleObjCBytesHash(<<bytes>>)
        /\ \A i \in 1 .. length :
              MulleObjCBytesPartialHash(<<[bytes EXCEPT ![i] = 0]>>, length)
                 = MulleObjCBytesPartialHash(<<bytes>>, length) <=> length - i >= HashedBytes
        /\ MulleObjCBytesPartialHash(<<>>, length) = MulleObjCBytesHash(<<>>)

(***************************************************************************)
(* For valid ranges the operations agree with those on sets of locations:  *)
(* two ranges combine if no gap is between them, and what they combine to  *)
(* is their union; they intersect if they share a location, and then they  *)
(* also combine; an intersection is contained in both.  Subtracting cuts a *)
(* hole, and leaves nothing of the other range.  That ranges combine which *)
(* only touch is what MulleObjCRangeCombine() in NSRange.c does; its       *)
(* documentation differs: dox/API_NSRange.md, line 86, says of ranges that *)
(* do not overlap that the function returns NSNotFound and 0, but {0, 2}   *)
(* and {2, 3} do not overlap and combine to {0, 5}.                        *)
(***************************************************************************)
SetOperationsAgree(a, b) ==
    LET A == Locations(a)
        B == Locations(b)
        C == MulleObjCRangeCombine(a, b)
        I == NSRangeIntersect(a, b)
        gap == a.location + a.length < b.location \/ b.location + b.length < a.location
        D == MulleObjCRangeSubtract(a, b)
    IN  /\ Locations(I) = A \cap B
        /\ Locations(D[1]) \cup Locations(D[2]) = A \ B
        /\ Locations(D[1]) \cap Locations(D[2]) = {}
        /\ \A location \in A \cup B :
              NSLocationInRange(location, NSIntersectionRange(a, b)) <=> location \in A \cap B
        /\ \A location \in A \cup B : a.length > 0 /\ b.length > 0 =>
              NSLocationInRange(location, NSUnionRange(a, b))
        /\ a.length > 0 => NSMaxRange(a) <= NSMaxRange(NSUnionRange(a, b))
        /\ MulleObjCRangeIntersectsRange(a, b) <=> A \cap B /= {}
        /\ MulleObjCRangeIsCombinableRange(a, b) <=> ~gap /\ A \cup B /= {}
        /\ ~gap => Locations(C) = A \cup B
        /\ gap => C = NSRangeMake(NSNotFound, 0)
        /\ a.length > 0 /\ b.length > 0 /\ ~gap => NSEqualRanges(C, NSRangeUnion(a, b))
        /\ A \cap B /= {} => /\ MulleObjCRangeContainsRange(a, I)
                             /\ MulleObjCRangeContainsRange(b, I)
                             /\ MulleObjCRangeIsCombinableRange(a, b)
        /\ MulleObjCRangeCompare(a, b) = -MulleObjCRangeCompare(b, a)
        /\ MulleObjCRangeCompare(a, b) = 0 <=> a = b
=============================================================================
