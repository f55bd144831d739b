------------------------------ MODULE ValueProofs ------------------------------
(***************************************************************************)
(* Proofs about what MCValues calls and runs, for any number of objects,   *)
(* and for integers of any width.                                          *)
(***************************************************************************)
EXTENDS MCValues, SumLemmas

-----------------------------------------------------------------------------
(* Numbers: quotients, remainders and powers of two.                       *)

(* A shift by a factor cuts off what a word of a factor more has no place  *)
(* for; remainders and quotients of sums.                                  *)
LEMMA ShiftedOut ==
  ASSUME NEW v \in Int, NEW t \in Nat \ {0}, NEW w \in Nat \ {0}
  PROVE  (v * t) % (t * w) = t * (v % w)
  BY SMTT(60)

LEMMA QuotientAndRest ==
  ASSUME NEW t \in Nat \ {0}, NEW q \in Int, NEW r \in 0 .. t - 1
  PROVE  (t * q + r) \div t = q /\ (t * q + r) % t = r
  BY SMTT(60)

LEMMA Rest ==
  ASSUME NEW v \in Int, NEW w \in Nat \ {0}
  PROVE  /\ v % w \in 0 .. w - 1
         /\ v \in 0 .. w - 1 => v % w = v
         /\ v \in -w .. -1 => v % w = v + w
<1>1. v % w \in 0 .. w - 1
  OBVIOUS
<1>2. v \in 0 .. w - 1 => v % w = v
  <2>1. v \in 0 .. w - 1 => (w * 0 + v) % w = v
    BY QuotientAndRest
  <2> QED
    BY <2>1
<1>3. v \in -w .. -1 => v % w = v + w
  <2>1. v \in -w .. -1 => v + w \in 0 .. w - 1 /\ v = w * (-1) + (v + w)
    OBVIOUS
  <2> QED
    BY <2>1, QuotientAndRest
<1> QED
  BY <1>1, <1>2, <1>3

(* A function up to n that doubles with each step.                         *)
Doubles(f, n) == f \in [0 .. n -> Nat \ {0}] /\ f[0] = 1 /\ \A i \in 0 .. n - 1 : f[i + 1] = 2 * f[i]

LEMMA DoublesExists == \A n \in Nat : \E f : Doubles(f, n)
<1> SUFFICES ASSUME NEW n \in Nat PROVE \E f : Doubles(f, n)
  OBVIOUS
<1> DEFINE T == {k \in Nat : \E f : Doubles(f, k)}
<1>1. 0 \in T
  <2>1. PICK f : f = [i \in 0 .. 0 |-> 1]
    OBVIOUS
  <2>2. Doubles(f, 0)
    BY <2>1 DEF Doubles
  <2> QED
    BY <2>2
<1>2. ASSUME NEW k \in 0 .. n - 1, k \in T PROVE k + 1 \in T
  <2>1. PICK f : Doubles(f, k)
    BY <1>2
  <2>2. PICK g : g = [i \in 0 .. k + 1 |-> IF i <= k THEN f[i] ELSE 2 * f[k]]
    OBVIOUS
  <2>3. f[k] \in Nat \ {0} /\ \A i \in 0 .. k : f[i] \in Nat \ {0}
    BY <2>1 DEF Doubles
  <2>4. g \in [0 .. k + 1 -> Nat \ {0}]
    <3>1. 2 * f[k] \in Nat \ {0}
      BY <2>3
    <3> QED
      BY <2>2, <2>3, <3>1
  <2>5. g[0] = 1 /\ \A i \in 0 .. k : g[i] = f[i]
    BY <2>1, <2>2 DEF Doubles
  <2>6. ASSUME NEW i \in 0 .. k + 1 - 1 PROVE g[i + 1] = 2 * g[i]
    <3>1. CASE i = k
      BY <2>2, <2>5, <3>1
    <3>2. CASE i # k
      <4>1. i \in 0 .. k - 1 /\ i + 1 \in 0 .. k /\ i \in 0 .. k
        BY <3>2
      <4> QED
        BY <2>1, <2>5, <4>1 DEF Doubles
    <3> QED
      BY <3>1, <3>2
  <2>7. Doubles(g, k + 1)
    BY <2>4, <2>5, <2>6 DEF Doubles
  <2> QED
    BY <2>7
<1> HIDE DEF T
<1>3. n \in T
  BY <1>1, <1>2, UpTo
<1> QED
  BY <1>3 DEF T

LEMMA DoublesUnique ==
  ASSUME NEW n \in Nat, NEW m \in Nat, m >= n, NEW f, NEW g, Doubles(f, n), Doubles(g, m)
  PROVE  f[n] = g[n]
<1> DEFINE T == {k \in 0 .. n : f[k] = g[k]}
<1>1. 0 \in T
  BY DEF Doubles
<1>2. ASSUME NEW k \in 0 .. n - 1, k \in T PROVE k + 1 \in T
  BY <1>2 DEF Doubles
<1> HIDE DEF T
<1>3. n \in T
  BY <1>1, <1>2, UpTo
<1> QED
  BY <1>3 DEF T

(* The recursive equation of powers has a solution.                        *)
LEMMA PowersUnfold ==
  powers = [n \in Nat |-> IF n = 0 THEN 1 ELSE 2 * powers[n - 1]]
<1> DEFINE upTo(n) == CHOOSE f : Doubles(f, n)
           all == [n \in Nat |-> upTo(n)[n]]
<1>1. \A n \in Nat : Doubles(upTo(n), n)
  BY DoublesExists
<1> HIDE DEF upTo
<1>2. ASSUME NEW n \in Nat, n # 0 PROVE upTo(n)[n] = 2 * upTo(n - 1)[n - 1]
  <2>1. n - 1 \in Nat /\ n - 1 \in 0 .. n - 1 /\ n - 1 + 1 = n /\ n >= n - 1
    BY <1>2
  <2>2. upTo(n)[n] = 2 * upTo(n)[n - 1]
    BY <1>1, <2>1 DEF Doubles
  <2>3. upTo(n - 1)[n - 1] = upTo(n)[n - 1]
    BY <1>1, <2>1, DoublesUnique
  <2> QED
    BY <2>2, <2>3
<1>3. upTo(0)[0] = 1
  BY <1>1 DEF Doubles
<1>4. all = [n \in Nat |-> IF n = 0 THEN 1 ELSE 2 * all[n - 1]]
  BY <1>2, <1>3
<1> QED
  BY <1>4 DEF powers

LEMMA PowIs ==
  /\ Pow(0) = 1
  /\ \A n \in Nat : Pow(n) \in Nat \ {0} /\ Pow(n + 1) = 2 * Pow(n)
<1>1. ASSUME NEW n \in Nat PROVE Pow(n + 1) = 2 * Pow(n)
  BY PowersUnfold DEF Pow
<1>2. Pow(0) = 1
  BY PowersUnfold DEF Pow
<1>3. ASSUME NEW n \in Nat PROVE Pow(n) \in Nat \ {0}
  <2> DEFINE T == {k \in Nat : Pow(k) \in Nat \ {0}}
  <2>1. 0 \in T
    BY <1>2
  <2>2. ASSUME NEW k \in 0 .. n - 1, k \in T PROVE k + 1 \in T
    <3>1. Pow(k + 1) = 2 * Pow(k) /\ Pow(k) \in Nat \ {0}
      BY <1>1, <2>2
    <3> QED
      BY <3>1
  <2> HIDE DEF T
  <2>3. n \in T
    BY <2>1, <2>2, UpTo
  <2> QED
    BY <2>3 DEF T
<1> QED
  BY <1>1, <1>2, <1>3

LEMMA PowAdds ==
  ASSUME NEW m \in Nat, NEW n \in Nat
  PROVE  Pow(m + n) = Pow(m) * Pow(n)
<1> DEFINE T == {k \in Nat : Pow(m + k) = Pow(m) * Pow(k)}
<1>1. 0 \in T
  BY PowIs
<1>2. ASSUME NEW k \in 0 .. n - 1, k \in T PROVE k + 1 \in T
  <2>1. Pow(m + (k + 1)) = 2 * Pow(m + k) /\ Pow(k + 1) = 2 * Pow(k)
    <3>1. m + (k + 1) = (m + k) + 1 /\ m + k \in Nat
      OBVIOUS
    <3> QED
      BY <3>1, PowIs
  <2>2. PICK a \in Nat, b \in Nat : a = Pow(m) /\ b = Pow(k)
    BY PowIs
  <2>3. Pow(m + k) = a * b
    BY <1>2, <2>2
  <2> QED
    BY <2>1, <2>2, <2>3
<1> HIDE DEF T
<1>3. n \in T
  BY <1>1, <1>2, UpTo
<1> QED
  BY <1>3 DEF T

-----------------------------------------------------------------------------
(* Ranges (Ranges).                                                        *)

LEMMA Wraps ==
  ASSUME NEW x \in NSUInteger, NEW y \in NSUInteger
  PROVE  /\ Plus(x, y) \in NSUInteger /\ Minus(x, y) \in NSUInteger
         /\ x + y < Modulus => Plus(x, y) = x + y
         /\ x + y >= Modulus => Plus(x, y) = x + y - Modulus
         /\ x >= y => Minus(x, y) = x - y
         /\ x < y => Minus(x, y) = x - y + Modulus
BY ModulusAssumption DEF NSUInteger, Plus, Minus

LEMMA RangeParts ==
  ASSUME NEW r \in NSRange
  PROVE  r.location \in NSUInteger /\ r.length \in NSUInteger
BY DEF NSRange

LEMMA Validates ==
  ASSUME NEW r \in NSRange, NEW length \in NSUInteger
  PROVE  ValidateIsExact(r, length)
<1>1. PICK x \in NSUInteger, n \in NSUInteger : x = r.location /\ n = r.length
  BY DEF NSRange
<1>2. PICK v \in NSRange : v = Resolved(r, length)
  BY <1>1, Wraps DEF Resolved, NSRangeMake, NSRange
<1>3. PICK y \in NSUInteger, m \in NSUInteger : y = v.location /\ m = v.length
  BY DEF NSRange
<1>4. y = x /\ m = IF n = Modulus - 1 THEN Minus(length, x) ELSE n
  BY <1>1, <1>2, <1>3 DEF Resolved, NSRangeMake
<1>5. Misses(v, length) <=> ~Inside(r, length)
  BY <1>1, <1>3, <1>4, ModulusAssumption DEF Misses, Inside, NSRangeGetMax, Plus, Minus, NSUInteger
<1>6. ~Misses(v, length) => /\ Locations(v) = Meant(r, length)
                            /\ v.location + v.length <= length
  BY <1>1, <1>3, <1>4, ModulusAssumption DEF Misses, Meant, Locations, NSRangeGetMax, Plus, Minus, NSUInteger
<1>7. Locations(MulleObjCRangeValidateAgainstLength(MulleMakeFullRange, length)) = 0 .. length - 1
  <2>1. Resolved(MulleMakeFullRange, length) = [location |-> 0, length |-> length]
    BY ModulusAssumption DEF Resolved, MulleMakeFullRange, NSRangeMake, Minus, NSUInteger
  <2>2. ~Misses([location |-> 0, length |-> length], length)
    BY ModulusAssumption DEF Misses, NSRangeGetMax, Plus, NSUInteger
  <2>3. MulleObjCRangeValidateAgainstLength(MulleMakeFullRange, length) = [location |-> 0, length |-> length]
    BY <2>1, <2>2 DEF MulleObjCRangeValidateAgainstLength
  <2> QED
    BY <2>3, ModulusAssumption DEF Locations, NSUInteger
<1>8. MulleObjCValidateRangeAgainstLength(r, length) = [thrown |-> Misses(v, length), range |-> v]
  BY <1>2 DEF MulleObjCValidateRangeAgainstLength
<1>9. MulleObjCRangeValidateAgainstLength(r, length) =
        IF Misses(v, length) THEN MulleObjCMakeInvalidRange ELSE v
  BY <1>2 DEF MulleObjCRangeValidateAgainstLength
<1> QED
  BY <1>5, <1>6, <1>7, <1>8, <1>9 DEF ValidateIsExact

LEMMA Adjusts ==
  ASSUME NEW r \in NSRange, NEW length \in NSUInteger
  PROVE  AdjustedLoopIsSafe(r, length)
<1>1. PICK x \in NSUInteger, n \in NSUInteger : x = r.location /\ n = r.length
  BY DEF NSRange
<1>2. PICK v \in NSRange : v = Resolved(r, length)
  BY <1>1, Wraps DEF Resolved, NSRangeMake, NSRange
<1>3. PICK y \in NSUInteger, m \in NSUInteger : y = v.location /\ m = v.length
  BY DEF NSRange
<1>4. y = x /\ m = IF n = Modulus - 1 THEN Minus(length, x) ELSE n
  BY <1>1, <1>2, <1>3 DEF Resolved, NSRangeMake
<1>5. Misses(v, length) <=> ~Inside(r, length)
  BY <1>1, <1>3, <1>4, ModulusAssumption DEF Misses, Inside, NSRangeGetMax, Plus, Minus, NSUInteger
<1>6. CASE Misses(v, length)
  <2>1. MulleObjCAdjustRangeForLength(r, length) = [location |-> y, length |-> 0]
    BY <1>2, <1>3, <1>6 DEF MulleObjCAdjustRangeForLength, NSRangeMake
  <2>2. MulleObjCRangeFor([location |-> y, length |-> 0]) = {}
    BY ModulusAssumption DEF MulleObjCRangeFor, NSRangeGetMax, Plus, NSUInteger
  <2> QED
    BY <1>5, <1>6, <2>1, <2>2 DEF AdjustedLoopIsSafe
<1>7. CASE ~Misses(v, length)
  <2>1. MulleObjCAdjustRangeForLength(r, length) = v
    BY <1>2, <1>7 DEF MulleObjCAdjustRangeForLength
  <2>2. MulleObjCRangeFor(v) = y .. y + m - 1
    BY <1>3, <1>7, ModulusAssumption DEF MulleObjCRangeFor, NSRangeGetMax, Misses, Plus, NSUInteger
  <2>3. y + m <= length
    BY <1>3, <1>7, ModulusAssumption DEF NSRangeGetMax, Misses, Plus, NSUInteger
  <2>4. y .. y + m - 1 \subseteq 0 .. length - 1
    BY <2>3, ModulusAssumption DEF NSUInteger
  <2>5. y .. y + m - 1 = Meant(r, length)
    BY <1>1, <1>3, <1>4, <1>7, <2>3, ModulusAssumption DEF Meant, Locations, Minus, NSUInteger
  <2> QED
    BY <1>5, <1>7, <2>1, <2>2, <2>4, <2>5 DEF AdjustedLoopIsSafe
<1> QED
  BY <1>6, <1>7

LEMMA HashesTail ==
  ASSUME NEW length \in NSUInteger
  PROVE  HashRangeIsTail(length)
<1>1. /\ length \in Nat /\ length < Modulus /\ HashedBytes \in Nat /\ HashedBytes >= 1
      /\ HashedBytes < Modulus /\ Modulus \in Nat
  BY ModulusAssumption, HashedAssumption DEF NSUInteger
<1>2. PICK x \in Nat, n \in Nat : /\ MulleObjCGetHashBytesRange(length) = [location |-> x, length |-> n]
                                  /\ x + n = length /\ n <= HashedBytes
                                  /\ n = IF length > HashedBytes THEN HashedBytes ELSE length
  BY <1>1 DEF MulleObjCGetHashBytesRange, NSRangeMake
<1> DEFINE r == [location |-> x, length |-> n]
           bytes == [i \in 1 .. length |-> i]
<1>3. ~MulleObjCValidateRangeAgainstLength(r, length).thrown
  <2>1. Resolved(r, length) = r
    BY <1>1, <1>2 DEF Resolved, NSRangeMake, Minus
  <2>2. ~Misses(r, length)
    BY <1>1, <1>2 DEF Misses, NSRangeGetMax, Plus
  <2> QED
    BY <2>1, <2>2 DEF MulleObjCValidateRangeAgainstLength
<1>4. Locations(r) = {i \in 0 .. length - 1 : length - i <= HashedBytes}
  BY <1>1, <1>2 DEF Locations
<1>5. \A b : MulleObjCBytesHash(<<b>>) = b /\ MulleObjCBytesHash(<<>>) = <<-1>>
  BY DEF MulleObjCBytesHash
<1>6. \A b, y, m : /\ MulleObjCBytesHashRange(<<b>>, NSRangeMake(y, m)) = [i \in 1 .. m |-> b[y + i]]
                   /\ MulleObjCBytesHashRange(<<>>, NSRangeMake(y, m)) = <<-1>>
  BY DEF MulleObjCBytesHashRange, NSRangeMake, NSRangeGetLength, NSRangeGetLocation
<1>7. \A b : /\ MulleObjCBytesPartialHash(<<b>>, length) = [i \in 1 .. n |-> b[x + i]]
             /\ MulleObjCBytesPartialHash(<<>>, length) = <<-1>>
  BY <1>2, <1>6 DEF MulleObjCBytesPartialHash, NSRangeMake
<1>8. MulleObjCBytesHashRange(<<bytes>>, NSMakeRange(0, length)) = bytes
  <2>1. PICK b : b = bytes
    OBVIOUS
  <2>2. MulleObjCBytesHashRange(<<b>>, NSMakeRange(0, length)) = [i \in 1 .. length |-> b[0 + i]]
    BY <1>6 DEF NSMakeRange
  <2>3. [i \in 1 .. length |-> bytes[0 + i]] = bytes
    BY <1>1
  <2> QED
    BY <2>1, <2>2, <2>3
<1>9. ASSUME length <= HashedBytes
      PROVE  MulleObjCBytesPartialHash(<<bytes>>, length) = MulleObjCBytesHash(<<bytes>>)
  <2>1. x = 0 /\ n = length
    BY <1>1, <1>2, <1>9
  <2>2. [i \in 1 .. n |-> bytes[x + i]] = bytes
    BY <1>1, <2>1
  <2> QED
    BY <1>5, <1>7, <2>2
<1>10. ASSUME NEW i \in 1 .. length
       PROVE  MulleObjCBytesPartialHash(<<[bytes EXCEPT ![i] = 0]>>, length)
                 = MulleObjCBytesPartialHash(<<bytes>>, length) <=> length - i >= HashedBytes
  <2> DEFINE d == [bytes EXCEPT ![i] = 0]
  <2>1. /\ \A j \in 1 .. n : d[x + j] = IF x + j = i THEN 0 ELSE x + j
        /\ \A j \in 1 .. n : bytes[x + j] = x + j
    BY <1>1, <1>2
  <2>2. CASE length - i >= HashedBytes
    <3>1. \A j \in 1 .. n : d[x + j] = bytes[x + j]
      BY <1>1, <1>2, <2>1, <2>2
    <3> HIDE DEF d, bytes
    <3>2. [j \in 1 .. n |-> d[x + j]] = [j \in 1 .. n |-> bytes[x + j]]
      BY <3>1
    <3>3. MulleObjCBytesPartialHash(<<d>>, length) = MulleObjCBytesPartialHash(<<bytes>>, length)
      BY <1>7, <3>2
    <3> QED
      BY <2>2, <3>3 DEF d
  <2>3. CASE length - i < HashedBytes
    <3>1. PICK j \in 1 .. n : x + j = i
      <4>1. i - x \in 1 .. n /\ x + (i - x) = i
        BY <1>1, <1>2, <2>3
      <4> QED
        BY <4>1
    <3>2. d[x + j] # bytes[x + j]
      BY <1>1, <2>1, <3>1
    <3> HIDE DEF d, bytes
    <3>3. [k \in 1 .. n |-> d[x + k]] # [k \in 1 .. n |-> bytes[x + k]]
      BY <3>2
    <3>4. MulleObjCBytesPartialHash(<<d>>, length) # MulleObjCBytesPartialHash(<<bytes>>, length)
      BY <1>7, <3>3
    <3>5. ~(length - i >= HashedBytes)
      BY <1>1, <2>3
    <3> QED
      BY <3>4, <3>5 DEF d
  <2> QED
    BY <1>1, <2>2, <2>3
<1> HIDE DEF r
<1>11. MulleObjCGetHashBytesRange(length) = r /\ r.length <= HashedBytes
  BY <1>2 DEF r
<1> QED
  BY <1>3, <1>4, <1>5, <1>7, <1>8, <1>9, <1>10, <1>11 DEF HashRangeIsTail

(* Valid ranges are those that end, without a wrap, before NSNotFound.     *)
ValidRange(r) == r \in NSRange /\ MulleObjCRangeIsValid(r)

LEMMA ValidParts ==
  ASSUME NEW r, ValidRange(r)
  PROVE  /\ r.location \in Nat /\ r.length \in Nat /\ r.location < Modulus /\ r.length < Modulus
         /\ NSRangeGetMax(r) = r.location + r.length /\ r.location + r.length < Modulus
         /\ r.location < NSNotFound \/ r.length = 0
         /\ r.location + r.length <= NSNotFound
         /\ r = [location |-> r.location, length |-> r.length]
<1>1. r.location \in NSUInteger /\ r.length \in NSUInteger /\ r = [location |-> r.location, length |-> r.length]
  BY DEF ValidRange, NSRange
<1>2. Plus(r.location, r.length) >= r.location /\ Plus(r.location, r.length) <= NSNotFound
  BY DEF ValidRange, MulleObjCRangeIsValid, NSRangeGetMax
<1>3. NSNotFound \in Nat /\ NSNotFound < Modulus
  BY ModulusAssumption DEF NSNotFound
<1> QED
  BY <1>1, <1>2, <1>3, ModulusAssumption DEF NSUInteger, Plus, NSRangeGetMax

LEMMA Operations ==
  ASSUME NEW a, NEW b, ValidRange(a), ValidRange(b)
  PROVE  SetOperationsAgree(a, b)
<1>1. PICK x \in Nat, m \in Nat, y \in Nat, n \in Nat :
        /\ a = [location |-> x, length |-> m] /\ b = [location |-> y, length |-> n]
        /\ NSRangeGetMax(a) = x + m /\ NSRangeGetMax(b) = y + n
        /\ x + m < Modulus /\ y + n < Modulus
  BY ValidParts
<1>2. /\ Locations(a) = x .. x + m - 1 /\ Locations(b) = y .. y + n - 1
      /\ a.location = x /\ a.length = m /\ b.location = y /\ b.length = n
  BY <1>1 DEF Locations
<1>3. PICK s \in Nat, e \in Nat :
        /\ s = (IF x > y THEN x ELSE y) /\ e = (IF x + m < y + n THEN x + m ELSE y + n)
        /\ NSRangeIntersect(a, b) = IF e < s THEN [location |-> 0, length |-> 0]
                                    ELSE [location |-> s, length |-> e - s]
  <2>1. PICK s \in Nat, e \in Nat :
          s = (IF x > y THEN x ELSE y) /\ e = (IF x + m < y + n THEN x + m ELSE y + n)
    OBVIOUS
  <2>2. NSRangeIntersect(a, b) = IF e < s THEN [location |-> 0, length |-> 0]
                                 ELSE [location |-> s, length |-> e - s]
    BY <1>1, <1>2, <2>1 DEF NSRangeIntersect, NSRangeMake
  <2> QED
    BY <2>1, <2>2
<1>4. PICK p \in Nat, k \in Nat :
        /\ NSRangeIntersect(a, b) = [location |-> p, length |-> k] /\ p + k < Modulus
        /\ e < s => p = 0 /\ k = 0
        /\ e >= s => p = s /\ k = e - s
  <2>1. CASE e < s
    <3>1. NSRangeIntersect(a, b) = [location |-> 0, length |-> 0] /\ 0 + 0 < Modulus
      BY <1>3, <2>1, ModulusAssumption
    <3> QED
      BY <2>1, <3>1
  <2>2. CASE e >= s
    <3>1. e - s \in Nat /\ s + (e - s) < Modulus
      BY <1>1, <1>3, <2>2, ModulusAssumption
    <3>2. NSRangeIntersect(a, b) = [location |-> s, length |-> e - s]
      BY <1>3, <2>2
    <3> QED
      BY <2>2, <3>1, <3>2
  <2> QED
    BY <2>1, <2>2
<1>5. Locations(NSRangeIntersect(a, b)) = Locations(a) \cap Locations(b)
  <2>1. Locations(NSRangeIntersect(a, b)) = p .. p + k - 1
    BY <1>4 DEF Locations
  <2> QED
    BY <1>2, <1>3, <1>4, <2>1
<1>6. k # 0 <=> Locations(a) \cap Locations(b) # {}
  <2>1. CASE k # 0
    <3>1. s \in Locations(a) \cap Locations(b)
      BY <1>2, <1>3, <1>4, <2>1
    <3> QED
      BY <2>1, <3>1
  <2>2. CASE k = 0
    BY <1>2, <1>3, <1>4, <2>2
  <2> QED
    BY <2>1, <2>2
<1>7. NSRangeGetMax(NSRangeIntersect(a, b)) = p + k
  BY <1>4, ModulusAssumption DEF NSRangeGetMax, Plus
<1>8. \A location \in Locations(a) \cup Locations(b) :
        NSLocationInRange(location, NSIntersectionRange(a, b)) <=> location \in Locations(a) \cap Locations(b)
  BY <1>2, <1>3, <1>4, <1>7 DEF NSLocationInRange, NSRangeContainsLocation, NSIntersectionRange
<1> DEFINE D == MulleObjCRangeSubtract(a, b)
<1>9. /\ Locations(D[1]) \cup Locations(D[2]) = Locations(a) \ Locations(b)
      /\ Locations(D[1]) \cap Locations(D[2]) = {}
  <2>1. CASE k = 0
    <3>1. D = <<a, MulleObjCMakeInvalidRange>>
      BY <1>4, <2>1 DEF MulleObjCRangeSubtract
    <3>2. Locations(MulleObjCMakeInvalidRange) = {}
      BY ModulusAssumption DEF MulleObjCMakeInvalidRange, NSRangeMake, Locations, NSNotFound
    <3> HIDE DEF D
    <3>3. D[1] = a /\ D[2] = MulleObjCMakeInvalidRange
      BY <3>1
    <3> QED
      BY <1>6, <2>1, <3>2, <3>3
  <2>2. CASE k # 0
    <3>1. D = <<[location |-> x, length |-> s - x], [location |-> e, length |-> x + m - e]>>
      BY <1>1, <1>2, <1>3, <1>4, <1>7, <2>2, SMTT(30) DEF MulleObjCRangeSubtract, NSRangeMake
    <3> HIDE DEF D
    <3>2. /\ D[1].location = x /\ D[1].length = s - x
          /\ D[2].location = e /\ D[2].length = x + m - e
      BY <3>1
    <3>3. Locations(D[1]) = x .. s - 1 /\ Locations(D[2]) = e .. x + m - 1
      BY <1>3, <3>2 DEF Locations
    <3> QED
      BY <1>2, <1>3, <1>4, <2>2, <3>3
  <2> QED
    BY <2>1, <2>2
<1>10. PICK u \in Nat, f \in Nat :
         /\ u = (IF x < y THEN x ELSE y) /\ f = (IF x + m > y + n THEN x + m ELSE y + n)
         /\ f < Modulus /\ u <= f
         /\ NSRangeUnion(a, b) = IF n = 0 THEN a ELSE IF m = 0 THEN b
                                 ELSE [location |-> u, length |-> f - u]
  <2>1. PICK u \in Nat, f \in Nat :
          /\ u = (IF x < y THEN x ELSE y) /\ f = (IF x + m > y + n THEN x + m ELSE y + n)
          /\ f < Modulus /\ u <= f
    BY <1>1
  <2>2. NSRangeUnion(a, b) = IF n = 0 THEN a ELSE IF m = 0 THEN b ELSE [location |-> u, length |-> f - u]
    BY <1>1, <1>2, <2>1 DEF NSRangeUnion, NSRangeMake
  <2> QED
    BY <2>1, <2>2
<1>11. NSRangeGetMax([location |-> u, length |-> f - u]) = f
  BY <1>10, ModulusAssumption DEF NSRangeGetMax, Plus
<1>12. ASSUME NEW location \in Locations(a) \cup Locations(b), a.length > 0, b.length > 0
       PROVE  NSLocationInRange(location, NSUnionRange(a, b))
  BY <1>2, <1>10, <1>11, <1>12 DEF NSLocationInRange, NSRangeContainsLocation, NSUnionRange
<1>13. a.length > 0 => NSMaxRange(a) <= NSMaxRange(NSUnionRange(a, b))
  BY <1>1, <1>2, <1>10, <1>11 DEF NSMaxRange, NSUnionRange
<1> DEFINE gap == a.location + a.length < b.location \/ b.location + b.length < a.location
           C == MulleObjCRangeCombine(a, b)
<1>14. C = IF gap THEN [location |-> NSNotFound, length |-> 0] ELSE [location |-> u, length |-> f - u]
  <2>1. CASE x > y
    BY <1>1, <1>2, <1>10, <2>1 DEF MulleObjCRangeCombine, NSRangeMake, Minus
  <2>2. CASE x <= y
    BY <1>1, <1>2, <1>10, <2>2 DEF MulleObjCRangeCombine, NSRangeMake, Minus
  <2> QED
    BY <2>1, <2>2
<1>15. gap <=> x + m < y \/ y + n < x
  BY <1>2
<1> HIDE DEF C, gap
<1>16. ~gap => Locations(C) = Locations(a) \cup Locations(b)
  <2>1. ~gap => Locations(C) = u .. f - 1
    BY <1>10, <1>14 DEF Locations
  <2> QED
    BY <1>2, <1>10, <1>15, <2>1
<1>17. C.length # 0 <=> ~gap /\ Locations(a) \cup Locations(b) # {}
  <2>1. CASE gap
    BY <1>14, <2>1
  <2>2. CASE ~gap /\ f = u
    BY <1>2, <1>10, <1>14, <2>2
  <2>3. CASE ~gap /\ f # u
    <3>1. u \in Locations(a) \cup Locations(b)
      BY <1>2, <1>10, <1>15, <2>3
    <3> QED
      BY <1>10, <1>14, <2>3, <3>1
  <2> QED
    BY <2>1, <2>2, <2>3
<1>18. a.length > 0 /\ b.length > 0 /\ ~gap => NSEqualRanges(C, NSRangeUnion(a, b))
  BY <1>2, <1>10, <1>14 DEF NSEqualRanges, NSRangeEqualToRange
<1>19. Locations(a) \cap Locations(b) # {} =>
         /\ MulleObjCRangeContainsRange(a, NSRangeIntersect(a, b))
         /\ MulleObjCRangeContainsRange(b, NSRangeIntersect(a, b))
         /\ ~gap /\ Locations(a) \cup Locations(b) # {}
  <2> SUFFICES ASSUME k # 0
               PROVE  /\ MulleObjCRangeContainsRange(a, NSRangeIntersect(a, b))
                      /\ MulleObjCRangeContainsRange(b, NSRangeIntersect(a, b))
                      /\ ~gap
    BY <1>6
  <2> QED
    BY <1>1, <1>2, <1>3, <1>4, <1>7, <1>15 DEF MulleObjCRangeContainsRange, NSRangeContainsLocation
<1>20. /\ MulleObjCRangeCompare(a, b) = -MulleObjCRangeCompare(b, a)
       /\ MulleObjCRangeCompare(a, b) = 0 <=> a = b
  BY <1>1, <1>2 DEF MulleObjCRangeCompare
<1>21. MulleObjCRangeIntersectsRange(a, b) <=> Locations(a) \cap Locations(b) # {}
  BY <1>4, <1>6 DEF MulleObjCRangeIntersectsRange
<1>22. MulleObjCRangeIsCombinableRange(a, b) <=> ~gap /\ Locations(a) \cup Locations(b) # {}
  BY <1>17 DEF MulleObjCRangeIsCombinableRange, C
<1>23. gap => C = NSRangeMake(NSNotFound, 0)
  BY <1>14 DEF NSRangeMake
<1> QED
  BY <1>5, <1>8, <1>9, <1>12, <1>13, <1>16, <1>18, <1>19, <1>20, <1>21, <1>22, <1>23
     DEF SetOperationsAgree, C, gap

-----------------------------------------------------------------------------
(* Byte order (ByteOrder).                                                 *)

(* Bytes in reverse, and once more.                                        *)
LEMMA ReverseType ==
  ASSUME NEW S, NEW s \in Seq(S)
  PROVE  /\ Reverse(s) \in Seq(S) /\ Len(Reverse(s)) = Len(s)
         /\ Reverse(Reverse(s)) = s
<1>1. PICK n \in Nat : n = Len(s) /\ s \in [1 .. n -> S]
  BY LenProperties
<1>2. Reverse(s) = [i \in 1 .. n |-> s[(n - i) + 1]]
  BY <1>1 DEF Reverse
<1>3. PICK r : r = [i \in 1 .. n |-> s[(n - i) + 1]]
  OBVIOUS
<1>4. \A i \in 1 .. n : (n - i) + 1 \in 1 .. n /\ (n - ((n - i) + 1)) + 1 = i
  BY <1>1
<1>5. r \in [1 .. n -> S]
  BY <1>1, <1>3, <1>4
<1>6. r \in Seq(S) /\ Len(r) = n
  BY <1>1, <1>5, SeqDef, LenProperties
<1>7. Reverse(r) = [i \in 1 .. n |-> r[(n - i) + 1]]
  BY <1>6 DEF Reverse
<1>8. \A i \in 1 .. n : r[(n - i) + 1] = s[i]
  BY <1>3, <1>4
<1>9. Reverse(r) = s
  BY <1>1, <1>7, <1>8
<1> QED
  BY <1>1, <1>2, <1>3, <1>6, <1>9

(* A swap of the width of its type turns all bytes around.                 *)
LEMMA SwapsAll ==
  ASSUME NEW S, NEW value \in Seq(S), NEW h \in Hosts, NEW type \in IntegerTypes,
         Len(value) = Width(h, type)
  PROVE  NSSwap(h, type, value) = Reverse(value)
<1>1. SwapWidth(h, type) = Width(h, type)
  BY DEF IntegerTypes, SwapWidth, Width
<1>2. PICK n \in Nat : n = Len(value)
  BY LenProperties
<1>3. SubSeq(value, n + 1 - n, n) = value
  <2>1. n + 1 - n = 1 /\ n \in 0 .. Len(value)
    BY <1>2
  <2> QED
    BY <1>2, <2>1, PrefixOfSeq
<1> QED
  BY <1>1, <1>2, <1>3 DEF NSSwap, SwapBytes

LEMMA IntegersTravel ==
  ASSUME NEW S, NEW value \in Seq(S), NEW h \in Hosts, NEW g \in Hosts, NEW type \in IntegerTypes,
         Len(value) = Width(h, type)
  PROVE  WireOrder(h, g, type, value)
<1>1. PICK r \in Seq(S) : r = Reverse(value) /\ Len(r) = Len(value) /\ Reverse(r) = value
  BY ReverseType
<1>2. NSSwap(h, type, value) = r /\ NSSwap(h, type, r) = value
  BY <1>1, SwapsAll
<1>3. Width(g, type) = Width(h, type) => NSSwap(g, type, value) = r /\ NSSwap(g, type, r) = value
  BY <1>1, SwapsAll
<1>4. InMemory(h, NSSwapHostToBig(h, type, value)) = value
  BY <1>1, <1>2 DEF InMemory, NSSwapHostToBig, NSHostByteOrder
<1>5. InMemory(h, NSSwapHostToLittle(h, type, value)) = r
  BY <1>1, <1>2 DEF InMemory, NSSwapHostToLittle, NSHostByteOrder
<1>6. ASSUME Width(g, type) = Width(h, type)
      PROVE  /\ NSSwapBigToHost(g, type, InMemory(g, value)) = value
             /\ NSSwapLittleToHost(g, type, InMemory(g, r)) = value
  BY <1>1, <1>3, <1>6 DEF InMemory, NSSwapBigToHost, NSSwapLittleToHost, NSHostByteOrder
<1> QED
  BY <1>1, <1>2, <1>4, <1>5, <1>6 DEF WireOrder

LEMMA FloatsTravel ==
  ASSUME NEW S, NEW value \in Seq(S), NEW h \in Hosts, NEW g \in Hosts
  PROVE  FloatingWireOrder(h, g, value)
<1>1. PICK r \in Seq(S) : r = Reverse(value) /\ Reverse(r) = value
  BY ReverseType
<1>2. InMemory(h, NSSwapHostFloatingToBig(h, value).swapped) = value
  BY <1>1 DEF InMemory, NSSwapHostFloatingToBig, NSConvertHostToSwapped
<1>3. InMemory(h, NSSwapHostFloatingToLittle(h, value).swapped) = r
  BY <1>1 DEF InMemory, NSSwapHostFloatingToLittle, NSConvertHostToSwapped
<1>4. /\ NSSwapBigFloatingToHost(g, [swapped |-> InMemory(g, value)]) = value
      /\ NSSwapLittleFloatingToHost(g, [swapped |-> InMemory(g, r)]) = value
  BY <1>1 DEF InMemory, NSSwapBigFloatingToHost, NSSwapLittleFloatingToHost, NSConvertSwappedToHost
<1>5. /\ NSConvertSwappedToHost(NSConvertHostToSwapped(value)) = value
      /\ NSConvertSwappedToHost(NSSwapFloating(NSConvertHostToSwapped(value))) = r
  BY <1>1 DEF NSConvertSwappedToHost, NSConvertHostToSwapped, NSSwapFloating
<1> QED
  BY <1>1, <1>2, <1>3, <1>4, <1>5 DEF FloatingWireOrder

-----------------------------------------------------------------------------
(* Tagged pointers (TaggedPointers).                                       *)

LEMMA TagParts ==
  \E t \in Nat \ {0, 1}, h \in Nat \ {0} :
    /\ t = Pow(TagBits) /\ h = Pow(ValueBits - 1)
    /\ Pow(ValueBits) = 2 * h /\ Pow(PointerBits) = t * (2 * h) /\ Pow(PointerBits - 1) = t * h
<1>1. PICK m \in Nat, n \in Nat : /\ TagBits = m + 1 /\ ValueBits = n + 1 /\ ValueBits - 1 = n
                                  /\ PointerBits = TagBits + ValueBits
                                  /\ PointerBits - 1 = TagBits + n /\ TagBits \in Nat /\ ValueBits \in Nat
  BY TagAssumption DEF ValueBits
<1>2. PICK t \in Nat \ {0, 1} : t = Pow(TagBits)
  <2>1. Pow(m + 1) = 2 * Pow(m) /\ Pow(m) \in Nat \ {0}
    BY PowIs
  <2> QED
    BY <1>1, <2>1
<1>3. PICK h \in Nat \ {0} : h = Pow(n)
  BY PowIs
<1>4. Pow(ValueBits) = 2 * h
  BY <1>1, <1>3, PowIs
<1>5. Pow(PointerBits) = t * (2 * h)
  BY <1>1, <1>2, <1>4, PowAdds
<1>6. Pow(PointerBits - 1) = t * h
  BY <1>1, <1>2, <1>3, PowAdds
<1> QED
  BY <1>1, <1>2, <1>3, <1>4, <1>5, <1>6

(* What a tagged pointer holds.                                            *)
LEMMA Unpacks ==
  ASSUME NEW value \in Int, NEW index \in Indexes
  PROVE  LET s == CreateWithIntegerValueAndIndex(value, index)
         IN  /\ GetIndex(s) = index /\ GetUnsignedIntegerValue(s) = value % Pow(ValueBits)
             /\ s \in NSUIntegers
<1>1. PICK t \in Nat \ {0, 1}, h \in Nat \ {0} :
        /\ t = Pow(TagBits) /\ Pow(ValueBits) = 2 * h /\ Pow(PointerBits) = t * (2 * h)
  BY TagParts
<1>2. index \in 1 .. t - 1
  BY <1>1 DEF Indexes
<1>3. PICK w \in Nat \ {0} : w = 2 * h
  BY <1>1
<1>4. PICK u \in 0 .. w - 1 : u = value % w
  BY <1>3, Rest
<1>5. PICK s \in Int : s = CreateWithIntegerValueAndIndex(value, index) /\ s = t * u + index
  <2>1. (value * t) % (t * w) = t * u
    BY <1>3, <1>4, ShiftedOut
  <2> QED
    BY <1>1, <1>2, <1>3, <1>4, <2>1 DEF CreateWithIntegerValueAndIndex
<1>6. s \div t = u /\ s % t = index
  BY <1>2, <1>5, QuotientAndRest
<1>7. s \in 0 .. t * w - 1
  <2>1. t * u <= t * (w - 1) /\ t * u >= 0
    BY <1>3, <1>4
  <2>2. t * (w - 1) = t * w - t
    BY <1>3
  <2>3. t * u \in Int /\ t * w \in Int
    BY <1>3, <1>4
  <2> QED
    BY <1>2, <1>5, <2>1, <2>2, <2>3
<1> QED
  BY <1>1, <1>3, <1>4, <1>5, <1>6, <1>7 DEF GetIndex, GetUnsignedIntegerValue, NSUIntegers

LEMMA Fits ==
  ASSUME NEW index \in Indexes, NEW value \in NSIntegers \cup NSUIntegers
  PROVE  FitsExactly(index, value)
<1>1. PICK t \in Nat \ {0, 1}, h \in Nat \ {0} :
        /\ t = Pow(TagBits) /\ h = Pow(ValueBits - 1)
        /\ Pow(ValueBits) = 2 * h /\ Pow(PointerBits) = t * (2 * h) /\ Pow(PointerBits - 1) = t * h
  BY TagParts
<1>2. value \in Int
  <2>1. t * h \in Int /\ t * (2 * h) \in Int
    BY <1>1
  <2> QED
    BY <1>1, <2>1 DEF NSIntegers, NSUIntegers
<1>3. PICK w \in Nat \ {0}, v \in Int : w = 2 * h /\ v = value
  BY <1>1, <1>2
<1>4. PICK u \in 0 .. w - 1 :
        /\ u = v % w
        /\ v \in 0 .. w - 1 => u = v
        /\ v \in -w .. -1 => u = v + w
  BY Rest
<1>5. PICK s : /\ s = CreateWithIntegerValueAndIndex(value, index)
               /\ s = CreateWithUnsignedIntegerValueAndIndex(value, index)
  BY DEF CreateWithIntegerValueAndIndex, CreateWithUnsignedIntegerValueAndIndex
<1>6. GetIndex(s) = index /\ GetUnsignedIntegerValue(s) = u /\ s \in NSUIntegers
  BY <1>1, <1>2, <1>3, <1>4, <1>5, Unpacks
<1>7. s % Pow(TagBits) /= 0
  <2>1. index /= 0
    BY <1>1 DEF Indexes
  <2> QED
    BY <1>6, <2>1 DEF GetIndex
<1>8. GetIntegerValue(s) = IF u >= h THEN u - 2 * h ELSE u
  BY <1>1, <1>6 DEF GetIntegerValue
<1>9. IsIntegerValue(value) <=> GetIntegerValue(s) = value
  <2>1. IsIntegerValue(value) <=> v \in -h .. h - 1
    BY <1>1, <1>3 DEF IsIntegerValue
  <2>2. PICK i \in Int : i = GetIntegerValue(s) /\ i = IF u >= h THEN u - w ELSE u
    BY <1>1, <1>3, <1>8
  <2>3. i \in -h .. h - 1
    BY <1>3, <2>2
  <2>4. CASE v \in 0 .. h - 1
    <3>1. u = v
      BY <1>3, <1>4, <2>4
    <3> QED
      BY <1>3, <2>1, <2>2, <2>4, <3>1
  <2>5. CASE v \in -h .. -1
    <3>1. u = v + w
      BY <1>3, <1>4, <2>5
    <3>2. u >= h
      BY <1>3, <2>5, <3>1
    <3> QED
      BY <1>3, <2>1, <2>2, <2>5, <3>1, <3>2
  <2>6. CASE v \notin -h .. h - 1
    BY <1>3, <2>1, <2>2, <2>3, <2>6
  <2> QED
    BY <2>4, <2>5, <2>6
<1>10. IsUnsignedIntegerValue(value) <=> GetUnsignedIntegerValue(s) = value
  <2>1. value \in 0 .. w - 1 => u = value
    BY <1>3, <1>4
  <2> QED
    BY <1>1, <1>3, <1>4, <1>6, <2>1 DEF IsUnsignedIntegerValue
<1> QED
  BY <1>5, <1>6, <1>7, <1>9, <1>10 DEF FitsExactly

LEMMA Registers ==
  ASSUME NEW C, NEW classes \in [Indexes -> C \cup {NoClass}], NEW indexOf, DOMAIN indexOf = C,
         NEW class \in C \cup {NoClass}, NEW index, NEW value \in NSIntegers \cup NSUIntegers
  PROVE  RegisteredLeadsBack(classes, indexOf, class, index, value)
<1>1. PICK r : r = RegisterClassAtIndex(classes, indexOf, class, index)
  OBVIOUS
<1>2. CASE class = NoClass \/ index \notin Indexes
  BY <1>1, <1>2 DEF RegisteredLeadsBack, RegisterClassAtIndex
<1>3. CASE class # NoClass /\ index \in Indexes
  <2>1. /\ r.rval = 0 /\ r.classes = [classes EXCEPT ![index] = class]
        /\ r.indexOf = [indexOf EXCEPT ![class] = index]
    BY <1>1, <1>3 DEF RegisterClassAtIndex
  <2>2. ClassGetIndex(r.indexOf, class) = index
    BY <1>3, <2>1 DEF ClassGetIndex
  <2>3. value \in Int
    <3>1. PICK t \in Nat, h \in Nat : Pow(PointerBits) = t * (2 * h) /\ Pow(PointerBits - 1) = t * h
      BY TagParts
    <3>2. t * h \in Int /\ t * (2 * h) \in Int
      BY <3>1
    <3> QED
      BY <3>1, <3>2 DEF NSIntegers, NSUIntegers
  <2>4. GetIndex(CreateWithIntegerValueAndIndex(value, index)) = index
    BY <1>3, <2>3, Unpacks
  <2>5. r.classes[index] = class
    BY <1>3, <2>1
  <2>6. \A c \in C \ {class} : ClassGetIndex(r.indexOf, c) = ClassGetIndex(indexOf, c)
    BY <2>1 DEF ClassGetIndex
  <2> QED
    BY <1>1, <2>1, <2>2, <2>4, <2>5, <2>6 DEF RegisteredLeadsBack
<1> QED
  BY <1>2, <1>3

-----------------------------------------------------------------------------
(* Messages (MetaABI).                                                     *)

(* A remainder of a remainder by a factor is the remainder by the factor.  *)
LEMMA RestOfRest ==
  ASSUME NEW v \in Int, NEW n \in Nat \ {0}, NEW k \in Nat \ {0}
  PROVE  (v % (n * k)) % n = v % n
<1>1. PICK m \in Nat \ {0} : m = n * k
  OBVIOUS
<1>2. PICK q \in Int, u \in 0 .. m - 1 : v = m * q + u /\ u = v % m
  <2>1. v \div m \in Int /\ v % m \in 0 .. m - 1 /\ v = m * (v \div m) + (v % m)
    OBVIOUS
  <2> QED
    BY <2>1
<1>3. PICK p \in Int, r \in 0 .. n - 1 : u = n * p + r /\ r = u % n
  <2>1. u \in Int /\ u \div n \in Int /\ u % n \in 0 .. n - 1 /\ u = n * (u \div n) + (u % n)
    OBVIOUS
  <2> QED
    BY <2>1
<1>4. PICK j \in Int : j = k * q + p
  OBVIOUS
<1>5. v = n * j + r
  <2>1. m * q = n * (k * q)
    BY <1>1
  <2>2. n * j = n * (k * q) + n * p
    BY <1>4
  <2>3. PICK a \in Int, b \in Int : a = n * (k * q) /\ b = n * p
    OBVIOUS
  <2>4. v = a + u /\ u = b + r /\ n * j = a + b
    BY <1>2, <1>3, <2>1, <2>2, <2>3
  <2> QED
    BY <2>4
<1>6. v % n = r
  BY <1>5, QuotientAndRest
<1> QED
  BY <1>1, <1>2, <1>3, <1>6

(* The bits of a type, and half of the values they hold.                   *)
LEMMA SizesCount ==
  ASSUME NEW p \in Platforms, NEW type \in NarrowTypes \cup WideTypes
  PROVE  /\ SizeOf(p, type) \in Nat \ {0}
         /\ p.pointer \in Nat \ {0}
         /\ type \in NarrowTypes => SizeOf(p, type) <= p.pointer
<1>1. p.pointer \in {4, 8} /\ p.long \in {4, 8} /\ p.long <= p.pointer
  BY DEF Platforms
<1>2. CASE type \in NarrowTypes
  <2>1. type \in {"char", "unsigned char"} => SizeOf(p, type) = 1
    BY DEF SizeOf
  <2>2. type \in {"short", "unsigned short"} => SizeOf(p, type) = 2
    BY DEF SizeOf
  <2>3. type \in {"int", "unsigned int", "BOOL"} => SizeOf(p, type) = 4
    BY DEF SizeOf
  <2>4. SizeOf(p, "NSInteger") = p.pointer
    BY DEF SizeOf
  <2>5. SizeOf(p, type) \in {1, 2, 4, p.pointer}
    BY <1>2, <2>1, <2>2, <2>3, <2>4 DEF NarrowTypes
  <2>6. PICK s \in {1, 2, 4, p.pointer} : s = SizeOf(p, type)
    BY <2>5
  <2> QED
    BY <1>1, <2>6
<1>3. CASE type \in WideTypes
  <2>1. type \in {"long", "unsigned long"} => SizeOf(p, type) = p.long
    BY DEF SizeOf
  <2>2. SizeOf(p, "long long") = 8 /\ SizeOf(p, "unsigned long long") = 8
    BY DEF SizeOf
  <2>3. type \notin NarrowTypes
    BY <1>3 DEF NarrowTypes, WideTypes
  <2>4. SizeOf(p, type) \in {8, p.long}
    BY <1>3, <2>1, <2>2 DEF WideTypes
  <2>5. PICK s \in {8, p.long} : s = SizeOf(p, type)
    BY <2>4
  <2> QED
    BY <1>1, <2>3, <2>5
<1> QED
  BY <1>2, <1>3

LEMMA HalfOfBits ==
  ASSUME NEW size \in Nat \ {0}
  PROVE  \E h \in Nat \ {0} : Pow(Bits(size) - 1) = h /\ Pow(Bits(size)) = 2 * h
<1>1. PICK b \in Nat : Bits(size) = b + 1 /\ Bits(size) - 1 = b
  <2>1. Bits(size) \in Nat /\ Bits(size) >= 1
    BY ValuesAssumption DEF Bits
  <2>2. Bits(size) - 1 \in Nat /\ Bits(size) = (Bits(size) - 1) + 1
    BY <2>1
  <2> QED
    BY <2>2
<1> QED
  BY <1>1, PowIs

(* What a type of some bytes holds.                                        *)
Holds(p, type) ==
  LET n == Pow(Bits(SizeOf(p, type)))
      h == Pow(Bits(SizeOf(p, type)) - 1)
  IN  IF type \in Unsigned THEN 0 .. n - 1 ELSE -h .. h - 1

LEMMA CastHolds ==
  ASSUME NEW p \in Platforms, NEW type \in NarrowTypes \cup WideTypes, NEW word \in Int
  PROVE  Cast(p, type, word) \in Holds(p, type)
<1>1. PICK h \in Nat \ {0} : /\ Pow(Bits(SizeOf(p, type)) - 1) = h
                             /\ Pow(Bits(SizeOf(p, type))) = 2 * h
  BY SizesCount, HalfOfBits
<1>2. PICK n \in Nat \ {0} : n = 2 * h
  OBVIOUS
<1>3. PICK u \in 0 .. n - 1 : u = word % n
  BY Rest
<1> QED
  BY <1>1, <1>2, <1>3 DEF Cast, Holds

(* A value of a type, extended to a word that is at least as wide and cast *)
(* to the type, is as it was.                                              *)
LEMMA CastBack ==
  ASSUME NEW p \in Platforms, NEW type \in NarrowTypes \cup WideTypes, NEW v \in Holds(p, type),
         NEW size \in Nat, SizeOf(p, type) <= size
  PROVE  v \in Int /\ Cast(p, type, v % Pow(Bits(size))) = v
<1>1. PICK h \in Nat \ {0} : /\ Pow(Bits(SizeOf(p, type)) - 1) = h
                             /\ Pow(Bits(SizeOf(p, type))) = 2 * h
  BY SizesCount, HalfOfBits
<1>2. PICK n \in Nat \ {0} : n = 2 * h
  OBVIOUS
<1>3. v \in Int /\ v \in IF type \in Unsigned THEN 0 .. n - 1 ELSE -h .. h - 1
  BY <1>1, <1>2 DEF Holds
<1>4. PICK k \in Nat \ {0} : Pow(Bits(size)) = n * k
  <2>1. PICK b \in Nat, c \in Nat : /\ Bits(SizeOf(p, type)) = b /\ Bits(size) = b + c
    <3>1. PICK s \in Nat, d \in Nat : SizeOf(p, type) = s /\ size = s + d
      <4>1. SizeOf(p, type) \in Nat /\ size - SizeOf(p, type) \in Nat
        BY SizesCount
      <4>2. size = SizeOf(p, type) + (size - SizeOf(p, type))
        BY <4>1
      <4> QED
        BY <4>1, <4>2
    <3>2. s * ByteBits \in Nat /\ d * ByteBits \in Nat /\ (s + d) * ByteBits = s * ByteBits + d * ByteBits
      BY ValuesAssumption
    <3> QED
      BY <3>1, <3>2 DEF Bits
  <2>2. Pow(b + c) = Pow(b) * Pow(c) /\ Pow(c) \in Nat \ {0}
    BY PowAdds, PowIs
  <2> QED
    BY <1>1, <1>2, <2>1, <2>2
<1>5. PICK u \in 0 .. n - 1 :
        /\ u = v % n
        /\ v \in 0 .. n - 1 => u = v
        /\ v \in -n .. -1 => u = v + n
  BY <1>3, Rest
<1>6. (v % (n * k)) % n = u
  BY <1>3, <1>5, RestOfRest
<1>7. Cast(p, type, v % Pow(Bits(size))) = IF type \notin Unsigned /\ u >= h THEN u - n ELSE u
  BY <1>1, <1>2, <1>4, <1>6 DEF Cast
<1>8. CASE type \in Unsigned
  BY <1>3, <1>5, <1>7, <1>8
<1>9. CASE type \notin Unsigned /\ v \in 0 .. h - 1
  <2>1. u = v
    BY <1>2, <1>5, <1>9
  <2> QED
    BY <1>3, <1>7, <1>9, <2>1
<1>10. CASE type \notin Unsigned /\ v \in -h .. -1
  <2>1. u = v + n
    BY <1>2, <1>5, <1>10
  <2>2. u >= h
    BY <1>2, <1>10, <2>1
  <2> QED
    BY <1>2, <1>3, <1>7, <1>10, <2>1, <2>2
<1> QED
  BY <1>3, <1>8, <1>9, <1>10

LEMMA RoundTrips ==
  ASSUME NEW p \in Platforms, NEW type \in Types, NEW value \in Values(p, type)
  PROVE  AccessorsRoundTrip(p, type, value)
<1> DEFINE integer == type \in NarrowTypes \cup WideTypes
           result == CalleeLeaves(p, type, value)
<1>1. integer => type \notin FloatTypes /\ type # "NSRange" /\ type # "long double"
  BY DEF NarrowTypes, WideTypes, FloatTypes
<1>2. type \in NarrowTypes => type \notin WideTypes /\ FitsPointer(p, type)
  BY SizesCount DEF FitsPointer, NarrowTypes, WideTypes
<1>3. CASE integer /\ FitsPointer(p, type)
  <2>1. PassedInRegister(p, type)
    BY <1>3 DEF PassedInRegister
  <2>2. value \in Holds(p, type)
    <3>1. PICK word \in Int : value = Cast(p, type, word)
      <4>1. value \in IntegersOf(p, type)
        BY <1>1, <1>3 DEF Values
      <4>2. PICK h \in Nat \ {0} : Pow(Bits(SizeOf(p, type))) = 2 * h
        BY <1>3, SizesCount, HalfOfBits
      <4> QED
        BY <4>1, <4>2 DEF IntegersOf
    <3> QED
      BY <1>3, <3>1, CastHolds
  <2>3. Cast(p, type, Word(p, value)) = value
    BY <1>3, <2>2, SizesCount, CastBack DEF Word, FitsPointer
  <2>4. result = Register(Word(p, value)) /\ result.in = "register" /\ result.word = Word(p, value)
    BY <2>1 DEF CalleeLeaves, Register
  <2>5. MulleObjCObjectSet(p, type, value) = result
    BY <1>1, <1>2, <1>3, <2>4 DEF MulleObjCObjectSet, SetNarrow, SetWide
  <2>6. CalleeTakes(p, type, result) = value
    BY <2>1, <2>3, <2>4 DEF CalleeTakes
  <2>7. MulleObjCObjectGet(p, type, result) = value
    BY <1>1, <1>2, <1>3, <2>3, <2>4 DEF MulleObjCObjectGet, GetNarrow, GetWide
  <2>8. ASSUME type = "BOOL"
        PROVE  MulleObjCObjectPerformSelectorReturningBOOL(p, result) = value
    <3>1. "NSInteger" \in NarrowTypes \cup WideTypes /\ "BOOL" \in NarrowTypes \cup WideTypes
      BY DEF NarrowTypes
    <3>2. SizeOf(p, "BOOL") = 4 /\ SizeOf(p, "NSInteger") = p.pointer
      BY DEF SizeOf
    <3>3. SizeOf(p, "BOOL") <= SizeOf(p, "NSInteger") /\ p.pointer \in Nat \ {0}
      BY <3>2 DEF Platforms
    <3> DEFINE N == Pow(Bits(p.pointer))
    <3>4. "NSInteger" \notin Unsigned /\ "BOOL" \notin Unsigned
      BY DEF Unsigned
    <3>5. value \in Holds(p, "NSInteger")
      <4>1. PICK h \in Nat \ {0} : Pow(Bits(4) - 1) = h
        BY HalfOfBits
      <4>2. PICK g \in Nat \ {0} : Pow(Bits(p.pointer) - 1) = g /\ h <= g
        <5>1. CASE p.pointer = 4
          BY <4>1, <5>1
        <5>2. CASE p.pointer = 8
          <6>1. PICK b \in Nat, c \in Nat : Bits(4) - 1 = b /\ Bits(8) - 1 = b + c
            <7>1. PICK m \in Nat : Bits(4) = 4 * m /\ Bits(8) = 8 * m /\ m >= 1
              BY ValuesAssumption DEF Bits
            <7>2. 4 * m - 1 \in Nat /\ 4 * m \in Nat /\ 8 * m - 1 = (4 * m - 1) + 4 * m
              BY <7>1
            <7> QED
              BY <7>1, <7>2
          <6>2. PICK y \in Nat \ {0} : y = Pow(c) /\ Pow(b + c) = h * y
            BY <4>1, <6>1, PowAdds, PowIs
          <6>3. h * y \in Nat \ {0} /\ h <= h * y
            OBVIOUS
          <6> QED
            BY <4>1, <5>2, <6>1, <6>2, <6>3
        <5> QED
          BY <5>1, <5>2 DEF Platforms
      <4>3. value \in -h .. h - 1
        BY <2>2, <2>8, <3>2, <3>4, <4>1 DEF Holds
      <4> QED
        BY <3>2, <3>4, <4>2, <4>3 DEF Holds
    <3>6. Cast(p, "NSInteger", value % N) = value
      BY <3>1, <3>2, <3>3, <3>5, CastBack
    <3>7. Cast(p, "BOOL", value) = value
      <4>1. PICK h \in Nat \ {0} : Pow(Bits(4)) = 2 * h /\ Pow(Bits(4) - 1) = h
        BY HalfOfBits
      <4>2. PICK n \in Nat \ {0} : n = 2 * h
        OBVIOUS
      <4>3. value \in -h .. h - 1
        BY <2>2, <2>8, <3>2, <3>4, <4>1 DEF Holds
      <4>4. PICK u \in 0 .. n - 1 :
              /\ u = value % n
              /\ value \in 0 .. n - 1 => u = value
              /\ value \in -n .. -1 => u = value + n
        <5>1. PICK v \in Int : v = value
          BY <4>3
        <5> QED
          BY <5>1, Rest
      <4>5. Cast(p, "BOOL", value) = IF u >= h THEN u - n ELSE u
        BY <3>2, <3>4, <4>1, <4>2, <4>4 DEF Cast
      <4>6. CASE value \in 0 .. h - 1
        <5>1. u = value
          BY <4>2, <4>4, <4>6
        <5> QED
          BY <4>5, <4>6, <5>1
      <4>7. CASE value \in -h .. -1
        <5>1. u = value + n /\ u >= h
          BY <4>2, <4>4, <4>7
        <5> QED
          BY <4>5, <4>7, <5>1
      <4> QED
        BY <4>3, <4>6, <4>7
    <3> QED
      BY <2>4, <3>6, <3>7 DEF MulleObjCObjectPerformSelectorReturningBOOL, Word
  <2>9. type \in KVCTypes =>
          /\ CalleeTakes(p, type, MulleObjCIMPCallWith(p, type, value)) = value
          /\ MulleObjCIMPCall0Returning(p, type, result) = value
    <3>1. type \in KVCTypes => type \in WideTypes
      BY <1>1, <1>3 DEF KVCTypes
    <3> QED
      BY <1>3, <2>3, <2>4, <2>6, <3>1 DEF MulleObjCIMPCallWith, MulleObjCIMPCall0Returning
  <2> HIDE DEF result
  <2>10. type # "long double"
    BY <1>1, <1>3
  <2> QED
    BY <2>5, <2>6, <2>7, <2>8, <2>9, <2>10 DEF AccessorsRoundTrip, result
<1>4. CASE ~(integer /\ FitsPointer(p, type))
  <2>1. ~PassedInRegister(p, type)
    BY <1>4 DEF PassedInRegister
  <2>2. type \notin NarrowTypes /\ type # "BOOL"
    BY <1>2, <1>4 DEF NarrowTypes
  <2>3. type \in WideTypes => ~FitsPointer(p, type)
    BY <1>4
  <2>4. result = Block(<<value>>) /\ result.in = "block" /\ result.fields[1] = value
    BY <2>1 DEF CalleeLeaves, Block
  <2>5. MulleObjCObjectSet(p, type, value) = result
    BY <2>2, <2>3, <2>4 DEF MulleObjCObjectSet, SetWide, SetInBlock
  <2>6. CalleeTakes(p, type, result) = value
    BY <2>1, <2>4 DEF CalleeTakes
  <2>7. GetFromBlock(result) = value
    BY <2>4 DEF GetFromBlock
  <2>8. MulleObjCObjectGet(p, type, result) = IF type = "long double" THEN AsDouble(value) ELSE value
    <3>1. CASE type = "long double"
      <4>1. value # Garbage
        BY <3>1, ValuesAssumption DEF Values, NarrowTypes, WideTypes, FloatTypes
      <4>2. type \notin WideTypes
        BY <3>1 DEF WideTypes
      <4> QED
        BY <2>2, <2>7, <3>1, <4>1, <4>2 DEF MulleObjCObjectGet, GetLongDouble
    <3>2. CASE type # "long double"
      BY <2>2, <2>3, <2>4, <2>7, <3>2 DEF MulleObjCObjectGet, GetWide
    <3> QED
      BY <3>1, <3>2
  <2>9. type \in KVCTypes =>
          /\ CalleeTakes(p, type, MulleObjCIMPCallWith(p, type, value)) = value
          /\ MulleObjCIMPCall0Returning(p, type, result) = value
    BY <2>3, <2>4, <2>6, <2>7 DEF MulleObjCIMPCallWith, MulleObjCIMPCall0Returning
  <2> HIDE DEF result
  <2> QED
    BY <2>2, <2>5, <2>6, <2>8, <2>9 DEF AccessorsRoundTrip, result
<1> QED
  BY <1>3, <1>4

LEMMA ArgumentsArrive ==
  ASSUME NEW O, NEW n \in Nat, NEW args \in [1 .. n -> O], NEW obj
  PROVE  CallsPassArguments(obj, args)
<1>1. args \in Seq(O) /\ Len(args) = n
  BY SeqDef, LenProperties
<1>2. CASE n = 0
  <2>1. args = <<>>
    BY <1>1, <1>2
  <2> QED
    BY <1>1, <1>2, <2>1 DEF CallsPassArguments, Arguments, MulleObjCIMPCall, MulleObjCObjectPerformSelector
<1>3. CASE n = 1
  <2>1. args = <<args[1]>>
    BY <1>1, <1>3
  <2>2. SubSeq(args, 1, n) = args
    BY <1>1, PrefixOfSeq
  <2> QED
    BY <1>1, <1>3, <2>1, <2>2
       DEF CallsPassArguments, Arguments, MulleObjCIMPCall, MulleObjCObjectPerformSelector,
           MulleObjCObjectPerformSelectorDoubleArgument, Register, Block
<1>4. CASE n > 1
  <2>1. SubSeq(args, 1, n) = args
    BY <1>1, PrefixOfSeq
  <2> QED
    BY <1>1, <1>4, <2>1
       DEF CallsPassArguments, Arguments, MulleObjCIMPCall, MulleObjCObjectPerformSelector,
           MulleObjCObjectPerformSelectorDoubleArgument, Register, Block
<1> QED
  BY <1>2, <1>3, <1>4

-----------------------------------------------------------------------------
(* Errors (Exceptions).                                                    *)

(* A universe that is configured.                                          *)
UniverseFrame ==
  [id : UniverseId, vectors : [Kind -> {"abort", "raise"}], objectfromchars : BOOLEAN,
   uncaughtexception : {None, "handler"}, wrongthread : {"fails", "handler"},
   initialized : {TRUE}]

LEMMA Configured ==
  ASSUME NEW config \in _mulle_objc_universeconfiguration
  PROVE  /\ UniversesWith(config) \in [UniverseId -> UniverseFrame]
         /\ \A id \in UniverseId : UniversesWith(config)[id].id = id
<1>1. AbortingTable \in [Kind -> {"abort", "raise"}]
  BY DEF AbortingTable
<1>2. /\ config.exceptiontable \in [Kind -> {"abort", "raise"}]
      /\ config.uncaughtexception \in {None, "handler"}
      /\ config.wrongthread \in {None, "handler"}
      /\ config.strings \in BOOLEAN
  <2>1. \A k \in Kind : [AbortingTable EXCEPT ![k] = "raise"] \in [Kind -> {"abort", "raise"}]
    BY <1>1
  <2>2. [k \in Kind |-> "raise"] \in [Kind -> {"abort", "raise"}]
    OBVIOUS
  <2>3. config.exceptiontable \in {AbortingTable} \cup {[k \in Kind |-> "raise"]} \cup
                                  {[AbortingTable EXCEPT ![k] = "raise"] : k \in Kind}
    BY DEF _mulle_objc_universeconfiguration
  <2>4. config.exceptiontable \in [Kind -> {"abort", "raise"}]
    BY <1>1, <2>1, <2>2, <2>3
  <2> QED
    BY <2>4 DEF _mulle_objc_universeconfiguration
<1>3. ASSUME NEW id \in UniverseId
      PROVE  /\ ConfigureUniverse(id, config) \in UniverseFrame
             /\ ConfigureUniverse(id, config).id = id
  BY <1>2 DEF ConfigureUniverse, UniverseFrame
<1>4. ASSUME NEW id \in UniverseId
      PROVE  LET c == mulle_objc_global_get_default_universeconfiguration
             IN  /\ ConfigureUniverse(id, c) \in UniverseFrame
                 /\ ConfigureUniverse(id, c).id = id
  BY <1>1 DEF ConfigureUniverse, UniverseFrame, mulle_objc_global_get_default_universeconfiguration
<1> QED
  BY <1>3, <1>4 DEF UniversesWith

LEMMA Arrives ==
  ASSUME NEW universes \in [UniverseId -> UniverseFrame],
         \A i \in UniverseId : universes[i].id = i,
         NEW id \in UniverseId, NEW crunch \in BOOLEAN, NEW error \in Kind, NEW argument
  PROVE  ErrorsArrive(universes, id, crunch, error, argument)
<1> DEFINE universe == IF crunch THEN InCrunch(universes[id]) ELSE universes[id]
           code == [universeid |-> id]
           object == [universe |-> id]
           raised == Raise(universe, error, argument)
           thrown == MulleObjCThrow(universes, code, error, argument)
           chars == MulleObjCThrowUTF8String(universes, code, error, argument)
           set == MulleObjCSetTAOFailureHandler(
                    NSSetUncaughtExceptionHandler(universes, "mine"), "my own")
<1>1. universes[id] \in UniverseFrame /\ universes[id].id = id
  OBVIOUS
<1>2. PICK how \in {"abort", "raise"} : universes[id].vectors[error] = how
  BY <1>1 DEF UniverseFrame
<1>3. /\ universe.id = id /\ universe.vectors[error] = how
      /\ universe.objectfromchars = universes[id].objectfromchars
      /\ universe.initialized = ~crunch /\ universe.objectfromchars \in BOOLEAN
  BY <1>1, <1>2 DEF UniverseFrame, InCrunch
<1>4. \A e : LET c == [how |-> how, universe |-> id, kind |-> error, message |-> e]
             IN  Call(universe, error, e) = c /\ Call(universes[id], error, e) = c
  BY <1>1, <1>2, <1>3 DEF Call, MulleObjCStringVPrintfAbort, PrintAndAbort, Raised
<1>5. \A e : PrintAndAbort(universe, error, e)
                = [how |-> "abort", universe |-> id, kind |-> error, message |-> e]
  BY <1>3 DEF PrintAndAbort
<1>6. PrintAndAbort(universes[id], error, argument)
        = [how |-> "abort", universe |-> id, kind |-> error, message |-> argument]
  BY <1>1 DEF PrintAndAbort
<1>7. /\ raised.universe = id /\ raised.kind = error
      /\ raised.how = "raise" => ~crunch /\ universe.vectors[error] = "raise"
      /\ raised.message # argument => error = "errno_error" /\ ~crunch /\ ~universe.objectfromchars
  <2>1. PICK string : string = _mulle_objc_universe_string(universe, argument)
    OBVIOUS
  <2>2. string = None \/ string = argument
    BY <2>1 DEF _mulle_objc_universe_string
  <2>3. universe.objectfromchars => string = argument
    BY <2>1 DEF _mulle_objc_universe_string
  <2>4. HasHandlerTable(universe) <=> ~crunch
    BY <1>1 DEF HasHandlerTable, UniverseFrame, InCrunch
  <2> HIDE DEF universe
  <2>5. /\ Call(universe, error, string) = [how |-> how, universe |-> id, kind |-> error, message |-> string]
        /\ Call(universe, error, argument) = [how |-> how, universe |-> id, kind |-> error, message |-> argument]
        /\ PrintAndAbort(universe, error, argument)
              = [how |-> "abort", universe |-> id, kind |-> error, message |-> argument]
    BY <1>4, <1>5
  <2>6. \/ /\ raised = Call(universe, error, string)
           /\ ~crunch /\ (string = argument \/ error = "errno_error")
        \/ raised = Call(universe, error, argument) /\ ~crunch
        \/ raised = PrintAndAbort(universe, error, argument)
    <3>1. CASE error = "errno_error"
      BY <2>1, <2>4, <3>1 DEF Raise, raisev_errno
    <3>2. CASE error = "invalid_index"
      BY <2>4, <3>2 DEF Raise, raise_invalidindex
    <3>3. CASE error \notin {"errno_error", "invalid_index"}
      BY <2>1, <2>2, <2>4, <3>3 DEF Raise, raisev
    <3> QED
      BY <3>1, <3>2, <3>3
  <2> HIDE DEF raised
  <2>7. CASE raised = Call(universe, error, string) /\ ~crunch /\ (string = argument \/ error = "errno_error")
    <3>1. raised.universe = id /\ raised.kind = error /\ raised.how = how /\ raised.message = string
      BY <2>5, <2>7
    <3> QED
      BY <1>3, <2>3, <2>7, <3>1
  <2>8. CASE raised = Call(universe, error, argument) /\ ~crunch
    <3>1. raised.universe = id /\ raised.kind = error /\ raised.how = how /\ raised.message = argument
      BY <2>5, <2>8
    <3> QED
      BY <1>3, <2>8, <3>1
  <2>9. CASE raised = PrintAndAbort(universe, error, argument)
    BY <2>5, <2>9
  <2> QED
    BY <2>6, <2>7, <2>8, <2>9
<1>8. thrown = [how |-> how, universe |-> id, kind |-> error, message |-> argument]
  BY <1>4 DEF MulleObjCThrow, _MulleObjCThrow
<1>9. /\ chars.universe = id /\ chars.how = how
      /\ chars.message # argument => chars.how = "raise" /\ ~universe.objectfromchars
  BY <1>2, <1>3, <1>4, <1>6 DEF MulleObjCThrowUTF8String, _MulleObjCThrowUTF8String
<1>10. \A x \in {None, object} : MulleObjCObjectGetUniverse(universes, code, x).id = id
  BY <1>1 DEF MulleObjCObjectGetUniverse, MulleObjCGetUniverse
<1>11. /\ NSGetUncaughtExceptionHandler(set) = "mine"
       /\ MulleObjCGetTAOFailureHandler(set) = "my own"
       /\ Uncaught(set, object) = IF id = DefaultUniverse THEN "mine" ELSE Uncaught(universes, object)
       /\ WrongThread(set, object) = IF id = DefaultUniverse THEN "my own" ELSE WrongThread(universes, object)
  <2>1. universes[DefaultUniverse] \in UniverseFrame
    BY UniverseAssumption
  <2>2. PICK v : v = NSSetUncaughtExceptionHandler(universes, "mine")
    OBVIOUS
  <2>3. PICK d : d = [universes[DefaultUniverse] EXCEPT !.uncaughtexception = "mine"]
    OBVIOUS
  <2>4. v = [universes EXCEPT ![DefaultUniverse] = d]
    BY <2>2, <2>3 DEF NSSetUncaughtExceptionHandler
  <2>5. v[DefaultUniverse] = d /\ \A i \in UniverseId \ {DefaultUniverse} : v[i] = universes[i]
    BY <2>4, UniverseAssumption
  <2>6. PICK f : f = [d EXCEPT !.wrongthread = "my own"]
    OBVIOUS
  <2>7. f.uncaughtexception = "mine" /\ f.wrongthread = "my own"
    BY <2>1, <2>3, <2>6 DEF UniverseFrame
  <2>8. set = [v EXCEPT ![DefaultUniverse] = f]
    BY <2>2, <2>5, <2>6 DEF MulleObjCSetTAOFailureHandler
  <2>9. set[DefaultUniverse] = f /\ \A i \in UniverseId \ {DefaultUniverse} : set[i] = universes[i]
    BY <2>4, <2>5, <2>8, UniverseAssumption
  <2> HIDE DEF set
  <2> QED
    BY <2>7, <2>9 DEF NSGetUncaughtExceptionHandler, MulleObjCGetTAOFailureHandler, Uncaught, WrongThread
<1>12. thrown.universe = id /\ thrown.message = argument /\ thrown.how = how
  BY <1>8
<1> HIDE DEF universe, code, object, raised, thrown, chars, set
<1> QED
  BY <1>2, <1>7, <1>9, <1>10, <1>11, <1>12
     DEF ErrorsArrive, universe, code, object, raised, thrown, chars, set

LEMMA Casts ==
  ASSUME NEW asserts \in BOOLEAN, NEW k, NEW x
  PROVE  CastsAgree(asserts, k, x)
BY DEF CastsAgree, CLASS_CAST, CLASS_CAST_OR_NIL, CLASS_CAST_NON_NIL, PROTOCOL_CAST,
   PROTOCOL_CAST_OR_NIL, PROTOCOL_CAST_NON_NIL, IsKind, Continues, Fails

-----------------------------------------------------------------------------
(* The functions that a behaviour calls (MCValues).  A call has inputs     *)
(* that the callers of the function may pass.                              *)
CallFits ==
  /\ call.fn = "range" => call.r \in NSRange /\ call.length \in NSUInteger
  /\ call.fn = "ranges" => ValidRange(call.a) /\ ValidRange(call.b)
  /\ call.fn = "access" => /\ call.p \in Platforms /\ call.type \in Types
                           /\ call.value \in Values(call.p, call.type)
  /\ call.fn = "send" => \E n \in Nat : call.args \in [1 .. n -> Objects]
  /\ call.fn = "throw" =>
       /\ \E config \in _mulle_objc_universeconfiguration : call.universes = UniversesWith(config)
       /\ call.id \in UniverseId /\ call.crunch \in BOOLEAN /\ call.kind \in Kind
  /\ call.fn = "cast" => call.asserts \in BOOLEAN
  /\ call.fn = "swap" => /\ call.h \in Hosts /\ call.g \in Hosts
                         /\ call.type \in IntegerTypes \cup FloatingTypes
                         /\ call.value \in Seq(Nat) /\ Len(call.value) = Width(call.h, call.type)
  /\ call.fn = "tag" => /\ call.cls \in Classes \cup {NoClass}
                        /\ call.value \in NSIntegers \cup NSUIntegers

LEMMA CallFitsInit == Init => CallFits
BY DEF Init, NoCall, CallFits

LEMMA CallFitsStep == CallFits /\ [Next]_vars => CallFits'
<1> SUFFICES ASSUME CallFits, [Next]_vars PROVE CallFits'
  OBVIOUS
<1>1. ASSUME UNCHANGED call PROVE CallFits'
  BY <1>1 DEF CallFits
<1>2. CASE Return
  BY <1>2 DEF Return, NoCall, CallFits
<1>3. CASE CheckRange
  BY <1>3 DEF CheckRange, CallFits
<1>4. CASE CompareRanges
  <2>1. PICK a \in SmallRanges, b \in SmallRanges : call' = [fn |-> "ranges", a |-> a, b |-> b]
    BY <1>4 DEF CompareRanges
  <2>2. ASSUME NEW r \in SmallRanges PROVE ValidRange(r)
    BY ValuesAssumption, ModulusAssumption DEF SmallRanges, ValidRange, NSRange, NSUInteger
  <2> QED
    BY <2>1, <2>2 DEF CallFits
<1>5. CASE Access
  BY <1>5 DEF Access, CallFits
<1>6. CASE Send
  <2>1. PICK n \in 0 .. 5 : \E args \in [1 .. n -> Objects] : call' = [fn |-> "send", args |-> args]
    BY <1>6 DEF Send
  <2>2. PICK args \in [1 .. n -> Objects] : call' = [fn |-> "send", args |-> args]
    BY <2>1
  <2> QED
    BY <2>2 DEF CallFits
<1>7. CASE Swap
  <2>1. PICK h \in Hosts, g \in Hosts, type \in IntegerTypes \cup FloatingTypes :
          call' = [fn |-> "swap", h |-> h, g |-> g, type |-> type,
                   value |-> [i \in 1 .. Width(h, type) |-> i]]
    BY <1>7 DEF Swap
  <2>2. PICK n \in Nat : n = Width(h, type)
    <3>1. type \in {"int", "float"} => Width(h, type) = 4
      BY DEF Width
    <3>2. type \in {"long long", "double"} => Width(h, type) = 8
      BY DEF Width
    <3>3. /\ Width(h, "short") = 2 /\ Width(h, "long double") = 16
          /\ Width(h, "long") = IF h.lp64 THEN 8 ELSE 4
      BY DEF Width
    <3>4. Width(h, type) \in {2, 4, 8, 16}
      BY <3>1, <3>2, <3>3 DEF IntegerTypes, FloatingTypes
    <3> QED
      BY <3>4
  <2>3. PICK s : s = [i \in 1 .. n |-> i]
    OBVIOUS
  <2>4. s \in Seq(Nat) /\ Len(s) = n
    <3>1. s \in [1 .. n -> Nat]
      BY <2>3
    <3> QED
      BY <3>1, SeqDef, LenProperties
  <2>5. call' = [fn |-> "swap", h |-> h, g |-> g, type |-> type, value |-> s]
    BY <2>1, <2>2, <2>3
  <2>6. /\ call'.fn = "swap" /\ call'.h = h /\ call'.g = g /\ call'.type = type /\ call'.value = s
    BY <2>5
  <2> QED
    BY <2>2, <2>4, <2>6 DEF CallFits
<1>8. CASE Tag
  BY <1>8 DEF Tag, CallFits
<1>9. CASE Throw
  BY <1>9 DEF Throw, CallFits
<1>10. CASE CastObject
  BY <1>10 DEF CastObject, CallFits
<1>11. CASE SearchMethod
  BY <1>11 DEF SearchMethod, CallFits
<1>12. CASE PrintEnum
  BY <1>12 DEF PrintEnum, CallFits
<1>13. CASE PrintOptions
  BY <1>13 DEF PrintOptions, CallFits
<1>14. CASE LoadClasses
  BY <1>14 DEF LoadClasses, CallFits
<1>15. CASE WalkProperties
  BY <1>15 DEF WalkProperties, CallFits
<1>16. CASE CopyObjects
  BY <1>16 DEF CopyObjects, CallFits
<1>17. CASE ConstructInstance
  BY <1>17 DEF ConstructInstance, CallFits
<1> QED
  BY <1>1, <1>2, <1>3, <1>4, <1>5, <1>6, <1>7, <1>8, <1>9, <1>10, <1>11, <1>12, <1>13, <1>14,
     <1>15, <1>16, <1>17 DEF Next, Function, vars

(* Whatever the width of NSUInteger: a range check throws exactly for the  *)
(* ranges that are not inside, a loop over an adjusted range stays inside, *)
(* the hashed bytes are the last ones, and the operations on valid ranges  *)
(* are operations on sets (MulleObjCException.h, NSRange.h).               *)
THEOREM RangesAreExact == Spec => []RangesHold
<1>1. CallFits => RangesHold
  BY Validates, Adjusts, HashesTail, Operations DEF CallFits, RangesHold
<1> QED
  BY <1>1, CallFitsInit, CallFitsStep, PTL DEF Spec

(* Callers and compiled methods agree on where a value is on every         *)
(* platform, for bytes of any number of bits and for arguments of any      *)
(* kind; an error arrives in the universe it belongs to, for any number of *)
(* universes (MulleObjCFunctions.h, MulleObjCException.h).                 *)
THEOREM MessagesAndErrorsArrive == Spec => []MessagesArrive
<1>1. CallFits => MessagesArrive
  <2> SUFFICES ASSUME CallFits PROVE MessagesArrive
    OBVIOUS
  <2>1. CASE call.fn = "access"
    BY <2>1, RoundTrips DEF CallFits, MessagesArrive
  <2>2. CASE call.fn = "send"
    BY <2>2, ArgumentsArrive DEF CallFits, MessagesArrive
  <2>3. CASE call.fn = "throw"
    BY <2>3, Configured, Arrives DEF CallFits, MessagesArrive
  <2>4. CASE call.fn = "cast"
    BY <2>4, Casts DEF CallFits, MessagesArrive
  <2>5. CASE call.fn \notin {"access", "send", "throw", "cast"}
    BY <2>5 DEF MessagesArrive
  <2> QED
    BY <2>1, <2>2, <2>3, <2>4, <2>5
<1> QED
  BY <1>1, CallFitsInit, CallFitsStep, PTL DEF Spec

(* Bytes of converted numbers are where they should be, and tagged pointers*)
(* keep their numbers.                                                     *)
LEMMA NumbersSwap == CallFits => BytesTravel
BY IntegersTravel, FloatsTravel DEF CallFits, BytesTravel

LEMMA NumbersTag == CallFits => TagsHold
<1> SUFFICES ASSUME CallFits, call.fn = "tag" PROVE TagsHold
  BY DEF TagsHold
<1>1. call.cls \in Classes \cup {NoClass} /\ call.value \in NSIntegers \cup NSUIntegers
  BY DEF CallFits
<1>2. call.index \in Indexes => FitsExactly(call.index, call.value)
  BY <1>1, Fits
<1>3. PICK f \in [Indexes -> Classes \cup {NoClass}], g \in [Classes -> {0}] :
        f = [i \in Indexes |-> NoClass] /\ g = [c \in Classes |-> 0]
  OBVIOUS
<1>4. RegisteredLeadsBack(f, g, call.cls, call.index, call.value)
  BY <1>1, <1>3, Registers
<1> QED
  BY <1>2, <1>3, <1>4 DEF TagsHold

(* Numbers are kept: converted, they have their bytes in the order they    *)
(* should have in memory, and another host reads them back (NSByteOrder.h);*)
(* for pointers and tags of any width, a tagged pointer keeps exactly the  *)
(* values that are said to fit, and leads back to the class that is        *)
(* registered for its index (MulleObjCTaggedPointer.h).                    *)
THEOREM NumbersKept == Spec => []NumbersAreKept
<1>1. CallFits => NumbersAreKept
  BY NumbersSwap, NumbersTag DEF NumbersAreKept
<1> QED
  BY <1>1, CallFitsInit, CallFitsStep, PTL DEF Spec

-----------------------------------------------------------------------------
(* Memory (Allocation).                                                    *)

(* Where an instance and memory may come from, and whose memory is.        *)
AnyAllocator == Allocator \cup {DefaultAllocator, FirstWord}

InstanceFrame == {Memory!Free} \cup [from : Allocator, header : Allocator, retaincount : Nat]

BlockFrame ==
  {Memory!Free} \cup [from : AnyAllocator, owner : Instance \cup Thread \cup {"zone"}]

MemoryTyped ==
  /\ embedded \in BOOLEAN
  /\ instance_allocator \in [Thread -> Allocator \cup {NULL}]
  /\ instance \in [Instance -> InstanceFrame]
  /\ block \in [MemoryBlock -> BlockFrame]
  /\ owners \in [Instance -> Nat]

(* What MemoryGoesHome says of one instance and of one block.  Without an  *)
(* allocator of its own in the header an instance is the class's.          *)
InstanceGoesHome(i) ==
  /\ instance[i] # Memory!Free <=> owners[i] > 0
  /\ instance[i] # Memory!Free =>
       /\ instance[i].from = instance[i].header
       /\ ~embedded => instance[i].from = Memory!MulleObjCInstanceGetAllocator(i)
       /\ instance[i].retaincount + 1 = owners[i]

BlockGoesHome(b) ==
  block[b] # Memory!Free =>
    /\ \A i \in Instance : block[b].owner = i =>
         /\ instance[i] # Memory!Free
         /\ ~embedded => block[b].from = Memory!MulleObjCInstanceGetAllocator(i)
    /\ \A t \in Thread : block[b].owner = t => block[b].from = Memory!MulleObjCClassGetAllocator(t)
    /\ block[b].owner = "zone" => block[b].from = DefaultAllocator

MemoryInv ==
  /\ MemoryTyped
  /\ \A i \in Instance : InstanceGoesHome(i)
  /\ \A b \in MemoryBlock : BlockGoesHome(b)

LEMMA FreeIsNoFrame ==
  /\ Memory!Free.from = NULL
  /\ \A r \in InstanceFrame : r # Memory!Free =>
       r \in [from : Allocator, header : Allocator, retaincount : Nat] /\ r.from # NULL
  /\ \A r \in BlockFrame : r # Memory!Free =>
       r \in [from : AnyAllocator, owner : Instance \cup Thread \cup {"zone"}]
       /\ r.from # NULL
  /\ \A r \in [from : Allocator, header : Allocator, retaincount : Nat] :
       r # Memory!Free /\ r \in InstanceFrame
  /\ \A r \in [from : AnyAllocator, owner : Instance \cup Thread \cup {"zone"}] :
       r # Memory!Free /\ r \in BlockFrame
BY ValuesAssumption DEF Memory!Free, InstanceFrame, BlockFrame, AnyAllocator
LEMMA MemoryInit == Memory!Init => MemoryInv
BY FreeIsNoFrame DEF Memory!Init, MemoryInv, MemoryTyped, InstanceFrame, BlockFrame,
   InstanceGoesHome, BlockGoesHome

(* A thread changes its allocator while it has no memory of a class.       *)
LEMMA SetAllocatorGoesHome ==
  ASSUME MemoryInv, NEW t \in Thread, NEW a \in Allocator \cup {NULL}, Memory!MaySetAllocator(t),
         Memory!MulleObjCThreadSetAllocator(t, a)
  PROVE  MemoryInv'
<1>1. /\ instance_allocator' = [instance_allocator EXCEPT ![t] = a]
      /\ UNCHANGED <<embedded, instance, block, owners>>
  BY DEF Memory!MulleObjCThreadSetAllocator
<1>2. MemoryTyped'
  BY <1>1 DEF MemoryInv, MemoryTyped
<1>3. \A i \in Instance : InstanceGoesHome(i)'
  BY <1>1 DEF MemoryInv, InstanceGoesHome, Memory!MulleObjCInstanceGetAllocator
<1>4. ASSUME NEW b \in MemoryBlock PROVE BlockGoesHome(b)'
  <2>1. \A u \in Thread \ {t} :
          Memory!MulleObjCClassGetAllocator(u)' = Memory!MulleObjCClassGetAllocator(u)
    BY <1>1 DEF Memory!MulleObjCClassGetAllocator, Memory!MulleObjCThreadGetAllocator, MemoryInv, MemoryTyped
  <2>2. block[b] # Memory!Free => block[b].owner # t
    BY DEF Memory!MaySetAllocator
  <2> QED
    BY <1>1, <2>1, <2>2 DEF MemoryInv, BlockGoesHome, Memory!MulleObjCInstanceGetAllocator
<1> QED
  BY <1>2, <1>3, <1>4 DEF MemoryInv

(* A new instance has the allocator in its header that it comes from,      *)
(* which is the one of its class if the header has none.                   *)
LEMMA AllocateGoesHome ==
  ASSUME MemoryInv, NEW i \in Instance, NEW a \in Allocator, ~embedded => a = ClassAllocator,
         Memory!AllocateFrom(i, a)
  PROVE  MemoryInv'
<1> DEFINE new == [from |-> a, header |-> a, retaincount |-> 0]
<1>1. /\ instance[i] = Memory!Free /\ instance' = [instance EXCEPT ![i] = new]
      /\ owners' = [owners EXCEPT ![i] = 1]
      /\ UNCHANGED <<embedded, instance_allocator, block>>
  BY DEF Memory!AllocateFrom
<1>2. new \in InstanceFrame /\ new # Memory!Free /\ new.from = a /\ new.header = a /\ new.retaincount = 0
  BY FreeIsNoFrame
<1> HIDE DEF new
<1>3. MemoryTyped'
  BY <1>1, <1>2 DEF MemoryInv, MemoryTyped
<1>4. ASSUME NEW j \in Instance PROVE InstanceGoesHome(j)'
  BY <1>1, <1>2 DEF MemoryInv, MemoryTyped, InstanceGoesHome, Memory!MulleObjCInstanceGetAllocator
<1>5. ASSUME NEW b \in MemoryBlock PROVE BlockGoesHome(b)'
  BY <1>1 DEF MemoryInv, MemoryTyped, BlockGoesHome, Memory!MulleObjCInstanceGetAllocator,
     Memory!MulleObjCClassGetAllocator, Memory!MulleObjCThreadGetAllocator
<1> QED
  BY <1>3, <1>4, <1>5 DEF MemoryInv

(* The allocator that a thread gets for the instances of a class.          *)
LEMMA ClassAllocatorType ==
  ASSUME MemoryTyped, NEW t \in Thread
  PROVE  /\ Memory!MulleObjCClassGetAllocator(t) \in Allocator
         /\ ~embedded => Memory!MulleObjCClassGetAllocator(t) = ClassAllocator
BY ValuesAssumption DEF MemoryTyped, Memory!MulleObjCClassGetAllocator,
   Memory!MulleObjCThreadGetAllocator

LEMMA IncrementGoesHome ==
  ASSUME MemoryInv, NEW i \in Instance, Memory!NSIncrementExtraRefCount(i)
  PROVE  MemoryInv'
<1>1. /\ owners[i] > 0 /\ instance' = [instance EXCEPT ![i].retaincount = @ + 1]
      /\ owners' = [owners EXCEPT ![i] = @ + 1]
      /\ UNCHANGED <<embedded, instance_allocator, block>>
  BY DEF Memory!NSIncrementExtraRefCount
<1>2. PICK r : r = instance[i] /\ r \in [from : Allocator, header : Allocator, retaincount : Nat]
  BY <1>1, FreeIsNoFrame DEF MemoryInv, MemoryTyped, InstanceGoesHome
<1>3. PICK s : s = [r EXCEPT !.retaincount = @ + 1]
  OBVIOUS
<1>4. /\ s \in InstanceFrame /\ s # Memory!Free /\ s.from = r.from /\ s.header = r.header
      /\ s.retaincount = r.retaincount + 1 /\ r # Memory!Free
  BY <1>2, <1>3, FreeIsNoFrame
<1>5. instance' = [instance EXCEPT ![i] = s]
  BY <1>1, <1>2, <1>3 DEF MemoryInv, MemoryTyped
<1>6. MemoryTyped'
  BY <1>1, <1>4, <1>5 DEF MemoryInv, MemoryTyped
<1>7. ASSUME NEW j \in Instance PROVE InstanceGoesHome(j)'
  BY <1>1, <1>2, <1>4, <1>5 DEF MemoryInv, MemoryTyped, InstanceGoesHome,
     Memory!MulleObjCInstanceGetAllocator
<1>8. ASSUME NEW b \in MemoryBlock PROVE BlockGoesHome(b)'
  BY <1>1, <1>2, <1>4, <1>5 DEF MemoryInv, MemoryTyped, BlockGoesHome,
     Memory!MulleObjCInstanceGetAllocator, Memory!MulleObjCClassGetAllocator,
     Memory!MulleObjCThreadGetAllocator
<1> QED
  BY <1>6, <1>7, <1>8 DEF MemoryInv
LEMMA ReleaseGoesHome ==
  ASSUME MemoryInv, NEW i \in Instance, Memory!_MulleObjCReleaseObject(i)
  PROVE  MemoryInv'
<1>1. /\ owners[i] > 0 /\ owners' = [owners EXCEPT ![i] = @ - 1]
      /\ UNCHANGED <<embedded, instance_allocator>>
  BY DEF Memory!_MulleObjCReleaseObject
<1>2. PICK r : r = instance[i] /\ r \in [from : Allocator, header : Allocator, retaincount : Nat]
  BY <1>1, FreeIsNoFrame DEF MemoryInv, MemoryTyped, InstanceGoesHome
<1>3. r.retaincount + 1 = owners[i] /\ r # Memory!Free /\ r.retaincount \in Nat
  BY <1>1, <1>2, FreeIsNoFrame DEF MemoryInv, InstanceGoesHome
<1>4. CASE r.retaincount = 0
  <2>1. /\ instance' = [instance EXCEPT ![i] = Memory!Free]
        /\ block' = [b \in MemoryBlock |->
              IF block[b] # Memory!Free /\ block[b].owner = i THEN Memory!Free ELSE block[b]]
    BY <1>2, <1>4 DEF Memory!_MulleObjCReleaseObject, Memory!NSDecrementExtraRefCountWasZero,
       Memory!NSDeallocateObject
  <2>2. Memory!Free \in InstanceFrame /\ Memory!Free \in BlockFrame
    BY DEF InstanceFrame, BlockFrame
  <2>3. owners[i] - 1 = 0
    BY <1>3, <1>4
  <2>4. MemoryTyped'
    BY <1>1, <2>1, <2>2, <2>3 DEF MemoryInv, MemoryTyped
  <2>5. ASSUME NEW j \in Instance PROVE InstanceGoesHome(j)'
    BY <1>1, <2>1, <2>3 DEF MemoryInv, MemoryTyped, InstanceGoesHome,
       Memory!MulleObjCInstanceGetAllocator
  <2>6. ASSUME NEW b \in MemoryBlock PROVE BlockGoesHome(b)'
    BY <1>1, <2>1 DEF MemoryInv, MemoryTyped, BlockGoesHome,
       Memory!MulleObjCInstanceGetAllocator, Memory!MulleObjCClassGetAllocator,
       Memory!MulleObjCThreadGetAllocator
  <2> QED
    BY <2>4, <2>5, <2>6 DEF MemoryInv
<1>5. CASE r.retaincount # 0
  <2>1. instance' = [instance EXCEPT ![i].retaincount = @ - 1] /\ block' = block
    BY <1>2, <1>5 DEF Memory!_MulleObjCReleaseObject, Memory!NSDecrementExtraRefCountWasZero
  <2>2. PICK s : s = [r EXCEPT !.retaincount = @ - 1]
    OBVIOUS
  <2>3. /\ s \in InstanceFrame /\ s # Memory!Free /\ s.from = r.from /\ s.header = r.header
        /\ s.retaincount = r.retaincount - 1
    BY <1>2, <1>3, <1>5, <2>2, FreeIsNoFrame
  <2>4. instance' = [instance EXCEPT ![i] = s]
    BY <1>2, <2>1, <2>2 DEF MemoryInv, MemoryTyped
  <2>5. owners[i] \in Nat /\ owners[i] - 1 \in Nat /\ owners[i] - 1 > 0 /\ s.retaincount + 1 = owners[i] - 1
    BY <1>3, <1>5, <2>3 DEF MemoryInv, MemoryTyped
  <2>6. MemoryTyped'
    BY <1>1, <2>1, <2>3, <2>4, <2>5 DEF MemoryInv, MemoryTyped
  <2>7. ASSUME NEW j \in Instance PROVE InstanceGoesHome(j)'
    BY <1>1, <1>2, <2>3, <2>4, <2>5 DEF MemoryInv, MemoryTyped, InstanceGoesHome,
       Memory!MulleObjCInstanceGetAllocator
  <2>8. ASSUME NEW b \in MemoryBlock PROVE BlockGoesHome(b)'
    BY <1>1, <1>2, <1>3, <2>1, <2>3, <2>4 DEF MemoryInv, MemoryTyped, BlockGoesHome,
       Memory!MulleObjCInstanceGetAllocator, Memory!MulleObjCClassGetAllocator,
       Memory!MulleObjCThreadGetAllocator
  <2> QED
    BY <2>6, <2>7, <2>8 DEF MemoryInv
<1> QED
  BY <1>4, <1>5

(* What other memory may become: free, or of somebody and from where it    *)
(* will go back to.                                                        *)
BlockMayBe(f) ==
  \/ f = Memory!Free
  \/ /\ f \in [from : AnyAllocator, owner : Instance \cup Thread \cup {"zone"}]
     /\ \A i \in Instance : f.owner = i =>
          owners[i] > 0 /\ (~embedded => f.from = Memory!MulleObjCInstanceGetAllocator(i))
     /\ \A t \in Thread : f.owner = t => f.from = Memory!MulleObjCClassGetAllocator(t)
     /\ f.owner = "zone" => f.from = DefaultAllocator

LEMMA BlocksGoHome ==
  ASSUME MemoryInv, UNCHANGED <<embedded, instance_allocator, instance, owners>>,
         NEW f, BlockMayBe(f), NEW b \in MemoryBlock, NEW new \in MemoryBlock,
         block' = [block EXCEPT ![b] = Memory!Free, ![new] = f]
  PROVE  MemoryInv'
<1>1. Memory!Free \in BlockFrame /\ f \in BlockFrame
  BY FreeIsNoFrame DEF BlockMayBe, BlockFrame
<1>2. MemoryTyped'
  BY <1>1 DEF MemoryInv, MemoryTyped
<1>3. \A i \in Instance : InstanceGoesHome(i)'
  BY DEF MemoryInv, InstanceGoesHome, Memory!MulleObjCInstanceGetAllocator
<1>4. \A i \in Instance : owners[i] > 0 => instance[i] # Memory!Free
  BY DEF MemoryInv, InstanceGoesHome
<1>5. ASSUME NEW c \in MemoryBlock PROVE BlockGoesHome(c)'
  <2>1. block'[c] \in {block[c], Memory!Free, f}
    BY DEF MemoryInv, MemoryTyped
  <2>2. CASE block'[c] = Memory!Free
    BY <2>2 DEF BlockGoesHome
  <2>3. CASE block'[c] = block[c]
    BY <2>3 DEF MemoryInv, BlockGoesHome, Memory!MulleObjCInstanceGetAllocator,
       Memory!MulleObjCClassGetAllocator, Memory!MulleObjCThreadGetAllocator
  <2>4. CASE block'[c] = f
    BY <1>4, <2>4 DEF BlockMayBe, BlockGoesHome, Memory!MulleObjCInstanceGetAllocator,
       Memory!MulleObjCClassGetAllocator, Memory!MulleObjCThreadGetAllocator
  <2> QED
    BY <2>1, <2>2, <2>3, <2>4
<1> QED
  BY <1>2, <1>3, <1>5 DEF MemoryInv

(* Memory that is taken from the allocator of its owner.                   *)
LEMMA OwnersAllocator ==
  ASSUME MemoryInv
  PROVE  /\ \A i \in Instance : owners[i] > 0 =>
              BlockMayBe([from |-> Memory!MulleObjCInstanceGetAllocator(i), owner |-> i])
         /\ \A t \in Thread :
              BlockMayBe([from |-> Memory!MulleObjCClassGetAllocator(t), owner |-> t])
         /\ BlockMayBe([from |-> DefaultAllocator, owner |-> "zone"])
         /\ BlockMayBe(Memory!Free)
<1>1. \A i \in Instance : Memory!MulleObjCInstanceGetAllocator(i) \in AnyAllocator
  BY ValuesAssumption DEF Memory!MulleObjCInstanceGetAllocator, AnyAllocator
<1>2. \A t \in Thread : Memory!MulleObjCClassGetAllocator(t) \in AnyAllocator
  BY ClassAllocatorType DEF MemoryInv, AnyAllocator
<1> QED
  BY <1>1, <1>2, ValuesAssumption DEF BlockMayBe, AnyAllocator

(* Every step of a client.                                                 *)
LEMMA MemoryStep == MemoryInv /\ [Memory!Next]_Memory!vars => MemoryInv'
<1> SUFFICES ASSUME MemoryInv, [Memory!Next]_Memory!vars PROVE MemoryInv'
  OBVIOUS
<1>1. CASE UNCHANGED Memory!vars
  BY <1>1 DEF Memory!vars, MemoryInv, MemoryTyped, InstanceGoesHome, BlockGoesHome,
     Memory!MulleObjCInstanceGetAllocator, Memory!MulleObjCClassGetAllocator,
     Memory!MulleObjCThreadGetAllocator
<1>2. ASSUME NEW t \in Thread, NEW i \in Instance, Memory!NSAllocateObject(t, i, "zone") PROVE MemoryInv'
  BY <1>2, AllocateGoesHome, ClassAllocatorType
     DEF Memory!NSAllocateObject, Memory!_MulleObjCClassAllocateInstance, MemoryInv
<1>3. ASSUME NEW i \in Instance, NEW a \in Allocator,
             Memory!_MulleObjCClassAllocateInstanceWithAllocator(i, a)
      PROVE  MemoryInv'
  BY <1>3, AllocateGoesHome DEF Memory!_MulleObjCClassAllocateInstanceWithAllocator
<1>4. ASSUME NEW t \in Thread, NEW b \in MemoryBlock, Memory!MulleObjCClassAllocateMemory(t, b)
      PROVE  MemoryInv'
  BY <1>4, BlocksGoHome, OwnersAllocator DEF Memory!MulleObjCClassAllocateMemory
<1>5. ASSUME NEW t \in Thread, NEW b \in MemoryBlock, NEW new \in MemoryBlock,
             Memory!MulleObjCClassReallocateNonZeroedMemory(t, b, new)
      PROVE  MemoryInv'
  BY <1>5, BlocksGoHome, OwnersAllocator DEF Memory!MulleObjCClassReallocateNonZeroedMemory
<1>6. ASSUME NEW t \in Thread, NEW b \in MemoryBlock, Memory!MulleObjCClassDeallocateMemory(t, b)
      PROVE  MemoryInv'
  BY <1>6, BlocksGoHome, OwnersAllocator, ZenonT(30) DEF Memory!MulleObjCClassDeallocateMemory
<1>7. ASSUME NEW i \in Instance, NEW b \in MemoryBlock, Memory!MulleObjCInstanceAllocateMemory(i, b)
      PROVE  MemoryInv'
  BY <1>7, BlocksGoHome, OwnersAllocator DEF Memory!MulleObjCInstanceAllocateMemory
<1>8. ASSUME NEW i \in Instance, NEW b \in MemoryBlock, NEW new \in MemoryBlock,
             Memory!MulleObjCInstanceReallocateNonZeroedMemory(i, b, new)
      PROVE  MemoryInv'
  BY <1>8, BlocksGoHome, OwnersAllocator DEF Memory!MulleObjCInstanceReallocateNonZeroedMemory
<1>9. ASSUME NEW b \in MemoryBlock, Memory!MulleObjCInstanceDeallocateMemory(b) PROVE MemoryInv'
  BY <1>9, BlocksGoHome, OwnersAllocator, ZenonT(30) DEF Memory!MulleObjCInstanceDeallocateMemory
<1>10. ASSUME NEW b \in MemoryBlock, Memory!NSZoneMalloc(b) PROVE MemoryInv'
  BY <1>10, BlocksGoHome, OwnersAllocator DEF Memory!NSZoneMalloc, Memory!NSDefaultMallocZone
<1>11. ASSUME NEW b \in MemoryBlock, NEW new \in MemoryBlock, Memory!NSZoneRealloc(b, new) PROVE MemoryInv'
  BY <1>11, BlocksGoHome, OwnersAllocator DEF Memory!NSZoneRealloc, Memory!NSDefaultMallocZone
<1>12. ASSUME NEW b \in MemoryBlock, Memory!NSZoneFree(b) PROVE MemoryInv'
  BY <1>12, BlocksGoHome, OwnersAllocator, ZenonT(30) DEF Memory!NSZoneFree
<1> QED
  BY <1>1, <1>2, <1>3, <1>4, <1>5, <1>6, <1>7, <1>8, <1>9, <1>10, <1>11, <1>12,
     SetAllocatorGoesHome, IncrementGoesHome, ReleaseGoesHome
     DEF Memory!Next, Memory!NSDefaultMallocZone

(* Memory of classes and zones goes back to the allocator that it came     *)
(* from, and instances with their memory do in a build without embedded    *)
(* allocators, whatever allocators threads set in the meantime; an         *)
(* instance lives exactly as long as there are references to it.  This     *)
(* holds for any number of threads, instances and blocks.                  *)
THEOREM MemorySafety == Memory!Spec => []MemoryGoesHome
<1>1. MemoryInv => MemoryGoesHome
  BY DEF MemoryInv, InstanceGoesHome, BlockGoesHome, MemoryGoesHome, Memory!MemoryGoesHome,
     Memory!NSExtraRefCount, Memory!NSDefaultMallocZone
<1> QED
  BY <1>1, MemoryInit, MemoryStep, PTL DEF Memory!Spec

-----------------------------------------------------------------------------
(* Invocations (Invocations).                                              *)

InvocationFrame ==
  [at : {"free", "live", "dealloc", "reuse"}, sort : {"standard", "other"},
   frame : [Messages!Index -> Argument \cup {NULL, "struct"}], rval : Argument \cup {NULL},
   _argumentsRetained : BOOLEAN, _returnValueRetained : BOOLEAN]

MessagesTyped ==
  /\ signature \in Messages!Signature
  /\ invocation \in [Invocation -> InvocationFrame]
  /\ reuse \in Seq(Invocation)
  /\ refs \in [Argument -> Nat] /\ held \in [Argument -> Nat]

(* The references to a value of an invocation in a state k.                *)
RetainedIndex == {i \in Messages!Index : Messages!Type(i) \in {"retain", "copy"}}

UsesIn(frame, v) == Cardinality({i \in RetainedIndex : frame[i] = v})

HeldIn(k, v) ==
  IF k.at = "live"
  THEN (IF k._argumentsRetained THEN UsesIn(k.frame, v) ELSE 0)
       + (IF k._returnValueRetained /\ k.rval = v THEN 1 ELSE 0)
  ELSE 0

HeldByAll(v) == SumFunction([n \in Invocation |-> HeldIn(invocation[n], v)])

MessagesBalance == \A v \in Argument : refs[v] = held[v] + HeldByAll(v)

ReuseIsQueue ==
  /\ IsInjective(reuse) /\ Len(reuse) <= Reusable
  /\ {n \in Invocation : invocation[n].at = "reuse"} = Range(reuse)
  /\ \A n \in Invocation : invocation[n].at = "reuse" => invocation[n].sort = "standard"

MessagesInv == MessagesTyped /\ MessagesBalance /\ ReuseIsQueue

(* The instance's copies of the operators of the library.                  *)
LEMMA MessagesOperators ==
  /\ \A S : Messages!Cardinality(S) = Cardinality(S)
  /\ \A f : Messages!SumFunction(f) = SumFunction(f)
  /\ \A f : Messages!Range(f) = Range(f) /\ (Messages!IsInjective(f) <=> IsInjective(f))
<1>1. ASSUME NEW S PROVE Messages!Cardinality(S) = Cardinality(S)
  BY DEF Messages!Cardinality, Cardinality
<1>2. ASSUME NEW f PROVE Messages!SumFunction(f) = SumFunction(f)
  <2>1. Messages!SumFunctionOnSet(f, DOMAIN f) = (CHOOSE g : Adds(f, DOMAIN f, g))[DOMAIN f]
    BY DEF Messages!SumFunctionOnSet, Messages!FoldFunctionOnSet, Messages!MapThenFoldSet, Adds, Pick
  <2> QED
    BY <2>1, SumIsChosen DEF Messages!SumFunction, SumFunction
<1>3. ASSUME NEW f PROVE Messages!Range(f) = Range(f) /\ (Messages!IsInjective(f) <=> IsInjective(f))
  BY DEF Messages!Range, Range, Messages!IsInjective, IsInjective
<1> QED
  BY <1>1, <1>2, <1>3

LEMMA UsesIsCounted ==
  ASSUME NEW n, NEW v PROVE Messages!Uses(n, v) = UsesIn(invocation[n].frame, v)
<1>1. Messages!Retained(n) = RetainedIndex
  BY DEF RetainedIndex, Messages!Retained
<1> QED
  BY <1>1, MessagesOperators DEF Messages!Uses, UsesIn

LEMMA UsesNat ==
  ASSUME NEW frame, NEW v PROVE UsesIn(frame, v) \in Nat
<1> DEFINE S == {i \in RetainedIndex : frame[i] = v}
<1>1. IsFiniteSet(0 .. 2)
  <2>1. PICK n \in Int : n = 2
    OBVIOUS
  <2>2. IsFiniteSet(0 .. n)
    BY FS_Interval
  <2> QED
    BY <2>1, <2>2
<1>2. S \subseteq 0 .. 2
  BY DEF RetainedIndex, Messages!Index
<1> HIDE DEF S
<1>3. IsFiniteSet(S)
  BY <1>1, <1>2, FS_Subset
<1>4. Cardinality(S) \in Nat
  BY <1>3, FS_CardinalityType
<1> QED
  BY <1>4 DEF UsesIn, S

LEMMA HeldNat ==
  ASSUME NEW k, NEW v PROVE HeldIn(k, v) \in Nat
BY UsesNat DEF HeldIn

(* One invocation changes, and what is counted with it.                    *)
LEMMA OneInvocation ==
  ASSUME MessagesTyped, MessagesBalance, NEW n \in Invocation, NEW k \in InvocationFrame,
         invocation' = [invocation EXCEPT ![n] = k], signature' = signature,
         held' \in [Argument -> Nat], refs' \in [Argument -> Int],
         \A v \in Argument : refs'[v] = refs[v] + held'[v] - held[v]
                                        + HeldIn(k, v) - HeldIn(invocation[n], v)
  PROVE  /\ invocation' \in [Invocation -> InvocationFrame]
         /\ refs' \in [Argument -> Nat] /\ MessagesBalance'
<1>1. invocation' \in [Invocation -> InvocationFrame] /\ invocation \in [Invocation -> InvocationFrame]
  BY DEF MessagesTyped
<1>2. \A j, v : HeldIn(j, v)' = HeldIn(j', v')
  BY DEF HeldIn, UsesIn, RetainedIndex, Messages!Type
<1>3. ASSUME NEW v \in Argument PROVE refs'[v] \in Nat /\ refs'[v] = held'[v] + HeldByAll(v)'
  <2>1. PICK f, g : /\ f = [m \in Invocation |-> HeldIn(invocation[m], v)]
                    /\ g = [m \in Invocation |-> HeldIn(invocation'[m], v)]
    OBVIOUS
  <2>2. f \in [Invocation -> Nat] /\ g \in [Invocation -> Nat]
    BY <2>1, HeldNat
  <2>3. /\ f[n] = HeldIn(invocation[n], v) /\ g[n] = HeldIn(k, v)
        /\ \A m \in Invocation \ {n} : f[m] = g[m]
    BY <1>1, <2>1
  <2>4. PICK a \in Int, b \in Int : /\ a = SumFunction(f) /\ b = SumFunction(g) /\ b = a + g[n] - f[n]
    BY <2>2, <2>3, SumChange, ValuesAssumption
  <2>5. b \in Nat
    BY <2>2, <2>4, SumNat, ValuesAssumption
  <2>6. HeldByAll(v) = a
    BY <2>1, <2>4 DEF HeldByAll
  <2>7. HeldByAll(v)' = b
    BY <2>1, <2>4 DEF HeldByAll, HeldIn, UsesIn, RetainedIndex, Messages!Type
  <2>8. refs[v] \in Nat /\ held[v] \in Nat /\ held'[v] \in Nat /\ refs[v] = held[v] + a
        /\ g[n] \in Nat /\ f[n] \in Nat
    BY <2>2, <2>6 DEF MessagesTyped, MessagesBalance
  <2>9. refs'[v] = refs[v] + held'[v] - held[v] + g[n] - f[n]
    BY <2>3
  <2> QED
    BY <2>4, <2>5, <2>7, <2>8, <2>9
<1>4. refs' \in [Argument -> Nat]
  BY <1>3
<1> QED
  BY <1>1, <1>3, <1>4 DEF MessagesBalance

(* It neither was in the queue nor gets into it.                           *)
LEMMA QueueStays ==
  ASSUME ReuseIsQueue, MessagesTyped, NEW n \in Invocation, NEW k \in InvocationFrame,
         invocation' = [invocation EXCEPT ![n] = k], reuse' = reuse,
         invocation[n].at # "reuse", k.at # "reuse"
  PROVE  ReuseIsQueue'
<1>1. \A m \in Invocation : invocation'[m] = IF m = n THEN k ELSE invocation[m]
  BY DEF MessagesTyped
<1>2. \A m \in Invocation : invocation'[m].at = "reuse" <=> invocation[m].at = "reuse"
  BY <1>1
<1> QED
  BY <1>1, <1>2 DEF ReuseIsQueue

LEMMA InvocationChanges ==
  ASSUME MessagesInv, NEW n \in Invocation, NEW k \in InvocationFrame,
         invocation' = [invocation EXCEPT ![n] = k], signature' = signature, reuse' = reuse,
         held' = held, refs' \in [Argument -> Int],
         invocation[n].at # "reuse", k.at # "reuse",
         \A v \in Argument : refs'[v] = refs[v] + HeldIn(k, v) - HeldIn(invocation[n], v)
  PROVE  MessagesInv'
<1>1. \A v \in Argument : refs'[v] = refs[v] + held'[v] - held[v] + HeldIn(k, v) - HeldIn(invocation[n], v)
  <2> TAKE v \in Argument
  <2>1. held[v] \in Nat /\ refs[v] \in Nat /\ HeldIn(k, v) \in Nat /\ HeldIn(invocation[n], v) \in Nat
    BY HeldNat DEF MessagesInv, MessagesTyped
  <2> QED
    BY <2>1
<1>2. held' \in [Argument -> Nat]
  BY DEF MessagesInv, MessagesTyped
<1>3. /\ invocation' \in [Invocation -> InvocationFrame]
      /\ refs' \in [Argument -> Nat] /\ MessagesBalance'
  BY <1>1, <1>2, OneInvocation DEF MessagesInv
<1>4. ReuseIsQueue'
  BY QueueStays DEF MessagesInv
<1>5. MessagesTyped'
  BY <1>2, <1>3 DEF MessagesInv, MessagesTyped
<1> QED
  BY <1>3, <1>4, <1>5 DEF MessagesInv

LEMMA MessagesInit == Messages!Init => MessagesInv
<1> SUFFICES ASSUME Messages!Init PROVE MessagesInv
  OBVIOUS
<1>1. PICK k : k = [Messages!Cleared EXCEPT !.at = "free"]
  OBVIOUS
<1>2. k \in InvocationFrame /\ k.at = "free"
  BY <1>1 DEF Messages!Cleared, InvocationFrame
<1>3. invocation = [n \in Invocation |-> k] /\ reuse = <<>>
      /\ refs = [v \in Argument |-> 0] /\ held = [v \in Argument |-> 0]
  BY <1>1 DEF Messages!Init
<1>4. MessagesTyped
  <2>1. signature \in Messages!Signature
    BY DEF Messages!Init
  <2>2. reuse \in Seq(Invocation)
    BY <1>3
  <2>3. refs \in [Argument -> Nat] /\ held \in [Argument -> Nat]
    BY <1>3
  <2>4. invocation \in [Invocation -> InvocationFrame]
    BY <1>2, <1>3
  <2> QED
    BY <2>1, <2>2, <2>3, <2>4 DEF MessagesTyped
<1>5. MessagesBalance
  <2>1. ASSUME NEW v \in Argument PROVE HeldByAll(v) = 0
    <3>1. PICK f : f = [n \in Invocation |-> HeldIn(invocation[n], v)]
      OBVIOUS
    <3>2. f \in [Invocation -> Int] /\ \A n \in Invocation : f[n] = 0
      BY <1>2, <1>3, <3>1 DEF HeldIn
    <3> QED
      BY <3>1, <3>2, SumZero, ValuesAssumption DEF HeldByAll
  <2> QED
    BY <1>3, <2>1 DEF MessagesBalance
<1>6. ReuseIsQueue
  <2>1. Range(reuse) = {} /\ IsInjective(reuse) /\ Len(reuse) = 0
    BY <1>3 DEF Range, IsInjective
  <2> QED
    BY <1>2, <1>3, <2>1, ValuesAssumption DEF ReuseIsQueue
<1> QED
  BY <1>4, <1>5, <1>6 DEF MessagesInv

(* The client's references.                                                *)
LEMMA ClientCounts ==
  ASSUME MessagesInv, signature' = signature, invocation' = invocation, reuse' = reuse,
         NEW v \in Argument, NEW d \in Int,
         refs' = [refs EXCEPT ![v] = refs[v] + d], held' = [held EXCEPT ![v] = held[v] + d],
         held[v] + d \in Nat
  PROVE  MessagesInv'
<1>1. /\ refs \in [Argument -> Nat] /\ held \in [Argument -> Nat]
      /\ \A w \in Argument : refs[w] = held[w] + HeldByAll(w)
  BY DEF MessagesInv, MessagesTyped, MessagesBalance
<1>2. ASSUME NEW w \in Argument PROVE HeldByAll(w) \in Nat /\ HeldByAll(w)' = HeldByAll(w)
  <2>1. [n \in Invocation |-> HeldIn(invocation[n], w)] \in [Invocation -> Nat]
    BY HeldNat
  <2>2. HeldByAll(w) \in Nat
    BY <2>1, SumNat, ValuesAssumption DEF HeldByAll
  <2> QED
    BY <2>2 DEF HeldByAll, HeldIn, UsesIn, RetainedIndex, Messages!Type
<1>3. held' \in [Argument -> Nat]
  BY <1>1
<1>4. refs[v] + d \in Nat
  BY <1>1, <1>2
<1>5. refs' \in [Argument -> Nat]
  BY <1>1, <1>4
<1>6. MessagesBalance'
  BY <1>1, <1>2 DEF MessagesBalance
<1>7. MessagesTyped' /\ ReuseIsQueue'
  BY <1>3, <1>5 DEF MessagesInv, MessagesTyped, ReuseIsQueue
<1> QED
  BY <1>6, <1>7 DEF MessagesInv

LEMMA AllocateStep ==
  ASSUME MessagesInv, NEW sort \in {"standard", "other"}, Messages!Allocate(sort)
  PROVE  MessagesInv'
<1>1. PICK n \in Invocation :
        /\ invocation[n].at = "free"
        /\ invocation' = [invocation EXCEPT ![n] = [Messages!Cleared EXCEPT !.sort = sort]]
        /\ UNCHANGED <<signature, reuse, refs, held>>
  BY DEF Messages!Allocate
<1>2. PICK k : k = [Messages!Cleared EXCEPT !.sort = sort]
  OBVIOUS
<1>3. /\ k \in InvocationFrame /\ k.at = "live"
      /\ k._argumentsRetained = FALSE /\ k._returnValueRetained = FALSE
  BY <1>2 DEF Messages!Cleared, InvocationFrame
<1>4. \A v \in Argument : HeldIn(k, v) = 0
  BY <1>3 DEF HeldIn
<1>5. refs \in [Argument -> Nat] /\ \A v \in Argument : HeldIn(invocation[n], v) = 0
  BY <1>1 DEF MessagesInv, MessagesTyped, HeldIn
<1>6. \A v \in Argument : refs'[v] = refs[v] + HeldIn(k, v) - HeldIn(invocation[n], v)
  <2> TAKE v \in Argument
  <2>1. refs[v] \in Nat /\ refs'[v] = refs[v]
    BY <1>1, <1>5
  <2> QED
    BY <1>4, <1>5, <2>1
<1>7. refs' \in [Argument -> Int]
  BY <1>1, <1>5
<1> QED
  BY <1>1, <1>2, <1>3, <1>6, <1>7, InvocationChanges

LEMMA PopStep ==
  ASSUME MessagesInv, Messages!popStandardInvocation
  PROVE  MessagesInv'
<1>1. /\ reuse # <<>> /\ invocation' = [invocation EXCEPT ![Head(reuse)] = Messages!Cleared]
      /\ reuse' = Tail(reuse) /\ UNCHANGED <<signature, refs, held>>
  BY DEF Messages!popStandardInvocation
<1>2. /\ reuse \in Seq(Invocation) /\ invocation \in [Invocation -> InvocationFrame]
      /\ refs \in [Argument -> Nat] /\ held \in [Argument -> Nat]
  BY DEF MessagesInv, MessagesTyped
<1>3. PICK N \in Nat : /\ Len(reuse) = N + 1 /\ DOMAIN reuse = 1 .. N + 1
                       /\ reuse' \in Seq(Invocation) /\ Len(reuse') = N /\ DOMAIN reuse' = 1 .. N
                       /\ \A i \in 1 .. N : reuse'[i] = reuse[i + 1]
  <2>1. PICK L \in Nat : Len(reuse) = L /\ DOMAIN reuse = 1 .. L /\ L # 0
    BY <1>1, <1>2
  <2>2. L - 1 \in Nat /\ L = (L - 1) + 1
    BY <2>1
  <2>3. reuse' \in Seq(Invocation) /\ Len(reuse') = L - 1 /\ \A i \in 1 .. L - 1 : reuse'[i] = reuse[i + 1]
    BY <1>1, <1>2, <2>1
  <2>4. DOMAIN reuse' = 1 .. L - 1
    BY <2>2, <2>3
  <2> QED
    BY <2>1, <2>2, <2>3, <2>4
<1>4. PICK n \in Invocation : n = Head(reuse) /\ n = reuse[1]
  BY <1>1, <1>2, <1>3
<1>5. PICK k : k = Messages!Cleared
  OBVIOUS
<1>5a. /\ k \in InvocationFrame /\ k.at = "live"
       /\ k._argumentsRetained = FALSE /\ k._returnValueRetained = FALSE
  BY <1>5 DEF Messages!Cleared, InvocationFrame
<1>5b. \A v \in Argument : HeldIn(k, v) = 0
  BY <1>5a DEF HeldIn
<1>6. invocation[n].at = "reuse"
  <2>1. n \in Range(reuse)
    BY <1>3, <1>4 DEF Range
  <2> QED
    BY <2>1 DEF MessagesInv, ReuseIsQueue
<1>7. \A v \in Argument : HeldIn(invocation[n], v) = 0
  BY <1>6 DEF HeldIn
<1>8. \A v \in Argument : refs'[v] = refs[v] + held'[v] - held[v] + HeldIn(k, v) - HeldIn(invocation[n], v)
  <2> TAKE v \in Argument
  <2>1. refs[v] \in Nat /\ refs'[v] = refs[v] /\ held[v] \in Nat /\ held'[v] = held[v]
    BY <1>1, <1>2
  <2> QED
    BY <1>5b, <1>7, <2>1
<1>9. invocation' = [invocation EXCEPT ![n] = k]
  BY <1>1, <1>4, <1>5
<1>10. /\ invocation' \in [Invocation -> InvocationFrame]
       /\ refs' \in [Argument -> Nat] /\ MessagesBalance'
  <2>1. held' \in [Argument -> Nat] /\ refs' \in [Argument -> Int]
    BY <1>1, <1>2
  <2>2. MessagesTyped /\ MessagesBalance
    BY DEF MessagesInv
  <2> QED
    BY <1>1, <2>1, <2>2, <1>5a, <1>8, <1>9, OneInvocation
<1>11. ReuseIsQueue'
  <2>1. \A i, j \in 1 .. N + 1 : reuse[i] = reuse[j] => i = j
    BY <1>3 DEF MessagesInv, ReuseIsQueue, IsInjective
  <2>2. IsInjective(reuse')
    <3>1. ASSUME NEW i \in 1 .. N, NEW j \in 1 .. N, reuse'[i] = reuse'[j] PROVE i = j
      <4>1. i + 1 \in 1 .. N + 1 /\ j + 1 \in 1 .. N + 1 /\ reuse[i + 1] = reuse[j + 1]
        BY <1>3, <3>1
      <4>2. i + 1 = j + 1
        BY <2>1, <4>1
      <4> QED
        BY <4>2
    <3> QED
      BY <1>3, <3>1 DEF IsInjective
  <2>3. Len(reuse') <= Reusable
    BY <1>3, ValuesAssumption DEF MessagesInv, ReuseIsQueue
  <2>4. \A m \in Invocation : invocation'[m] = IF m = n THEN k ELSE invocation[m]
    BY <1>2, <1>9
  <2>5. ASSUME NEW m \in Invocation PROVE m \in Range(reuse') <=> m \in Range(reuse) /\ m # n
    <3>1. ASSUME NEW i \in 1 .. N, reuse'[i] = m PROVE m \in Range(reuse) /\ m # n
      <4>1. i + 1 \in 1 .. N + 1 /\ i + 1 # 1 /\ 1 \in 1 .. N + 1 /\ reuse[i + 1] = m
        BY <1>3, <3>1
      <4>2. reuse[i + 1] # reuse[1]
        BY <2>1, <4>1
      <4> QED
        BY <1>3, <1>4, <4>1, <4>2 DEF Range
    <3>2. ASSUME NEW i \in 1 .. N + 1, reuse[i] = m, m # n PROVE m \in Range(reuse')
      <4>1. i # 1
        BY <1>4, <3>2
      <4>2. i - 1 \in 1 .. N /\ (i - 1) + 1 = i
        BY <4>1
      <4>3. reuse'[i - 1] = m
        BY <1>3, <3>2, <4>2
      <4> QED
        BY <1>3, <4>2, <4>3 DEF Range
    <3> QED
      BY <1>3, <3>1, <3>2 DEF Range
  <2>6. Range(reuse') \subseteq Invocation
    BY <1>3 DEF Range
  <2>7. {m \in Invocation : invocation'[m].at = "reuse"} = Range(reuse')
    BY <1>5a, <2>4, <2>5, <2>6 DEF MessagesInv, ReuseIsQueue
  <2>8. \A m \in Invocation : invocation'[m].at = "reuse" => invocation'[m].sort = "standard"
    BY <1>5a, <2>4 DEF MessagesInv, ReuseIsQueue
  <2> QED
    BY <2>2, <2>3, <2>7, <2>8 DEF ReuseIsQueue
<1> QED
  BY <1>1, <1>2, <1>3, <1>10, <1>11 DEF MessagesInv, MessagesTyped

LEMMA PushStep ==
  ASSUME MessagesInv, NEW n \in Invocation, Messages!pushStandardInvocation(n)
  PROVE  MessagesInv'
<1>1. /\ invocation[n].at = "dealloc" /\ invocation[n].sort = "standard" /\ Len(reuse) < Reusable
      /\ reuse' = Append(reuse, n) /\ invocation' = [invocation EXCEPT ![n].at = "reuse"]
      /\ UNCHANGED <<signature, refs, held>>
  BY DEF Messages!pushStandardInvocation, Messages!_isStandardInvocation
<1>2. /\ reuse \in Seq(Invocation) /\ invocation \in [Invocation -> InvocationFrame]
      /\ refs \in [Argument -> Nat] /\ held \in [Argument -> Nat]
  BY DEF MessagesInv, MessagesTyped
<1>3. PICK N \in Nat : /\ Len(reuse) = N /\ DOMAIN reuse = 1 .. N
                       /\ reuse' \in Seq(Invocation) /\ Len(reuse') = N + 1 /\ DOMAIN reuse' = 1 .. N + 1
                       /\ \A i \in 1 .. N : reuse'[i] = reuse[i]
                       /\ reuse'[N + 1] = n
  <2>1. PICK N \in Nat : Len(reuse) = N /\ DOMAIN reuse = 1 .. N
    BY <1>2
  <2>2. /\ reuse' \in Seq(Invocation) /\ Len(reuse') = N + 1
        /\ \A i \in 1 .. N : reuse'[i] = reuse[i]
        /\ reuse'[N + 1] = n
    BY <1>1, <1>2, <2>1
  <2>3. DOMAIN reuse' = 1 .. N + 1
    BY <2>2
  <2> QED
    BY <2>1, <2>2, <2>3
<1>4. PICK k : k = [invocation[n] EXCEPT !.at = "reuse"]
  OBVIOUS
<1>4a. k \in InvocationFrame /\ k.at = "reuse" /\ k.sort = "standard"
  <2>1. invocation[n] \in InvocationFrame
    BY <1>2
  <2> QED
    BY <1>1, <1>4, <2>1 DEF InvocationFrame
<1>4b. \A v \in Argument : HeldIn(k, v) = 0
  BY <1>4a DEF HeldIn
<1>5. \A v \in Argument : HeldIn(invocation[n], v) = 0
  BY <1>1 DEF HeldIn
<1>6. \A v \in Argument : refs'[v] = refs[v] + held'[v] - held[v] + HeldIn(k, v) - HeldIn(invocation[n], v)
  <2> TAKE v \in Argument
  <2>1. refs[v] \in Nat /\ refs'[v] = refs[v] /\ held[v] \in Nat /\ held'[v] = held[v]
    BY <1>1, <1>2
  <2> QED
    BY <1>4b, <1>5, <2>1
<1>7. invocation' = [invocation EXCEPT ![n] = k]
  BY <1>1, <1>2, <1>4
<1>8. /\ invocation' \in [Invocation -> InvocationFrame]
      /\ refs' \in [Argument -> Nat] /\ MessagesBalance'
  <2>1. held' \in [Argument -> Nat] /\ refs' \in [Argument -> Int]
    BY <1>1, <1>2
  <2>2. MessagesTyped /\ MessagesBalance
    BY DEF MessagesInv
  <2> QED
    BY <1>1, <2>1, <2>2, <1>4a, <1>6, <1>7, OneInvocation
<1>9. ReuseIsQueue'
  <2>1. n \notin Range(reuse) /\ \A i \in 1 .. N : reuse[i] # n
    <3>1. n \notin Range(reuse)
      BY <1>1 DEF MessagesInv, ReuseIsQueue
    <3> QED
      BY <1>3, <3>1 DEF Range
  <2>2. IsInjective(reuse')
    <3>1. \A i, j \in 1 .. N : reuse[i] = reuse[j] => i = j
      BY <1>3 DEF MessagesInv, ReuseIsQueue, IsInjective
    <3>2. ASSUME NEW i \in 1 .. N + 1, NEW j \in 1 .. N + 1, reuse'[i] = reuse'[j] PROVE i = j
      <4>1. CASE i \in 1 .. N /\ j \in 1 .. N
        BY <1>3, <3>1, <3>2, <4>1
      <4>2. CASE i = N + 1 /\ j = N + 1
        BY <4>2
      <4>3. CASE i \in 1 .. N /\ j = N + 1
        BY <1>3, <2>1, <3>2, <4>3
      <4>4. CASE i = N + 1 /\ j \in 1 .. N
        BY <1>3, <2>1, <3>2, <4>4
      <4> QED
        BY <4>1, <4>2, <4>3, <4>4
    <3> QED
      BY <1>3, <3>2 DEF IsInjective
  <2>3. Len(reuse') <= Reusable
    BY <1>1, <1>3, ValuesAssumption
  <2>4. \A m \in Invocation : invocation'[m] = IF m = n THEN k ELSE invocation[m]
    BY <1>2, <1>7
  <2>5. Range(reuse') = Range(reuse) \cup {n}
    <3>1. Range(reuse') \subseteq Range(reuse) \cup {n}
      <4>1. ASSUME NEW i \in 1 .. N + 1 PROVE reuse'[i] \in Range(reuse) \cup {n}
        <5>1. CASE i \in 1 .. N
          BY <1>3, <5>1 DEF Range
        <5>2. CASE i = N + 1
          BY <1>3, <5>2
        <5> QED
          BY <5>1, <5>2
      <4> QED
        BY <1>3, <4>1 DEF Range
    <3>2. Range(reuse) \cup {n} \subseteq Range(reuse')
      <4>1. ASSUME NEW i \in 1 .. N PROVE reuse[i] \in Range(reuse')
        <5>1. i \in 1 .. N + 1
          OBVIOUS
        <5> QED
          BY <1>3, <5>1 DEF Range
      <4>2. n \in Range(reuse')
        <5>1. N + 1 \in 1 .. N + 1
          OBVIOUS
        <5> QED
          BY <1>3, <5>1 DEF Range
      <4> QED
        BY <1>3, <4>1, <4>2 DEF Range
    <3> QED
      BY <3>1, <3>2
  <2>6. {m \in Invocation : invocation'[m].at = "reuse"} = Range(reuse')
    BY <1>4a, <2>4, <2>5 DEF MessagesInv, ReuseIsQueue
  <2>7. \A m \in Invocation : invocation'[m].at = "reuse" => invocation'[m].sort = "standard"
    BY <1>4a, <2>4 DEF MessagesInv, ReuseIsQueue
  <2> QED
    BY <2>2, <2>3, <2>6, <2>7 DEF ReuseIsQueue
<1> QED
  BY <1>1, <1>2, <1>3, <1>8, <1>9 DEF MessagesInv, MessagesTyped

LEMMA SetArgumentStep ==
  ASSUME MessagesInv, NEW n \in Invocation, NEW i \in Messages!Index, NEW v \in Argument \cup {NULL},
         Messages!NSInvocationSetArgumentAtIndex(n, i, v)
  PROVE  MessagesInv'
<1>1. /\ invocation[n].at = "live" /\ invocation[n]._argumentsRetained = FALSE
      /\ invocation' = [invocation EXCEPT ![n].frame[i] = v]
      /\ UNCHANGED <<signature, reuse, refs, held>>
      /\ invocation[n] \in InvocationFrame /\ invocation \in [Invocation -> InvocationFrame]
      /\ refs \in [Argument -> Nat]
  BY DEF Messages!NSInvocationSetArgumentAtIndex, Messages!MaySet, Messages!Live, MessagesInv,
         MessagesTyped, InvocationFrame
<1>2. PICK k : k = [invocation[n] EXCEPT !.frame[i] = v]
  OBVIOUS
<1>3. /\ k \in InvocationFrame /\ k.at = "live" /\ k._argumentsRetained = FALSE
      /\ k._returnValueRetained = invocation[n]._returnValueRetained /\ k.rval = invocation[n].rval
  BY <1>1, <1>2 DEF InvocationFrame
<1>4. \A w \in Argument : HeldIn(k, w) = HeldIn(invocation[n], w)
  BY <1>1, <1>3 DEF HeldIn
<1>5. \A w \in Argument : refs'[w] = refs[w] + HeldIn(k, w) - HeldIn(invocation[n], w)
  BY <1>1, <1>4, HeldNat
<1>6. invocation' = [invocation EXCEPT ![n] = k] /\ refs' \in [Argument -> Int]
  BY <1>1, <1>2
<1> QED
  BY <1>1, <1>3, <1>5, <1>6, InvocationChanges

LEMMA RetainArgumentsStep ==
  ASSUME MessagesInv, NEW n \in Invocation, Messages!retainArguments(n)
  PROVE  MessagesInv'
<1>1. /\ invocation[n].at = "live" /\ invocation[n]._argumentsRetained = FALSE
      /\ UNCHANGED <<signature, reuse, held>>
      /\ invocation[n] \in InvocationFrame /\ invocation \in [Invocation -> InvocationFrame]
      /\ refs \in [Argument -> Nat]
  BY DEF Messages!retainArguments, Messages!MayRetain, Messages!Live, MessagesInv,
         MessagesTyped, InvocationFrame
<1>2. PICK w \in IF Messages!Type(2) = "copy" THEN Messages!CopiesOf(invocation[n].frame[2])
                 ELSE {invocation[n].frame[2]} :
        LET frame == [invocation[n].frame EXCEPT ![2] = w]
        IN  /\ invocation' = [invocation EXCEPT ![n].frame = frame, ![n]._argumentsRetained = TRUE]
            /\ refs' = [v \in Argument |->
                 refs[v] + Cardinality({i \in Messages!Retained(n) : frame[i] = v})]
  <2>1. \E w \in IF Messages!Type(2) = "copy" THEN Messages!CopiesOf(invocation[n].frame[2])
                 ELSE {invocation[n].frame[2]} :
          LET frame == [invocation[n].frame EXCEPT ![2] = w]
          IN  /\ invocation' = [invocation EXCEPT ![n].frame = frame, ![n]._argumentsRetained = TRUE]
              /\ refs' = [v \in Argument |->
                   refs[v] + Messages!Cardinality({i \in Messages!Retained(n) : frame[i] = v})]
    BY DEF Messages!retainArguments
  <2> QED
    BY <2>1, MessagesOperators
<1>3. w \in Argument \cup {NULL, "struct"}
  <2>1. invocation[n].frame[2] \in Argument \cup {NULL, "struct"}
    BY <1>1 DEF InvocationFrame, Messages!Index
  <2> QED
    BY <1>2, <2>1 DEF Messages!CopiesOf
<1>4. PICK f : f = [invocation[n].frame EXCEPT ![2] = w]
  OBVIOUS
<1>5. f \in [Messages!Index -> Argument \cup {NULL, "struct"}]
  BY <1>1, <1>3, <1>4 DEF InvocationFrame
<1>6. PICK k : k = [invocation[n] EXCEPT !.frame = f, !._argumentsRetained = TRUE]
  OBVIOUS
<1>7. /\ k \in InvocationFrame /\ k.at = "live" /\ k._argumentsRetained = TRUE /\ k.frame = f
      /\ k._returnValueRetained = invocation[n]._returnValueRetained /\ k.rval = invocation[n].rval
  BY <1>1, <1>5, <1>6 DEF InvocationFrame
<1>8. refs' = [v \in Argument |-> refs[v] + UsesIn(f, v)]
  BY <1>2, <1>4 DEF UsesIn, RetainedIndex, Messages!Retained
<1>9. \A v \in Argument : refs'[v] = refs[v] + HeldIn(k, v) - HeldIn(invocation[n], v)
  <2> TAKE v \in Argument
  <2>1. PICK r \in Nat, u \in Nat : r = refs[v] /\ u = UsesIn(f, v) /\ refs'[v] = r + u
    BY <1>1, <1>8, UsesNat
  <2>2. PICK c \in Nat : c = IF k._returnValueRetained /\ k.rval = v THEN 1 ELSE 0
    OBVIOUS
  <2>3. HeldIn(k, v) = u + c
    BY <1>7, <2>1, <2>2 DEF HeldIn
  <2>4. HeldIn(invocation[n], v) = c
    BY <1>1, <1>7, <2>2 DEF HeldIn
  <2> QED
    BY <2>1, <2>3, <2>4
<1>10. invocation' = [invocation EXCEPT ![n] = k]
  BY <1>1, <1>2, <1>4, <1>6
<1>11. refs' \in [Argument -> Int]
  BY <1>1, <1>8, UsesNat
<1> QED
  BY <1>1, <1>7, <1>9, <1>10, <1>11, InvocationChanges

LEMMA InvokeStep ==
  ASSUME MessagesInv, NEW n \in Invocation, Messages!invoke(n)
  PROVE  MessagesInv'
<1>1. /\ invocation[n].at = "live" /\ invocation[n]._returnValueRetained = FALSE
      /\ signature.rval = "block" => invocation[n]._argumentsRetained = FALSE
      /\ UNCHANGED <<signature, reuse, refs, held>>
      /\ invocation[n] \in InvocationFrame /\ invocation \in [Invocation -> InvocationFrame]
      /\ refs \in [Argument -> Nat]
  BY DEF Messages!invoke, Messages!MayInvoke, Messages!Live, MessagesInv, MessagesTyped, InvocationFrame
<1>2. PICK i \in Messages!Index, v \in Argument \cup {NULL} :
        \/ invocation' = invocation
        \/ invocation' = [invocation EXCEPT ![n].rval = v]
        \/ invocation' = [invocation EXCEPT ![n].frame[i] = "struct"] /\ signature.rval = "block"
  <2>1. PICK i \in Messages!Index : i = IF signature.argument = "none" THEN 0 ELSE 2
    BY DEF Messages!Index
  <2>2. PICK v \in Argument \cup {NULL} :
          invocation' =
            IF signature.rval = "void" THEN invocation
            ELSE IF signature.rval = "retain" THEN [invocation EXCEPT ![n].rval = v]
            ELSE [invocation EXCEPT ![n].frame[i] = "struct"]
    BY <2>1 DEF Messages!invoke
  <2>3. signature.rval \in {"void", "retain", "block"}
    BY DEF MessagesInv, MessagesTyped, Messages!Signature
  <2> QED
    BY <2>2, <2>3
<1>3. PICK k : /\ invocation' = [invocation EXCEPT ![n] = k]
               /\ \/ k = invocation[n]
                  \/ k = [invocation[n] EXCEPT !.rval = v]
                  \/ k = [invocation[n] EXCEPT !.frame[i] = "struct"] /\ signature.rval = "block"
  <2>1. CASE invocation' = invocation
    <3>1. invocation' = [invocation EXCEPT ![n] = invocation[n]]
      BY <1>1, <2>1
    <3> QED
      BY <3>1
  <2>2. CASE invocation' = [invocation EXCEPT ![n].rval = v]
    BY <1>1, <2>2
  <2>3. CASE invocation' = [invocation EXCEPT ![n].frame[i] = "struct"] /\ signature.rval = "block"
    BY <1>1, <2>3
  <2> QED
    BY <1>2, <2>1, <2>2, <2>3
<1>4. /\ k \in InvocationFrame /\ k.at = "live" /\ k._returnValueRetained = FALSE
      /\ k._argumentsRetained = invocation[n]._argumentsRetained
      /\ k._argumentsRetained => k.frame = invocation[n].frame
  <2>1. CASE k = invocation[n]
    BY <1>1, <2>1
  <2>2. CASE k = [invocation[n] EXCEPT !.rval = v]
    BY <1>1, <2>2 DEF InvocationFrame
  <2>3. CASE k = [invocation[n] EXCEPT !.frame[i] = "struct"] /\ signature.rval = "block"
    BY <1>1, <2>3 DEF InvocationFrame
  <2> QED
    BY <1>3, <2>1, <2>2, <2>3
<1>5. \A w \in Argument : HeldIn(k, w) = HeldIn(invocation[n], w)
  BY <1>1, <1>4 DEF HeldIn
<1>6. \A w \in Argument : refs'[w] = refs[w] + HeldIn(k, w) - HeldIn(invocation[n], w)
  BY <1>1, <1>5, HeldNat
<1>7. refs' \in [Argument -> Int]
  BY <1>1
<1> QED
  BY <1>1, <1>3, <1>4, <1>6, <1>7, InvocationChanges

LEMMA RetainReturnValueStep ==
  ASSUME MessagesInv, NEW n \in Invocation, Messages!mulleRetainReturnValue(n)
  PROVE  MessagesInv'
<1>1. /\ invocation[n].at = "live" /\ invocation[n]._returnValueRetained = FALSE
      /\ invocation' = [invocation EXCEPT ![n]._returnValueRetained = TRUE]
      /\ refs' = IF invocation[n].rval = NULL THEN refs
                 ELSE [refs EXCEPT ![invocation[n].rval] = @ + 1]
      /\ UNCHANGED <<signature, reuse, held>>
      /\ invocation[n] \in InvocationFrame /\ invocation \in [Invocation -> InvocationFrame]
      /\ refs \in [Argument -> Nat] /\ invocation[n].rval \in Argument \cup {NULL}
  BY DEF Messages!mulleRetainReturnValue, Messages!Live, MessagesInv, MessagesTyped, InvocationFrame
<1>2. PICK k : k = [invocation[n] EXCEPT !._returnValueRetained = TRUE]
  OBVIOUS
<1>3. /\ k \in InvocationFrame /\ k.at = "live" /\ k._returnValueRetained = TRUE
      /\ k._argumentsRetained = invocation[n]._argumentsRetained /\ k.frame = invocation[n].frame
      /\ k.rval = invocation[n].rval
  BY <1>1, <1>2 DEF InvocationFrame
<1>4. \A w \in Argument : refs'[w] = refs[w] + HeldIn(k, w) - HeldIn(invocation[n], w)
  <2> TAKE w \in Argument
  <2>1. PICK u \in Nat : u = IF k._argumentsRetained THEN UsesIn(k.frame, w) ELSE 0
    BY UsesNat
  <2>2. PICK c \in Nat : c = IF k.rval = w THEN 1 ELSE 0
    OBVIOUS
  <2>3. HeldIn(k, w) = u + c
    BY <1>3, <2>1, <2>2 DEF HeldIn
  <2>4. HeldIn(invocation[n], w) = u
    BY <1>1, <1>3, <2>1 DEF HeldIn
  <2>5. refs[w] \in Nat /\ refs'[w] = refs[w] + c
    BY <1>1, <1>3, <2>2, ValuesAssumption
  <2> QED
    BY <2>3, <2>4, <2>5
<1>5. invocation' = [invocation EXCEPT ![n] = k] /\ refs' \in [Argument -> Int]
  BY <1>1, <1>2
<1> QED
  BY <1>1, <1>3, <1>4, <1>5, InvocationChanges

LEMMA DeallocStep ==
  ASSUME MessagesInv, NEW n \in Invocation, Messages!ReleaseArgumentsAndReturnValue(n)
  PROVE  MessagesInv'
<1>1. /\ invocation[n].at = "live" /\ invocation' = [invocation EXCEPT ![n].at = "dealloc"]
      /\ refs' = [v \in Argument |->
           refs[v] - (IF invocation[n]._argumentsRetained THEN Messages!Uses(n, v) ELSE 0)
                   - (IF invocation[n]._returnValueRetained /\ invocation[n].rval = v THEN 1 ELSE 0)]
      /\ UNCHANGED <<signature, reuse, held>>
      /\ invocation[n] \in InvocationFrame /\ invocation \in [Invocation -> InvocationFrame]
      /\ refs \in [Argument -> Nat]
  BY DEF Messages!ReleaseArgumentsAndReturnValue, Messages!Live, MessagesInv, MessagesTyped
<1>2. PICK k : k = [invocation[n] EXCEPT !.at = "dealloc"]
  OBVIOUS
<1>3. k \in InvocationFrame /\ k.at = "dealloc"
  BY <1>1, <1>2 DEF InvocationFrame
<1>4. \A w \in Argument : HeldIn(k, w) = 0
  BY <1>3 DEF HeldIn
<1>5. \A w \in Argument : refs'[w] = refs[w] - HeldIn(invocation[n], w)
  <2> TAKE w \in Argument
  <2>1. Messages!Uses(n, w) = UsesIn(invocation[n].frame, w)
    BY UsesIsCounted
  <2>2. PICK u \in Nat : u = IF invocation[n]._argumentsRetained THEN UsesIn(invocation[n].frame, w) ELSE 0
    BY UsesNat
  <2>3. PICK c \in Nat : c = IF invocation[n]._returnValueRetained /\ invocation[n].rval = w THEN 1 ELSE 0
    OBVIOUS
  <2>4. HeldIn(invocation[n], w) = u + c
    BY <1>1, <2>2, <2>3 DEF HeldIn
  <2>5. refs[w] \in Nat /\ refs'[w] = refs[w] - u - c
    BY <1>1, <2>1, <2>2, <2>3
  <2> QED
    BY <2>4, <2>5
<1>6. \A w \in Argument : refs'[w] = refs[w] + HeldIn(k, w) - HeldIn(invocation[n], w)
  <2> TAKE w \in Argument
  <2>1. refs[w] \in Nat
    BY <1>1
  <2> QED
    BY <1>4, <1>5, <2>1, HeldNat
<1>7. refs' \in [Argument -> Int]
  <2>1. \A w \in Argument : refs[w] - HeldIn(invocation[n], w) \in Int
    BY <1>1, HeldNat
  <2> QED
    BY <1>1, <1>5, <2>1
<1>8. invocation' = [invocation EXCEPT ![n] = k]
  BY <1>1, <1>2
<1> QED
  BY <1>1, <1>3, <1>6, <1>7, <1>8, InvocationChanges

LEMMA FreeStep ==
  ASSUME MessagesInv, NEW n \in Invocation, Messages!InstanceFree(n)
  PROVE  MessagesInv'
<1>1. /\ invocation[n].at = "dealloc"
      /\ invocation' = [invocation EXCEPT ![n] = [Messages!Cleared EXCEPT !.at = "free"]]
      /\ UNCHANGED <<signature, reuse, refs, held>>
      /\ refs \in [Argument -> Nat]
  BY DEF Messages!InstanceFree, MessagesInv, MessagesTyped
<1>2. PICK k : k = [Messages!Cleared EXCEPT !.at = "free"]
  OBVIOUS
<1>3. k \in InvocationFrame /\ k.at = "free"
  BY <1>2 DEF Messages!Cleared, InvocationFrame
<1>4. \A w \in Argument : HeldIn(k, w) = 0 /\ HeldIn(invocation[n], w) = 0
  BY <1>1, <1>3 DEF HeldIn
<1>5. \A w \in Argument : refs'[w] = refs[w] + HeldIn(k, w) - HeldIn(invocation[n], w)
  <2> TAKE w \in Argument
  <2>1. refs[w] \in Nat /\ refs'[w] = refs[w]
    BY <1>1
  <2> QED
    BY <1>4, <2>1
<1>6. invocation' = [invocation EXCEPT ![n] = k] /\ refs' \in [Argument -> Int]
  BY <1>1, <1>2
<1> QED
  BY <1>1, <1>3, <1>5, <1>6, InvocationChanges

LEMMA MessagesStep == MessagesInv /\ [Messages!Next]_messageVars => MessagesInv'
<1> SUFFICES ASSUME MessagesInv, [Messages!Next]_messageVars PROVE MessagesInv'
  OBVIOUS
<1>1. CASE UNCHANGED messageVars
  BY <1>1 DEF messageVars, MessagesInv, MessagesTyped, MessagesBalance, HeldByAll, HeldIn, UsesIn,
              RetainedIndex, Messages!Type, ReuseIsQueue
<1>2. ASSUME NEW v \in Argument, Messages!CreateValue(v) PROVE MessagesInv'
  <2>1. /\ refs[v] = 0 /\ refs' = [refs EXCEPT ![v] = 1] /\ held' = [held EXCEPT ![v] = 1]
        /\ UNCHANGED <<signature, invocation, reuse>>
    BY <1>2 DEF Messages!CreateValue
  <2>2. held[v] = 0
    <3>1. [n \in Invocation |-> HeldIn(invocation[n], v)] \in [Invocation -> Nat]
      BY HeldNat
    <3>2. HeldByAll(v) \in Nat
      BY <3>1, SumNat, ValuesAssumption DEF HeldByAll
    <3>3. held[v] \in Nat /\ refs[v] = held[v] + HeldByAll(v)
      BY DEF MessagesInv, MessagesTyped, MessagesBalance
    <3> QED
      BY <2>1, <3>2, <3>3
  <2>3. PICK d \in Int : d = 1
    OBVIOUS
  <2>4. /\ refs' = [refs EXCEPT ![v] = refs[v] + d] /\ held' = [held EXCEPT ![v] = held[v] + d]
        /\ held[v] + d \in Nat
        /\ signature' = signature /\ invocation' = invocation /\ reuse' = reuse
    BY <2>1, <2>2, <2>3
  <2> QED
    BY <2>4, ClientCounts
<1>3. ASSUME NEW v \in Argument, Messages!ReleaseValue(v) PROVE MessagesInv'
  <2>1. /\ held[v] > 0 /\ refs' = [refs EXCEPT ![v] = @ - 1] /\ held' = [held EXCEPT ![v] = @ - 1]
        /\ UNCHANGED <<signature, invocation, reuse>>
        /\ held[v] \in Nat /\ refs[v] \in Nat
    BY <1>3 DEF Messages!ReleaseValue, MessagesInv, MessagesTyped
  <2>2. PICK d \in Int : d = -1
    OBVIOUS
  <2>3. held[v] - 1 = held[v] + d /\ refs[v] - 1 = refs[v] + d /\ held[v] + d \in Nat
    BY <2>1, <2>2
  <2>4. /\ refs' = [refs EXCEPT ![v] = refs[v] + d] /\ held' = [held EXCEPT ![v] = held[v] + d]
        /\ signature' = signature /\ invocation' = invocation /\ reuse' = reuse
    BY <2>1, <2>3
  <2> QED
    BY <2>3, <2>4, ClientCounts
<1>4. ASSUME NEW sort \in {"standard", "other"}, Messages!invocationWithMethodSignature(sort)
      PROVE  MessagesInv'
  BY <1>4, AllocateStep, PopStep DEF Messages!invocationWithMethodSignature
<1>5. ASSUME NEW sort \in {"standard", "other"}, Messages!NSInvocationCreateWithMetaABIFrameAndLength(sort)
      PROVE  MessagesInv'
  BY <1>5, AllocateStep DEF Messages!NSInvocationCreateWithMetaABIFrameAndLength
<1> QED
  BY <1>1, <1>2, <1>3, <1>4, <1>5, PushStep, SetArgumentStep, RetainArgumentsStep, InvokeStep,
     RetainReturnValueStep, DeallocStep, FreeStep DEF Messages!Next

(* The counts of the invariant are those of the property.                  *)
LEMMA BalanceFollows == MessagesInv => Messages!InvocationsBalance
<1> SUFFICES ASSUME MessagesInv PROVE Messages!InvocationsBalance
  OBVIOUS
<1>1. \A n, v : Messages!Uses(n, v) = UsesIn(invocation[n].frame, v)
  BY UsesIsCounted
<1>2. \A v \in Argument :
        HeldByAll(v) = SumFunction([n \in Invocation |->
          IF invocation[n].at = "live"
          THEN (IF invocation[n]._argumentsRetained THEN Messages!Uses(n, v) ELSE 0)
               + (IF invocation[n]._returnValueRetained /\ invocation[n].rval = v THEN 1 ELSE 0)
          ELSE 0])
  BY <1>1 DEF HeldByAll, HeldIn
<1>3. \A v \in Argument : refs[v] = held[v] + SumFunction([n \in Invocation |->
          IF invocation[n].at = "live"
          THEN (IF invocation[n]._argumentsRetained THEN Messages!Uses(n, v) ELSE 0)
               + (IF invocation[n]._returnValueRetained /\ invocation[n].rval = v THEN 1 ELSE 0)
          ELSE 0])
  BY <1>2 DEF MessagesInv, MessagesBalance
<1>4. /\ Messages!IsInjective(reuse) /\ Len(reuse) <= Reusable
      /\ {n \in Invocation : invocation[n].at = "reuse"} = Messages!Range(reuse)
      /\ \A n \in Invocation : invocation[n].at = "reuse" => Messages!_isStandardInvocation(n)
  BY MessagesOperators DEF MessagesInv, ReuseIsQueue, Messages!_isStandardInvocation
<1> QED
  BY <1>3, <1>4, MessagesOperators DEF Messages!InvocationsBalance, Messages!Live

(* Values are released as often as invocations have retained them, for any *)
(* number of invocations that are used again and by any number of threads  *)
(* (NSInvocation.m).                                                       *)
THEOREM InvocationsGiveBack == Messages!Spec => []Messages!InvocationsBalance
BY BalanceFollows, MessagesInit, MessagesStep, PTL DEF Messages!Spec, Messages!vars, messageVars

-----------------------------------------------------------------------------
(* Containers (Container).                                                 *)

CellState ==
  [kind : {"free", "object", "cstring"}, rc : Nat, mutable : BOOLEAN, content : Content \cup {NULL}]

CellsFit(cells) ==
  /\ cells \in [Cell -> CellState]
  /\ \A o \in Cell : /\ cells[o].rc = 0 => cells[o] = Contents!Freed
                     /\ cells[o].kind = "cstring" => cells[o].mutable

KeyCB == callbacks[1]

ValueCB == callbacks[2]

(* What a callback does on removal undoes what it did on insertion; a      *)
(* value is given away together with its key, or retained.                 *)
CallbackFits(cb) ==
  /\ cb.kind \in {"plain", "object", "cstring"}
  /\ cb.insert \in {"nop", "take", "retain", "copy", "immutableCopy"}
  /\ cb.remove \in {"nop", "free", "autorelease"}
  /\ cb.kind = "plain" => cb.insert = "nop"
  /\ cb.insert = "nop" <=> cb.remove = "nop"
  /\ cb.remove = "free" <=> cb.kind = "cstring"
  /\ cb.kind = "cstring" => cb.insert = "copy"

CallbacksFit ==
  /\ CallbackFits(KeyCB) /\ CallbackFits(ValueCB)
  /\ KeyCB.compare \in {"equal", "identity"}
  /\ KeyCB.compare = "identity" => KeyCB.insert = "retain"
  /\ KeyCB.insert = "take" => ValueCB.insert \in {"take", "retain"}
  /\ ValueCB.insert = "take" => KeyCB.insert = "take"

KeyUses(S, o) == Cardinality({e \in S : e.key = o})

ValueUses(S, o) == Cardinality({e \in S : e.value = o})

KeyKept(S, o) == IF KeyCB.insert = "nop" THEN 0 ELSE KeyUses(S, o)

ValueKept(S, o) == IF ValueCB.insert = "nop" THEN 0 ELSE ValueUses(S, o)

OwnedOnce(own, o) == IF o \in own THEN 1 ELSE 0

CellsBalance(cells, own, pending, S) ==
  \A o \in Cell : cells[o].rc = OwnedOnce(own, o) + pending[o] + KeyKept(S, o) + ValueKept(S, o)

(* What the container merely points to is the client's, and the copy of a  *)
(* string is nobody else's.                                                *)
PartFits(cb, cells, own, o) ==
  IF cb.kind = "plain" THEN o \in Content
  ELSE /\ o \in Cell
       /\ cb.insert = "nop" => o \in own
       /\ cb.remove = "free" => cells[o].rc = 1

HashIn(cells, k) == IF k \in Cell /\ KeyCB.compare = "equal" THEN cells[k].content ELSE k

EntryFits(cells, own, e) ==
  /\ e = [key |-> e.key, value |-> e.value, hash |-> e.hash]
  /\ PartFits(KeyCB, cells, own, e.key) /\ PartFits(ValueCB, cells, own, e.value)
  /\ e.hash = HashIn(cells, e.key)

EntriesFit(cells, own, S) ==
  /\ IsFiniteSet(S) /\ \A e \in S : EntryFits(cells, own, e)
  /\ \A e, f \in S : e.hash = f.hash => e = f

BorrowedFit(own, pending, S, lent) ==
  /\ lent \subseteq Cell
  /\ lent # {} => ValueCB.kind = "object"
  /\ \A o \in lent : IF ValueCB.insert = "nop" THEN o \in own
                     ELSE pending[o] > 0 \/ \E e \in S : e.value = o

ContentsFit(cells, own, pending, S, lent) ==
  /\ CellsFit(cells) /\ own \subseteq Cell /\ pending \in [Cell -> Nat]
  /\ CellsBalance(cells, own, pending, S) /\ EntriesFit(cells, own, S)
  /\ BorrowedFit(own, pending, S, lent)

ContentsInv ==
  /\ callbacks \in Contents!Callbacks \cup Contents!PointerAndStringCallbacks
  /\ ContentsFit(cell, cellOwned, cellPool, entries, cellBorrowed)

LEMMA ContainerCardinality == \A S : Contents!Cardinality(S) = Cardinality(S)
BY DEF Contents!Cardinality, Cardinality

LEMMA CallbacksHaveFit ==
  ASSUME callbacks \in Contents!Callbacks \cup Contents!PointerAndStringCallbacks
  PROVE  CallbacksFit
<1>1. /\ CallbackFits(Contents!INTEGER_KEY_CALLBACK)
      /\ CallbackFits(Contents!COPIED_CSTRING_KEY_CALLBACK)
      /\ CallbackFits(Contents!ASSIGN_KEY_CALLBACK)
      /\ CallbackFits(Contents!ASSIGN_RETAINED_KEY_CALLBACK)
      /\ CallbackFits(Contents!RETAIN_KEY_CALLBACK)
      /\ CallbackFits(Contents!COPY_KEY_CALLBACK)
      /\ CallbackFits(Contents!RETAIN_POINTER_COMPARE_KEY_CALLBACK)
  BY DEF CallbackFits, Contents!INTEGER_KEY_CALLBACK, Contents!COPIED_CSTRING_KEY_CALLBACK,
         Contents!ASSIGN_KEY_CALLBACK, Contents!ASSIGN_RETAINED_KEY_CALLBACK,
         Contents!RETAIN_KEY_CALLBACK, Contents!COPY_KEY_CALLBACK,
         Contents!RETAIN_POINTER_COMPARE_KEY_CALLBACK
<1>2. /\ CallbackFits(Contents!INTEGER_VALUE_CALLBACK)
      /\ CallbackFits(Contents!ASSIGN_VALUE_CALLBACK)
      /\ CallbackFits(Contents!ASSIGN_RETAINED_VALUE_CALLBACK)
      /\ CallbackFits(Contents!RETAIN_VALUE_CALLBACK)
      /\ CallbackFits(Contents!COPY_VALUE_CALLBACK)
      /\ CallbackFits(Contents!COPIED_CSTRING_VALUE_CALLBACK)
  BY DEF CallbackFits, Contents!INTEGER_VALUE_CALLBACK, Contents!ASSIGN_VALUE_CALLBACK,
         Contents!ASSIGN_RETAINED_VALUE_CALLBACK, Contents!RETAIN_VALUE_CALLBACK,
         Contents!COPY_VALUE_CALLBACK, Contents!COPIED_CSTRING_VALUE_CALLBACK
<1>3. /\ KeyCB \in {Contents!INTEGER_KEY_CALLBACK, Contents!COPIED_CSTRING_KEY_CALLBACK,
                    Contents!ASSIGN_KEY_CALLBACK, Contents!RETAIN_KEY_CALLBACK,
                    Contents!COPY_KEY_CALLBACK, Contents!RETAIN_POINTER_COMPARE_KEY_CALLBACK}
      /\ ValueCB \in {Contents!INTEGER_VALUE_CALLBACK, Contents!ASSIGN_VALUE_CALLBACK,
                      Contents!RETAIN_VALUE_CALLBACK, Contents!COPY_VALUE_CALLBACK,
                      Contents!COPIED_CSTRING_VALUE_CALLBACK}
      \/ /\ KeyCB = Contents!ASSIGN_RETAINED_KEY_CALLBACK
         /\ ValueCB \in {Contents!ASSIGN_RETAINED_VALUE_CALLBACK, Contents!RETAIN_VALUE_CALLBACK}
  <2>1. callbacks \in Contents!Callbacks \/ callbacks \in Contents!PointerAndStringCallbacks
    OBVIOUS
  <2>2. CASE callbacks \in Contents!Callbacks
    BY <2>2 DEF Contents!Callbacks, KeyCB, ValueCB
  <2>3. CASE callbacks \in Contents!PointerAndStringCallbacks
    BY <2>3 DEF Contents!PointerAndStringCallbacks, Contents!POINTER_KEY_CALLBACK, KeyCB, ValueCB
  <2> QED
    BY <2>1, <2>2, <2>3
<1>4. CallbackFits(KeyCB) /\ CallbackFits(ValueCB)
  BY <1>1, <1>2, <1>3
<1>5. /\ KeyCB.compare \in {"equal", "identity"}
      /\ KeyCB.compare = "identity" => KeyCB.insert = "retain"
  BY <1>3 DEF Contents!INTEGER_KEY_CALLBACK, Contents!COPIED_CSTRING_KEY_CALLBACK,
         Contents!ASSIGN_KEY_CALLBACK, Contents!ASSIGN_RETAINED_KEY_CALLBACK,
         Contents!RETAIN_KEY_CALLBACK, Contents!COPY_KEY_CALLBACK,
         Contents!RETAIN_POINTER_COMPARE_KEY_CALLBACK
<1>6. /\ KeyCB.insert = "take" => ValueCB.insert \in {"take", "retain"}
      /\ ValueCB.insert = "take" => KeyCB.insert = "take"
  BY <1>3 DEF Contents!INTEGER_KEY_CALLBACK, Contents!COPIED_CSTRING_KEY_CALLBACK,
         Contents!ASSIGN_KEY_CALLBACK, Contents!ASSIGN_RETAINED_KEY_CALLBACK,
         Contents!RETAIN_KEY_CALLBACK, Contents!COPY_KEY_CALLBACK,
         Contents!RETAIN_POINTER_COMPARE_KEY_CALLBACK,
         Contents!INTEGER_VALUE_CALLBACK, Contents!ASSIGN_VALUE_CALLBACK,
         Contents!ASSIGN_RETAINED_VALUE_CALLBACK, Contents!RETAIN_VALUE_CALLBACK,
         Contents!COPY_VALUE_CALLBACK, Contents!COPIED_CSTRING_VALUE_CALLBACK
<1> QED
  BY <1>4, <1>5, <1>6 DEF CallbacksFit

(* Counting what entries keep.                                             *)
LEMMA UsesAreCounted ==
  ASSUME NEW S, IsFiniteSet(S), NEW o
  PROVE  KeyUses(S, o) \in Nat /\ ValueUses(S, o) \in Nat
<1>1. IsFiniteSet({e \in S : e.key = o}) /\ IsFiniteSet({e \in S : e.value = o})
  BY FS_Subset
<1> QED
  BY <1>1, FS_CardinalityType DEF KeyUses, ValueUses

LEMMA UsesWith ==
  ASSUME NEW S, IsFiniteSet(S), NEW f, f \notin S, NEW o
  PROVE  /\ KeyUses(S \cup {f}, o) = KeyUses(S, o) + (IF f.key = o THEN 1 ELSE 0)
         /\ ValueUses(S \cup {f}, o) = ValueUses(S, o) + (IF f.value = o THEN 1 ELSE 0)
<1>1. KeyUses(S \cup {f}, o) = KeyUses(S, o) + (IF f.key = o THEN 1 ELSE 0)
  <2> DEFINE A == {e \in S : e.key = o}
             B == {e \in S \cup {f} : e.key = o}
  <2>1. IsFiniteSet(A) /\ f \notin A
    BY FS_Subset
  <2>2. CASE f.key = o
    <3>1. B = A \cup {f}
      BY <2>2
    <3>2. Cardinality(A \cup {f}) = Cardinality(A) + 1
      BY <2>1, FS_AddElement
    <3> QED
      BY <2>2, <3>1, <3>2 DEF KeyUses
  <2>3. CASE f.key # o
    <3>1. B = A
      BY <2>3
    <3>2. PICK a \in Nat : a = Cardinality(A)
      BY <2>1, FS_CardinalityType
    <3>3. KeyUses(S, o) = a /\ KeyUses(S \cup {f}, o) = Cardinality(B)
      BY <3>2 DEF KeyUses
    <3>4. KeyUses(S \cup {f}, o) = a
      BY <3>1, <3>2, <3>3
    <3> QED
      BY <2>3, <3>2, <3>3, <3>4
  <2> QED
    BY Zenon, <2>2, <2>3
<1>2. ValueUses(S \cup {f}, o) = ValueUses(S, o) + (IF f.value = o THEN 1 ELSE 0)
  <2> DEFINE A == {e \in S : e.value = o}
             B == {e \in S \cup {f} : e.value = o}
  <2>1. IsFiniteSet(A) /\ f \notin A
    BY FS_Subset
  <2>2. CASE f.value = o
    <3>1. B = A \cup {f}
      BY <2>2
    <3>2. Cardinality(A \cup {f}) = Cardinality(A) + 1
      BY <2>1, FS_AddElement
    <3> QED
      BY <2>2, <3>1, <3>2 DEF ValueUses
  <2>3. CASE f.value # o
    <3>1. B = A
      BY <2>3
    <3>2. PICK a \in Nat : a = Cardinality(A)
      BY <2>1, FS_CardinalityType
    <3>3. ValueUses(S, o) = a /\ ValueUses(S \cup {f}, o) = Cardinality(B)
      BY <3>2 DEF ValueUses
    <3>4. ValueUses(S \cup {f}, o) = a
      BY <3>1, <3>2, <3>3
    <3> QED
      BY <2>3, <3>2, <3>3, <3>4
  <2> QED
    BY Zenon, <2>2, <2>3
<1> QED
  BY <1>1, <1>2

(* An entry goes, and another may come in its place.                       *)
LEMMA UsesWithout ==
  ASSUME NEW S, IsFiniteSet(S), NEW e \in S, NEW o
  PROVE  /\ IsFiniteSet(S \ {e})
         /\ KeyUses(S, o) = KeyUses(S \ {e}, o) + (IF e.key = o THEN 1 ELSE 0)
         /\ ValueUses(S, o) = ValueUses(S \ {e}, o) + (IF e.value = o THEN 1 ELSE 0)
<1>1. IsFiniteSet(S \ {e})
  BY FS_Subset
<1>2. S = (S \ {e}) \cup {e} /\ e \notin S \ {e}
  OBVIOUS
<1> QED
  BY <1>1, <1>2, UsesWith

Kept1(cb, kept, c) == IF cb.insert # "nop" /\ kept = c THEN 1 ELSE 0

LEMMA KeptWith ==
  ASSUME NEW S, IsFiniteSet(S), NEW f, f \notin S, NEW o
  PROVE  /\ KeyKept(S, o) \in Nat /\ ValueKept(S, o) \in Nat
         /\ KeyKept(S \cup {f}, o)
              = KeyKept(S, o) + Kept1(KeyCB, f.key, o)
         /\ ValueKept(S \cup {f}, o)
              = ValueKept(S, o) + Kept1(ValueCB, f.value, o)
BY UsesAreCounted, UsesWith DEF KeyKept, ValueKept, Kept1

LEMMA KeptWithout ==
  ASSUME NEW S, IsFiniteSet(S), NEW e \in S, NEW o
  PROVE  /\ IsFiniteSet(S \ {e})
         /\ KeyKept(S \ {e}, o) \in Nat /\ ValueKept(S \ {e}, o) \in Nat
         /\ KeyKept(S, o)
              = KeyKept(S \ {e}, o) + Kept1(KeyCB, e.key, o)
         /\ ValueKept(S, o)
              = ValueKept(S \ {e}, o) + Kept1(ValueCB, e.value, o)
<1>1. IsFiniteSet(S \ {e})
  BY FS_Subset
<1> QED
  BY <1>1, UsesAreCounted, UsesWithout DEF KeyKept, ValueKept, Kept1

(* What callbacks do to the cells.                                         *)
Added(cb, kept, c) == IF cb.insert \notin {"nop", "take"} /\ c = kept THEN 1 ELSE 0

InsertEffect(cb, cells, o, r) ==
  /\ CellsFit(r.cells)
  /\ \A c \in Cell : /\ r.cells[c].rc = cells[c].rc + Added(cb, r.kept, c)
                     /\ cells[c].rc > 0 => r.cells[c].content = cells[c].content
                                           /\ r.cells[c].kind = cells[c].kind
  /\ cb.kind # "plain" => r.kept \in Cell /\ r.cells[r.kept].content = cells[o].content
  /\ cb.insert \in {"nop", "take", "retain"} => r.kept = o
  /\ r.kept = o \/ (r.kept \in Cell /\ cells[r.kept].rc = 0)
  /\ cb.kind = "cstring" => cells[r.kept].rc = 0

LEMMA RetainEffect ==
  ASSUME NEW cells, CellsFit(cells), NEW o \in Cell, cells[o].rc > 0,
         NEW k \in CellState, k.rc = cells[o].rc + 1, k.mutable = cells[o].mutable,
         k.content = cells[o].content, k.kind = cells[o].kind,
         NEW r \in [Cell -> CellState], \A c \in Cell : r[c] = IF c = o THEN k ELSE cells[c]
  PROVE  /\ CellsFit(r)
         /\ \A c \in Cell : /\ r[c].rc = cells[c].rc + (IF c = o THEN 1 ELSE 0)
                            /\ r[c].content = cells[c].content /\ r[c].kind = cells[c].kind
<1>3. cells \in [Cell -> CellState]
  BY DEF CellsFit
<1>4. k.rc # 0
  <2>1. cells[o].rc \in Nat
    BY <1>3 DEF CellState
  <2> QED
    BY <2>1
<1>7. CellsFit(r)
  BY <1>4 DEF CellsFit
<1>8. \A c \in Cell : cells[c].rc \in Nat
  BY <1>3 DEF CellState
<1> QED
  BY <1>4, <1>7, <1>8

LEMMA CopyEffect ==
  ASSUME NEW cells, CellsFit(cells), NEW o \in Cell, cells[o].rc > 0, NEW isMutable \in BOOLEAN,
         cells[o].kind = "cstring" => isMutable,
         NEW n \in Cell, cells[n] = Contents!Freed,
         NEW k \in CellState, k.rc = 1, k.mutable = isMutable,
         k.content = cells[o].content, k.kind = cells[o].kind,
         NEW r \in [Cell -> CellState], \A c \in Cell : r[c] = IF c = n THEN k ELSE cells[c]
  PROVE  /\ CellsFit(r)
         /\ \A c \in Cell : /\ r[c].rc = cells[c].rc + (IF c = n THEN 1 ELSE 0)
                            /\ c # n => r[c] = cells[c]
         /\ cells[n].rc = 0 /\ r[n].content = cells[o].content
<1>3. cells \in [Cell -> CellState]
  BY DEF CellsFit
<1>6. CellsFit(r)
  BY DEF CellsFit
<1>7. cells[n].rc = 0 /\ \A c \in Cell : cells[c].rc \in Nat
  BY <1>3 DEF CellState, Contents!Freed
<1> QED
  BY <1>6, <1>7

LEMMA InsertsAsExpected ==
  ASSUME NEW cb, CallbackFits(cb), NEW cells, CellsFit(cells), NEW o,
         cb.kind # "plain" => o \in Cell /\ cells[o].rc > 0 /\ cells[o].kind = cb.kind,
         NEW r \in Contents!InsertCallback(cb, cells, o)
  PROVE  InsertEffect(cb, cells, o, r)
<1>0. \A c \in Cell : cells[c].rc \in Nat
  BY DEF CellsFit, CellState
<1>1. CASE cb.insert \in {"nop", "take"}
  <2>1. r = [cells |-> cells, kept |-> o]
    BY <1>1 DEF Contents!InsertCallback, Contents!mulle_container_callback_object_assign
  <2>2. cb.kind # "cstring"
    BY <1>1 DEF CallbackFits
  <2>3. \A c \in Cell : Added(cb, r.kept, c) = 0
    BY <1>1 DEF Added
  <2> QED
    BY <1>0, <1>1, <2>1, <2>2, <2>3 DEF InsertEffect
<1>2. CASE cb.insert \notin {"nop", "take"}
  <2>1. /\ cb.insert \in {"retain", "copy", "immutableCopy"}
        /\ o \in Cell /\ cells[o].rc > 0 /\ cells[o].kind = cb.kind
    BY <1>2 DEF CallbackFits
  <2>2. \A c \in Cell : Added(cb, r.kept, c) = IF c = r.kept THEN 1 ELSE 0
    BY <1>2 DEF Added
  <2>3. PICK isMutable \in BOOLEAN :
          /\ cb.kind = "cstring" => isMutable
          /\ \/ r = [cells |-> [cells EXCEPT ![o].rc = @ + 1], kept |-> o] /\ cb.kind # "cstring"
             \/ /\ cb.insert # "retain"
                /\ \E n \in Cell :
                     /\ cells[n] = Contents!Freed
                     /\ r = [cells |-> [cells EXCEPT ![n] = [cells[o] EXCEPT !.rc = 1, !.mutable = isMutable]],
                             kept |-> n]
    <3>0. cells[o].mutable \in BOOLEAN /\ (cb.kind = "cstring" => cells[o].mutable)
      BY <2>1 DEF CellsFit, CellState
    <3>1. CASE cb.insert = "retain"
      <4>1. r = [cells |-> [cells EXCEPT ![o].rc = @ + 1], kept |-> o]
        BY <3>1 DEF Contents!InsertCallback, Contents!mulle_container_callback_object_retain
      <4>2. cb.kind # "cstring"
        BY <3>1 DEF CallbackFits
      <4> QED
        BY <4>1, <4>2
    <3>2. CASE cb.insert = "copy"
      <4>1. r \in Contents!CopyOf(cells, o, cells[o].mutable)
        BY <3>2 DEF Contents!InsertCallback, Contents!mulle_container_callback_object_copy
      <4>2. CASE ~cells[o].mutable
        <5>1. r = [cells |-> [cells EXCEPT ![o].rc = @ + 1], kept |-> o]
          BY <4>1, <4>2 DEF Contents!CopyOf, Contents!mulle_container_callback_object_retain
        <5> QED
          BY <3>0, <4>2, <5>1
      <4>3. CASE cells[o].mutable
        <5>1. \E n \in Cell :
                /\ cells[n] = Contents!Freed
                /\ r = [cells |-> [cells EXCEPT ![n] = [cells[o] EXCEPT !.rc = 1, !.mutable = cells[o].mutable]],
                        kept |-> n]
          BY <4>1, <4>3 DEF Contents!CopyOf
        <5> QED
          BY <3>0, <3>2, <5>1
      <4> QED
        BY <4>2, <4>3
    <3>3. CASE cb.insert = "immutableCopy"
      <4>1. r \in Contents!CopyOf(cells, o, FALSE)
        BY <3>3 DEF Contents!InsertCallback, Contents!mulle_container_callback_object_immutable_copy
      <4>2. cb.kind # "cstring"
        BY <3>3 DEF CallbackFits
      <4>3. CASE ~cells[o].mutable
        <5>1. r = [cells |-> [cells EXCEPT ![o].rc = @ + 1], kept |-> o]
          BY <4>1, <4>3 DEF Contents!CopyOf, Contents!mulle_container_callback_object_retain
        <5> QED
          BY <4>2, <5>1
      <4>4. CASE cells[o].mutable
        <5>1. \E n \in Cell :
                /\ cells[n] = Contents!Freed
                /\ r = [cells |-> [cells EXCEPT ![n] = [cells[o] EXCEPT !.rc = 1, !.mutable = FALSE]],
                        kept |-> n]
          BY <4>1, <4>4 DEF Contents!CopyOf
        <5> QED
          BY <3>3, <4>2, <5>1
      <4> QED
        BY <4>3, <4>4
    <3> QED
      BY <2>1, <3>1, <3>2, <3>3
  <2>4. CASE r = [cells |-> [cells EXCEPT ![o].rc = @ + 1], kept |-> o] /\ cb.kind # "cstring"
    <3>0. PICK s : s = r.cells
      OBVIOUS
    <3>1. /\ CellsFit(s)
          /\ \A c \in Cell : /\ s[c].rc = cells[c].rc + (IF c = o THEN 1 ELSE 0)
                             /\ s[c].content = cells[c].content /\ s[c].kind = cells[c].kind
      <4>1. PICK k : k = [cells[o] EXCEPT !.rc = cells[o].rc + 1]
        OBVIOUS
      <4>2. cells \in [Cell -> CellState]
        BY DEF CellsFit
      <4>3. /\ k \in CellState /\ k.rc = cells[o].rc + 1 /\ k.mutable = cells[o].mutable
            /\ k.content = cells[o].content /\ k.kind = cells[o].kind
        BY <2>1, <4>1, <4>2 DEF CellState
      <4>4. s \in [Cell -> CellState] /\ \A c \in Cell : s[c] = IF c = o THEN k ELSE cells[c]
        BY <2>1, <2>4, <3>0, <4>1, <4>2, <4>3
      <4> QED
        BY <2>1, <4>3, <4>4, RetainEffect
    <3>2. r.kept = o /\ cb.kind # "cstring"
      BY <2>4
    <3>3. \A c \in Cell : s[c].rc = cells[c].rc + Added(cb, r.kept, c)
      BY <2>2, <3>1, <3>2
    <3> QED
      BY <2>1, <3>0, <3>1, <3>2, <3>3 DEF InsertEffect
  <2>5. ASSUME cb.insert # "retain", NEW n \in Cell, cells[n] = Contents!Freed,
               r = [cells |-> [cells EXCEPT ![n] = [cells[o] EXCEPT !.rc = 1, !.mutable = isMutable]],
                    kept |-> n]
        PROVE  InsertEffect(cb, cells, o, r)
    <3>0. PICK s : s = r.cells
      OBVIOUS
    <3>1. /\ CellsFit(s)
          /\ \A c \in Cell : /\ s[c].rc = cells[c].rc + (IF c = n THEN 1 ELSE 0)
                             /\ c # n => s[c] = cells[c]
          /\ cells[n].rc = 0 /\ s[n].content = cells[o].content
      <4>1. PICK k : k = [cells[o] EXCEPT !.rc = 1, !.mutable = isMutable]
        OBVIOUS
      <4>2. cells \in [Cell -> CellState]
        BY DEF CellsFit
      <4>3. /\ k \in CellState /\ k.rc = 1 /\ k.mutable = isMutable
            /\ k.content = cells[o].content /\ k.kind = cells[o].kind
        BY <2>1, <4>1, <4>2 DEF CellState
      <4>4. s \in [Cell -> CellState] /\ \A c \in Cell : s[c] = IF c = n THEN k ELSE cells[c]
        BY <2>5, <3>0, <4>1, <4>2, <4>3
      <4>5. cells[o].kind = "cstring" => isMutable
        BY <2>1, <2>3
      <4> QED
        BY <2>1, <2>5, <4>3, <4>4, <4>5, CopyEffect
    <3>2. r.kept = n /\ cb.insert \notin {"nop", "take", "retain"}
      BY <1>2, <2>5
    <3>3. \A c \in Cell : s[c].rc = cells[c].rc + Added(cb, r.kept, c)
      BY <2>2, <3>1, <3>2
    <3>4. \A c \in Cell : cells[c].rc > 0 => s[c] = cells[c]
      <4>1. ASSUME NEW c \in Cell, cells[c].rc > 0 PROVE c # n
        BY <3>1, <4>1
      <4> QED
        BY <3>1, <4>1
    <3> QED
      BY <3>0, <3>1, <3>2, <3>3, <3>4 DEF InsertEffect
  <2> QED
    BY <2>3, <2>4, <2>5
<1> QED
  BY <1>1, <1>2

RemoveEffect(cb, cells, pending, o, r) ==
  /\ CellsFit(r.cells) /\ r.pool \in [Cell -> Nat]
  /\ \A c \in Cell :
       /\ r.pool[c] = pending[c] + (IF cb.remove = "autorelease" /\ c = o THEN 1 ELSE 0)
       /\ r.cells[c] = IF cb.remove = "free" /\ c = o THEN Contents!Freed ELSE cells[c]

LEMMA RemovesAsExpected ==
  ASSUME NEW cb, CallbackFits(cb), NEW cells, CellsFit(cells), NEW pending \in [Cell -> Nat], NEW o,
         cb.kind # "plain" => o \in Cell,
         NEW r, r = Contents!RemoveCallback(cb, cells, pending, o)
  PROVE  RemoveEffect(cb, cells, pending, o, r)
<1>1. CASE cb.remove = "autorelease"
  <2>1. o \in Cell
    BY <1>1 DEF CallbackFits
  <2>2. r = [cells |-> cells, pool |-> [pending EXCEPT ![o] = @ + 1]]
    BY <1>1 DEF Contents!RemoveCallback, Contents!mulle_container_callback_object_autorelease
  <2> QED
    BY <1>1, <2>1, <2>2 DEF RemoveEffect
<1>2. CASE cb.remove = "free"
  <2>1. o \in Cell
    BY <1>2 DEF CallbackFits
  <2>2. r = [cells |-> [cells EXCEPT ![o] = Contents!Freed], pool |-> pending]
    BY <1>2 DEF Contents!RemoveCallback
  <2>3. PICK f : f = Contents!Freed
    OBVIOUS
  <2>4. f \in CellState /\ f.rc = 0 /\ f.kind # "cstring"
    BY <2>3 DEF CellState, Contents!Freed
  <2>5. CellsFit(r.cells) /\ \A c \in Cell : r.cells[c] = IF c = o THEN f ELSE cells[c]
    BY <2>1, <2>2, <2>3, <2>4 DEF CellsFit
  <2> QED
    BY <1>2, <2>2, <2>3, <2>5 DEF RemoveEffect
<1>3. CASE cb.remove = "nop"
  <2>1. r = [cells |-> cells, pool |-> pending]
    BY <1>3 DEF Contents!RemoveCallback
  <2> QED
    BY <1>3, <2>1 DEF RemoveEffect
<1> QED
  BY <1>1, <1>2, <1>3 DEF CallbackFits

-----------------------------------------------------------------------------
(* The invariant.                                                          *)

LEMMA ContentsFollow ==
  ASSUME ContentsInv, callbacks' = callbacks,
         ContentsFit(cell', cellOwned', cellPool', entries', cellBorrowed')
  PROVE  ContentsInv'
BY DEF ContentsInv, ContentsFit, CellsBalance, KeyKept, ValueKept, KeyUses, ValueUses, OwnedOnce,
       EntriesFit, EntryFits, PartFits, HashIn, BorrowedFit, KeyCB, ValueCB, CellsFit

LEMMA ContentsFacts ==
  ASSUME ContentsInv
  PROVE  /\ CallbacksFit /\ CellsFit(cell) /\ cellOwned \subseteq Cell /\ cellPool \in [Cell -> Nat]
         /\ \A o \in Cell : /\ cell[o].rc \in Nat /\ cellPool[o] \in Nat /\ OwnedOnce(cellOwned, o) \in Nat
                            /\ KeyKept(entries, o) \in Nat /\ ValueKept(entries, o) \in Nat
                            /\ cell[o].rc = OwnedOnce(cellOwned, o) + cellPool[o]
                                            + KeyKept(entries, o) + ValueKept(entries, o)
         /\ IsFiniteSet(entries) /\ \A e \in entries : EntryFits(cell, cellOwned, e)
         /\ \A e, f \in entries : e.hash = f.hash => e = f
         /\ BorrowedFit(cellOwned, cellPool, entries, cellBorrowed)
<1>1. /\ CallbacksFit /\ CellsFit(cell) /\ cellOwned \subseteq Cell /\ cellPool \in [Cell -> Nat]
      /\ CellsBalance(cell, cellOwned, cellPool, entries)
      /\ IsFiniteSet(entries) /\ \A e \in entries : EntryFits(cell, cellOwned, e)
      /\ \A e, f \in entries : e.hash = f.hash => e = f
      /\ BorrowedFit(cellOwned, cellPool, entries, cellBorrowed)
  BY CallbacksHaveFit DEF ContentsInv, ContentsFit, EntriesFit
<1>2. \A o \in Cell : /\ cell[o].rc \in Nat /\ cellPool[o] \in Nat /\ OwnedOnce(cellOwned, o) \in Nat
                      /\ KeyKept(entries, o) \in Nat /\ ValueKept(entries, o) \in Nat
  BY <1>1, UsesAreCounted DEF CellsFit, CellState, OwnedOnce, KeyKept, ValueKept
<1> QED
  BY <1>1, <1>2 DEF CellsBalance

(* What an entry keeps is counted.                                         *)
LEMMA KeptCounts ==
  ASSUME NEW S, IsFiniteSet(S), NEW e \in S
  PROVE  /\ KeyCB.insert # "nop" => KeyKept(S, e.key) > 0
         /\ ValueCB.insert # "nop" => ValueKept(S, e.value) > 0
<1>1. /\ KeyCB.insert # "nop" => KeyKept(S, e.key) = KeyKept(S \ {e}, e.key) + 1
      /\ ValueCB.insert # "nop" => ValueKept(S, e.value) = ValueKept(S \ {e}, e.value) + 1
  BY KeptWithout DEF Kept1
<1>2. KeyKept(S \ {e}, e.key) \in Nat /\ ValueKept(S \ {e}, e.value) \in Nat
  BY KeptWithout
<1> QED
  BY <1>1, <1>2

LEMMA OwnedIsAlive ==
  ASSUME ContentsInv, NEW o \in cellOwned
  PROVE  o \in Cell /\ cell[o].rc > 0 /\ OwnedOnce(cellOwned, o) = 1
<1>1. OwnedOnce(cellOwned, o) = 1 /\ o \in Cell
  BY ContentsFacts DEF OwnedOnce
<1> QED
  BY <1>1, ContentsFacts

LEMMA KeptIsAlive ==
  ASSUME ContentsInv, NEW e \in entries
  PROVE  /\ KeyCB.kind # "plain" => e.key \in Cell /\ cell[e.key].rc > 0
         /\ ValueCB.kind # "plain" => e.value \in Cell /\ cell[e.value].rc > 0
         /\ KeyCB.kind = "plain" => e.key \notin Cell
         /\ ValueCB.kind = "plain" => e.value \notin Cell
<1>1. /\ PartFits(KeyCB, cell, cellOwned, e.key) /\ PartFits(ValueCB, cell, cellOwned, e.value)
      /\ IsFiniteSet(entries)
  BY ContentsFacts DEF EntryFits
<1>2. ASSUME KeyCB.kind # "plain" PROVE e.key \in Cell /\ cell[e.key].rc > 0
  <2>1. e.key \in Cell
    BY <1>1, <1>2 DEF PartFits
  <2>2. CASE KeyCB.insert = "nop"
    BY <1>1, <1>2, <2>2, OwnedIsAlive DEF PartFits
  <2>3. CASE KeyCB.insert # "nop"
    <3>1. KeyKept(entries, e.key) > 0
      BY <1>1, <2>3, KeptCounts
    <3> QED
      BY <2>1, <3>1, ContentsFacts
  <2> QED
    BY <2>1, <2>2, <2>3
<1>3. ASSUME ValueCB.kind # "plain" PROVE e.value \in Cell /\ cell[e.value].rc > 0
  <2>1. e.value \in Cell
    BY <1>1, <1>3 DEF PartFits
  <2>2. CASE ValueCB.insert = "nop"
    BY <1>1, <1>3, <2>2, OwnedIsAlive DEF PartFits
  <2>3. CASE ValueCB.insert # "nop"
    <3>1. ValueKept(entries, e.value) > 0
      BY <1>1, <2>3, KeptCounts
    <3> QED
      BY <2>1, <3>1, ContentsFacts
  <2> QED
    BY <2>1, <2>2, <2>3
<1>4. /\ KeyCB.kind = "plain" => e.key \notin Cell
      /\ ValueCB.kind = "plain" => e.value \notin Cell
  BY <1>1, ValuesAssumption DEF PartFits
<1> QED
  BY <1>2, <1>3, <1>4

(* Strings that the container copied are its own.                          *)
LEMMA KeyIsSole ==
  ASSUME ContentsInv, NEW e \in entries, KeyCB.remove = "free"
  PROVE  /\ e.key \in Cell /\ cell[e.key].rc = 1 /\ e.key \notin cellOwned /\ cellPool[e.key] = 0
         /\ ValueKept(entries, e.key) = 0
         /\ \A f \in entries : f # e => f.key # e.key
<1>1. KeyCB.kind = "cstring" /\ KeyCB.insert # "nop"
  BY ContentsFacts DEF CallbacksFit, CallbackFits
<1>2. e.key \in Cell /\ cell[e.key].rc = 1
  BY <1>1, ContentsFacts DEF EntryFits, PartFits
<1>3. /\ KeyKept(entries, e.key) = KeyKept(entries \ {e}, e.key) + 1
      /\ KeyKept(entries \ {e}, e.key) \in Nat /\ IsFiniteSet(entries \ {e})
  BY <1>1, ContentsFacts, KeptWithout DEF Kept1
<1>4. PICK a \in Nat, b \in Nat, c \in Nat, d \in Nat :
        /\ a = OwnedOnce(cellOwned, e.key) /\ b = cellPool[e.key] /\ d = ValueKept(entries, e.key)
        /\ c = KeyKept(entries \ {e}, e.key) /\ 1 = a + b + (c + 1) + d
  <2>1. /\ OwnedOnce(cellOwned, e.key) \in Nat /\ cellPool[e.key] \in Nat /\ ValueKept(entries, e.key) \in Nat
        /\ cell[e.key].rc = OwnedOnce(cellOwned, e.key) + cellPool[e.key]
                            + KeyKept(entries, e.key) + ValueKept(entries, e.key)
    BY <1>2, ContentsFacts
  <2> QED
    BY <1>2, <1>3, <2>1
<1>5. a = 0 /\ b = 0 /\ c = 0 /\ d = 0
  BY <1>4
<1>6. e.key \notin cellOwned
  BY <1>4, <1>5 DEF OwnedOnce
<1>7. ASSUME NEW f \in entries, f # e PROVE f.key # e.key
  <2>1. f \in entries \ {e}
    BY <1>7
  <2>2. KeyKept(entries \ {e}, f.key) > 0
    BY <1>1, <1>3, <2>1, KeptCounts
  <2> QED
    BY <1>4, <1>5, <2>2
<1> QED
  BY <1>2, <1>4, <1>5, <1>6, <1>7

LEMMA ValueIsSole ==
  ASSUME ContentsInv, NEW e \in entries, ValueCB.remove = "free"
  PROVE  /\ e.value \in Cell /\ cell[e.value].rc = 1 /\ e.value \notin cellOwned /\ cellPool[e.value] = 0
         /\ KeyKept(entries, e.value) = 0
         /\ \A f \in entries : f # e => f.value # e.value
<1>1. ValueCB.kind = "cstring" /\ ValueCB.insert # "nop"
  BY ContentsFacts DEF CallbacksFit, CallbackFits
<1>2. e.value \in Cell /\ cell[e.value].rc = 1
  BY <1>1, ContentsFacts DEF EntryFits, PartFits
<1>3. /\ ValueKept(entries, e.value) = ValueKept(entries \ {e}, e.value) + 1
      /\ ValueKept(entries \ {e}, e.value) \in Nat /\ IsFiniteSet(entries \ {e})
  BY <1>1, ContentsFacts, KeptWithout DEF Kept1
<1>4. PICK a \in Nat, b \in Nat, c \in Nat, d \in Nat :
        /\ a = OwnedOnce(cellOwned, e.value) /\ b = cellPool[e.value] /\ d = KeyKept(entries, e.value)
        /\ c = ValueKept(entries \ {e}, e.value) /\ 1 = a + b + d + (c + 1)
  <2>1. /\ OwnedOnce(cellOwned, e.value) \in Nat /\ cellPool[e.value] \in Nat /\ KeyKept(entries, e.value) \in Nat
        /\ cell[e.value].rc = OwnedOnce(cellOwned, e.value) + cellPool[e.value]
                              + KeyKept(entries, e.value) + ValueKept(entries, e.value)
    BY <1>2, ContentsFacts
  <2> QED
    BY <1>2, <1>3, <2>1
<1>5. a = 0 /\ b = 0 /\ c = 0 /\ d = 0
  BY <1>4
<1>6. e.value \notin cellOwned
  BY <1>4, <1>5 DEF OwnedOnce
<1>7. ASSUME NEW f \in entries, f # e PROVE f.value # e.value
  <2>1. f \in entries \ {e}
    BY <1>7
  <2>2. ValueKept(entries \ {e}, f.value) > 0
    BY <1>1, <1>3, <2>1, KeptCounts
  <2> QED
    BY <1>4, <1>5, <2>2
<1> QED
  BY <1>2, <1>4, <1>5, <1>6, <1>7

(* A string that is kept is not that of another entry's other part.        *)
LEMMA PartsAreApart ==
  ASSUME ContentsInv, NEW e \in entries, NEW f \in entries
  PROVE  /\ KeyCB.remove = "free" /\ ValueCB.insert # "nop" => f.value # e.key
         /\ ValueCB.remove = "free" /\ KeyCB.insert # "nop" => f.key # e.value
<1>1. IsFiniteSet(entries)
  BY ContentsFacts
<1>2. /\ KeyCB.remove = "free" => ValueKept(entries, e.key) = 0
      /\ ValueCB.remove = "free" => KeyKept(entries, e.value) = 0
  BY KeyIsSole, ValueIsSole
<1>3. /\ KeyCB.insert # "nop" => KeyKept(entries, f.key) > 0
      /\ ValueCB.insert # "nop" => ValueKept(entries, f.value) > 0
  BY <1>1, KeptCounts
<1> QED
  BY <1>2, <1>3

LEMMA ContentsInit == Contents!Init => ContentsInv
<1> SUFFICES ASSUME Contents!Init PROVE ContentsInv
  OBVIOUS
<1>1. PICK z : z = Contents!Freed
  OBVIOUS
<1>2. z \in CellState /\ z.rc = 0 /\ z.kind # "cstring"
  BY <1>1 DEF CellState, Contents!Freed
<1>3. /\ callbacks \in Contents!Callbacks \cup Contents!PointerAndStringCallbacks
      /\ cell = [o \in Cell |-> z] /\ cellOwned = {} /\ cellPool = [o \in Cell |-> 0]
      /\ entries = {} /\ cellBorrowed = {}
  BY <1>1 DEF Contents!Init, Contents!Nothing
<1>4. CellsFit(cell)
  BY <1>1, <1>2, <1>3 DEF CellsFit
<1>5. \A o : KeyKept(entries, o) = 0 /\ ValueKept(entries, o) = 0
  <2>1. \A o : {e \in entries : e.key = o} = {} /\ {e \in entries : e.value = o} = {}
    BY <1>3
  <2>2. Cardinality({}) = 0
    BY FS_EmptySet
  <2> QED
    BY <2>1, <2>2 DEF KeyKept, ValueKept, KeyUses, ValueUses
<1>6. CellsBalance(cell, cellOwned, cellPool, entries)
  BY <1>2, <1>3, <1>5 DEF CellsBalance, OwnedOnce
<1>7. EntriesFit(cell, cellOwned, entries)
  BY <1>3, FS_EmptySet DEF EntriesFit
<1>8. BorrowedFit(cellOwned, cellPool, entries, cellBorrowed)
  BY <1>3 DEF BorrowedFit
<1> QED
  BY <1>3, <1>4, <1>6, <1>7, <1>8 DEF ContentsInv, ContentsFit

-----------------------------------------------------------------------------
(* The steps of the container.                                             *)

Taken(cb, o, c) == IF cb.insert = "take" /\ c = o THEN 1 ELSE 0

(* What the client gives, the container keeps; else it has a reference.    *)
LEMMA KeptIsAddedOrTaken ==
  ASSUME NEW cb, NEW cells, NEW o, NEW r, InsertEffect(cb, cells, o, r), NEW c
  PROVE  /\ Added(cb, r.kept, c) \in Nat /\ Taken(cb, o, c) \in Nat
         /\ Kept1(cb, r.kept, c) = Added(cb, r.kept, c) + Taken(cb, o, c)
<1>1. cb.insert = "take" => r.kept = o
  BY DEF InsertEffect
<1> QED
  BY <1>1 DEF Added, Taken, Kept1

LEMMA InsertStep ==
  ASSUME ContentsInv, NEW k, NEW v, Contents!Insert(k, v)
  PROVE  ContentsInv'
<1>1. /\ Contents!Passable(KeyCB, k) /\ Contents!Passable(ValueCB, v)
      /\ k = v => ~(KeyCB.insert = "take" /\ ValueCB.insert = "take")
      /\ Contents!Found(k) = {}
      /\ cellOwned' = cellOwned \ Contents!GivenAway(k, v)
      /\ UNCHANGED <<callbacks, cellPool, cellBorrowed>>
  BY DEF Contents!Insert, Contents!TakesBoth, KeyCB, ValueCB, Contents!KeyCallback, Contents!ValueCallback
<1>2. PICK key \in Contents!InsertCallback(KeyCB, cell, k) :
      \E value \in Contents!InsertCallback(ValueCB, key.cells, v) :
        /\ cell' = value.cells
        /\ entries' = entries \cup {[key |-> key.kept, value |-> value.kept,
                                     hash |-> Contents!mulle_container_keycallback_object_hash(k)]}
  BY DEF Contents!Insert, KeyCB, ValueCB, Contents!KeyCallback, Contents!ValueCallback
<1>3. PICK value \in Contents!InsertCallback(ValueCB, key.cells, v) :
        /\ cell' = value.cells
        /\ entries' = entries \cup {[key |-> key.kept, value |-> value.kept,
                                     hash |-> Contents!mulle_container_keycallback_object_hash(k)]}
  BY <1>2
<1>4. /\ CallbacksFit /\ CallbackFits(KeyCB) /\ CallbackFits(ValueCB) /\ CellsFit(cell)
      /\ KeyCB.insert = "take" => ValueCB.insert \in {"take", "retain"}
      /\ ValueCB.insert = "take" => KeyCB.insert = "take"
  BY ContentsFacts DEF CallbacksFit
<1>5. /\ KeyCB.kind # "plain" => k \in cellOwned /\ k \in Cell /\ cell[k].rc > 0 /\ cell[k].kind = KeyCB.kind
      /\ ValueCB.kind # "plain" => v \in cellOwned /\ v \in Cell /\ cell[v].rc > 0 /\ cell[v].kind = ValueCB.kind
      /\ KeyCB.kind = "plain" => k \in Content /\ k \notin Cell
      /\ ValueCB.kind = "plain" => v \in Content
  BY <1>1, OwnedIsAlive, ValuesAssumption DEF Contents!Passable
<1>6. InsertEffect(KeyCB, cell, k, key)
  BY <1>4, <1>5, InsertsAsExpected
<1>7. InsertEffect(ValueCB, key.cells, v, value)
  <2>1. CellsFit(key.cells)
    BY <1>6 DEF InsertEffect
  <2>2. ValueCB.kind # "plain" => v \in Cell /\ key.cells[v].rc > 0 /\ key.cells[v].kind = ValueCB.kind
    <3>1. ASSUME ValueCB.kind # "plain" PROVE key.cells[v].rc > 0 /\ key.cells[v].kind = ValueCB.kind
      <4>1. /\ key.cells[v].rc = cell[v].rc + Added(KeyCB, key.kept, v)
            /\ key.cells[v].kind = ValueCB.kind
        BY <1>5, <1>6, <3>1 DEF InsertEffect
      <4>2. Added(KeyCB, key.kept, v) \in Nat /\ cell[v].rc \in Nat
        BY <1>5, <3>1, ContentsFacts DEF Added
      <4> QED
        BY <1>5, <3>1, <4>1, <4>2
    <3> QED
      BY <1>5, <3>1
  <2> QED
    BY <1>4, <2>1, <2>2, InsertsAsExpected
<1>8. PICK h : h = HashIn(cell, k)
  OBVIOUS
<1>9. /\ Contents!mulle_container_keycallback_object_hash(k) = h
      /\ \A e \in entries : e.hash # h
  <2>1. \A j : Contents!mulle_container_keycallback_object_hash(j) = HashIn(cell, j)
    BY DEF Contents!mulle_container_keycallback_object_hash, HashIn, KeyCB, Contents!KeyCallback
  <2>2. ASSUME NEW e \in entries, e.hash = h PROVE FALSE
    <3>1. HashIn(cell, e.key) = h
      BY <2>2, ContentsFacts DEF EntryFits
    <3>2. e \in Contents!Found(k)
      BY <1>8, <2>1, <2>2, <3>1 DEF Contents!Found, Contents!mulle_container_keycallback_object_is_equal
    <3> QED
      BY <1>1, <3>2
  <2> QED
    BY <1>8, <2>1, <2>2
<1>10. PICK f : f = [key |-> key.kept, value |-> value.kept, hash |-> h]
  OBVIOUS
<1>11. /\ f.key = key.kept /\ f.value = value.kept /\ f.hash = h /\ f \notin entries
       /\ entries' = entries \cup {f} /\ IsFiniteSet(entries)
  BY <1>3, <1>9, <1>10, ContentsFacts
<1>12. \A c \in Cell : cell'[c].rc = cell[c].rc + Added(KeyCB, key.kept, c) + Added(ValueCB, value.kept, c)
  BY <1>3, <1>6, <1>7 DEF InsertEffect
<1>13. \A c \in Cell : OwnedOnce(cellOwned, c)
                       = OwnedOnce(cellOwned', c) + Taken(KeyCB, k, c) + Taken(ValueCB, v, c)
  <2> TAKE c \in Cell
  <2>1. CASE ValueCB.insert = "take"
    <3>1. /\ KeyCB.insert = "take" /\ cellOwned' = cellOwned \ {k, v} /\ k # v
      BY <1>1, <1>4, <2>1 DEF Contents!GivenAway, KeyCB, ValueCB, Contents!KeyCallback, Contents!ValueCallback
    <3>2. k \in cellOwned /\ v \in cellOwned
      BY <1>4, <1>5, <2>1, <3>1 DEF CallbackFits
    <3> QED
      BY <2>1, <3>1, <3>2 DEF Taken, OwnedOnce
  <2>2. CASE KeyCB.insert = "take" /\ ValueCB.insert # "take"
    <3>1. cellOwned' = cellOwned \ {k}
      BY <1>1, <2>2 DEF Contents!GivenAway, KeyCB, ValueCB, Contents!KeyCallback, Contents!ValueCallback
    <3>2. k \in cellOwned
      BY <1>4, <1>5, <2>2 DEF CallbackFits
    <3> QED
      BY <2>2, <3>1, <3>2 DEF Taken, OwnedOnce
  <2>3. CASE KeyCB.insert # "take"
    <3>1. ValueCB.insert # "take" /\ cellOwned' = cellOwned
      BY <1>1, <1>4, <2>3 DEF Contents!GivenAway, KeyCB, ValueCB, Contents!KeyCallback, Contents!ValueCallback
    <3> QED
      BY <2>3, <3>1 DEF Taken, OwnedOnce
  <2> QED
    BY <2>1, <2>2, <2>3
<1>14. CellsBalance(cell', cellOwned', cellPool', entries')
  <2>1. ASSUME NEW c \in Cell
        PROVE  cell'[c].rc = OwnedOnce(cellOwned', c) + cellPool'[c] + KeyKept(entries', c) + ValueKept(entries', c)
    <3>1. /\ KeyKept(entries', c) = KeyKept(entries, c) + Kept1(KeyCB, key.kept, c)
          /\ ValueKept(entries', c) = ValueKept(entries, c) + Kept1(ValueCB, value.kept, c)
      BY <1>11, KeptWith
    <3>2. /\ Added(KeyCB, key.kept, c) \in Nat /\ Taken(KeyCB, k, c) \in Nat
          /\ Kept1(KeyCB, key.kept, c) = Added(KeyCB, key.kept, c) + Taken(KeyCB, k, c)
          /\ Added(ValueCB, value.kept, c) \in Nat /\ Taken(ValueCB, v, c) \in Nat
          /\ Kept1(ValueCB, value.kept, c) = Added(ValueCB, value.kept, c) + Taken(ValueCB, v, c)
      BY <1>6, <1>7, KeptIsAddedOrTaken
    <3>3. /\ cell[c].rc \in Nat /\ cellPool[c] \in Nat /\ OwnedOnce(cellOwned, c) \in Nat
          /\ KeyKept(entries, c) \in Nat /\ ValueKept(entries, c) \in Nat
          /\ cell[c].rc = OwnedOnce(cellOwned, c) + cellPool[c] + KeyKept(entries, c) + ValueKept(entries, c)
      BY ContentsFacts
    <3>4. OwnedOnce(cellOwned', c) \in Nat
      BY DEF OwnedOnce
    <3>5. cellPool'[c] = cellPool[c]
      BY <1>1
    <3> QED
      BY <1>12, <1>13, <3>1, <3>2, <3>3, <3>4, <3>5
  <2> QED
    BY <2>1 DEF CellsBalance
<1>15. KeyCB.insert = "nop" \/ ValueCB.insert = "nop" => cellOwned' = cellOwned
  <2>1. ASSUME KeyCB.insert = "nop" \/ ValueCB.insert = "nop" PROVE Contents!GivenAway(k, v) = {}
    BY <1>4, <2>1 DEF Contents!GivenAway, KeyCB, ValueCB, Contents!KeyCallback, Contents!ValueCallback
  <2> QED
    BY <1>1, <2>1
<1>16. \A c \in Cell : cell[c].rc \in Nat /\ key.cells[c].rc \in Nat /\ cell'[c].rc \in Nat
  BY <1>3, <1>4, <1>6, <1>7 DEF InsertEffect, CellsFit, CellState
<1>17. \A c \in Cell : cell[c].rc > 0 => cell'[c].content = cell[c].content
  <2> SUFFICES ASSUME NEW c \in Cell, cell[c].rc > 0 PROVE cell'[c].content = cell[c].content
    OBVIOUS
  <2>1. key.cells[c].content = cell[c].content /\ key.cells[c].rc = cell[c].rc + Added(KeyCB, key.kept, c)
    BY <1>6 DEF InsertEffect
  <2>2. key.cells[c].rc > 0
    BY <1>16, <2>1 DEF Added
  <2> QED
    BY <1>3, <1>7, <2>1, <2>2 DEF InsertEffect
\* What the client does not own is neither retained nor made.
<1>18. ASSUME NEW c \in Cell, cell[c].rc > 0, c \notin cellOwned PROVE cell'[c].rc = cell[c].rc
  <2>1. Added(KeyCB, key.kept, c) = 0
    <3>1. CASE KeyCB.insert \in {"nop", "take"}
      BY <3>1 DEF Added
    <3>2. CASE KeyCB.insert \notin {"nop", "take"}
      <4>1. k \in cellOwned
        BY <1>4, <1>5, <3>2 DEF CallbackFits
      <4>2. key.kept # c
        BY <1>6, <1>18, <4>1 DEF InsertEffect
      <4> QED
        BY <4>2 DEF Added
    <3> QED
      BY <3>1, <3>2
  <2>2. key.cells[c].rc = cell[c].rc
    BY <1>6, <1>16, <2>1 DEF InsertEffect
  <2>3. Added(ValueCB, value.kept, c) = 0
    <3>1. CASE ValueCB.insert \in {"nop", "take"}
      BY <3>1 DEF Added
    <3>2. CASE ValueCB.insert \notin {"nop", "take"}
      <4>1. v \in cellOwned
        BY <1>4, <1>5, <3>2 DEF CallbackFits
      <4>2. value.kept # c
        BY <1>7, <1>18, <2>2, <4>1 DEF InsertEffect
      <4> QED
        BY <4>2 DEF Added
    <3> QED
      BY <3>1, <3>2
  <2> QED
    BY <1>12, <1>16, <2>1, <2>3
<1>19. ASSUME NEW e \in entries PROVE EntryFits(cell', cellOwned', e)
  <2>1. EntryFits(cell, cellOwned, e)
    BY ContentsFacts
  <2>2. PartFits(KeyCB, cell', cellOwned', e.key)
    BY <1>15, <1>18, <2>1, KeyIsSole DEF EntryFits, PartFits
  <2>3. PartFits(ValueCB, cell', cellOwned', e.value)
    BY <1>15, <1>18, <2>1, ValueIsSole DEF EntryFits, PartFits
  <2>4. HashIn(cell', e.key) = HashIn(cell, e.key)
    BY <1>17, KeptIsAlive DEF HashIn
  <2> QED
    BY <2>1, <2>2, <2>3, <2>4 DEF EntryFits
<1>20. EntryFits(cell', cellOwned', f)
  <2>1. PartFits(KeyCB, cell', cellOwned', key.kept)
    <3>1. CASE KeyCB.kind = "plain"
      BY <1>4, <1>5, <1>6, <3>1 DEF PartFits, InsertEffect, CallbackFits
    <3>2. CASE KeyCB.kind # "plain"
      <4>1. key.kept \in Cell
        BY <1>6, <3>2 DEF InsertEffect
      <4>2. KeyCB.insert = "nop" => key.kept \in cellOwned'
        BY <1>5, <1>6, <1>15, <3>2 DEF InsertEffect
      <4>3. ASSUME KeyCB.remove = "free" PROVE cell'[key.kept].rc = 1
        <5>1. KeyCB.kind = "cstring" /\ KeyCB.insert = "copy"
          BY <1>4, <4>3 DEF CallbackFits
        <5>2. cell[key.kept].rc = 0 /\ Added(KeyCB, key.kept, key.kept) = 1
          BY <1>6, <5>1 DEF InsertEffect, Added
        <5>3. key.cells[key.kept].rc = 1
          BY <1>6, <4>1, <5>2 DEF InsertEffect
        <5>4. Added(ValueCB, value.kept, key.kept) = 0
          <6>1. CASE ValueCB.insert \in {"nop", "take"}
            BY <6>1 DEF Added
          <6>2. CASE ValueCB.insert \notin {"nop", "take"}
            <7>1. cell[v].rc > 0
              BY <1>4, <1>5, <6>2 DEF CallbackFits
            <7>2. value.kept # key.kept
              BY <1>7, <5>2, <5>3, <7>1 DEF InsertEffect
            <7> QED
              BY <7>2 DEF Added
          <6> QED
            BY <6>1, <6>2
        <5> QED
          BY <1>12, <4>1, <5>2, <5>4
      <4> QED
        BY <3>2, <4>1, <4>2, <4>3 DEF PartFits
    <3> QED
      BY <3>1, <3>2
  <2>2. PartFits(ValueCB, cell', cellOwned', value.kept)
    <3>1. CASE ValueCB.kind = "plain"
      BY <1>4, <1>5, <1>7, <3>1 DEF PartFits, InsertEffect, CallbackFits
    <3>2. CASE ValueCB.kind # "plain"
      <4>1. value.kept \in Cell
        BY <1>7, <3>2 DEF InsertEffect
      <4>2. ValueCB.insert = "nop" => value.kept \in cellOwned'
        BY <1>5, <1>7, <1>15, <3>2 DEF InsertEffect
      <4>3. ASSUME ValueCB.remove = "free" PROVE cell'[value.kept].rc = 1
        <5>1. ValueCB.kind = "cstring" /\ ValueCB.insert = "copy"
          BY <1>4, <4>3 DEF CallbackFits
        <5>2. key.cells[value.kept].rc = 0 /\ Added(ValueCB, value.kept, value.kept) = 1
          BY <1>7, <5>1 DEF InsertEffect, Added
        <5> QED
          BY <1>3, <1>7, <4>1, <5>2 DEF InsertEffect
      <4> QED
        BY <3>2, <4>1, <4>2, <4>3 DEF PartFits
    <3> QED
      BY <3>1, <3>2
  <2>3. h = HashIn(cell', key.kept)
    <3>1. CASE KeyCB.compare # "equal"
      <4>1. key.kept = k
        BY <1>4, <1>6, <3>1 DEF CallbacksFit, InsertEffect
      <4> QED
        BY <1>8, <3>1, <4>1 DEF HashIn
    <3>2. CASE KeyCB.kind = "plain"
      <4>1. key.kept = k /\ k \notin Cell
        BY <1>4, <1>5, <1>6, <3>2 DEF CallbackFits, InsertEffect
      <4> QED
        BY <1>8, <4>1 DEF HashIn
    <3>3. CASE KeyCB.compare = "equal" /\ KeyCB.kind # "plain"
      <4>1. /\ k \in Cell /\ cell[k].rc > 0 /\ key.kept \in Cell
            /\ key.cells[key.kept].content = cell[k].content
            /\ key.cells[key.kept].rc = cell[key.kept].rc + Added(KeyCB, key.kept, key.kept)
            /\ key.kept = k \/ KeyCB.insert \notin {"nop", "take", "retain"}
        BY <1>5, <1>6, <3>3 DEF InsertEffect
      <4>2. key.cells[key.kept].rc > 0
        <5>1. CASE key.kept = k
          BY <1>16, <4>1, <5>1 DEF Added
        <5>2. CASE KeyCB.insert \notin {"nop", "take", "retain"}
          <6>1. Added(KeyCB, key.kept, key.kept) = 1
            BY <5>2 DEF Added
          <6> QED
            BY <1>16, <4>1, <6>1
        <5> QED
          BY <4>1, <5>1, <5>2
      <4>3. cell'[key.kept].content = cell[k].content
        BY <1>3, <1>7, <4>1, <4>2 DEF InsertEffect
      <4> QED
        BY <1>8, <3>3, <4>1, <4>3 DEF HashIn
    <3> QED
      BY <3>1, <3>2, <3>3
  <2> QED
    BY <1>10, <1>11, <2>1, <2>2, <2>3 DEF EntryFits
<1>21. EntriesFit(cell', cellOwned', entries')
  <2>1. IsFiniteSet(entries')
    BY <1>11, FS_AddElement
  <2>2. \A e, g \in entries' : e.hash = g.hash => e = g
    BY <1>9, <1>11, ContentsFacts
  <2> QED
    BY <1>11, <1>19, <1>20, <2>1, <2>2 DEF EntriesFit
<1>22. BorrowedFit(cellOwned', cellPool', entries', cellBorrowed')
  BY <1>1, <1>11, <1>15, ContentsFacts DEF BorrowedFit
<1>23. /\ CellsFit(cell') /\ cellOwned' \subseteq Cell /\ cellPool' \in [Cell -> Nat]
  BY <1>1, <1>3, <1>7, ContentsFacts DEF InsertEffect
<1> QED
  BY <1>1, <1>14, <1>21, <1>22, <1>23, ContentsFollow DEF ContentsFit

LEMMA ReplaceStep ==
  ASSUME ContentsInv, NEW e \in entries, NEW v, Contents!Replace(e, v)
  PROVE  ContentsInv'
<1>1. /\ Contents!Passable(ValueCB, v)
      /\ cellOwned' = IF ValueCB.insert = "take" THEN cellOwned \ {v} ELSE cellOwned
      /\ UNCHANGED <<callbacks, cellBorrowed>>
  BY DEF Contents!Replace, ValueCB, Contents!ValueCallback
<1>2. PICK value \in Contents!InsertCallback(ValueCB, cell, v) :
        /\ cell' = Contents!RemoveCallback(ValueCB, value.cells, cellPool, e.value).cells
        /\ cellPool' = Contents!RemoveCallback(ValueCB, value.cells, cellPool, e.value).pool
        /\ entries' = (entries \ {e}) \cup {[e EXCEPT !.value = value.kept]}
  BY DEF Contents!Replace, ValueCB, Contents!ValueCallback
<1>3. PICK r : r = Contents!RemoveCallback(ValueCB, value.cells, cellPool, e.value)
  OBVIOUS
<1>4. /\ CallbacksFit /\ CallbackFits(KeyCB) /\ CallbackFits(ValueCB) /\ CellsFit(cell)
      /\ ValueCB.insert = "take" => KeyCB.insert = "take"
      /\ cellPool \in [Cell -> Nat]
  BY ContentsFacts DEF CallbacksFit
<1>5. /\ ValueCB.kind # "plain" => v \in cellOwned /\ v \in Cell /\ cell[v].rc > 0 /\ cell[v].kind = ValueCB.kind
      /\ ValueCB.kind = "plain" => v \in Content
  BY <1>1, OwnedIsAlive DEF Contents!Passable
<1>6. InsertEffect(ValueCB, cell, v, value)
  BY <1>4, <1>5, InsertsAsExpected
<1>7. RemoveEffect(ValueCB, value.cells, cellPool, e.value, r)
  <2>1. CellsFit(value.cells)
    BY <1>6 DEF InsertEffect
  <2> QED
    BY <1>3, <1>4, <2>1, KeptIsAlive, RemovesAsExpected
<1>8. cell' = r.cells /\ cellPool' = r.pool
  BY <1>2, <1>3
<1>9. PICK f : f = [e EXCEPT !.value = value.kept]
  OBVIOUS
<1>10. /\ f = [key |-> e.key, value |-> value.kept, hash |-> e.hash]
       /\ f.key = e.key /\ f.value = value.kept /\ f.hash = e.hash
       /\ entries' = (entries \ {e}) \cup {f} /\ f \notin entries \ {e}
       /\ IsFiniteSet(entries) /\ IsFiniteSet(entries \ {e})
  <2>1. e = [key |-> e.key, value |-> e.value, hash |-> e.hash]
    BY ContentsFacts DEF EntryFits
  <2>2. f = [key |-> e.key, value |-> value.kept, hash |-> e.hash]
    BY <1>9, <2>1
  <2>3. f.hash = e.hash
    BY <2>2
  <2>4. f \notin entries \ {e}
    BY <2>3, ContentsFacts
  <2>5. IsFiniteSet(entries) /\ IsFiniteSet(entries \ {e})
    BY ContentsFacts, FS_Subset
  <2> QED
    BY <1>2, <1>9, <2>2, <2>4, <2>5
<1>11. /\ \A c \in Cell : ValueCB.remove = "free" /\ c = e.value => cell'[c].rc = 0
       /\ \A c \in Cell : ~(ValueCB.remove = "free" /\ c = e.value) =>
            /\ cell'[c] = value.cells[c]
            /\ cell'[c].rc = cell[c].rc + Added(ValueCB, value.kept, c)
       /\ \A c \in Cell : cellPool'[c] = cellPool[c] + (IF ValueCB.remove = "autorelease" /\ c = e.value THEN 1 ELSE 0)
  BY <1>6, <1>7, <1>8 DEF InsertEffect, RemoveEffect, Contents!Freed
<1>12. \A c \in Cell : OwnedOnce(cellOwned, c) = OwnedOnce(cellOwned', c) + Taken(ValueCB, v, c)
  <2> TAKE c \in Cell
  <2>1. ValueCB.insert = "take" => v \in cellOwned
    BY <1>4, <1>5 DEF CallbackFits
  <2> QED
    BY <1>1, <2>1 DEF Taken, OwnedOnce
<1>13. CellsBalance(cell', cellOwned', cellPool', entries')
  <2>1. ASSUME NEW c \in Cell
        PROVE  cell'[c].rc = OwnedOnce(cellOwned', c) + cellPool'[c] + KeyKept(entries', c) + ValueKept(entries', c)
    <3>1. /\ KeyKept(entries', c) = KeyKept(entries, c)
          /\ KeyKept(entries, c) \in Nat /\ ValueKept(entries \ {e}, c) \in Nat
          /\ ValueKept(entries', c) = ValueKept(entries \ {e}, c) + Kept1(ValueCB, value.kept, c)
          /\ ValueKept(entries, c) = ValueKept(entries \ {e}, c) + Kept1(ValueCB, e.value, c)
      <4>1. /\ KeyKept(entries \ {e}, c) \in Nat /\ ValueKept(entries \ {e}, c) \in Nat
            /\ KeyKept(entries, c) = KeyKept(entries \ {e}, c) + Kept1(KeyCB, e.key, c)
            /\ ValueKept(entries, c) = ValueKept(entries \ {e}, c) + Kept1(ValueCB, e.value, c)
        BY <1>10, KeptWithout
      <4>2. /\ KeyKept(entries', c) = KeyKept(entries \ {e}, c) + Kept1(KeyCB, e.key, c)
            /\ ValueKept(entries', c) = ValueKept(entries \ {e}, c) + Kept1(ValueCB, value.kept, c)
        <5>1. PICK S : S = entries \ {e}
          OBVIOUS
        <5>2. IsFiniteSet(S) /\ f \notin S /\ entries' = S \cup {f}
          BY <1>10, <5>1
        <5>3. /\ KeyKept(S \cup {f}, c) = KeyKept(S, c) + Kept1(KeyCB, f.key, c)
              /\ ValueKept(S \cup {f}, c) = ValueKept(S, c) + Kept1(ValueCB, f.value, c)
          BY <5>2, KeptWith
        <5>4. f.key = e.key /\ f.value = value.kept
          BY <1>10
        <5> QED
          BY <5>1, <5>2, <5>3, <5>4
      <4>3. KeyKept(entries, c) \in Nat
        BY ContentsFacts
      <4> QED
        BY <4>1, <4>2, <4>3
    <3>2. /\ Added(ValueCB, value.kept, c) \in Nat /\ Taken(ValueCB, v, c) \in Nat
          /\ Kept1(ValueCB, value.kept, c) = Added(ValueCB, value.kept, c) + Taken(ValueCB, v, c)
      BY <1>6, KeptIsAddedOrTaken
    <3>3. /\ cell[c].rc \in Nat /\ cellPool[c] \in Nat /\ OwnedOnce(cellOwned, c) \in Nat
          /\ cell[c].rc = OwnedOnce(cellOwned, c) + cellPool[c] + KeyKept(entries, c) + ValueKept(entries, c)
      BY ContentsFacts
    <3>4. OwnedOnce(cellOwned', c) \in Nat
      BY DEF OwnedOnce
    <3>5. CASE ValueCB.remove = "free" /\ c = e.value
      <4>1. /\ cell[c].rc = 1 /\ c \notin cellOwned /\ cellPool[c] = 0 /\ KeyKept(entries, c) = 0
        BY <3>5, ValueIsSole
      <4>2. ValueCB.kind = "cstring" /\ ValueCB.insert = "copy"
        BY <1>4, <3>5 DEF CallbackFits
      <4>3. value.kept # c
        BY <1>6, <4>1, <4>2 DEF InsertEffect
      <4>4. Kept1(ValueCB, value.kept, c) = 0 /\ Kept1(ValueCB, e.value, c) = 1
        BY <3>5, <4>2, <4>3 DEF Kept1
      <4>5. OwnedOnce(cellOwned, c) = 0 /\ OwnedOnce(cellOwned', c) = 0
        BY <1>1, <4>1, <4>2 DEF OwnedOnce
      <4>6. cellPool'[c] = 0 /\ cell'[c].rc = 0
        BY <1>11, <3>5, <4>1
      <4> QED
        BY <3>1, <3>3, <4>1, <4>4, <4>5, <4>6
    <3>6. CASE ~(ValueCB.remove = "free" /\ c = e.value)
      <4>1. cellPool'[c] = cellPool[c] + Kept1(ValueCB, e.value, c)
        BY <1>4, <1>11, <3>6 DEF CallbackFits, Kept1
      <4>2. cell'[c].rc = cell[c].rc + Added(ValueCB, value.kept, c)
        BY <1>11, <3>6
      <4>3. Kept1(ValueCB, e.value, c) \in Nat
        BY DEF Kept1
      <4>4. OwnedOnce(cellOwned, c) = OwnedOnce(cellOwned', c) + Taken(ValueCB, v, c)
        BY <1>12
      <4> QED
        BY <3>1, <3>2, <3>3, <3>4, <4>1, <4>2, <4>3, <4>4
    <3> QED
      BY <3>5, <3>6
  <2> QED
    BY <2>1 DEF CellsBalance
<1>14. KeyCB.insert = "nop" \/ ValueCB.insert = "nop" => cellOwned' = cellOwned
  BY <1>1, <1>4
<1>15. ASSUME NEW c \in Cell, cell[c].rc > 0, ~(ValueCB.remove = "free" /\ c = e.value)
       PROVE  /\ cell'[c].content = cell[c].content
              /\ c \notin cellOwned => cell'[c].rc = cell[c].rc
  <2>1. cell'[c].content = cell[c].content
    BY <1>6, <1>11, <1>15 DEF InsertEffect
  <2>2. ASSUME c \notin cellOwned PROVE cell'[c].rc = cell[c].rc
    <3>1. Added(ValueCB, value.kept, c) = 0
      <4>1. CASE ValueCB.insert \in {"nop", "take"}
        BY <4>1 DEF Added
      <4>2. CASE ValueCB.insert \notin {"nop", "take"}
        <5>1. v \in cellOwned
          BY <1>4, <1>5, <4>2 DEF CallbackFits
        <5>2. value.kept # c
          BY <1>6, <1>15, <2>2, <5>1 DEF InsertEffect
        <5> QED
          BY <5>2 DEF Added
      <4> QED
        BY <4>1, <4>2
    <3> QED
      BY <1>11, <1>15, <3>1, ContentsFacts
  <2> QED
    BY <2>1, <2>2
<1>16. ASSUME NEW g \in entries
       PROVE  /\ PartFits(KeyCB, cell', cellOwned', g.key)
              /\ HashIn(cell', g.key) = HashIn(cell, g.key)
  <2>1. EntryFits(cell, cellOwned, g)
    BY ContentsFacts
  <2>2. ValueCB.remove = "free" /\ KeyCB.kind # "plain" => g.key # e.value
    <3>1. KeyCB.insert = "nop" /\ KeyCB.kind # "plain" => g.key \in cellOwned
      BY <2>1 DEF EntryFits, PartFits
    <3> QED
      BY <3>1, ValueIsSole, PartsAreApart
  <2>3. PartFits(KeyCB, cell', cellOwned', g.key)
    <3>1. CASE KeyCB.kind = "plain"
      BY <2>1, <3>1 DEF EntryFits, PartFits
    <3>2. CASE KeyCB.kind # "plain"
      <4>1. g.key \in Cell /\ cell[g.key].rc > 0
        BY <3>2, KeptIsAlive
      <4>2. KeyCB.insert = "nop" => g.key \in cellOwned'
        BY <1>14, <2>1, <3>2 DEF EntryFits, PartFits
      <4>3. KeyCB.remove = "free" => cell'[g.key].rc = 1
        BY <1>15, <2>2, <3>2, <4>1, KeyIsSole
      <4> QED
        BY <3>2, <4>1, <4>2, <4>3 DEF PartFits
    <3> QED
      BY <3>1, <3>2
  <2>4. HashIn(cell', g.key) = HashIn(cell, g.key)
    <3>1. KeyCB.kind # "plain" => g.key \in Cell /\ cell[g.key].rc > 0
      BY KeptIsAlive
    <3>2. KeyCB.kind # "plain" => cell'[g.key].content = cell[g.key].content
      BY <1>15, <2>2, <3>1
    <3>3. KeyCB.kind = "plain" => g.key \notin Cell
      BY KeptIsAlive
    <3> QED
      BY <3>2, <3>3 DEF HashIn
  <2> QED
    BY <2>3, <2>4
<1>17. ASSUME NEW g \in entries \ {e} PROVE EntryFits(cell', cellOwned', g)
  <2>1. EntryFits(cell, cellOwned, g)
    BY ContentsFacts
  <2>2. PartFits(ValueCB, cell', cellOwned', g.value)
    <3>1. CASE ValueCB.kind = "plain"
      BY <2>1, <3>1 DEF EntryFits, PartFits
    <3>2. CASE ValueCB.kind # "plain"
      <4>1. g.value \in Cell /\ cell[g.value].rc > 0
        BY <3>2, KeptIsAlive
      <4>2. ValueCB.insert = "nop" => g.value \in cellOwned'
        BY <1>14, <2>1, <3>2 DEF EntryFits, PartFits
      <4>3. ASSUME ValueCB.remove = "free" PROVE cell'[g.value].rc = 1
        <5>1. g.value # e.value
          BY <4>3, ValueIsSole
        <5> QED
          BY <1>15, <4>1, <4>3, <5>1, ValueIsSole
      <4> QED
        BY <3>2, <4>1, <4>2, <4>3 DEF PartFits
    <3> QED
      BY <3>1, <3>2
  <2> QED
    BY <1>16, <2>1, <2>2 DEF EntryFits
<1>18. EntryFits(cell', cellOwned', f)
  <2>1. PartFits(ValueCB, cell', cellOwned', value.kept)
    <3>1. CASE ValueCB.kind = "plain"
      BY <1>4, <1>5, <1>6, <3>1 DEF PartFits, InsertEffect, CallbackFits
    <3>2. CASE ValueCB.kind # "plain"
      <4>1. value.kept \in Cell
        BY <1>6, <3>2 DEF InsertEffect
      <4>2. ValueCB.insert = "nop" => value.kept \in cellOwned'
        BY <1>5, <1>6, <1>14, <3>2 DEF InsertEffect
      <4>3. ASSUME ValueCB.remove = "free" PROVE cell'[value.kept].rc = 1
        <5>1. ValueCB.kind = "cstring" /\ ValueCB.insert = "copy"
          BY <1>4, <4>3 DEF CallbackFits
        <5>2. cell[value.kept].rc = 0 /\ Added(ValueCB, value.kept, value.kept) = 1
          BY <1>6, <5>1 DEF InsertEffect, Added
        <5>3. value.kept # e.value
          BY <4>3, <5>2, ValueIsSole
        <5> QED
          BY <1>11, <4>1, <5>2, <5>3
      <4> QED
        BY <3>2, <4>1, <4>2, <4>3 DEF PartFits
    <3> QED
      BY <3>1, <3>2
  <2>2. e.hash = HashIn(cell, e.key)
    BY ContentsFacts DEF EntryFits
  <2> QED
    BY <1>10, <1>16, <2>1, <2>2 DEF EntryFits
<1>19. EntriesFit(cell', cellOwned', entries')
  <2>1. IsFiniteSet(entries')
    BY <1>10, FS_AddElement
  <2>2. \A a, b \in entries' : a.hash = b.hash => a = b
    BY <1>10, ContentsFacts
  <2> QED
    BY <1>10, <1>17, <1>18, <2>1, <2>2 DEF EntriesFit
<1>20. BorrowedFit(cellOwned', cellPool', entries', cellBorrowed')
  <2>1. BorrowedFit(cellOwned, cellPool, entries, cellBorrowed)
    BY ContentsFacts
  <2>2. ASSUME NEW o \in cellBorrowed, ValueCB.insert # "nop"
        PROVE  cellPool'[o] > 0 \/ \E g \in entries' : g.value = o
    <3>1. o \in Cell /\ cellPool[o] \in Nat /\ cellPool'[o] \in Nat
      BY <1>4, <1>7, <1>8, <2>1 DEF BorrowedFit, RemoveEffect
    <3>2. cellPool[o] > 0 \/ \E g \in entries : g.value = o
      BY <2>1, <2>2 DEF BorrowedFit
    <3>3. CASE cellPool[o] > 0
      BY <1>11, <3>1, <3>3
    <3>4. CASE \E g \in entries \ {e} : g.value = o
      BY <1>10, <3>4
    <3>5. CASE e.value = o
      <4>1. ValueCB.remove = "autorelease"
        BY <1>4, <2>1, <2>2 DEF BorrowedFit, CallbackFits
      <4> QED
        BY <1>11, <3>1, <3>5, <4>1
    <3> QED
      BY <3>2, <3>3, <3>4, <3>5
  <2> QED
    BY <1>1, <1>14, <2>1, <2>2 DEF BorrowedFit
<1>21. /\ CellsFit(cell') /\ cellOwned' \subseteq Cell /\ cellPool' \in [Cell -> Nat]
  BY <1>1, <1>7, <1>8, ContentsFacts DEF RemoveEffect
<1> QED
  BY <1>1, <1>13, <1>19, <1>20, <1>21, ContentsFollow DEF ContentsFit

LEMMA RemoveStep ==
  ASSUME ContentsInv, NEW e \in entries, Contents!Remove(e)
  PROVE  ContentsInv'
<1>1. PICK k, w :
        /\ k = Contents!RemoveCallback(KeyCB, cell, cellPool, e.key)
        /\ w = Contents!RemoveCallback(ValueCB, k.cells, k.pool, e.value)
  OBVIOUS
<1>2. /\ cell' = w.cells /\ cellPool' = w.pool /\ entries' = entries \ {e}
      /\ UNCHANGED <<callbacks, cellOwned, cellBorrowed>>
  BY <1>1 DEF Contents!Remove, KeyCB, ValueCB, Contents!KeyCallback, Contents!ValueCallback
<1>3. /\ CallbacksFit /\ CallbackFits(KeyCB) /\ CallbackFits(ValueCB) /\ CellsFit(cell)
      /\ cellPool \in [Cell -> Nat] /\ IsFiniteSet(entries)
  BY ContentsFacts DEF CallbacksFit
<1>4. RemoveEffect(KeyCB, cell, cellPool, e.key, k)
  BY <1>1, <1>3, KeptIsAlive, RemovesAsExpected
<1>5. RemoveEffect(ValueCB, k.cells, k.pool, e.value, w)
  <2>1. CellsFit(k.cells) /\ k.pool \in [Cell -> Nat]
    BY <1>4 DEF RemoveEffect
  <2> QED
    BY <1>1, <1>3, <2>1, KeptIsAlive, RemovesAsExpected
<1>6. PICK freed \in SUBSET Cell :
        freed = {c \in Cell : \/ KeyCB.remove = "free" /\ c = e.key
                              \/ ValueCB.remove = "free" /\ c = e.value}
  OBVIOUS
<1>7. /\ \A c \in freed : cell'[c].rc = 0
      /\ \A c \in Cell \ freed : cell'[c] = cell[c]
      /\ \A c \in Cell : cellPool'[c] = cellPool[c]
           + (IF KeyCB.remove = "autorelease" /\ c = e.key THEN 1 ELSE 0)
           + (IF ValueCB.remove = "autorelease" /\ c = e.value THEN 1 ELSE 0)
  <2>1. \A c \in Cell : cell'[c] = IF c \in freed THEN Contents!Freed ELSE cell[c]
    BY <1>2, <1>4, <1>5, <1>6 DEF RemoveEffect
  <2>2. Contents!Freed.rc = 0
    BY DEF Contents!Freed
  <2>3. \A c \in Cell : cellPool'[c] = cellPool[c]
           + (IF KeyCB.remove = "autorelease" /\ c = e.key THEN 1 ELSE 0)
           + (IF ValueCB.remove = "autorelease" /\ c = e.value THEN 1 ELSE 0)
    BY <1>2, <1>4, <1>5 DEF RemoveEffect
  <2> QED
    BY <2>1, <2>2, <2>3
\* What the container alone kept has no other entry.
<1>8. ASSUME NEW c \in freed
      PROVE  /\ cell[c].rc = 1 /\ c \notin cellOwned /\ cellPool[c] = 0
             /\ cellPool'[c] = 0
             /\ KeyKept(entries, c) + ValueKept(entries, c)
                  = Kept1(KeyCB, e.key, c) + Kept1(ValueCB, e.value, c)
  <2>1. CASE KeyCB.remove = "free" /\ c = e.key
    <3>1. /\ cell[c].rc = 1 /\ c \notin cellOwned /\ cellPool[c] = 0 /\ ValueKept(entries, c) = 0
      BY <2>1, KeyIsSole
    <3>2. KeyCB.insert # "nop" /\ (ValueCB.insert # "nop" => e.value # c)
      BY <1>3, <2>1, PartsAreApart DEF CallbackFits
    <3>3. cellPool'[c] = 0
      BY <1>3, <1>6, <1>7, <2>1, <3>1, <3>2 DEF CallbackFits
    <3>4. Kept1(KeyCB, e.key, c) = 1 /\ Kept1(ValueCB, e.value, c) = 0
      BY <2>1, <3>2 DEF Kept1
    <3>5. OwnedOnce(cellOwned, c) = 0
      BY <3>1 DEF OwnedOnce
    <3>6. KeyKept(entries, c) \in Nat /\ cell[c].rc = OwnedOnce(cellOwned, c) + cellPool[c]
                                               + KeyKept(entries, c) + ValueKept(entries, c)
      BY <1>6, ContentsFacts
    <3> QED
      BY <3>1, <3>3, <3>4, <3>5, <3>6
  <2>2. CASE ValueCB.remove = "free" /\ c = e.value
    <3>1. /\ cell[c].rc = 1 /\ c \notin cellOwned /\ cellPool[c] = 0 /\ KeyKept(entries, c) = 0
      BY <2>2, ValueIsSole
    <3>2. ValueCB.insert # "nop" /\ (KeyCB.insert # "nop" => e.key # c)
      BY <1>3, <2>2, PartsAreApart DEF CallbackFits
    <3>3. cellPool'[c] = 0
      BY <1>3, <1>6, <1>7, <2>2, <3>1, <3>2 DEF CallbackFits
    <3>4. Kept1(ValueCB, e.value, c) = 1 /\ Kept1(KeyCB, e.key, c) = 0
      BY <2>2, <3>2 DEF Kept1
    <3>5. OwnedOnce(cellOwned, c) = 0
      BY <3>1 DEF OwnedOnce
    <3>6. ValueKept(entries, c) \in Nat /\ cell[c].rc = OwnedOnce(cellOwned, c) + cellPool[c]
                                               + KeyKept(entries, c) + ValueKept(entries, c)
      BY <1>6, ContentsFacts
    <3> QED
      BY <3>1, <3>3, <3>4, <3>5, <3>6
  <2> QED
    BY <1>6, <2>1, <2>2
<1>9. CellsBalance(cell', cellOwned', cellPool', entries')
  <2>1. ASSUME NEW c \in Cell
        PROVE  cell'[c].rc = OwnedOnce(cellOwned', c) + cellPool'[c] + KeyKept(entries', c) + ValueKept(entries', c)
    <3>1. /\ KeyKept(entries', c) \in Nat /\ ValueKept(entries', c) \in Nat
          /\ KeyKept(entries, c) = KeyKept(entries', c) + Kept1(KeyCB, e.key, c)
          /\ ValueKept(entries, c) = ValueKept(entries', c) + Kept1(ValueCB, e.value, c)
      BY <1>2, <1>3, KeptWithout
    <3>2. /\ cell[c].rc \in Nat /\ cellPool[c] \in Nat /\ OwnedOnce(cellOwned, c) \in Nat
          /\ cell[c].rc = OwnedOnce(cellOwned, c) + cellPool[c] + KeyKept(entries, c) + ValueKept(entries, c)
      BY ContentsFacts
    <3>3. OwnedOnce(cellOwned', c) = OwnedOnce(cellOwned, c)
      BY <1>2
    <3>4. Kept1(KeyCB, e.key, c) \in Nat /\ Kept1(ValueCB, e.value, c) \in Nat
      BY DEF Kept1
    <3>5. CASE c \in freed
      <4>1. OwnedOnce(cellOwned, c) = 0
        BY <1>8, <3>5 DEF OwnedOnce
      <4>2. KeyKept(entries', c) + ValueKept(entries', c) = 0
        BY <1>8, <3>1, <3>4, <3>5
      <4>3. cell'[c].rc = 0 /\ cellPool'[c] = 0
        BY <1>7, <1>8, <3>5
      <4> QED
        BY <3>1, <3>3, <4>1, <4>2, <4>3
    <3>6. CASE c \notin freed
      <4>1. cellPool'[c] = cellPool[c] + Kept1(KeyCB, e.key, c) + Kept1(ValueCB, e.value, c)
        BY <1>3, <1>6, <1>7, <3>6 DEF CallbackFits, Kept1
      <4>2. cell'[c].rc = cell[c].rc
        BY <1>7, <3>6
      <4> QED
        BY <3>1, <3>2, <3>3, <3>4, <4>1, <4>2
    <3> QED
      BY <3>5, <3>6
  <2> QED
    BY <2>1 DEF CellsBalance
<1>10. ASSUME NEW g \in entries \ {e} PROVE EntryFits(cell', cellOwned', g)
  <2>1. EntryFits(cell, cellOwned, g)
    BY ContentsFacts
  <2>2. KeyCB.kind # "plain" => g.key \in Cell \ freed
    <3>1. g.key \in cellOwned \/ KeyCB.insert # "nop" \/ KeyCB.kind = "plain"
      BY <2>1 DEF EntryFits, PartFits
    <3>2. CASE KeyCB.insert = "nop" /\ g.key \in cellOwned
      BY <1>8, <3>2, KeptIsAlive
    <3>3. CASE KeyCB.insert # "nop"
      <4>1. KeyCB.remove = "free" => g.key # e.key
        BY KeyIsSole
      <4>2. ValueCB.remove = "free" => g.key # e.value
        BY <3>3, PartsAreApart
      <4> QED
        BY <1>6, <4>1, <4>2, KeptIsAlive
    <3> QED
      BY <3>1, <3>2, <3>3
  <2>3. ValueCB.kind # "plain" => g.value \in Cell \ freed
    <3>1. g.value \in cellOwned \/ ValueCB.insert # "nop" \/ ValueCB.kind = "plain"
      BY <2>1 DEF EntryFits, PartFits
    <3>2. CASE ValueCB.insert = "nop" /\ g.value \in cellOwned
      BY <1>8, <3>2, KeptIsAlive
    <3>3. CASE ValueCB.insert # "nop"
      <4>1. ValueCB.remove = "free" => g.value # e.value
        BY ValueIsSole
      <4>2. KeyCB.remove = "free" => g.value # e.key
        BY <3>3, PartsAreApart
      <4> QED
        BY <1>6, <4>1, <4>2, KeptIsAlive
    <3> QED
      BY <3>1, <3>2, <3>3
  <2>4. KeyCB.kind = "plain" => g.key \notin Cell
    BY KeptIsAlive
  <2> QED
    BY <1>2, <1>7, <2>1, <2>2, <2>3, <2>4 DEF EntryFits, PartFits, HashIn
<1>11. EntriesFit(cell', cellOwned', entries')
  <2>1. IsFiniteSet(entries')
    BY <1>2, <1>3, FS_Subset
  <2>2. \A a, b \in entries' : a.hash = b.hash => a = b
    BY <1>2, ContentsFacts
  <2> QED
    BY <1>2, <1>10, <2>1, <2>2 DEF EntriesFit
<1>12. BorrowedFit(cellOwned', cellPool', entries', cellBorrowed')
  <2>1. BorrowedFit(cellOwned, cellPool, entries, cellBorrowed)
    BY ContentsFacts
  <2>2. ASSUME NEW o \in cellBorrowed, ValueCB.insert # "nop"
        PROVE  cellPool'[o] > 0 \/ \E g \in entries' : g.value = o
    <3>1. o \in Cell /\ cellPool[o] \in Nat /\ cellPool'[o] \in Nat
      BY <1>2, <1>3, <1>5, <2>1 DEF BorrowedFit, RemoveEffect
    <3>2. cellPool[o] > 0 \/ \E g \in entries : g.value = o
      BY <2>1, <2>2 DEF BorrowedFit
    <3>3. CASE cellPool[o] > 0
      BY <1>7, <3>1, <3>3
    <3>4. CASE \E g \in entries \ {e} : g.value = o
      BY <1>2, <3>4
    <3>5. CASE e.value = o
      <4>1. ValueCB.remove = "autorelease"
        BY <1>3, <2>1, <2>2 DEF BorrowedFit, CallbackFits
      <4> QED
        BY <1>7, <3>1, <3>5, <4>1
    <3> QED
      BY <3>2, <3>3, <3>4, <3>5
  <2> QED
    BY <1>2, <2>1, <2>2 DEF BorrowedFit
<1>13. /\ CellsFit(cell') /\ cellOwned' \subseteq Cell /\ cellPool' \in [Cell -> Nat]
  BY <1>2, <1>5, ContentsFacts DEF RemoveEffect
<1> QED
  BY <1>2, <1>9, <1>11, <1>12, <1>13, ContentsFollow DEF ContentsFit

LEMMA GetStep ==
  ASSUME ContentsInv, NEW e \in entries, Contents!Get(e)
  PROVE  ContentsInv'
<1>1. /\ ValueCB.kind = "object" /\ cellBorrowed' = cellBorrowed \cup {e.value}
      /\ UNCHANGED <<callbacks, cell, cellOwned, cellPool, entries>>
  BY DEF Contents!Get, ValueCB, Contents!ValueCallback
<1>2. e.value \in Cell /\ (ValueCB.insert = "nop" => e.value \in cellOwned)
  BY <1>1, ContentsFacts DEF EntryFits, PartFits
<1>3. BorrowedFit(cellOwned', cellPool', entries', cellBorrowed')
  BY <1>1, <1>2, ContentsFacts DEF BorrowedFit
<1>4. ContentsFit(cell, cellOwned, cellPool, entries, cellBorrowed)
  BY DEF ContentsInv
<1> QED
  BY <1>1, <1>3, <1>4, ContentsFollow DEF ContentsFit

-----------------------------------------------------------------------------
(* The steps of the client.                                                *)

LEMMA CreateStep ==
  ASSUME ContentsInv, NEW o \in Cell, NEW newKind \in {"object", "cstring"}, NEW mutable \in BOOLEAN,
         NEW content \in Content, Contents!Create(o, newKind, mutable, content)
  PROVE  ContentsInv'
<1>1. PICK n : n = [kind |-> newKind, rc |-> 1, mutable |-> mutable, content |-> content]
  OBVIOUS
<1>2. /\ cell[o] = Contents!Freed /\ (newKind = "cstring" => mutable)
      /\ cell' = [cell EXCEPT ![o] = n]
      /\ cellOwned' = cellOwned \cup {o}
      /\ UNCHANGED <<callbacks, cellPool, entries, cellBorrowed>>
  BY <1>1 DEF Contents!Create
<1>3. n \in CellState /\ n.rc = 1 /\ (n.kind = "cstring" => n.mutable)
  BY <1>1, <1>2 DEF CellState
<1>4. cell \in [Cell -> CellState] /\ cell' \in [Cell -> CellState]
      /\ \A c \in Cell : cell'[c] = IF c = o THEN n ELSE cell[c]
  BY <1>2, <1>3, ContentsFacts DEF CellsFit
<1>5. CellsFit(cell')
  BY <1>3, <1>4, ContentsFacts DEF CellsFit
<1>6. cell[o].rc = 0
  BY <1>2 DEF Contents!Freed
<1>7. CellsBalance(cell', cellOwned', cellPool', entries')
  <2>1. ASSUME NEW c \in Cell
        PROVE  cell'[c].rc = OwnedOnce(cellOwned', c) + cellPool'[c] + KeyKept(entries', c) + ValueKept(entries', c)
    <3>1. /\ cellPool[c] \in Nat /\ OwnedOnce(cellOwned, c) \in Nat
          /\ KeyKept(entries, c) \in Nat /\ ValueKept(entries, c) \in Nat
          /\ cell[c].rc = OwnedOnce(cellOwned, c) + cellPool[c] + KeyKept(entries, c) + ValueKept(entries, c)
      BY ContentsFacts
    <3>2. CASE c = o
      <4>1. cellPool[c] = 0 /\ KeyKept(entries, c) = 0 /\ ValueKept(entries, c) = 0
        BY <1>6, <3>1, <3>2
      <4>2. OwnedOnce(cellOwned', c) = 1 /\ cell'[c].rc = 1
        BY <1>2, <1>3, <1>4, <3>2 DEF OwnedOnce
      <4> QED
        BY <1>2, <4>1, <4>2
    <3>3. CASE c # o
      <4>1. OwnedOnce(cellOwned', c) = OwnedOnce(cellOwned, c)
        BY <1>2, <3>3 DEF OwnedOnce
      <4>2. cell'[c].rc = cell[c].rc
        BY <1>4, <3>3
      <4> QED
        BY <1>2, <3>1, <4>1, <4>2
    <3> QED
      BY <3>2, <3>3
  <2> QED
    BY <2>1 DEF CellsBalance
<1>8. ASSUME NEW e \in entries PROVE EntryFits(cell', cellOwned', e)
  <2>1. EntryFits(cell, cellOwned, e)
    BY ContentsFacts
  <2>2. /\ KeyCB.kind # "plain" => e.key \in Cell /\ cell'[e.key] = cell[e.key]
        /\ ValueCB.kind # "plain" => e.value \in Cell /\ cell'[e.value] = cell[e.value]
        /\ KeyCB.kind = "plain" => e.key \notin Cell
    BY <1>4, <1>6, KeptIsAlive
  <2> QED
    BY <1>2, <2>1, <2>2 DEF EntryFits, PartFits, HashIn
<1>9. EntriesFit(cell', cellOwned', entries')
  BY <1>2, <1>8, ContentsFacts DEF EntriesFit
<1>10. BorrowedFit(cellOwned', cellPool', entries', cellBorrowed')
  BY <1>2, ContentsFacts DEF BorrowedFit
<1>11. cellOwned' \subseteq Cell /\ cellPool' \in [Cell -> Nat]
  BY <1>2, ContentsFacts
<1> QED
  BY <1>2, <1>5, <1>7, <1>9, <1>10, <1>11, ContentsFollow DEF ContentsFit

LEMMA MutateStep ==
  ASSUME ContentsInv, NEW o \in Cell, NEW content \in Content, Contents!Mutate(o, content)
  PROVE  ContentsInv'
<1>1. /\ o \in cellOwned
      /\ KeyCB.compare = "identity" \/ \A e \in entries : e.key # o
      /\ cell' = [cell EXCEPT ![o].content = content]
      /\ UNCHANGED <<callbacks, cellOwned, cellPool, entries, cellBorrowed>>
  BY DEF Contents!Mutate, KeyCB, Contents!KeyCallback
<1>2. PICK n : n = [cell[o] EXCEPT !.content = content]
  OBVIOUS
<1>3. cell \in [Cell -> CellState] /\ cell[o].rc > 0
  BY <1>1, OwnedIsAlive, ContentsFacts DEF CellsFit
<1>4. n \in CellState /\ n.rc = cell[o].rc /\ n.kind = cell[o].kind /\ n.mutable = cell[o].mutable
  BY <1>2, <1>3 DEF CellState
<1>5. cell' \in [Cell -> CellState] /\ \A c \in Cell : cell'[c] = IF c = o THEN n ELSE cell[c]
  BY <1>1, <1>2, <1>3, <1>4
<1>6. \A c \in Cell : cell'[c].rc = cell[c].rc
  BY <1>4, <1>5
<1>7. CellsFit(cell')
  <2>1. \A c \in Cell : /\ cell[c].rc = 0 => cell[c] = Contents!Freed
                        /\ cell[c].kind = "cstring" => cell[c].mutable
    BY ContentsFacts DEF CellsFit
  <2>2. n.rc # 0
    BY <1>3, <1>4
  <2> QED
    BY <1>4, <1>5, <2>1, <2>2 DEF CellsFit
<1>8. CellsBalance(cell', cellOwned', cellPool', entries')
  BY <1>1, <1>6, ContentsFacts DEF CellsBalance
<1>9. ASSUME NEW e \in entries PROVE EntryFits(cell', cellOwned', e)
  <2>1. EntryFits(cell, cellOwned, e)
    BY ContentsFacts
  <2>2. HashIn(cell', e.key) = HashIn(cell, e.key)
    BY <1>1, <1>5 DEF HashIn
  <2>3. PartFits(KeyCB, cell', cellOwned', e.key) /\ PartFits(ValueCB, cell', cellOwned', e.value)
    BY <1>1, <1>6, <2>1 DEF EntryFits, PartFits
  <2> QED
    BY <2>1, <2>2, <2>3 DEF EntryFits
<1>10. EntriesFit(cell', cellOwned', entries')
  BY <1>1, <1>9, ContentsFacts DEF EntriesFit
<1>11. BorrowedFit(cellOwned', cellPool', entries', cellBorrowed')
  BY <1>1, ContentsFacts DEF BorrowedFit
<1>12. cellOwned' \subseteq Cell /\ cellPool' \in [Cell -> Nat]
  BY <1>1, ContentsFacts
<1> QED
  BY <1>1, <1>7, <1>8, <1>10, <1>11, <1>12, ContentsFollow DEF ContentsFit

(* References are given up; what has none is freed.                        *)
LEMMA CellsDrop ==
  ASSUME ContentsInv, NEW down, \A c \in Cell : down[c] \in Nat /\ down[c] <= cell[c].rc,
         NEW fewer, fewer \in [Cell -> CellState],
         \A c \in Cell : fewer[c] = [cell[c] EXCEPT !.rc = cell[c].rc - down[c]],
         cell' = Contents!Dropped(fewer)
  PROVE  /\ CellsFit(cell')
         /\ \A c \in Cell : /\ cell'[c].rc = cell[c].rc - down[c]
                            /\ cell[c].rc - down[c] > 0 => cell'[c].content = cell[c].content
<1>1. cell \in [Cell -> CellState] /\ \A c \in Cell : cell[c].rc \in Nat
  BY ContentsFacts DEF CellsFit
<1>2. PICK z : z = Contents!Freed
  OBVIOUS
<1>3. z \in CellState /\ z.rc = 0 /\ z.kind # "cstring"
  BY <1>2 DEF CellState, Contents!Freed
<1>4. cell' = [c \in Cell |-> IF fewer[c].rc = 0 THEN z ELSE fewer[c]]
  BY <1>2 DEF Contents!Dropped
<1>5. ASSUME NEW c \in Cell
      PROVE  /\ fewer[c].rc = cell[c].rc - down[c] /\ fewer[c].content = cell[c].content
             /\ fewer[c].kind = cell[c].kind /\ fewer[c].mutable = cell[c].mutable
  BY <1>1 DEF CellState
<1>6. cell' \in [Cell -> CellState]
  BY <1>3, <1>4
<1>7. \A c \in Cell : cell'[c] = IF fewer[c].rc = 0 THEN z ELSE fewer[c]
  BY <1>4
<1>8. CellsFit(cell')
  <2>1. \A c \in Cell : cell[c].kind = "cstring" => cell[c].mutable
    BY ContentsFacts DEF CellsFit
  <2> QED
    BY <1>2, <1>3, <1>5, <1>6, <1>7, <2>1 DEF CellsFit
<1>9. ASSUME NEW c \in Cell
      PROVE  /\ cell'[c].rc = cell[c].rc - down[c]
             /\ cell[c].rc - down[c] > 0 => cell'[c].content = cell[c].content
  BY <1>3, <1>5, <1>7
<1> QED
  BY <1>8, <1>9

LEMMA ReleaseStep ==
  ASSUME ContentsInv, NEW o \in Cell, Contents!Release(o)
  PROVE  ContentsInv'
<1>1. /\ o \in cellOwned /\ o \notin Contents!Assigned
      /\ cellOwned' = cellOwned \ {o}
      /\ cell' = Contents!Dropped([cell EXCEPT ![o].rc = @ - 1])
      /\ cellBorrowed' = IF ValueCB.insert = "nop" THEN cellBorrowed \ {o} ELSE cellBorrowed
      /\ UNCHANGED <<callbacks, cellPool, entries>>
  BY DEF Contents!Release, ValueCB, Contents!ValueCallback
<1>2. cell \in [Cell -> CellState] /\ cell[o].rc > 0 /\ OwnedOnce(cellOwned, o) = 1
      /\ \A c \in Cell : cell[c].rc \in Nat
  BY <1>1, OwnedIsAlive, ContentsFacts DEF CellsFit
<1>3. PICK down : down = [c \in Cell |-> IF c = o THEN 1 ELSE 0]
  OBVIOUS
<1>4. PICK fewer : fewer = [cell EXCEPT ![o].rc = @ - 1]
  OBVIOUS
<1>5. /\ fewer \in [Cell -> CellState]
      /\ \A c \in Cell : fewer[c] = [cell[c] EXCEPT !.rc = cell[c].rc - down[c]]
  <2>1. \A c \in Cell : cell[c] = [cell[c] EXCEPT !.rc = cell[c].rc]
    BY <1>2 DEF CellState
  <2>2. \A c \in Cell : fewer[c] = IF c = o THEN [cell[o] EXCEPT !.rc = cell[o].rc - 1] ELSE cell[c]
    BY <1>2, <1>4
  <2>3. PICK n : n = [cell[o] EXCEPT !.rc = cell[o].rc - 1]
    OBVIOUS
  <2>4. n \in CellState
    BY <1>2, <2>3 DEF CellState
  <2>5. fewer = [cell EXCEPT ![o] = n]
    BY <1>2, <1>4, <2>3
  <2>6. fewer \in [Cell -> CellState]
    BY <1>2, <2>4, <2>5
  <2>7. ASSUME NEW c \in Cell PROVE fewer[c] = [cell[c] EXCEPT !.rc = cell[c].rc - down[c]]
    <3>1. CASE c = o
      BY <1>3, <2>2, <3>1
    <3>2. CASE c # o
      <4>1. cell[c].rc - down[c] = cell[c].rc
        BY <1>2, <1>3, <3>2
      <4> QED
        BY <2>1, <2>2, <3>2, <4>1
    <3> QED
      BY <3>1, <3>2
  <2> QED
    BY <2>6, <2>7
<1>6. /\ CellsFit(cell')
      /\ \A c \in Cell : /\ cell'[c].rc = cell[c].rc - down[c]
                         /\ cell[c].rc - down[c] > 0 => cell'[c].content = cell[c].content
  <2>1. \A c \in Cell : down[c] \in Nat /\ down[c] <= cell[c].rc
    BY <1>2, <1>3
  <2>2. cell' = Contents!Dropped(fewer)
    BY <1>1, <1>4
  <2> QED
    BY <1>5, <2>1, <2>2, CellsDrop
<1>7. ASSUME NEW c \in Cell
      PROVE  /\ cell'[c].rc = OwnedOnce(cellOwned', c) + cellPool'[c] + KeyKept(entries', c) + ValueKept(entries', c)
             /\ cell'[c].rc = IF c = o THEN cell[c].rc - 1 ELSE cell[c].rc
  <2>1. cell'[c].rc = IF c = o THEN cell[c].rc - 1 ELSE cell[c].rc
    BY <1>2, <1>3, <1>6
  <2>2. OwnedOnce(cellOwned, c) = OwnedOnce(cellOwned', c) + (IF c = o THEN 1 ELSE 0)
    BY <1>1 DEF OwnedOnce
  <2>3. OwnedOnce(cellOwned', c) \in Nat
    BY DEF OwnedOnce
  <2> QED
    BY <1>1, <2>1, <2>2, <2>3, ContentsFacts
<1>8. CellsBalance(cell', cellOwned', cellPool', entries')
  BY <1>7 DEF CellsBalance
<1>9. ASSUME NEW e \in entries PROVE EntryFits(cell', cellOwned', e)
  <2>1. EntryFits(cell, cellOwned, e)
    BY ContentsFacts
  <2>2. /\ KeyCB.insert = "nop" => e.key # o
        /\ ValueCB.insert = "nop" => e.value # o
    BY <1>1 DEF Contents!Assigned, KeyCB, ValueCB, Contents!KeyCallback, Contents!ValueCallback
  <2>3. PartFits(KeyCB, cell', cellOwned', e.key)
    <3>1. KeyCB.remove = "free" => e.key # o
      BY <1>1, KeyIsSole
    <3> QED
      BY <1>1, <1>7, <2>1, <2>2, <3>1 DEF EntryFits, PartFits
  <2>4. PartFits(ValueCB, cell', cellOwned', e.value)
    <3>1. ValueCB.remove = "free" => e.value # o
      BY <1>1, ValueIsSole
    <3> QED
      BY <1>1, <1>7, <2>1, <2>2, <3>1 DEF EntryFits, PartFits
  <2>5. HashIn(cell', e.key) = HashIn(cell, e.key)
    <3>1. CASE KeyCB.kind = "plain"
      BY <3>1, KeptIsAlive DEF HashIn
    <3>2. CASE KeyCB.kind # "plain"
      <4>1. e.key \in Cell /\ cell[e.key].rc > 0
        BY <3>2, KeptIsAlive
      <4>2. cell'[e.key].rc > 0
        <5>1. CASE e.key # o
          BY <1>7, <4>1, <5>1
        <5>2. CASE e.key = o
          <6>1. KeyKept(entries, e.key) > 0
            BY <2>2, <5>2, KeptCounts, ContentsFacts
          <6>2. /\ cellPool'[o] \in Nat /\ KeyKept(entries', o) > 0 /\ ValueKept(entries', o) \in Nat
                /\ KeyKept(entries', o) \in Nat /\ OwnedOnce(cellOwned', o) \in Nat
            BY <1>1, <5>2, <6>1, ContentsFacts DEF OwnedOnce
          <6> QED
            BY <1>7, <5>2, <6>2
        <5> QED
          BY <5>1, <5>2
      <4>3. cell'[e.key].content = cell[e.key].content
        BY <1>6, <4>1, <4>2
      <4> QED
        BY <4>3 DEF HashIn
    <3> QED
      BY <3>1, <3>2
  <2> QED
    BY <2>1, <2>3, <2>4, <2>5 DEF EntryFits
<1>10. EntriesFit(cell', cellOwned', entries')
  BY <1>1, <1>9, ContentsFacts DEF EntriesFit
<1>11. BorrowedFit(cellOwned', cellPool', entries', cellBorrowed')
  BY <1>1, ContentsFacts DEF BorrowedFit
<1>12. cellOwned' \subseteq Cell /\ cellPool' \in [Cell -> Nat]
  BY <1>1, ContentsFacts
<1> QED
  BY <1>1, <1>6, <1>8, <1>10, <1>11, <1>12, ContentsFollow DEF ContentsFit

LEMMA PopContentsStep ==
  ASSUME ContentsInv, Contents!PopPool
  PROVE  ContentsInv'
<1>1. /\ cell' = Contents!Dropped([c \in Cell |-> [cell[c] EXCEPT !.rc = @ - cellPool[c]]])
      /\ cellPool' = [c \in Cell |-> 0] /\ cellBorrowed' = {}
      /\ UNCHANGED <<callbacks, cellOwned, entries>>
  BY DEF Contents!PopPool, Contents!Nothing
<1>2. cell \in [Cell -> CellState] /\ \A c \in Cell : cell[c].rc \in Nat /\ cellPool[c] \in Nat
  BY ContentsFacts DEF CellsFit
<1>3. PICK fewer : fewer = [c \in Cell |-> [cell[c] EXCEPT !.rc = cell[c].rc - cellPool[c]]]
  OBVIOUS
<1>4. \A c \in Cell : cellPool[c] \in Nat /\ cellPool[c] <= cell[c].rc
  BY ContentsFacts
<1>5. /\ fewer \in [Cell -> CellState]
      /\ \A c \in Cell : fewer[c] = [cell[c] EXCEPT !.rc = cell[c].rc - cellPool[c]]
  <2>1. ASSUME NEW c \in Cell PROVE [cell[c] EXCEPT !.rc = cell[c].rc - cellPool[c]] \in CellState
    <3>1. cell[c].rc - cellPool[c] \in Nat
      BY <1>2, <1>4
    <3> QED
      BY <1>2, <3>1 DEF CellState
  <2> QED
    BY <1>3, <2>1
<1>6. /\ CellsFit(cell')
      /\ \A c \in Cell : /\ cell'[c].rc = cell[c].rc - cellPool[c]
                         /\ cell[c].rc - cellPool[c] > 0 => cell'[c].content = cell[c].content
  <2>1. cell' = Contents!Dropped(fewer)
    BY <1>1, <1>3
  <2> QED
    BY <1>4, <1>5, <2>1, CellsDrop
<1>7. CellsBalance(cell', cellOwned', cellPool', entries')
  <2>1. ASSUME NEW c \in Cell
        PROVE  cell'[c].rc = OwnedOnce(cellOwned', c) + cellPool'[c] + KeyKept(entries', c) + ValueKept(entries', c)
    <3>1. cellPool'[c] = 0 /\ cell'[c].rc = cell[c].rc - cellPool[c]
      BY <1>1, <1>6
    <3> QED
      BY <1>1, <3>1, ContentsFacts
  <2> QED
    BY <2>1 DEF CellsBalance
<1>8. ASSUME NEW e \in entries PROVE EntryFits(cell', cellOwned', e)
  <2>1. EntryFits(cell, cellOwned, e)
    BY ContentsFacts
  <2>2. PartFits(KeyCB, cell', cellOwned', e.key)
    <3>1. KeyCB.remove = "free" => cell'[e.key].rc = 1
      BY <1>6, KeyIsSole
    <3> QED
      BY <1>1, <2>1, <3>1 DEF EntryFits, PartFits
  <2>3. PartFits(ValueCB, cell', cellOwned', e.value)
    <3>1. ValueCB.remove = "free" => cell'[e.value].rc = 1
      BY <1>6, ValueIsSole
    <3> QED
      BY <1>1, <2>1, <3>1 DEF EntryFits, PartFits
  <2>4. HashIn(cell', e.key) = HashIn(cell, e.key)
    <3>1. CASE KeyCB.kind = "plain"
      BY <3>1, KeptIsAlive DEF HashIn
    <3>2. CASE KeyCB.kind # "plain"
      <4>1. e.key \in Cell
        BY <3>2, KeptIsAlive
      <4>2. OwnedOnce(cellOwned, e.key) = 1 \/ KeyKept(entries, e.key) > 0
        BY <2>1, <3>2, KeptCounts, ContentsFacts DEF EntryFits, PartFits, OwnedOnce
      <4>3. cell[e.key].rc - cellPool[e.key] > 0
        BY <4>1, <4>2, ContentsFacts
      <4>4. cell'[e.key].content = cell[e.key].content
        BY <1>6, <4>1, <4>3
      <4> QED
        BY <4>4 DEF HashIn
    <3> QED
      BY <3>1, <3>2
  <2> QED
    BY <2>1, <2>2, <2>3, <2>4 DEF EntryFits
<1>9. EntriesFit(cell', cellOwned', entries')
  BY <1>1, <1>8, ContentsFacts DEF EntriesFit
<1>10. BorrowedFit(cellOwned', cellPool', entries', cellBorrowed')
  BY <1>1 DEF BorrowedFit
<1>11. cellOwned' \subseteq Cell /\ cellPool' \in [Cell -> Nat]
  BY <1>1, ContentsFacts
<1> QED
  BY <1>1, <1>6, <1>7, <1>9, <1>10, <1>11, ContentsFollow DEF ContentsFit

LEMMA ContentsStep == ContentsInv /\ [Contents!Next]_containerVars => ContentsInv'
<1> SUFFICES ASSUME ContentsInv, [Contents!Next]_containerVars PROVE ContentsInv'
  OBVIOUS
<1>1. CASE UNCHANGED containerVars
  <2>1. /\ callbacks' = callbacks /\ cell' = cell /\ cellOwned' = cellOwned /\ cellPool' = cellPool
        /\ entries' = entries /\ cellBorrowed' = cellBorrowed
    BY <1>1 DEF containerVars
  <2>2. ContentsFit(cell, cellOwned, cellPool, entries, cellBorrowed)
    BY DEF ContentsInv
  <2> QED
    BY <2>1, <2>2, ContentsFollow
<1>2. ASSUME Contents!Next PROVE ContentsInv'
  BY <1>2, InsertStep, ReplaceStep, RemoveStep, GetStep, CreateStep, MutateStep, ReleaseStep, PopContentsStep
     DEF Contents!Next
<1> QED
  BY <1>1, <1>2

(* Each entry is found under its key, and the counts are the cells'.       *)
LEMMA EntriesAreHeld == ContentsInv => Contents!ContentsAreHeld
<1> SUFFICES ASSUME ContentsInv PROVE Contents!ContentsAreHeld
  OBVIOUS
<1>1. ASSUME NEW e \in entries
      PROVE  /\ KeyCB.kind # "plain" => cell[e.key].rc > 0
             /\ ValueCB.kind # "plain" => cell[e.value].rc > 0
             /\ Contents!Found(e.key) = {e}
  <2>1. \A j : Contents!mulle_container_keycallback_object_hash(j) = HashIn(cell, j)
    BY DEF Contents!mulle_container_keycallback_object_hash, HashIn, KeyCB, Contents!KeyCallback
  <2>2. \A f \in entries : f.hash = HashIn(cell, f.key)
    BY ContentsFacts DEF EntryFits
  <2>3. Contents!Found(e.key) = {f \in entries : f.hash = HashIn(cell, e.key) /\ HashIn(cell, f.key) = HashIn(cell, e.key)}
    BY <2>1 DEF Contents!Found, Contents!mulle_container_keycallback_object_is_equal
  <2>4. \A f \in entries : f.hash = e.hash => f = e
    BY ContentsFacts
  <2>5. Contents!Found(e.key) = {e}
    BY <2>2, <2>3, <2>4
  <2> QED
    BY <2>5, KeptIsAlive
<1>2. ASSUME NEW o \in cellBorrowed PROVE cell[o].rc > 0
  <2>1. /\ o \in Cell
        /\ IF ValueCB.insert = "nop" THEN o \in cellOwned
           ELSE cellPool[o] > 0 \/ \E e \in entries : e.value = o
    BY ContentsFacts DEF BorrowedFit
  <2>2. CASE ValueCB.insert = "nop"
    BY <2>1, <2>2, OwnedIsAlive
  <2>3. CASE ValueCB.insert # "nop" /\ cellPool[o] > 0
    BY <2>1, <2>3, ContentsFacts
  <2>4. CASE ValueCB.insert # "nop" /\ \E e \in entries : e.value = o
    <3>1. ValueKept(entries, o) > 0
      BY <2>4, KeptCounts, ContentsFacts
    <3> QED
      BY <2>1, <3>1, ContentsFacts
  <2> QED
    BY <2>1, <2>2, <2>3, <2>4
<1>3. ASSUME NEW o \in Cell PROVE Contents!Kept(o) = KeyKept(entries, o) + ValueKept(entries, o)
  <2>1. Cardinality({e \in entries : KeyCB.insert # "nop" /\ e.key = o}) = KeyKept(entries, o)
    <3>1. CASE KeyCB.insert = "nop"
      <4>1. {e \in entries : KeyCB.insert # "nop" /\ e.key = o} = {}
        BY <3>1
      <4> QED
        BY <3>1, <4>1, FS_EmptySet DEF KeyKept
    <3>2. CASE KeyCB.insert # "nop"
      <4>1. {e \in entries : KeyCB.insert # "nop" /\ e.key = o} = {e \in entries : e.key = o}
        BY <3>2
      <4> QED
        BY <3>2, <4>1 DEF KeyKept, KeyUses
    <3> QED
      BY <3>1, <3>2
  <2>2. Cardinality({e \in entries : ValueCB.insert # "nop" /\ e.value = o}) = ValueKept(entries, o)
    <3>1. CASE ValueCB.insert = "nop"
      <4>1. {e \in entries : ValueCB.insert # "nop" /\ e.value = o} = {}
        BY <3>1
      <4> QED
        BY <3>1, <4>1, FS_EmptySet DEF ValueKept
    <3>2. CASE ValueCB.insert # "nop"
      <4>1. {e \in entries : ValueCB.insert # "nop" /\ e.value = o} = {e \in entries : e.value = o}
        BY <3>2
      <4> QED
        BY <3>2, <4>1 DEF ValueKept, ValueUses
    <3> QED
      BY <3>1, <3>2
  <2> QED
    BY <2>1, <2>2, ContainerCardinality
       DEF Contents!Kept, KeyCB, ValueCB, Contents!KeyCallback, Contents!ValueCallback
<1>4. \A o \in Cell : cell[o].rc = (IF o \in cellOwned THEN 1 ELSE 0) + cellPool[o] + Contents!Kept(o)
  <2> TAKE o \in Cell
  <2>1. /\ cellPool[o] \in Nat /\ KeyKept(entries, o) \in Nat /\ ValueKept(entries, o) \in Nat
        /\ OwnedOnce(cellOwned, o) \in Nat
        /\ cell[o].rc = OwnedOnce(cellOwned, o) + cellPool[o] + KeyKept(entries, o) + ValueKept(entries, o)
    BY ContentsFacts
  <2>2. OwnedOnce(cellOwned, o) = IF o \in cellOwned THEN 1 ELSE 0
    BY DEF OwnedOnce
  <2> QED
    BY <1>3, <2>1, <2>2
<1> QED
  BY <1>1, <1>2, <1>4 DEF Contents!ContentsAreHeld, KeyCB, ValueCB,
                          Contents!KeyCallback, Contents!ValueCallback

(* What is in a container is alive, counted and found, and what was read   *)
(* from it is alive until the pool is popped, for each of its callbacks    *)
(* and any number of entries (MulleObjCContainerObjectCallback.m).         *)
THEOREM ContainersHold == Contents!Spec => []Contents!ContentsAreHeld
BY EntriesAreHeld, ContentsInit, ContentsStep, PTL DEF Contents!Spec, Contents!vars, containerVars

-----------------------------------------------------------------------------
(* Properties and their values (Properties).  Clearing them all is a walk  *)
(* over a set, in no particular order.                                     *)

Walks(step, base, S, g) ==
  g = [s \in SUBSET S |-> IF s = {} THEN base ELSE step[Pick(s)][g[s \ {Pick(s)}]]]

LEMMA WalkIsOne ==
  ASSUME NEW S, IsFiniteSet(S), NEW R \in SUBSET S, NEW step, NEW base, NEW g, NEW h,
         Walks(step, base, S, g), Walks(step, base, R, h)
  PROVE  \A s \in SUBSET R : g[s] = h[s]
<1> DEFINE T == {s \in SUBSET R : g[s] = h[s]}
<1>1. IsFiniteSet(R)
  BY FS_Subset
<1>2. ASSUME NEW s \in SUBSET R, \A r \in SUBSET s : r # s => r \in T PROVE s \in T
  <2>1. s # {} => Pick(s) \in s
    BY DEF Pick
  <2>2. s # {} => g[s \ {Pick(s)}] = h[s \ {Pick(s)}]
    BY <1>2, <2>1
  <2>3. g[s] = IF s = {} THEN base ELSE step[Pick(s)][g[s \ {Pick(s)}]]
    BY DEF Walks
  <2>4. h[s] = IF s = {} THEN base ELSE step[Pick(s)][h[s \ {Pick(s)}]]
    BY DEF Walks
  <2> QED
    BY <2>2, <2>3, <2>4
<1> HIDE DEF T
<1>3. \A s \in SUBSET R : s \in T
  BY <1>1, <1>2, SubsetInduction
<1> QED
  BY <1>3 DEF T

LEMMA WalkExists ==
  ASSUME NEW S, IsFiniteSet(S), NEW step, NEW base
  PROVE  \E g : Walks(step, base, S, g)
<1> DEFINE T == {s \in SUBSET S : \E g : Walks(step, base, s, g)}
           LastOf(s) == (CHOOSE g : Walks(step, base, s, g))[s]
<1>1. ASSUME NEW s \in SUBSET S, \A r \in SUBSET s : r # s => r \in T PROVE s \in T
  <2> DEFINE h == [r \in SUBSET s |-> IF r = {} THEN base ELSE step[Pick(r)][LastOf(r \ {Pick(r)})]]
  <2>1. ASSUME NEW r \in SUBSET s, r # s
        PROVE  LastOf(r) = IF r = {} THEN base ELSE step[Pick(r)][LastOf(r \ {Pick(r)})]
    <3>1. PICK g : g = CHOOSE a : Walks(step, base, r, a)
      OBVIOUS
    <3>2. Walks(step, base, r, g) /\ LastOf(r) = g[r]
      BY <1>1, <2>1, <3>1
    <3>3. g[r] = IF r = {} THEN base ELSE step[Pick(r)][g[r \ {Pick(r)}]]
      BY <3>2 DEF Walks
    <3>4. CASE r # {}
      <4> DEFINE q == r \ {Pick(r)}
      <4>1. q \in SUBSET r /\ q # s /\ q \in SUBSET s
        BY <2>1
      <4>2. PICK e : e = CHOOSE a : Walks(step, base, q, a)
        OBVIOUS
      <4>3. \E a : Walks(step, base, q, a)
        BY <1>1, <4>1
      <4>4. Walks(step, base, q, e) /\ LastOf(q) = e[q]
        BY <4>2, <4>3
      <4>5. IsFiniteSet(r)
        BY FS_Subset
      <4>6. g[q] = e[q]
        BY <3>2, <4>1, <4>4, <4>5, WalkIsOne
      <4> QED
        BY <3>2, <3>3, <3>4, <4>4, <4>6
    <3> QED
      BY <3>2, <3>3, <3>4
  <2>2. h = [r \in SUBSET s |-> IF r = {} THEN base ELSE step[Pick(r)][h[r \ {Pick(r)}]]]
    <3> HIDE DEF LastOf
    <3>1. ASSUME NEW r \in SUBSET s, r # {} PROVE h[r \ {Pick(r)}] = LastOf(r \ {Pick(r)})
      <4>1. Pick(r) \in r
        BY <3>1 DEF Pick
      <4>2. r \ {Pick(r)} \in SUBSET s /\ r \ {Pick(r)} # s
        BY <4>1
      <4> QED
        BY <2>1, <4>2
    <3> QED
      BY <3>1
  <2>3. Walks(step, base, s, h)
    BY <2>2 DEF Walks
  <2> QED
    BY <2>3
<1> HIDE DEF T
<1>2. S \in T
  BY <1>1, SubsetInduction
<1> QED
  BY <1>2 DEF T

(* What each step of a walk keeps holds at its end, and what a step does   *)
(* for its element and no other one undoes is done for all of them.        *)
WalkFits(S, step, Fitting, Done, g) ==
  /\ g[{}] \in Fitting
  /\ \A x \in S, s \in Fitting : /\ step[x][s] \in Fitting /\ <<x, step[x][s]>> \in Done
                              /\ \A y \in S : <<y, s>> \in Done => <<y, step[x][s]>> \in Done
  /\ \A R \in SUBSET S : R # {} /\ g[R \ {Pick(R)}] \in Fitting
                           => g[R] = step[Pick(R)][g[R \ {Pick(R)}]]

LEMMA WalkKeeps ==
  ASSUME NEW S, IsFiniteSet(S), NEW step, NEW Fitting, NEW Done, NEW g,
         WalkFits(S, step, Fitting, Done, g)
  PROVE  \A R \in SUBSET S : g[R] \in Fitting /\ \A x \in R : <<x, g[R]>> \in Done
<1> DEFINE T == {R \in SUBSET S : g[R] \in Fitting /\ \A x \in R : <<x, g[R]>> \in Done}
<1>1. ASSUME NEW R \in SUBSET S, \A r \in SUBSET R : r # R => r \in T PROVE R \in T
  <2>1. CASE R = {}
    BY <2>1 DEF WalkFits
  <2>2. CASE R # {}
    <3>1. PICK x : x = Pick(R)
      OBVIOUS
    <3>2. PICK q : q = R \ {x}
      OBVIOUS
    <3>3. x \in R /\ x \in S
      BY <2>2, <3>1 DEF Pick
    <3>4. q \in SUBSET R /\ q # R
      BY <3>2, <3>3
    <3>5. g[q] \in Fitting /\ \A y \in q : <<y, g[q]>> \in Done
      BY <1>1, <3>4
    <3>6. g[R] = step[x][g[q]]
      BY <2>2, <3>1, <3>2, <3>5 DEF WalkFits
    <3>7. /\ step[x][g[q]] \in Fitting /\ <<x, step[x][g[q]]>> \in Done
          /\ \A y \in S : <<y, g[q]>> \in Done => <<y, step[x][g[q]]>> \in Done
      BY <3>3, <3>5 DEF WalkFits
    <3>8. \A y \in R : <<y, g[R]>> \in Done
      BY <3>2, <3>5, <3>6, <3>7
    <3> QED
      BY <3>6, <3>7, <3>8
  <2> QED
    BY <2>1, <2>2
<1> HIDE DEF T
<1>2. \A R \in SUBSET S : R \in T
  BY <1>1, SubsetInduction
<1> QED
  BY <1>2 DEF T

(* A store [ivars, rc, pool]: values that properties hold, are owned by    *)
(* the client or wait in the pool are retained that often; a string has    *)
(* one property, and what was read is held, or in the pool.                *)
PropertyStore ==
  [ivars : [Property -> Value \cup {NULL}], rc : [Value -> Nat], pool : [Value -> Nat]]

KeepsValue(p) == kind[p].type \notin {"VoidPointer", "Assign"}

KeepsObject(p) == kind[p].type \in {"Retain", "Copy"}

Holders(s, v) == {p \in Property : KeepsValue(p) /\ s.ivars[p] = v}

HoldsOne(p, w, v) == IF KeepsValue(p) /\ w = v THEN 1 ELSE 0

ValuesBalance(s, own) ==
  \A v \in Value : s.rc[v] = Cardinality(Holders(s, v)) + s.pool[v] + OwnedOnce(own, v)

StringsFit(s) ==
  \A p \in Property : kind[p].type = "Strdup" /\ s.ivars[p] # NULL => s.rc[s.ivars[p]] = 1

ReadsFit(s, read) ==
  \A v \in read : s.pool[v] > 0 \/ \E p \in Property : KeepsObject(p) /\ s.ivars[p] = v

StoreFits(s, own, read) ==
  /\ s \in PropertyStore
  /\ ValuesBalance(s, own) /\ StringsFit(s) /\ ReadsFit(s, read)
  /\ \A p \in Property : kind[p].type = "VoidPointer" => s.ivars[p] = NULL

KindsFit ==
  /\ cls \in {"MulleObject", "MulleDynamicObject"}
  /\ kind \in [Property -> Accessors!Declarable(cls)]

LEMMA KindFacts ==
  ASSUME KindsFit, NEW p \in Property
  PROVE  /\ kind[p].type \in {"VoidPointer", "Strdup", "Assign", "Retain", "Copy", "Value"}
         /\ kind[p].readonly \in BOOLEAN /\ kind[p].setterclear \in BOOLEAN
         /\ kind[p].type \in {"VoidPointer", "Value"} => ~kind[p].setterclear
         /\ kind[p].type = "Assign" => kind[p].setterclear
         /\ kind[p].type = "Value" => cls = "MulleDynamicObject"
         /\ kind[p].readonly => /\ cls = "MulleObject" /\ ~kind[p].setterclear
                                /\ kind[p].type \in {"Retain", "Copy", "Strdup"}
<1>1. kind[p] \in Accessors!Declarable(cls)
  BY DEF KindsFit
<1> QED
  BY <1>1 DEF Accessors!Declarable, Accessors!MulleObjCGenericType, Accessors!Plain, Accessors!Wrapped

LEMMA PropertyOperators ==
  /\ \A S : Accessors!Cardinality(S) = Cardinality(S)
  /\ IsFiniteSet(Property) /\ NULL \notin Value /\ Mutable \subseteq Value
<1>1. ASSUME NEW S PROVE Accessors!Cardinality(S) = Cardinality(S)
  BY DEF Accessors!Cardinality, Cardinality
<1> QED
  BY <1>1, ValuesAssumption DEF ValuesAssumption

(* What the operations on a store do.                                      *)
LEMMA KeepFacts ==
  ASSUME NEW s \in PropertyStore, NEW p \in Property, NEW w \in Value \cup {NULL}
  PROVE  /\ Accessors!Keep(s, p, w) \in PropertyStore
         /\ Accessors!Keep(s, p, w).rc = s.rc /\ Accessors!Keep(s, p, w).pool = s.pool
         /\ \A q \in Property : Accessors!Keep(s, p, w).ivars[q] = IF q = p THEN w ELSE s.ivars[q]
  BY DEF PropertyStore, Accessors!Keep

LEMMA AutoreleaseFacts ==
  ASSUME NEW s \in PropertyStore, NEW w \in Value \cup {NULL}
  PROVE  /\ Accessors!AutoreleaseIn(s, w) \in PropertyStore
         /\ Accessors!AutoreleaseIn(s, w).rc = s.rc /\ Accessors!AutoreleaseIn(s, w).ivars = s.ivars
         /\ \A v \in Value : Accessors!AutoreleaseIn(s, w).pool[v] = s.pool[v] + IF v = w THEN 1 ELSE 0
<1>1. CASE w = NULL
  BY <1>1, PropertyOperators DEF PropertyStore, Accessors!AutoreleaseIn
<1>2. CASE w \in Value
  BY <1>2, PropertyOperators DEF PropertyStore, Accessors!AutoreleaseIn
<1> QED
  BY <1>1, <1>2

LEMMA RetainFacts ==
  ASSUME NEW s \in PropertyStore, NEW w \in Value \cup {NULL}
  PROVE  /\ Accessors!RetainIn(s, w) \in PropertyStore
         /\ Accessors!RetainIn(s, w).pool = s.pool /\ Accessors!RetainIn(s, w).ivars = s.ivars
         /\ \A v \in Value : Accessors!RetainIn(s, w).rc[v] = s.rc[v] + IF v = w THEN 1 ELSE 0
<1>1. CASE w = NULL
  BY <1>1, PropertyOperators DEF PropertyStore, Accessors!RetainIn
<1>2. CASE w \in Value
  BY <1>2, PropertyOperators DEF PropertyStore, Accessors!RetainIn
<1> QED
  BY <1>1, <1>2

LEMMA FreeFacts ==
  ASSUME NEW s \in PropertyStore, NEW w \in Value \cup {NULL}
  PROVE  /\ Accessors!FreeIn(s, w) \in PropertyStore
         /\ Accessors!FreeIn(s, w).pool = s.pool /\ Accessors!FreeIn(s, w).ivars = s.ivars
         /\ \A v \in Value : Accessors!FreeIn(s, w).rc[v] = IF v = w THEN 0 ELSE s.rc[v]
<1>1. CASE w = NULL
  BY <1>1, PropertyOperators DEF PropertyStore, Accessors!FreeIn
<1>2. CASE w \in Value
  BY <1>2, PropertyOperators DEF PropertyStore, Accessors!FreeIn
<1> QED
  BY <1>1, <1>2

LEMMA AllocateFacts ==
  ASSUME NEW s \in PropertyStore, NEW w \in Accessors!New(s)
  PROVE  /\ w \in Value /\ s.rc[w] = 0
         /\ Accessors!AllocateIn(s, w) \in PropertyStore
         /\ Accessors!AllocateIn(s, w).pool = s.pool /\ Accessors!AllocateIn(s, w).ivars = s.ivars
         /\ \A v \in Value : Accessors!AllocateIn(s, w).rc[v] = s.rc[v] + IF v = w THEN 1 ELSE 0
<1>1. w \in Value /\ s.rc[w] = 0
  BY DEF Accessors!New
<1> QED
  BY <1>1 DEF PropertyStore, Accessors!AllocateIn

(* Properties that hold a value, when one of them gets another.            *)
LEMMA HoldersChange ==
  ASSUME NEW s \in PropertyStore, NEW t \in PropertyStore, NEW p \in Property,
         \A q \in Property \ {p} : t.ivars[q] = s.ivars[q],
         NEW v \in Value
  PROVE  /\ Cardinality(Holders(s, v)) \in Nat /\ Cardinality(Holders(t, v)) \in Nat
         /\ HoldsOne(p, s.ivars[p], v) \in 0 .. 1 /\ HoldsOne(p, t.ivars[p], v) \in 0 .. 1
         /\ HoldsOne(p, s.ivars[p], v) <= Cardinality(Holders(s, v))
         /\ Cardinality(Holders(t, v)) + HoldsOne(p, s.ivars[p], v)
              = Cardinality(Holders(s, v)) + HoldsOne(p, t.ivars[p], v)
<1> DEFINE Others == {q \in Property \ {p} : KeepsValue(q) /\ s.ivars[q] = v}
<1>1. IsFiniteSet(Others) /\ p \notin Others
  BY PropertyOperators, FS_Subset
<1>2. Holders(s, v) = IF KeepsValue(p) /\ s.ivars[p] = v THEN Others \cup {p} ELSE Others
  BY DEF Holders
<1>3. Holders(t, v) = IF KeepsValue(p) /\ t.ivars[p] = v THEN Others \cup {p} ELSE Others
  BY DEF Holders
<1> HIDE DEF Others
<1>4. Cardinality(Others) \in Nat /\ Cardinality(Others \cup {p}) = Cardinality(Others) + 1
  BY <1>1, FS_AddElement, FS_CardinalityType
<1> QED
  BY <1>2, <1>3, <1>4 DEF HoldsOne

LEMMA HolderCounts ==
  ASSUME NEW s \in PropertyStore, NEW p \in Property, KeepsValue(p), s.ivars[p] \in Value
  PROVE  Cardinality(Holders(s, s.ivars[p])) >= 1
<1>1. HoldsOne(p, s.ivars[p], s.ivars[p]) = 1
  BY DEF HoldsOne
<1> QED
  BY <1>1, HoldersChange

(* A property gets another value, and the references go with it.           *)
LEMMA StoreMoves ==
  ASSUME KindsFit, NEW own, NEW read \in SUBSET Value, NEW s, StoreFits(s, own, read),
         NEW t \in PropertyStore, NEW p \in Property,
         \A q \in Property \ {p} : t.ivars[q] = s.ivars[q],
         \A v \in Value : t.rc[v] + HoldsOne(p, s.ivars[p], v) + s.pool[v]
                            = s.rc[v] + HoldsOne(p, t.ivars[p], v) + t.pool[v],
         \A q \in Property \ {p} : kind[q].type = "Strdup" /\ s.ivars[q] # NULL => t.rc[s.ivars[q]] = 1,
         kind[p].type = "Strdup" /\ t.ivars[p] # NULL => t.rc[t.ivars[p]] = 1,
         kind[p].type = "VoidPointer" => t.ivars[p] = NULL,
         \A v \in Value : /\ t.pool[v] >= s.pool[v]
                          /\ KeepsObject(p) /\ s.ivars[p] = v => t.ivars[p] = v \/ t.pool[v] > 0
  PROVE  StoreFits(t, own, read)
<1>1. s \in PropertyStore /\ ValuesBalance(s, own) /\ StringsFit(s) /\ ReadsFit(s, read)
  BY DEF StoreFits
<1>2. ValuesBalance(t, own)
  <2> SUFFICES ASSUME NEW v \in Value
               PROVE  t.rc[v] = Cardinality(Holders(t, v)) + t.pool[v] + OwnedOnce(own, v)
    BY DEF ValuesBalance
  <2>1. /\ s.rc[v] \in Nat /\ s.pool[v] \in Nat /\ t.rc[v] \in Nat /\ t.pool[v] \in Nat
        /\ OwnedOnce(own, v) \in Nat
    BY <1>1 DEF PropertyStore, OwnedOnce
  <2>2. /\ Cardinality(Holders(s, v)) \in Nat /\ Cardinality(Holders(t, v)) \in Nat
        /\ HoldsOne(p, s.ivars[p], v) \in 0 .. 1 /\ HoldsOne(p, t.ivars[p], v) \in 0 .. 1
        /\ Cardinality(Holders(t, v)) + HoldsOne(p, s.ivars[p], v)
             = Cardinality(Holders(s, v)) + HoldsOne(p, t.ivars[p], v)
    BY <1>1, HoldersChange
  <2>3. s.rc[v] = Cardinality(Holders(s, v)) + s.pool[v] + OwnedOnce(own, v)
    BY <1>1 DEF ValuesBalance
  <2>4. t.rc[v] + HoldsOne(p, s.ivars[p], v) + s.pool[v]
          = s.rc[v] + HoldsOne(p, t.ivars[p], v) + t.pool[v]
    OBVIOUS
  <2> QED
    BY <2>1, <2>2, <2>3, <2>4
<1>3. StringsFit(t)
  <2> SUFFICES ASSUME NEW q \in Property, kind[q].type = "Strdup", t.ivars[q] # NULL
               PROVE  t.rc[t.ivars[q]] = 1
    BY DEF StringsFit
  <2> QED
    BY <1>1
<1>4. ReadsFit(t, read)
  <2> SUFFICES ASSUME NEW v \in read, ~(t.pool[v] > 0)
               PROVE  \E q \in Property : KeepsObject(q) /\ t.ivars[q] = v
    BY DEF ReadsFit
  <2>1. s.pool[v] \in Nat /\ t.pool[v] \in Nat /\ t.pool[v] >= s.pool[v]
    BY <1>1 DEF PropertyStore
  <2>2. PICK q \in Property : KeepsObject(q) /\ s.ivars[q] = v
    BY <1>1, <2>1 DEF ReadsFit
  <2>3. t.ivars[q] = v
    BY <2>2
  <2> QED
    BY <2>2, <2>3
<1>5. \A q \in Property : kind[q].type = "VoidPointer" => t.ivars[q] = NULL
  BY DEF StoreFits
<1> QED
  BY <1>2, <1>3, <1>4, <1>5 DEF StoreFits

(* A string that is held has no other reference.                           *)
LEMMA StringIsHeldOnce ==
  ASSUME KindsFit, NEW own, NEW read, NEW s, StoreFits(s, own, read),
         NEW p \in Property, kind[p].type = "Strdup", s.ivars[p] # NULL
  PROVE  /\ s.ivars[p] \in Value /\ s.rc[s.ivars[p]] = 1 /\ s.pool[s.ivars[p]] = 0
         /\ s.ivars[p] \notin own
         /\ \A q \in Property \ {p} : KeepsValue(q) => s.ivars[q] # s.ivars[p]
<1>1. s \in PropertyStore /\ ValuesBalance(s, own) /\ StringsFit(s)
  BY DEF StoreFits
<1>2. PICK v : v = s.ivars[p]
  OBVIOUS
<1>3. v \in Value /\ s.rc[v] = 1
  BY <1>1, <1>2 DEF PropertyStore, StringsFit
<1>4. s.rc[v] = Cardinality(Holders(s, v)) + s.pool[v] + OwnedOnce(own, v)
  BY <1>1, <1>3 DEF ValuesBalance
<1>5. Cardinality(Holders(s, v)) \in Nat /\ s.pool[v] \in Nat /\ OwnedOnce(own, v) \in Nat
  BY <1>1, <1>3, HoldersChange DEF PropertyStore, OwnedOnce
<1>6. Cardinality(Holders(s, v)) >= 1
  BY <1>1, <1>2, <1>3, HolderCounts DEF KeepsValue
<1>7. s.pool[v] = 0 /\ OwnedOnce(own, v) = 0 /\ Cardinality(Holders(s, v)) = 1
  BY <1>3, <1>4, <1>5, <1>6
<1>8. ASSUME NEW q \in Property \ {p}, KeepsValue(q), s.ivars[q] = v PROVE FALSE
  <2>1. {p, q} \subseteq Holders(s, v)
    BY <1>2, <1>8 DEF Holders, KeepsValue
  <2>2. IsFiniteSet(Holders(s, v))
    BY PropertyOperators, FS_Subset DEF Holders
  <2>3. Cardinality({p, q}) = 2
    <3>1. IsFiniteSet({p}) /\ Cardinality({p}) = 1 /\ q \notin {p}
      BY <1>8, FS_Singleton
    <3>2. Cardinality({p} \cup {q}) = Cardinality({p}) + 1
      BY <3>1, FS_AddElement
    <3>3. {p} \cup {q} = {p, q}
      OBVIOUS
    <3> QED
      BY <3>1, <3>2, <3>3
  <2>4. Cardinality({p, q}) <= Cardinality(Holders(s, v))
    BY <2>1, <2>2, FS_Subset
  <2> QED
    BY <1>7, <2>3, <2>4
<1> QED
  BY <1>2, <1>3, <1>7, <1>8 DEF OwnedOnce

(* A value that nothing refers to, or that the client owns, is not a       *)
(* string that a property has.                                             *)
LEMMA NotAString ==
  ASSUME KindsFit, NEW own, NEW read, NEW s, StoreFits(s, own, read),
         NEW w, w \in own \/ s.rc[w] = 0
  PROVE  \A q \in Property : kind[q].type = "Strdup" /\ s.ivars[q] # NULL => s.ivars[q] # w
  BY StringIsHeldOnce

(* An object replaces another, which goes to the pool.                     *)
LEMMA ObjectReplaced ==
  ASSUME KindsFit, NEW own, NEW read \in SUBSET Value, NEW s, StoreFits(s, own, read),
         NEW p \in Property, kind[p].type \notin {"VoidPointer", "Assign", "Strdup"},
         NEW w \in Value \cup {NULL}, w = NULL \/ w \in own \/ s.rc[w] = 0,
         NEW t \in PropertyStore,
         \A q \in Property : t.ivars[q] = IF q = p THEN w ELSE s.ivars[q],
         \A v \in Value : t.rc[v] = s.rc[v] + IF v = w THEN 1 ELSE 0,
         \A v \in Value : t.pool[v] = s.pool[v] + IF v = s.ivars[p] THEN 1 ELSE 0
  PROVE  StoreFits(t, own, read)
<1>1. s \in PropertyStore /\ KeepsValue(p) /\ t.ivars[p] = w
  BY DEF StoreFits, KeepsValue
<1>2. ASSUME NEW v \in Value
      PROVE  /\ t.rc[v] + HoldsOne(p, s.ivars[p], v) + s.pool[v]
                  = s.rc[v] + HoldsOne(p, t.ivars[p], v) + t.pool[v]
             /\ t.pool[v] >= s.pool[v]
             /\ KeepsObject(p) /\ s.ivars[p] = v => t.ivars[p] = v \/ t.pool[v] > 0
  <2>1. s.rc[v] \in Nat /\ s.pool[v] \in Nat
    BY <1>1 DEF PropertyStore
  <2>2. t.rc[v] = s.rc[v] + HoldsOne(p, t.ivars[p], v)
    BY <1>1 DEF HoldsOne
  <2>3. t.pool[v] = s.pool[v] + HoldsOne(p, s.ivars[p], v)
    BY <1>1 DEF HoldsOne
  <2>4. HoldsOne(p, t.ivars[p], v) \in 0 .. 1 /\ HoldsOne(p, s.ivars[p], v) \in 0 .. 1
        /\ (s.ivars[p] = v => HoldsOne(p, s.ivars[p], v) = 1)
    BY <1>1 DEF HoldsOne
  <2> QED
    BY <2>1, <2>2, <2>3, <2>4
<1>3. ASSUME NEW q \in Property \ {p}, kind[q].type = "Strdup", s.ivars[q] # NULL
      PROVE  t.rc[s.ivars[q]] = 1
  <2>1. s.ivars[q] \in Value /\ s.rc[s.ivars[q]] = 1
    BY <1>3, StringIsHeldOnce
  <2>2. s.ivars[q] # w
    BY <1>3, NotAString
  <2> QED
    BY <2>1, <2>2
<1>4. \A q \in Property \ {p} : t.ivars[q] = s.ivars[q]
  OBVIOUS
<1> QED
  BY <1>2, <1>3, <1>4, StoreMoves

(* A string replaces another, which is freed.                              *)
LEMMA StringReplaced ==
  ASSUME KindsFit, NEW own, NEW read \in SUBSET Value, NEW s, StoreFits(s, own, read),
         NEW p \in Property, kind[p].type = "Strdup",
         NEW w \in Value \cup {NULL}, w = NULL \/ s.rc[w] = 0,
         NEW t \in PropertyStore,
         \A q \in Property : t.ivars[q] = IF q = p THEN w ELSE s.ivars[q],
         \A v \in Value : t.rc[v] = IF v = s.ivars[p] THEN 0 ELSE s.rc[v] + IF v = w THEN 1 ELSE 0,
         t.pool = s.pool
  PROVE  StoreFits(t, own, read)
<1>1. s \in PropertyStore /\ KeepsValue(p) /\ t.ivars[p] = w /\ ~KeepsObject(p)
  BY DEF StoreFits, KeepsValue, KeepsObject
<1>2. s.ivars[p] # NULL => s.ivars[p] \in Value /\ s.rc[s.ivars[p]] = 1
  BY StringIsHeldOnce
<1>3. s.ivars[p] # NULL => w # s.ivars[p]
  BY <1>2
<1>4. ASSUME NEW v \in Value
      PROVE  /\ t.rc[v] + HoldsOne(p, s.ivars[p], v) + s.pool[v]
                  = s.rc[v] + HoldsOne(p, t.ivars[p], v) + t.pool[v]
             /\ t.pool[v] >= s.pool[v]
  <2>1. s.rc[v] \in Nat /\ s.pool[v] \in Nat
    BY <1>1 DEF PropertyStore
  <2>2. CASE v = s.ivars[p]
    <3>1. /\ t.rc[v] = 0 /\ s.rc[v] = 1 /\ HoldsOne(p, s.ivars[p], v) = 1
          /\ HoldsOne(p, t.ivars[p], v) = 0
      BY <1>1, <1>2, <1>3, <2>2, PropertyOperators DEF HoldsOne
    <3> QED
      BY <2>1, <3>1
  <2>3. CASE v # s.ivars[p]
    <3>1. /\ t.rc[v] = s.rc[v] + HoldsOne(p, t.ivars[p], v) /\ HoldsOne(p, s.ivars[p], v) = 0
          /\ HoldsOne(p, t.ivars[p], v) \in 0 .. 1
      BY <1>1, <2>3 DEF HoldsOne
    <3> QED
      BY <2>1, <3>1
  <2> QED
    BY <2>2, <2>3
<1>5. ASSUME NEW q \in Property \ {p}, kind[q].type = "Strdup", s.ivars[q] # NULL
      PROVE  t.rc[s.ivars[q]] = 1
  <2>1. s.ivars[q] \in Value /\ s.rc[s.ivars[q]] = 1 /\ s.ivars[p] # s.ivars[q]
    BY <1>1, <1>5, StringIsHeldOnce
  <2>2. s.ivars[q] # w
    BY <2>1, PropertyOperators
  <2> QED
    BY <2>1, <2>2
<1>6. w # NULL => t.rc[w] = 1
  BY <1>2, <1>3
<1>7. \A q \in Property \ {p} : t.ivars[q] = s.ivars[q]
  OBVIOUS
<1>8. \A v \in Value : /\ t.pool[v] >= s.pool[v]
                       /\ KeepsObject(p) /\ s.ivars[p] = v => t.ivars[p] = v \/ t.pool[v] > 0
  BY <1>1, <1>4
<1> QED
  BY <1>1, <1>4, <1>5, <1>6, <1>7, <1>8, StoreMoves

(* A pointer that is not retained.                                         *)
LEMMA PointerReplaced ==
  ASSUME KindsFit, NEW own, NEW read \in SUBSET Value, NEW s, StoreFits(s, own, read),
         NEW p \in Property, kind[p].type \in {"VoidPointer", "Assign"},
         NEW w \in Value \cup {NULL}, kind[p].type = "VoidPointer" => w = NULL
  PROVE  StoreFits(Accessors!Keep(s, p, w), own, read)
<1>1. s \in PropertyStore
  BY DEF StoreFits
<1>2. PICK t : t = Accessors!Keep(s, p, w)
  OBVIOUS
<1>3. /\ t \in PropertyStore /\ t.rc = s.rc /\ t.pool = s.pool
      /\ \A q \in Property : t.ivars[q] = IF q = p THEN w ELSE s.ivars[q]
  BY <1>1, <1>2, KeepFacts
<1>4. ~KeepsValue(p) /\ ~KeepsObject(p)
  BY DEF KeepsValue, KeepsObject
<1>5. \A v \in Value : HoldsOne(p, s.ivars[p], v) = 0 /\ HoldsOne(p, t.ivars[p], v) = 0
  BY <1>4 DEF HoldsOne
<1>6. \A v \in Value : s.rc[v] \in Nat /\ s.pool[v] \in Nat
  BY <1>1 DEF PropertyStore
<1>7. \A v \in Value : t.rc[v] + HoldsOne(p, s.ivars[p], v) + s.pool[v]
                         = s.rc[v] + HoldsOne(p, t.ivars[p], v) + t.pool[v]
  BY <1>3, <1>5, <1>6
<1>8. \A q \in Property \ {p} : t.ivars[q] = s.ivars[q]
  BY <1>3
<1>9. \A q \in Property \ {p} : kind[q].type = "Strdup" /\ s.ivars[q] # NULL => t.rc[s.ivars[q]] = 1
  BY <1>3, StringIsHeldOnce
<1>10. \A v \in Value : /\ t.pool[v] >= s.pool[v]
                        /\ KeepsObject(p) /\ s.ivars[p] = v => t.ivars[p] = v \/ t.pool[v] > 0
  BY <1>3, <1>4, <1>6
<1>11. kind[p].type = "VoidPointer" => t.ivars[p] = NULL
  BY <1>3
<1>12. kind[p].type = "Strdup" /\ t.ivars[p] # NULL => t.rc[t.ivars[p]] = 1
  OBVIOUS
<1> QED
  BY <1>2, <1>3, <1>7, <1>8, <1>9, <1>10, <1>11, <1>12, StoreMoves

(* The setters.                                                            *)
SetterKeeps(s, r, p) == \A q \in Property \ {p} : r.ivars[q] = s.ivars[q]

LEMMA RetainSetterFits ==
  ASSUME KindsFit, NEW own, NEW read \in SUBSET Value, NEW s, StoreFits(s, own, read),
         NEW p \in Property, kind[p].type \in {"Retain", "Copy"},
         NEW w \in Value \cup {NULL}, w = NULL \/ w \in own,
         NEW r \in Accessors!RetainSetter(s, p, w)
  PROVE  StoreFits(r, own, read) /\ SetterKeeps(s, r, p) /\ r.ivars[p] = w
<1>1. s \in PropertyStore /\ s.ivars[p] \in Value \cup {NULL}
  BY DEF StoreFits, PropertyStore
<1>2. PICK a : a = Accessors!RetainIn(s, w)
  OBVIOUS
<1>3. /\ a \in PropertyStore /\ a.pool = s.pool /\ a.ivars = s.ivars
      /\ \A v \in Value : a.rc[v] = s.rc[v] + IF v = w THEN 1 ELSE 0
  BY <1>1, <1>2, RetainFacts
<1>4. PICK b : b = Accessors!Keep(a, p, w)
  OBVIOUS
<1>5. /\ b \in PropertyStore /\ b.rc = a.rc /\ b.pool = a.pool
      /\ \A q \in Property : b.ivars[q] = IF q = p THEN w ELSE a.ivars[q]
  BY <1>3, <1>4, KeepFacts
<1>6. r = Accessors!AutoreleaseIn(b, s.ivars[p])
  BY <1>2, <1>4 DEF Accessors!RetainSetter
<1>7. /\ r \in PropertyStore /\ r.rc = b.rc /\ r.ivars = b.ivars
      /\ \A v \in Value : r.pool[v] = b.pool[v] + IF v = s.ivars[p] THEN 1 ELSE 0
  BY <1>1, <1>5, <1>6, AutoreleaseFacts
<1>8. /\ \A q \in Property : r.ivars[q] = IF q = p THEN w ELSE s.ivars[q]
      /\ \A v \in Value : r.rc[v] = s.rc[v] + IF v = w THEN 1 ELSE 0
      /\ \A v \in Value : r.pool[v] = s.pool[v] + IF v = s.ivars[p] THEN 1 ELSE 0
  BY <1>3, <1>5, <1>7
<1>9. StoreFits(r, own, read)
  BY <1>7, <1>8, ObjectReplaced
<1> QED
  BY <1>8, <1>9 DEF SetterKeeps

LEMMA NewObjectFits ==
  ASSUME KindsFit, NEW own, NEW read \in SUBSET Value, NEW s, StoreFits(s, own, read),
         NEW p \in Property, kind[p].type \notin {"VoidPointer", "Assign", "Strdup"},
         NEW w \in Accessors!New(s), NEW r,
         r = Accessors!AutoreleaseIn(Accessors!Keep(Accessors!AllocateIn(s, w), p, w), s.ivars[p])
  PROVE  StoreFits(r, own, read) /\ SetterKeeps(s, r, p)
<1>1. s \in PropertyStore /\ s.ivars[p] \in Value \cup {NULL}
  BY DEF StoreFits, PropertyStore
<1>2. PICK a : a = Accessors!AllocateIn(s, w)
  OBVIOUS
<1>3. /\ a \in PropertyStore /\ a.pool = s.pool /\ a.ivars = s.ivars
      /\ w \in Value /\ s.rc[w] = 0
      /\ \A v \in Value : a.rc[v] = s.rc[v] + IF v = w THEN 1 ELSE 0
  BY <1>1, <1>2, AllocateFacts
<1>4. PICK b : b = Accessors!Keep(a, p, w)
  OBVIOUS
<1>5. /\ b \in PropertyStore /\ b.rc = a.rc /\ b.pool = a.pool
      /\ \A q \in Property : b.ivars[q] = IF q = p THEN w ELSE a.ivars[q]
  BY <1>3, <1>4, KeepFacts
<1>6. r = Accessors!AutoreleaseIn(b, s.ivars[p])
  BY <1>2, <1>4
<1>7. /\ r \in PropertyStore /\ r.rc = b.rc /\ r.ivars = b.ivars
      /\ \A v \in Value : r.pool[v] = b.pool[v] + IF v = s.ivars[p] THEN 1 ELSE 0
  BY <1>1, <1>5, <1>6, AutoreleaseFacts
<1>8. /\ \A q \in Property : r.ivars[q] = IF q = p THEN w ELSE s.ivars[q]
      /\ \A v \in Value : r.rc[v] = s.rc[v] + IF v = w THEN 1 ELSE 0
      /\ \A v \in Value : r.pool[v] = s.pool[v] + IF v = s.ivars[p] THEN 1 ELSE 0
  BY <1>3, <1>5, <1>7
<1>9. StoreFits(r, own, read)
  BY <1>3, <1>7, <1>8, ObjectReplaced
<1> QED
  BY <1>8, <1>9 DEF SetterKeeps

LEMMA FreeStringFits ==
  ASSUME KindsFit, NEW own, NEW read \in SUBSET Value, NEW s, StoreFits(s, own, read),
         NEW p \in Property, kind[p].type = "Strdup", NEW r,
         r = Accessors!FreeIn(Accessors!Keep(s, p, NULL), s.ivars[p])
  PROVE  StoreFits(r, own, read) /\ SetterKeeps(s, r, p) /\ r.ivars[p] = NULL
<1>1. s \in PropertyStore /\ s.ivars[p] \in Value \cup {NULL}
  BY DEF StoreFits, PropertyStore
<1>2. PICK b : b = Accessors!Keep(s, p, NULL)
  OBVIOUS
<1>3. /\ b \in PropertyStore /\ b.rc = s.rc /\ b.pool = s.pool
      /\ \A q \in Property : b.ivars[q] = IF q = p THEN NULL ELSE s.ivars[q]
  BY <1>1, <1>2, KeepFacts
<1>4. /\ r \in PropertyStore /\ r.pool = b.pool /\ r.ivars = b.ivars
      /\ \A v \in Value : r.rc[v] = IF v = s.ivars[p] THEN 0 ELSE b.rc[v]
  BY <1>1, <1>2, <1>3, FreeFacts
<1>5. \A v \in Value : s.rc[v] \in Nat /\ v # NULL
  BY <1>1, PropertyOperators DEF PropertyStore
<1>6. /\ r.pool = s.pool
      /\ \A q \in Property : r.ivars[q] = IF q = p THEN NULL ELSE s.ivars[q]
      /\ \A v \in Value : r.rc[v] = IF v = s.ivars[p] THEN 0 ELSE s.rc[v] + IF v = NULL THEN 1 ELSE 0
  BY <1>3, <1>4, <1>5
<1>7. StoreFits(r, own, read)
  BY <1>4, <1>6, StringReplaced
<1> QED
  BY <1>6, <1>7 DEF SetterKeeps

LEMMA NewStringFits ==
  ASSUME KindsFit, NEW own, NEW read \in SUBSET Value, NEW s, StoreFits(s, own, read),
         NEW p \in Property, kind[p].type = "Strdup",
         NEW w \in Accessors!New(s), NEW r,
         r = Accessors!FreeIn(Accessors!Keep(Accessors!AllocateIn(s, w), p, w), s.ivars[p])
  PROVE  StoreFits(r, own, read) /\ SetterKeeps(s, r, p)
<1>1. s \in PropertyStore /\ s.ivars[p] \in Value \cup {NULL}
  BY DEF StoreFits, PropertyStore
<1>2. PICK a : a = Accessors!AllocateIn(s, w)
  OBVIOUS
<1>3. /\ a \in PropertyStore /\ a.pool = s.pool /\ a.ivars = s.ivars
      /\ w \in Value /\ s.rc[w] = 0
      /\ \A v \in Value : a.rc[v] = s.rc[v] + IF v = w THEN 1 ELSE 0
  BY <1>1, <1>2, AllocateFacts
<1>4. PICK b : b = Accessors!Keep(a, p, w)
  OBVIOUS
<1>5. /\ b \in PropertyStore /\ b.rc = a.rc /\ b.pool = a.pool
      /\ \A q \in Property : b.ivars[q] = IF q = p THEN w ELSE a.ivars[q]
  BY <1>3, <1>4, KeepFacts
<1>6. r = Accessors!FreeIn(b, s.ivars[p])
  BY <1>2, <1>4
<1>7. /\ r \in PropertyStore /\ r.pool = b.pool /\ r.ivars = b.ivars
      /\ \A v \in Value : r.rc[v] = IF v = s.ivars[p] THEN 0 ELSE b.rc[v]
  BY <1>1, <1>5, <1>6, FreeFacts
<1>8. /\ r.pool = s.pool
      /\ \A q \in Property : r.ivars[q] = IF q = p THEN w ELSE s.ivars[q]
      /\ \A v \in Value : r.rc[v] = IF v = s.ivars[p] THEN 0 ELSE s.rc[v] + IF v = w THEN 1 ELSE 0
  BY <1>3, <1>5, <1>7
<1>9. StoreFits(r, own, read)
  BY <1>3, <1>7, <1>8, StringReplaced
<1> QED
  BY <1>8, <1>9 DEF SetterKeeps

Settable(p, own, w) ==
  /\ kind[p].type \in {"Assign", "Retain", "Copy"} => w \in (own \cap Value) \cup {NULL}
  /\ kind[p].type \in {"VoidPointer", "Value"} => w = NULL

LEMMA SetterFits ==
  ASSUME KindsFit, NEW own, NEW read \in SUBSET Value, NEW s, StoreFits(s, own, read),
         NEW p \in Property, NEW w, Settable(p, own, w),
         NEW r \in Accessors!Setter(s, p, w)
  PROVE  /\ StoreFits(r, own, read) /\ SetterKeeps(s, r, p)
         /\ w = NULL /\ kind[p].type # "Value" => r.ivars[p] = NULL
<1>1. s \in PropertyStore
  BY DEF StoreFits
<1>2. kind[p].type \in {"VoidPointer", "Strdup", "Assign", "Retain", "Copy", "Value"}
  BY KindFacts
<1>3. CASE kind[p].type = "Retain"
  <2>1. r \in Accessors!RetainSetter(s, p, w)
    BY <1>3 DEF Accessors!Setter
  <2>2. w \in Value \cup {NULL} /\ (w = NULL \/ w \in own)
    BY <1>3 DEF Settable
  <2> QED
    BY <1>3, <2>1, <2>2, RetainSetterFits
<1>4. CASE kind[p].type = "Copy"
  <2>1. r \in Accessors!CopySetter(s, p, w)
    BY <1>4 DEF Accessors!Setter
  <2>2. w \in Value \cup {NULL} /\ (w = NULL \/ w \in own)
    BY <1>4 DEF Settable
  <2>3. CASE w \notin Mutable
    <3>1. r \in Accessors!RetainSetter(s, p, w)
      BY <2>1, <2>3 DEF Accessors!CopySetter
    <3> QED
      BY <1>4, <2>2, <3>1, RetainSetterFits
  <2>4. CASE w \in Mutable
    <3>1. w # NULL
      BY <2>4, PropertyOperators
    <3>2. PICK new \in Accessors!New(s) :
            r = Accessors!AutoreleaseIn(Accessors!Keep(Accessors!AllocateIn(s, new), p, new), s.ivars[p])
      BY <2>1, <2>4 DEF Accessors!CopySetter
    <3> QED
      BY <1>4, <3>1, <3>2, NewObjectFits
  <2> QED
    BY <2>3, <2>4
<1>5. CASE kind[p].type = "Strdup"
  <2>1. r \in Accessors!StrdupSetter(s, p, w)
    BY <1>5 DEF Accessors!Setter
  <2>2. CASE w = NULL
    <3>1. r = Accessors!FreeIn(Accessors!Keep(s, p, NULL), s.ivars[p])
      BY <2>1, <2>2 DEF Accessors!StrdupSetter
    <3> QED
      BY <1>5, <3>1, FreeStringFits
  <2>3. CASE w # NULL
    <3>1. PICK new \in Accessors!New(s) :
            r = Accessors!FreeIn(Accessors!Keep(Accessors!AllocateIn(s, new), p, new), s.ivars[p])
      BY <2>1, <2>3 DEF Accessors!StrdupSetter
    <3> QED
      BY <1>5, <2>3, <3>1, NewStringFits
  <2> QED
    BY <2>2, <2>3
<1>6. CASE kind[p].type = "Value"
  <2>1. r \in Accessors!GenericValueSetter(s, p)
    BY <1>6 DEF Accessors!Setter, Accessors!Wrapped
  <2>2. PICK new \in Accessors!New(s) :
          r = Accessors!AutoreleaseIn(Accessors!Keep(Accessors!AllocateIn(s, new), p, new), s.ivars[p])
    BY <2>1 DEF Accessors!GenericValueSetter
  <2> QED
    BY <1>6, <2>2, NewObjectFits
<1>7. CASE kind[p].type \in {"VoidPointer", "Assign"}
  <2>1. r = Accessors!Keep(s, p, w)
    BY <1>7 DEF Accessors!Setter, Accessors!Wrapped, Accessors!VoidPointerSetter
  <2>2. w \in Value \cup {NULL} /\ (kind[p].type = "VoidPointer" => w = NULL)
    BY <1>7 DEF Settable
  <2>3. StoreFits(r, own, read)
    BY <1>7, <2>1, <2>2, PointerReplaced
  <2>4. \A q \in Property : r.ivars[q] = IF q = p THEN w ELSE s.ivars[q]
    BY <1>1, <2>1, <2>2, KeepFacts
  <2> QED
    BY <2>3, <2>4 DEF SetterKeeps
<1> QED
  BY <1>2, <1>3, <1>4, <1>5, <1>6, <1>7

(* -finalize, property by property.                                        *)
LEMMA ReleaseObjectFits ==
  ASSUME KindsFit, NEW own, NEW read \in SUBSET Value, NEW s, StoreFits(s, own, read),
         NEW p \in Property, kind[p].type \in {"Retain", "Copy", "Value"},
         NEW r \in PropertyStore, r.rc = s.rc,
         \A q \in Property : r.ivars[q] = IF q = p THEN NULL ELSE s.ivars[q],
         \A v \in Value : r.pool[v] = s.pool[v] + IF v = s.ivars[p] THEN 1 ELSE 0
  PROVE  StoreFits(r, own, read) /\ SetterKeeps(s, r, p) /\ r.ivars[p] = NULL
<1>1. \A v \in Value : s.rc[v] \in Nat /\ v # NULL
  BY PropertyOperators DEF StoreFits, PropertyStore
<1>2. \A v \in Value : r.rc[v] = s.rc[v] + IF v = NULL THEN 1 ELSE 0
  BY <1>1
<1>3. StoreFits(r, own, read)
  BY <1>2, ObjectReplaced
<1> QED
  BY <1>3 DEF SetterKeeps

LEMMA ClearPropertyFits ==
  ASSUME KindsFit, NEW own, NEW read \in SUBSET Value, NEW s, StoreFits(s, own, read),
         NEW p \in Property, NEW r, r = Accessors!ClearProperty(s, p)
  PROVE  /\ StoreFits(r, own, read) /\ SetterKeeps(s, r, p)
         /\ cls = "MulleObject" \/ kind[p].setterclear => r.ivars[p] = NULL
         /\ s.ivars[p] = NULL => r.ivars[p] = NULL
<1>1. s \in PropertyStore /\ s.ivars[p] \in Value \cup {NULL}
  BY DEF StoreFits, PropertyStore
<1>2. /\ kind[p].type \in {"VoidPointer", "Strdup", "Assign", "Retain", "Copy", "Value"}
      /\ kind[p].type \in {"VoidPointer", "Value"} => ~kind[p].setterclear
      /\ kind[p].type = "Assign" => kind[p].setterclear
      /\ kind[p].type = "Value" => cls = "MulleDynamicObject"
      /\ cls \in {"MulleObject", "MulleDynamicObject"}
  BY KindFacts DEF KindsFit
<1>3. CASE kind[p].setterclear
  <2>1. \E a : a \in Accessors!Setter(s, p, NULL)
    BY <1>2, <1>3, PropertyOperators
       DEF Accessors!Setter, Accessors!RetainSetter, Accessors!CopySetter, Accessors!StrdupSetter,
           Accessors!VoidPointerSetter, Accessors!Wrapped
  <2>2. r = CHOOSE a \in Accessors!Setter(s, p, NULL) : TRUE
    BY <1>3 DEF Accessors!ClearProperty
  <2>3. r \in Accessors!Setter(s, p, NULL)
    BY <2>1, <2>2
  <2>4. Settable(p, own, NULL)
    BY DEF Settable
  <2> QED
    BY <1>2, <1>3, <2>3, <2>4, SetterFits
<1>4. CASE ~kind[p].setterclear /\ (cls = "MulleDynamicObject" \/ kind[p].type = "VoidPointer")
  <2>1. r = s
    BY <1>4 DEF Accessors!ClearProperty, Accessors!Plain
  <2>2. kind[p].type = "VoidPointer" => s.ivars[p] = NULL
    BY DEF StoreFits
  <2> QED
    BY <1>4, <2>1, <2>2 DEF SetterKeeps
<1>5. CASE ~kind[p].setterclear /\ cls = "MulleObject" /\ kind[p].type = "Strdup"
  <2>1. r = Accessors!FreeIn(Accessors!Keep(s, p, NULL), s.ivars[p])
    BY <1>5 DEF Accessors!ClearProperty, Accessors!Plain
  <2> QED
    BY <1>5, <2>1, FreeStringFits
<1>6. CASE ~kind[p].setterclear /\ cls = "MulleObject" /\ kind[p].type \in {"Retain", "Copy"}
  <2>1. r = Accessors!AutoreleaseIn(Accessors!Keep(s, p, NULL), s.ivars[p])
    BY <1>6 DEF Accessors!ClearProperty, Accessors!Plain
  <2>2. PICK b : b = Accessors!Keep(s, p, NULL)
    OBVIOUS
  <2>3. /\ b \in PropertyStore /\ b.rc = s.rc /\ b.pool = s.pool
        /\ \A q \in Property : b.ivars[q] = IF q = p THEN NULL ELSE s.ivars[q]
    BY <1>1, <2>2, KeepFacts
  <2>4. /\ r \in PropertyStore /\ r.rc = b.rc /\ r.ivars = b.ivars
        /\ \A v \in Value : r.pool[v] = b.pool[v] + IF v = s.ivars[p] THEN 1 ELSE 0
    BY <1>1, <2>1, <2>2, <2>3, AutoreleaseFacts
  <2> QED
    BY <1>6, <2>3, <2>4, ReleaseObjectFits
<1> QED
  BY <1>2, <1>3, <1>4, <1>5, <1>6

LEMMA ReleaseLeftoverFits ==
  ASSUME KindsFit, NEW own, NEW read \in SUBSET Value, NEW s, StoreFits(s, own, read),
         NEW p \in Property, kind[p].type = "Assign" => s.ivars[p] = NULL,
         NEW r, r = Accessors!ReleaseLeftover(s, p)
  PROVE  StoreFits(r, own, read) /\ SetterKeeps(s, r, p) /\ r.ivars[p] = NULL
<1>1. s \in PropertyStore /\ s.ivars[p] \in Value \cup {NULL}
  BY DEF StoreFits, PropertyStore
<1>2. kind[p].type \in {"VoidPointer", "Strdup", "Assign", "Retain", "Copy", "Value"}
  BY KindFacts
<1>3. PICK a : a = Accessors!release_generic_value(s, p)
  OBVIOUS
<1>4. r = Accessors!Keep(a, p, NULL)
  BY <1>3 DEF Accessors!ReleaseLeftover
<1>5. CASE kind[p].type \in {"VoidPointer", "Assign"}
  <2>1. a = s
    BY <1>3, <1>5 DEF Accessors!release_generic_value, Accessors!Plain, Accessors!AutoreleaseIn
  <2>2. StoreFits(r, own, read)
    BY <1>4, <1>5, <2>1, PointerReplaced
  <2>3. \A q \in Property : r.ivars[q] = IF q = p THEN NULL ELSE s.ivars[q]
    BY <1>1, <1>4, <2>1, KeepFacts
  <2> QED
    BY <2>2, <2>3 DEF SetterKeeps
<1>6. CASE kind[p].type = "Strdup"
  <2>1. a = Accessors!FreeIn(s, s.ivars[p])
    BY <1>3, <1>6 DEF Accessors!release_generic_value, Accessors!Plain
  <2>2. r = Accessors!FreeIn(Accessors!Keep(s, p, NULL), s.ivars[p])
    BY <1>1, <1>4, <2>1 DEF Accessors!FreeIn, Accessors!Keep, PropertyStore
  <2> QED
    BY <1>6, <2>2, FreeStringFits
<1>7. CASE kind[p].type \in {"Retain", "Copy", "Value"}
  <2>1. a = Accessors!AutoreleaseIn(s, s.ivars[p])
    BY <1>3, <1>7 DEF Accessors!release_generic_value, Accessors!Plain
  <2>2. /\ a \in PropertyStore /\ a.rc = s.rc /\ a.ivars = s.ivars
        /\ \A v \in Value : a.pool[v] = s.pool[v] + IF v = s.ivars[p] THEN 1 ELSE 0
    BY <1>1, <2>1, AutoreleaseFacts
  <2>3. /\ r \in PropertyStore /\ r.rc = a.rc /\ r.pool = a.pool
        /\ \A q \in Property : r.ivars[q] = IF q = p THEN NULL ELSE a.ivars[q]
    BY <1>4, <2>2, KeepFacts
  <2> QED
    BY <1>7, <2>2, <2>3, ReleaseObjectFits
<1> QED
  BY <1>2, <1>5, <1>6, <1>7

(* The walks of -finalize, and the stores they pass through.               *)
FittingStores(own, read) == {s \in PropertyStore : StoreFits(s, own, read)}

UnassignedStores(own, read) ==
  {s \in FittingStores(own, read) :
     \A p \in Property : kind[p].type = "Assign" => s.ivars[p] = NULL}

ClearedBy(mode) == {p \in Property : \/ mode = "All"
                                     \/ mode = "OnlyReadOnly" /\ kind[p].readonly
                                     \/ mode = "NonReadOnly" /\ ~kind[p].readonly}

ClearEnds(p) == cls = "MulleObject" \/ kind[p].setterclear

ClearWalk(base, S, g) ==
  g = [s \in SUBSET S |-> IF s = {} THEN base
                          ELSE Accessors!ClearProperty(g[s \ {Pick(s)}], Pick(s))]

LeftoverWalk(base, S, g) ==
  g = [s \in SUBSET S |-> IF s = {} THEN base
                          ELSE Accessors!ReleaseLeftover(g[s \ {Pick(s)}], Pick(s))]

LEMMA ClearPropertiesIsChosen ==
  ASSUME NEW base, NEW mode, NEW S, S = ClearedBy(mode)
  PROVE  Accessors!ClearProperties(base, mode) = (CHOOSE g : ClearWalk(base, S, g))[S]
  BY DEF Accessors!ClearProperties, Accessors!FoldSet, Accessors!MapThenFoldSet, Pick, ClearedBy, ClearWalk

LEMMA LeftoverIsChosen ==
  ASSUME NEW s, NEW base, cls = "MulleDynamicObject", base = Accessors!ClearProperties(s, "NonReadOnly")
  PROVE  Accessors!Finalized(s) = (CHOOSE g : LeftoverWalk(base, Property, g))[Property]
  BY DEF Accessors!Finalized, Accessors!FoldSet, Accessors!MapThenFoldSet, Pick, LeftoverWalk

LEMMA ClearPropertiesFits ==
  ASSUME KindsFit, NEW own, NEW read \in SUBSET Value, NEW base, StoreFits(base, own, read),
         NEW mode
  PROVE  /\ StoreFits(Accessors!ClearProperties(base, mode), own, read)
         /\ \A p \in Property : (p \in ClearedBy(mode) /\ ClearEnds(p)) \/ base.ivars[p] = NULL
              => Accessors!ClearProperties(base, mode).ivars[p] = NULL
<1>1. PICK S : S = ClearedBy(mode)
  OBVIOUS
<1>2. S \subseteq Property /\ IsFiniteSet(S) /\ IsFiniteSet(Property)
  BY <1>1, PropertyOperators, FS_Subset DEF ClearedBy
<1>3. PICK Fitting : Fitting = FittingStores(own, read)
  OBVIOUS
<1>4. \A s : s \in Fitting <=> StoreFits(s, own, read)
  BY <1>3 DEF FittingStores, StoreFits
<1>5. PICK step : step = [p \in Property |-> [s \in Fitting |-> Accessors!ClearProperty(s, p)]]
  OBVIOUS
<1>6. PICK Done : Done = {d \in Property \X Fitting :
                            (d[1] \in S /\ ClearEnds(d[1])) \/ base.ivars[d[1]] = NULL => d[2].ivars[d[1]] = NULL}
  OBVIOUS
<1>7. PICK Kept : Kept = {s \in Fitting : \A p \in Property : base.ivars[p] = NULL => s.ivars[p] = NULL}
  OBVIOUS
<1>8. ASSUME NEW x \in S, NEW s \in Kept
      PROVE  /\ step[x][s] = Accessors!ClearProperty(s, x)
             /\ step[x][s] \in Kept /\ <<x, step[x][s]>> \in Done
             /\ \A y \in S : <<y, s>> \in Done => <<y, step[x][s]>> \in Done
  <2>1. PICK r : r = Accessors!ClearProperty(s, x)
    OBVIOUS
  <2>2. x \in Property /\ s \in Fitting /\ step[x][s] = r
    BY <1>2, <1>5, <1>7, <2>1
  <2>3. /\ StoreFits(r, own, read) /\ SetterKeeps(s, r, x)
        /\ ClearEnds(x) => r.ivars[x] = NULL
        /\ s.ivars[x] = NULL => r.ivars[x] = NULL
    BY <1>4, <2>1, <2>2, ClearPropertyFits DEF ClearEnds
  <2>4. \A y \in Property : s.ivars[y] = NULL => r.ivars[y] = NULL
    BY <2>3 DEF SetterKeeps
  <2>5. r \in Kept
    BY <1>4, <1>7, <2>3, <2>4
  <2>6. r.ivars[x] = NULL \/ ~(ClearEnds(x) \/ base.ivars[x] = NULL)
    BY <1>7, <2>2, <2>3
  <2>7. <<x, r>> \in Done
    BY <1>6, <1>7, <2>2, <2>5, <2>6
  <2>8. ASSUME NEW y \in S, <<y, s>> \in Done PROVE <<y, r>> \in Done
    <3>1. (y \in S /\ ClearEnds(y)) \/ base.ivars[y] = NULL => s.ivars[y] = NULL
      BY <1>6, <2>8
    <3>2. (y \in S /\ ClearEnds(y)) \/ base.ivars[y] = NULL => r.ivars[y] = NULL
      BY <1>2, <2>4, <3>1
    <3> QED
      BY <1>2, <1>6, <1>7, <2>5, <3>2
  <2> QED
    BY <2>1, <2>2, <2>5, <2>7, <2>8
<1>9. base \in Kept
  BY <1>4, <1>7
<1>10. PICK g : Walks(step, base, S, g)
  BY <1>2, WalkExists
<1>11. \A R \in SUBSET S : g[R] = IF R = {} THEN base ELSE step[Pick(R)][g[R \ {Pick(R)}]]
  BY <1>10 DEF Walks
<1>12. \A R \in SUBSET S : g[R] \in Kept /\ \A x \in R : <<x, g[R]>> \in Done
  <2>1. g[{}] \in Kept
    BY <1>9, <1>11
  <2>2. \A R \in SUBSET S : R # {} /\ g[R \ {Pick(R)}] \in Kept
                              => g[R] = step[Pick(R)][g[R \ {Pick(R)}]]
    BY <1>11
  <2>3. \A x \in S, s \in Kept : /\ step[x][s] \in Kept /\ <<x, step[x][s]>> \in Done
                                 /\ \A y \in S : <<y, s>> \in Done => <<y, step[x][s]>> \in Done
    BY <1>8
  <2>4. WalkFits(S, step, Kept, Done, g)
    BY <2>1, <2>2, <2>3 DEF WalkFits
  <2> QED
    BY <1>2, <2>4, WalkKeeps
<1>13. ClearWalk(base, S, g)
  <2>1. ASSUME NEW R \in SUBSET S, R # {}
        PROVE  g[R] = Accessors!ClearProperty(g[R \ {Pick(R)}], Pick(R))
    <3>1. Pick(R) \in R
      BY <2>1 DEF Pick
    <3>2. Pick(R) \in S /\ R \ {Pick(R)} \in SUBSET S
      BY <3>1
    <3>3. g[R \ {Pick(R)}] \in Kept
      BY <1>12, <3>2
    <3> QED
      BY <1>8, <1>11, <2>1, <3>2, <3>3
  <2>2. g[{}] = base
    BY <1>11
  <2>3. g = [R \in SUBSET S |-> IF R = {} THEN base ELSE step[Pick(R)][g[R \ {Pick(R)}]]]
    BY <1>10 DEF Walks
  <2>4. \A R \in SUBSET S : g[R] = IF R = {} THEN base
                                   ELSE Accessors!ClearProperty(g[R \ {Pick(R)}], Pick(R))
    BY <2>1, <2>2
  <2> QED
    BY <2>3, <2>4 DEF ClearWalk
<1>14. PICK h : h = CHOOSE a : ClearWalk(base, S, a)
  OBVIOUS
<1>15. ClearWalk(base, S, h)
  BY <1>13, <1>14
<1>16. Accessors!ClearProperties(base, mode) = h[S]
  BY <1>1, <1>14, ClearPropertiesIsChosen
<1>17. \A R \in SUBSET S : h[R] = IF R = {} THEN base
                                  ELSE Accessors!ClearProperty(h[R \ {Pick(R)}], Pick(R))
  BY <1>15 DEF ClearWalk
<1>18. \A R \in SUBSET S : h[R] \in Kept /\ \A x \in R : <<x, h[R]>> \in Done
  <2>1. h[{}] \in Kept
    BY <1>9, <1>17
  <2>2. ASSUME NEW R \in SUBSET S, R # {}, h[R \ {Pick(R)}] \in Kept
        PROVE  h[R] = step[Pick(R)][h[R \ {Pick(R)}]]
    <3>1. Pick(R) \in S
      BY <2>2 DEF Pick
    <3> QED
      BY <1>8, <1>17, <2>2, <3>1
  <2>3. \A x \in S, s \in Kept : /\ step[x][s] \in Kept /\ <<x, step[x][s]>> \in Done
                                 /\ \A y \in S : <<y, s>> \in Done => <<y, step[x][s]>> \in Done
    BY <1>8
  <2>4. WalkFits(S, step, Kept, Done, h)
    BY <2>1, <2>2, <2>3 DEF WalkFits
  <2> QED
    BY <1>2, <2>4, WalkKeeps
<1>19. h[S] \in Kept /\ \A x \in S : <<x, h[S]>> \in Done
  BY <1>18
<1>20. StoreFits(h[S], own, read) /\ \A p \in Property : base.ivars[p] = NULL => h[S].ivars[p] = NULL
  BY <1>4, <1>7, <1>19
<1>21. \A p \in S : ClearEnds(p) => h[S].ivars[p] = NULL
  BY <1>6, <1>19
<1> QED
  BY <1>1, <1>16, <1>20, <1>21

LEMMA LeftoverFits ==
  ASSUME KindsFit, NEW own, NEW read \in SUBSET Value, NEW base, StoreFits(base, own, read),
         \A p \in Property : kind[p].type = "Assign" => base.ivars[p] = NULL,
         NEW f, f = (CHOOSE g : LeftoverWalk(base, Property, g))[Property]
  PROVE  StoreFits(f, own, read) /\ \A p \in Property : f.ivars[p] = NULL
<1>1. IsFiniteSet(Property)
  BY PropertyOperators
<1>2. PICK Kept : Kept = UnassignedStores(own, read)
  OBVIOUS
<1>3. \A s : s \in Kept <=> /\ StoreFits(s, own, read)
                            /\ \A p \in Property : kind[p].type = "Assign" => s.ivars[p] = NULL
  BY <1>2 DEF UnassignedStores, FittingStores, StoreFits
<1>4. PICK step : step = [p \in Property |-> [s \in Kept |-> Accessors!ReleaseLeftover(s, p)]]
  OBVIOUS
<1>5. PICK Done : Done = {d \in Property \X Kept : d[2].ivars[d[1]] = NULL}
  OBVIOUS
<1>6. ASSUME NEW x \in Property, NEW s \in Kept
      PROVE  /\ step[x][s] = Accessors!ReleaseLeftover(s, x)
             /\ step[x][s] \in Kept /\ <<x, step[x][s]>> \in Done
             /\ \A y \in Property : <<y, s>> \in Done => <<y, step[x][s]>> \in Done
  <2>1. PICK r : r = Accessors!ReleaseLeftover(s, x)
    OBVIOUS
  <2>2. step[x][s] = r
    BY <1>4, <2>1
  <2>3. StoreFits(r, own, read) /\ SetterKeeps(s, r, x) /\ r.ivars[x] = NULL
    BY <1>3, <2>1, ReleaseLeftoverFits
  <2>4. \A y \in Property : s.ivars[y] = NULL => r.ivars[y] = NULL
    BY <2>3 DEF SetterKeeps
  <2>5. r \in Kept
    BY <1>3, <2>3, <2>4
  <2>6. <<x, r>> \in Done
    BY <1>5, <2>3, <2>5
  <2>7. ASSUME NEW y \in Property, <<y, s>> \in Done PROVE <<y, r>> \in Done
    <3>1. s.ivars[y] = NULL
      BY <1>5, <2>7
    <3> QED
      BY <1>5, <2>4, <2>5, <3>1
  <2> QED
    BY <2>1, <2>2, <2>5, <2>6, <2>7
<1>7. base \in Kept
  BY <1>3
<1>8. PICK g : Walks(step, base, Property, g)
  BY <1>1, WalkExists
<1>9. \A R \in SUBSET Property : g[R] = IF R = {} THEN base ELSE step[Pick(R)][g[R \ {Pick(R)}]]
  BY <1>8 DEF Walks
<1>10. \A R \in SUBSET Property : g[R] \in Kept /\ \A x \in R : <<x, g[R]>> \in Done
  <2>1. g[{}] \in Kept
    BY <1>7, <1>9
  <2>2. \A R \in SUBSET Property : R # {} /\ g[R \ {Pick(R)}] \in Kept
                                     => g[R] = step[Pick(R)][g[R \ {Pick(R)}]]
    BY <1>9
  <2>3. WalkFits(Property, step, Kept, Done, g)
    BY <1>6, <2>1, <2>2 DEF WalkFits
  <2> QED
    BY <1>1, <2>3, WalkKeeps
<1>11. LeftoverWalk(base, Property, g)
  <2>1. ASSUME NEW R \in SUBSET Property, R # {}
        PROVE  g[R] = Accessors!ReleaseLeftover(g[R \ {Pick(R)}], Pick(R))
    <3>1. Pick(R) \in Property /\ R \ {Pick(R)} \in SUBSET Property
      BY <2>1 DEF Pick
    <3>2. g[R \ {Pick(R)}] \in Kept
      BY <1>10, <3>1
    <3> QED
      BY <1>6, <1>9, <2>1, <3>1, <3>2
  <2>2. \A R \in SUBSET Property : g[R] = IF R = {} THEN base
                                          ELSE Accessors!ReleaseLeftover(g[R \ {Pick(R)}], Pick(R))
    BY <1>9, <2>1
  <2>3. g = [R \in SUBSET Property |-> IF R = {} THEN base ELSE step[Pick(R)][g[R \ {Pick(R)}]]]
    BY <1>8 DEF Walks
  <2> QED
    BY <2>2, <2>3 DEF LeftoverWalk
<1>12. PICK h : h = CHOOSE a : LeftoverWalk(base, Property, a)
  OBVIOUS
<1>13. LeftoverWalk(base, Property, h)
  BY <1>11, <1>12
<1>14. \A R \in SUBSET Property : h[R] = IF R = {} THEN base
                                         ELSE Accessors!ReleaseLeftover(h[R \ {Pick(R)}], Pick(R))
  BY <1>13 DEF LeftoverWalk
<1>15. \A R \in SUBSET Property : h[R] \in Kept /\ \A x \in R : <<x, h[R]>> \in Done
  <2>1. h[{}] \in Kept
    BY <1>7, <1>14
  <2>2. ASSUME NEW R \in SUBSET Property, R # {}, h[R \ {Pick(R)}] \in Kept
        PROVE  h[R] = step[Pick(R)][h[R \ {Pick(R)}]]
    <3>1. Pick(R) \in Property
      BY <2>2 DEF Pick
    <3> QED
      BY <1>6, <1>14, <2>2, <3>1
  <2>3. WalkFits(Property, step, Kept, Done, h)
    BY <1>6, <2>1, <2>2 DEF WalkFits
  <2> QED
    BY <1>1, <2>3, WalkKeeps
<1>16. h[Property] \in Kept /\ \A x \in Property : <<x, h[Property]>> \in Done
  BY <1>15
<1>17. f = h[Property]
  BY <1>12
<1>18. \A x \in Property : h[Property].ivars[x] = NULL
  BY <1>5, <1>16
<1> QED
  BY <1>3, <1>16, <1>17, <1>18

LEMMA FinalizedFits ==
  ASSUME KindsFit, NEW own, NEW read \in SUBSET Value, NEW s, StoreFits(s, own, read),
         NEW f, f = Accessors!Finalized(s)
  PROVE  StoreFits(f, own, read) /\ \A p \in Property : f.ivars[p] = NULL
<1>1. CASE cls = "MulleObject"
  <2>0. \A p \in Property : ClearEnds(p)
    BY <1>1 DEF ClearEnds
  <2>1. PICK a : a = Accessors!ClearProperties(s, "OnlyReadOnly")
    OBVIOUS
  <2>2. StoreFits(a, own, read) /\ \A p \in ClearedBy("OnlyReadOnly") : a.ivars[p] = NULL
    BY <2>0, <2>1, ClearPropertiesFits DEF ClearedBy
  <2>3. f = Accessors!ClearProperties(a, "NonReadOnly")
    BY <1>1, <2>1 DEF Accessors!Finalized
  <2>4. /\ StoreFits(f, own, read) /\ \A p \in ClearedBy("NonReadOnly") : f.ivars[p] = NULL
        /\ \A p \in Property : a.ivars[p] = NULL => f.ivars[p] = NULL
    <3>1. StoreFits(a, own, read)
      BY <2>2
    <3>0. PICK mode : mode = "NonReadOnly"
      OBVIOUS
    <3>2. /\ StoreFits(Accessors!ClearProperties(a, mode), own, read)
          /\ \A p \in Property : (p \in ClearedBy(mode) /\ ClearEnds(p)) \/ a.ivars[p] = NULL
               => Accessors!ClearProperties(a, mode).ivars[p] = NULL
      BY <3>1, ClearPropertiesFits
    <3>3. \A p \in ClearedBy("NonReadOnly") : p \in Property
      BY DEF ClearedBy
    <3> QED
      BY <2>0, <2>3, <3>0, <3>2, <3>3
  <2>5. \A p \in Property : p \in ClearedBy("OnlyReadOnly") \/ p \in ClearedBy("NonReadOnly")
    BY DEF ClearedBy
  <2> QED
    BY <2>2, <2>4, <2>5
<1>2. CASE cls = "MulleDynamicObject"
  <2>1. PICK a : a = Accessors!ClearProperties(s, "NonReadOnly")
    OBVIOUS
  <2>2. StoreFits(a, own, read)
    BY <2>1, ClearPropertiesFits
  <2>3. ASSUME NEW p \in Property, kind[p].type = "Assign" PROVE a.ivars[p] = NULL
    <3>1. p \in ClearedBy("NonReadOnly") /\ ClearEnds(p)
      BY <1>2, <2>3, KindFacts DEF ClearedBy, ClearEnds
    <3> QED
      BY <2>1, <3>1, ClearPropertiesFits
  <2>4. f = (CHOOSE g : LeftoverWalk(a, Property, g))[Property]
    BY <1>2, <2>1, LeftoverIsChosen
  <2> QED
    BY <2>2, <2>3, <2>4, LeftoverFits
<1> QED
  BY <1>1, <1>2 DEF KindsFit

(* The object: it has references to give back, until it is gone.           *)
SelfRefs == [rc : Nat, owned : Nat, pool : Nat]

PropertiesInv ==
  /\ KindsFit
  /\ phase \in {"none", "live", "finalized", "gone"}
  /\ owned \subseteq Value /\ borrowed \subseteq Value
  /\ StoreFits(Accessors!Store, owned, borrowed)
  /\ phase # "live" => \A p \in Property : ivars[p] = NULL
  /\ selfRefs \in SelfRefs
  /\ selfRefs.rc = selfRefs.owned + selfRefs.pool
  /\ phase \in {"none", "gone"} => selfRefs.rc = 0
  /\ ~complained

LEMMA PropertyFacts ==
  ASSUME PropertiesInv
  PROVE  /\ KindsFit /\ borrowed \in SUBSET Value /\ owned \in SUBSET Value
         /\ StoreFits(Accessors!Store, owned, borrowed) /\ Accessors!Store \in PropertyStore
         /\ Accessors!Store.ivars = ivars /\ Accessors!Store.rc = rc /\ Accessors!Store.pool = pool
         /\ ivars \in [Property -> Value \cup {NULL}]
         /\ rc \in [Value -> Nat] /\ pool \in [Value -> Nat]
         /\ selfRefs \in SelfRefs
         /\ selfRefs.rc \in Nat /\ selfRefs.owned \in Nat /\ selfRefs.pool \in Nat
         /\ selfRefs.rc = selfRefs.owned + selfRefs.pool
  BY DEF PropertiesInv, StoreFits, PropertyStore, Accessors!Store, SelfRefs

LEMMA PropertiesInit == Accessors!Init => PropertiesInv
<1> SUFFICES ASSUME Accessors!Init PROVE PropertiesInv
  OBVIOUS
<1>1. KindsFit
  BY DEF Accessors!Init, KindsFit
<1>2. ivars = [p \in Property |-> NULL] /\ rc = [v \in Value |-> 0] /\ pool = [v \in Value |-> 0]
      /\ owned = {} /\ borrowed = {}
  BY DEF Accessors!Init, Accessors!Nothing
<1>3. PICK s : s = Accessors!Store
  OBVIOUS
<1>4. s \in PropertyStore /\ s.ivars = ivars /\ s.rc = rc /\ s.pool = pool
  BY <1>2, <1>3 DEF Accessors!Store, PropertyStore
<1>5. ValuesBalance(s, owned)
  <2>1. ASSUME NEW v \in Value PROVE Cardinality(Holders(s, v)) = 0 /\ OwnedOnce(owned, v) = 0
    <3>1. Holders(s, v) = {}
      BY <1>2, <1>4, PropertyOperators DEF Holders
    <3> QED
      BY <1>2, <3>1, FS_EmptySet DEF OwnedOnce
  <2> QED
    BY <1>2, <1>4, <2>1 DEF ValuesBalance
<1>6. StoreFits(s, owned, borrowed)
  BY <1>2, <1>4, <1>5 DEF StoreFits, StringsFit, ReadsFit
<1>7. /\ phase = "none" /\ selfRefs = [rc |-> 0, owned |-> 0, pool |-> 0] /\ complained = FALSE
  BY DEF Accessors!Init
<1> QED
  BY <1>1, <1>2, <1>3, <1>6, <1>7 DEF PropertiesInv, SelfRefs

(* Steps that leave the object alone but for its store, or its values.     *)
LEMMA StoreNext ==
  ASSUME NEW s, NEW own, NEW read, StoreFits(s, own, read), Accessors!Becomes(s),
         kind' = kind, owned' = own, borrowed' = read
  PROVE  StoreFits(Accessors!Store, owned, borrowed)'
<1>1. s = [ivars |-> s.ivars, rc |-> s.rc, pool |-> s.pool]
  BY DEF StoreFits, PropertyStore
<1>2. [ivars |-> ivars', rc |-> rc', pool |-> pool'] = s
  BY <1>1 DEF Accessors!Becomes
<1>3. StoreFits([ivars |-> ivars', rc |-> rc', pool |-> pool'], own, read)
  BY <1>2
<1> QED
  BY <1>3 DEF Accessors!Store, StoreFits, ValuesBalance, Holders, KeepsValue, StringsFit, ReadsFit, KeepsObject

LEMMA ValuesStep ==
  ASSUME PropertiesInv, NEW s, NEW own \in SUBSET Value, NEW read \in SUBSET Value,
         StoreFits(s, own, read), Accessors!Becomes(s),
         cls' = cls, kind' = kind, phase' = phase, owned' = own, borrowed' = read,
         selfRefs' = selfRefs, complained' = complained,
         phase = "live" \/ ivars' = ivars
  PROVE  PropertiesInv'
<1>1. StoreFits(Accessors!Store, owned, borrowed)'
  BY StoreNext
<1>2. KindsFit'
  BY DEF PropertiesInv, KindsFit
<1> QED
  BY <1>1, <1>2 DEF PropertiesInv

LEMMA SetStep ==
  ASSUME PropertiesInv, NEW p \in Property, NEW v \in Accessors!Passable(p),
         Accessors!Set(p, v) \/ Accessors!SetReadonly(p, v)
  PROVE  PropertiesInv'
<1>1. PICK s \in Accessors!Setter(Accessors!Store, p, v) : Accessors!Becomes(s)
  BY DEF Accessors!Set, Accessors!SetReadonly
<1>2. /\ cls' = cls /\ kind' = kind /\ phase' = phase /\ owned' = owned /\ borrowed' = borrowed
      /\ selfRefs' = selfRefs /\ complained' = complained /\ phase = "live"
  BY DEF Accessors!Set, Accessors!SetReadonly, Accessors!Client
<1>3. KindsFit /\ owned \in SUBSET Value /\ borrowed \in SUBSET Value
      /\ StoreFits(Accessors!Store, owned, borrowed)
  BY PropertyFacts
<1>4. Settable(p, owned, v)
  BY <1>3 DEF Settable, Accessors!Passable, Accessors!IsObject
<1>5. StoreFits(s, owned, borrowed)
  BY <1>3, <1>4, SetterFits
<1> QED
  BY <1>1, <1>2, <1>3, <1>5, ValuesStep

LEMMA ReadsMore ==
  ASSUME NEW own, NEW read, NEW s, StoreFits(s, own, read),
         NEW p \in Property, KeepsObject(p)
  PROVE  StoreFits(s, own, read \cup {s.ivars[p]})
  BY DEF StoreFits, ReadsFit

LEMMA ReadStep ==
  ASSUME PropertiesInv, NEW p \in Property, Accessors!Get(p)
  PROVE  PropertiesInv'
<1>1. PICK s : s = Accessors!Store
  OBVIOUS
<1>2. /\ StoreFits(s, owned, borrowed) /\ s.ivars = ivars /\ s.rc = rc /\ s.pool = pool
      /\ ivars[p] \in Value \cup {NULL} /\ borrowed \in SUBSET Value /\ owned \in SUBSET Value
  BY <1>1, PropertyFacts
<1>3. /\ cls' = cls /\ kind' = kind /\ phase' = phase /\ owned' = owned
      /\ borrowed' = borrowed \cup {ivars[p]} /\ selfRefs' = selfRefs /\ complained' = complained
      /\ phase = "live" /\ KeepsObject(p) /\ ivars[p] # NULL
      /\ ivars' = ivars /\ rc' = rc /\ pool' = pool
  BY DEF Accessors!Get, Accessors!Client, KeepsObject
<1>4. Accessors!Becomes(s)
  BY <1>2, <1>3 DEF Accessors!Becomes
<1>5. StoreFits(s, owned, borrowed \cup {ivars[p]})
  BY <1>2, <1>3, ReadsMore
<1>6. borrowed \cup {ivars[p]} \in SUBSET Value
  BY <1>2, <1>3
<1> QED
  BY <1>2, <1>3, <1>4, <1>5, <1>6, ValuesStep

LEMMA RelationshipStep ==
  ASSUME PropertiesInv, NEW p \in Property, NEW changed \in Value,
         Accessors!RetainGetterWillReadRelationship(p, changed)
  PROVE  PropertiesInv'
<1>1. PICK s : s = Accessors!Store
  OBVIOUS
<1>2. /\ StoreFits(s, owned, borrowed) /\ s.ivars = ivars /\ s \in PropertyStore /\ KindsFit
      /\ ivars[p] \in Value \cup {NULL} /\ borrowed \in SUBSET Value /\ owned \in SUBSET Value
  BY <1>1, PropertyFacts
<1>3. PICK a : a = Accessors!AutoreleaseIn(s, ivars[p])
  OBVIOUS
<1>4. /\ a \in PropertyStore /\ a.rc = s.rc /\ a.ivars = s.ivars
      /\ \A v \in Value : a.pool[v] = s.pool[v] + IF v = s.ivars[p] THEN 1 ELSE 0
  BY <1>2, <1>3, AutoreleaseFacts
<1>5. PICK b : b = Accessors!Keep(a, p, changed)
  OBVIOUS
<1>6. /\ b \in PropertyStore /\ b.rc = a.rc /\ b.pool = a.pool
      /\ \A q \in Property : b.ivars[q] = IF q = p THEN changed ELSE a.ivars[q]
  BY <1>4, <1>5, KeepFacts
<1>7. PICK c : c = Accessors!RetainIn(b, changed)
  OBVIOUS
<1>8. /\ c \in PropertyStore /\ c.pool = b.pool /\ c.ivars = b.ivars
      /\ \A v \in Value : c.rc[v] = b.rc[v] + IF v = changed THEN 1 ELSE 0
  BY <1>6, <1>7, RetainFacts
<1>9. /\ cls' = cls /\ kind' = kind /\ phase' = phase /\ owned' = owned
      /\ borrowed' = borrowed \cup {changed} /\ selfRefs' = selfRefs /\ complained' = complained
      /\ phase = "live" /\ KeepsObject(p) /\ changed \in owned
      /\ kind[p].type \notin {"VoidPointer", "Assign", "Strdup"}
      /\ Accessors!Becomes(c)
  BY <1>1, <1>3, <1>5, <1>7
     DEF Accessors!RetainGetterWillReadRelationship, Accessors!Client, KeepsObject
<1>10. /\ \A q \in Property : c.ivars[q] = IF q = p THEN changed ELSE s.ivars[q]
       /\ \A v \in Value : c.rc[v] = s.rc[v] + IF v = changed THEN 1 ELSE 0
       /\ \A v \in Value : c.pool[v] = s.pool[v] + IF v = s.ivars[p] THEN 1 ELSE 0
  BY <1>4, <1>6, <1>8
<1>11. StoreFits(c, owned, borrowed)
  BY <1>2, <1>8, <1>9, <1>10, ObjectReplaced
<1>12. c.ivars[p] = changed
  BY <1>10
<1>13. StoreFits(c, owned, borrowed \cup {changed})
  BY <1>9, <1>11, <1>12, ReadsMore
<1>14. borrowed \cup {changed} \in SUBSET Value
  BY <1>2
<1> QED
  BY <1>2, <1>9, <1>13, <1>14, ValuesStep

LEMMA MakeValueStep ==
  ASSUME PropertiesInv, NEW v \in Value, Accessors!CreateValue(v)
  PROVE  PropertiesInv'
<1>1. PICK s : s = Accessors!Store
  OBVIOUS
<1>2. /\ StoreFits(s, owned, borrowed) /\ s \in PropertyStore /\ KindsFit
      /\ s.ivars = ivars /\ s.rc = rc /\ s.pool = pool
      /\ rc \in [Value -> Nat] /\ borrowed \in SUBSET Value /\ owned \in SUBSET Value
  BY <1>1, PropertyFacts
<1>3. /\ cls' = cls /\ kind' = kind /\ phase' = phase /\ owned' = owned \cup {v}
      /\ borrowed' = borrowed /\ selfRefs' = selfRefs /\ complained' = complained
      /\ ivars' = ivars /\ pool' = pool /\ rc[v] = 0 /\ rc' = [rc EXCEPT ![v] = 1]
  BY DEF Accessors!CreateValue
<1>4. PICK t : t = [ivars |-> ivars, rc |-> rc', pool |-> pool]
  OBVIOUS
<1>5. /\ t \in PropertyStore /\ t.ivars = s.ivars /\ t.pool = s.pool
      /\ \A o \in Value : t.rc[o] = IF o = v THEN 1 ELSE s.rc[o]
  BY <1>2, <1>3, <1>4 DEF PropertyStore
<1>6. ValuesBalance(t, owned \cup {v})
  <2> SUFFICES ASSUME NEW o \in Value
               PROVE  t.rc[o] = Cardinality(Holders(t, o)) + t.pool[o] + OwnedOnce(owned \cup {v}, o)
    BY DEF ValuesBalance
  <2>1. Holders(t, o) = Holders(s, o)
    BY <1>5 DEF Holders
  <2>2. s.rc[o] = Cardinality(Holders(s, o)) + s.pool[o] + OwnedOnce(owned, o)
    BY <1>2 DEF StoreFits, ValuesBalance
  <2>3. Cardinality(Holders(s, o)) \in Nat /\ s.pool[o] \in Nat /\ OwnedOnce(owned, o) \in Nat
    <3>1. IsFiniteSet(Holders(s, o))
      BY PropertyOperators, FS_Subset DEF Holders
    <3> QED
      BY <1>2, <3>1, FS_CardinalityType DEF PropertyStore, OwnedOnce
  <2>4. CASE o = v
    <3>1. Cardinality(Holders(s, o)) = 0 /\ s.pool[o] = 0
      BY <1>2, <1>3, <2>2, <2>3, <2>4
    <3> QED
      BY <1>5, <2>1, <2>4, <3>1 DEF OwnedOnce
  <2>5. CASE o # v
    <3>1. OwnedOnce(owned \cup {v}, o) = OwnedOnce(owned, o)
      BY <2>5 DEF OwnedOnce
    <3> QED
      BY <1>5, <2>1, <2>2, <2>5, <3>1
  <2> QED
    BY <2>4, <2>5
<1>7. \A q \in Property : kind[q].type = "Strdup" /\ s.ivars[q] # NULL => s.ivars[q] # v
  BY <1>2, <1>3, NotAString
<1>8. StringsFit(t)
  <2> SUFFICES ASSUME NEW q \in Property, kind[q].type = "Strdup", t.ivars[q] # NULL
               PROVE  t.rc[t.ivars[q]] = 1
    BY DEF StringsFit
  <2>1. s.ivars[q] \in Value /\ s.rc[s.ivars[q]] = 1
    BY <1>2, <1>5, StringIsHeldOnce
  <2> QED
    BY <1>5, <1>7, <2>1
<1>9. StoreFits(t, owned \cup {v}, borrowed)
  <2>1. ReadsFit(t, borrowed)
    BY <1>2, <1>5 DEF StoreFits, ReadsFit
  <2>2. \A q \in Property : kind[q].type = "VoidPointer" => t.ivars[q] = NULL
    BY <1>2, <1>5 DEF StoreFits
  <2> QED
    BY <1>5, <1>6, <1>8, <2>1, <2>2 DEF StoreFits
<1>10. Accessors!Becomes(t)
  BY <1>3, <1>4 DEF Accessors!Becomes
<1>11. owned \cup {v} \in SUBSET Value
  BY <1>2
<1> QED
  BY <1>2, <1>3, <1>9, <1>10, <1>11, ValuesStep

LEMMA GiveUpValueStep ==
  ASSUME PropertiesInv, NEW v \in Value, Accessors!ReleaseValue(v)
  PROVE  PropertiesInv'
<1>1. PICK s : s = Accessors!Store
  OBVIOUS
<1>2. /\ StoreFits(s, owned, borrowed) /\ s \in PropertyStore /\ KindsFit
      /\ s.ivars = ivars /\ s.rc = rc /\ s.pool = pool
      /\ rc \in [Value -> Nat] /\ borrowed \in SUBSET Value /\ owned \in SUBSET Value
  BY <1>1, PropertyFacts
<1>3. /\ cls' = cls /\ kind' = kind /\ phase' = phase /\ owned' = owned \ {v} /\ v \in owned
      /\ borrowed' = borrowed /\ selfRefs' = selfRefs /\ complained' = complained
      /\ ivars' = ivars /\ pool' = pool /\ rc' = [rc EXCEPT ![v] = rc[v] - 1]
  BY DEF Accessors!ReleaseValue
<1>4. ASSUME NEW o \in Value
      PROVE  /\ s.rc[o] = Cardinality(Holders(s, o)) + s.pool[o] + OwnedOnce(owned, o)
             /\ s.rc[o] \in Nat /\ Cardinality(Holders(s, o)) \in Nat /\ s.pool[o] \in Nat
             /\ OwnedOnce(owned, o) \in Nat
  <2>1. IsFiniteSet(Holders(s, o))
    BY PropertyOperators, FS_Subset DEF Holders
  <2> QED
    BY <1>2, <2>1, FS_CardinalityType DEF StoreFits, ValuesBalance, PropertyStore, OwnedOnce
<1>5. rc[v] >= 1
  <2>1. OwnedOnce(owned, v) = 1
    BY <1>3 DEF OwnedOnce
  <2> QED
    BY <1>2, <1>4, <2>1
<1>6. PICK t : t = [ivars |-> ivars, rc |-> rc', pool |-> pool]
  OBVIOUS
<1>7. /\ t \in PropertyStore /\ t.ivars = s.ivars /\ t.pool = s.pool
      /\ \A o \in Value : t.rc[o] = IF o = v THEN s.rc[v] - 1 ELSE s.rc[o]
  BY <1>2, <1>3, <1>5, <1>6 DEF PropertyStore
<1>8. ValuesBalance(t, owned \ {v})
  <2> SUFFICES ASSUME NEW o \in Value
               PROVE  t.rc[o] = Cardinality(Holders(t, o)) + t.pool[o] + OwnedOnce(owned \ {v}, o)
    BY DEF ValuesBalance
  <2>1. Holders(t, o) = Holders(s, o)
    BY <1>7 DEF Holders
  <2>2. OwnedOnce(owned \ {v}, o) = IF o = v THEN OwnedOnce(owned, o) - 1 ELSE OwnedOnce(owned, o)
    BY <1>3 DEF OwnedOnce
  <2> QED
    BY <1>4, <1>7, <2>1, <2>2
<1>9. \A q \in Property : kind[q].type = "Strdup" /\ s.ivars[q] # NULL => s.ivars[q] # v
  BY <1>2, <1>3, NotAString
<1>10. StringsFit(t)
  <2> SUFFICES ASSUME NEW q \in Property, kind[q].type = "Strdup", t.ivars[q] # NULL
               PROVE  t.rc[t.ivars[q]] = 1
    BY DEF StringsFit
  <2>1. s.ivars[q] \in Value /\ s.rc[s.ivars[q]] = 1
    BY <1>2, <1>7, StringIsHeldOnce
  <2> QED
    BY <1>7, <1>9, <2>1
<1>11. StoreFits(t, owned \ {v}, borrowed)
  <2>1. ReadsFit(t, borrowed)
    BY <1>2, <1>7 DEF StoreFits, ReadsFit
  <2>2. \A q \in Property : kind[q].type = "VoidPointer" => t.ivars[q] = NULL
    BY <1>2, <1>7 DEF StoreFits
  <2> QED
    BY <1>7, <1>8, <1>10, <2>1, <2>2 DEF StoreFits
<1>12. Accessors!Becomes(t)
  BY <1>3, <1>6 DEF Accessors!Becomes
<1>13. owned \ {v} \in SUBSET Value
  BY <1>2
<1> QED
  BY <1>2, <1>3, <1>11, <1>12, <1>13, ValuesStep

LEMMA SameStore ==
  ASSUME PropertiesInv, ivars' = ivars, rc' = rc, pool' = pool,
         kind' = kind, owned' = owned, borrowed' = borrowed
  PROVE  StoreFits(Accessors!Store, owned, borrowed)'
<1>1. Accessors!Becomes(Accessors!Store)
  BY DEF Accessors!Becomes, Accessors!Store
<1>2. StoreFits(Accessors!Store, owned, borrowed)
  BY PropertyFacts
<1> QED
  BY <1>1, <1>2, StoreNext

LEMMA FinalizeStep ==
  ASSUME PropertiesInv, Accessors!_MulleObjCStandardFinalize,
         kind' = kind, owned' = owned, borrowed' = borrowed
  PROVE  StoreFits(Accessors!Store, owned, borrowed)' /\ \A p \in Property : ivars'[p] = NULL
<1>1. PICK s : s = Accessors!Store
  OBVIOUS
<1>2. /\ StoreFits(s, owned, borrowed) /\ KindsFit /\ borrowed \in SUBSET Value /\ s.ivars = ivars
  BY <1>1, PropertyFacts
<1>3. PICK f : f = IF phase = "live" THEN Accessors!Finalized(s) ELSE s
  OBVIOUS
<1>4. StoreFits(f, owned, borrowed) /\ \A p \in Property : f.ivars[p] = NULL
  <2>1. CASE phase = "live"
    BY <1>2, <1>3, <2>1, FinalizedFits
  <2>2. CASE phase # "live"
    BY <1>2, <1>3, <2>2 DEF PropertiesInv
  <2> QED
    BY <2>1, <2>2
<1>5. Accessors!Becomes(f)
  BY <1>1, <1>3 DEF Accessors!_MulleObjCStandardFinalize
<1>6. StoreFits(Accessors!Store, owned, borrowed)'
  BY <1>4, <1>5, StoreNext
<1> QED
  BY <1>4, <1>5, <1>6 DEF Accessors!Becomes

LEMMA LifeStep ==
  ASSUME PropertiesInv, cls' = cls, kind' = kind, owned' = owned, borrowed' \in SUBSET Value,
         phase' \in {"none", "live", "finalized", "gone"},
         StoreFits(Accessors!Store, owned, borrowed)',
         phase' # "live" => \A p \in Property : ivars'[p] = NULL,
         selfRefs' \in SelfRefs,
         selfRefs'.rc = selfRefs'.owned + selfRefs'.pool,
         phase' \in {"none", "gone"} => selfRefs'.rc = 0,
         ~complained'
  PROVE  PropertiesInv'
<1>1. KindsFit'
  BY DEF PropertiesInv, KindsFit
<1> QED
  BY <1>1 DEF PropertiesInv

LEMMA BirthStep ==
  ASSUME PropertiesInv, Accessors!_MulleObjCStandardNew \/ Accessors!NSObjectInstance
  PROVE  PropertiesInv'
<1>1. /\ cls' = cls /\ kind' = kind /\ ivars' = ivars /\ rc' = rc /\ pool' = pool /\ owned' = owned
      /\ borrowed' = borrowed /\ complained' = complained /\ phase' = "live"
      /\ selfRefs' \in {[rc |-> 1, owned |-> 1, pool |-> 0], [rc |-> 1, owned |-> 0, pool |-> 1]}
  BY DEF Accessors!_MulleObjCStandardNew, Accessors!NSObjectInstance, Accessors!_MulleObjCStandardAlloc
<1>2. StoreFits(Accessors!Store, owned, borrowed)'
  BY <1>1, SameStore
<1>3. /\ selfRefs' \in SelfRefs
      /\ selfRefs'.rc = selfRefs'.owned + selfRefs'.pool
  BY <1>1 DEF SelfRefs
<1>4. ~complained' /\ borrowed' \in SUBSET Value
  BY <1>1 DEF PropertiesInv
<1> QED
  BY <1>1, <1>2, <1>3, <1>4, LifeStep

LEMMA RetainSelfStep ==
  ASSUME PropertiesInv, Accessors!_MulleObjCStandardRetain
  PROVE  PropertiesInv'
<1>1. /\ cls' = cls /\ kind' = kind /\ ivars' = ivars /\ rc' = rc /\ pool' = pool /\ owned' = owned
      /\ borrowed' = borrowed /\ complained' = complained /\ phase' = phase
      /\ phase \in {"live", "finalized"}
      /\ selfRefs' = [selfRefs EXCEPT !.rc = selfRefs.rc + 1, !.owned = selfRefs.owned + 1]
  BY DEF Accessors!_MulleObjCStandardRetain
<1>2. StoreFits(Accessors!Store, owned, borrowed)'
  BY <1>1, SameStore
<1>3. /\ selfRefs' \in SelfRefs
      /\ selfRefs'.rc = selfRefs'.owned + selfRefs'.pool
  <2>0. selfRefs \in SelfRefs
    BY PropertyFacts
  <2>1. selfRefs.rc + 1 \in Nat /\ selfRefs.owned + 1 \in Nat
    BY PropertyFacts
  <2>2. /\ selfRefs' \in SelfRefs /\ selfRefs'.rc = selfRefs.rc + 1
        /\ selfRefs'.owned = selfRefs.owned + 1 /\ selfRefs'.pool = selfRefs.pool
    BY <1>1, <2>0, <2>1 DEF SelfRefs
  <2> QED
    BY <2>1, <2>2, PropertyFacts
<1>4. ~complained' /\ borrowed' \in SUBSET Value
  BY <1>1 DEF PropertiesInv
<1>5. phase' # "live" => \A p \in Property : ivars'[p] = NULL
  BY <1>1 DEF PropertiesInv
<1> QED
  BY <1>1, <1>2, <1>3, <1>4, <1>5, LifeStep

(* The checker has nothing to complain about.                              *)
LEMMA CheckerIsQuiet ==
  ASSUME PropertiesInv, selfRefs.owned > 0,
         Accessors!_MulleObjCStandardCheckAutoreleaseRelease
  PROVE  ~complained' /\ phase \in {"live", "finalized"}
<1>1. /\ selfRefs.rc \in Nat /\ selfRefs.owned \in Nat /\ selfRefs.pool \in Nat
      /\ selfRefs.rc = selfRefs.owned + selfRefs.pool
  BY PropertyFacts
<1>2. ~(selfRefs.pool >= selfRefs.rc) /\ selfRefs.rc # 0
  BY <1>1
<1> QED
  BY <1>2 DEF PropertiesInv, Accessors!_MulleObjCStandardCheckAutoreleaseRelease

LEMMA ReleaseSelfStep ==
  ASSUME PropertiesInv, Accessors!_MulleObjCStandardRelease
  PROVE  PropertiesInv'
<1>1. /\ cls' = cls /\ kind' = kind /\ owned' = owned /\ borrowed' = borrowed /\ selfRefs.owned > 0
      /\ selfRefs' = [selfRefs EXCEPT !.rc = selfRefs.rc - 1, !.owned = selfRefs.owned - 1]
      /\ Accessors!_MulleObjCStandardCheckAutoreleaseRelease
  BY DEF Accessors!_MulleObjCStandardRelease, Accessors!_mulle_objc_object_release_inline
<1>2. ~complained' /\ phase \in {"live", "finalized"} /\ borrowed' \in SUBSET Value
  BY <1>1, CheckerIsQuiet DEF PropertiesInv
<1>3. /\ selfRefs.rc \in Nat /\ selfRefs.owned \in Nat /\ selfRefs.pool \in Nat
      /\ selfRefs.rc = selfRefs.owned + selfRefs.pool
  BY PropertyFacts
<1>4. /\ selfRefs' \in SelfRefs
      /\ selfRefs'.rc = selfRefs'.owned + selfRefs'.pool
  <2>0. selfRefs \in SelfRefs
    BY PropertyFacts
  <2>1. selfRefs.rc - 1 \in Nat /\ selfRefs.owned - 1 \in Nat
    BY <1>1, <1>3
  <2>2. /\ selfRefs' \in SelfRefs /\ selfRefs'.rc = selfRefs.rc - 1
        /\ selfRefs'.owned = selfRefs.owned - 1 /\ selfRefs'.pool = selfRefs.pool
    BY <1>1, <2>0, <2>1 DEF SelfRefs
  <2> QED
    BY <1>3, <2>1, <2>2
<1>5. CASE selfRefs'.rc = 0
  <2>1. phase' = "gone" /\ Accessors!_MulleObjCStandardFinalize
    BY <1>1, <1>5 DEF Accessors!_MulleObjCStandardRelease, Accessors!_mulle_objc_object_release_inline
  <2>2. StoreFits(Accessors!Store, owned, borrowed)' /\ \A p \in Property : ivars'[p] = NULL
    BY <1>1, <2>1, FinalizeStep
  <2> QED
    BY <1>1, <1>2, <1>4, <1>5, <2>1, <2>2, LifeStep
<1>6. CASE selfRefs'.rc # 0
  <2>1. phase' = phase /\ ivars' = ivars /\ rc' = rc /\ pool' = pool
    BY <1>1, <1>6 DEF Accessors!_MulleObjCStandardRelease, Accessors!_mulle_objc_object_release_inline
  <2>2. StoreFits(Accessors!Store, owned, borrowed)'
    BY <1>1, <2>1, SameStore
  <2>3. phase' # "live" => \A p \in Property : ivars'[p] = NULL
    BY <2>1 DEF PropertiesInv
  <2> QED
    BY <1>1, <1>2, <1>4, <2>1, <2>2, <2>3, LifeStep
<1> QED
  BY <1>5, <1>6

LEMMA AutoreleaseSelfStep ==
  ASSUME PropertiesInv, Accessors!_MulleObjCStandardAutorelease
  PROVE  PropertiesInv'
<1>1. /\ cls' = cls /\ kind' = kind /\ ivars' = ivars /\ rc' = rc /\ pool' = pool /\ owned' = owned
      /\ borrowed' = borrowed /\ phase' = phase /\ selfRefs.owned > 0
      /\ Accessors!_MulleObjCStandardCheckAutoreleaseRelease
      /\ selfRefs' = [selfRefs EXCEPT !.owned = selfRefs.owned - 1, !.pool = selfRefs.pool + 1]
  BY DEF Accessors!_MulleObjCStandardAutorelease
<1>2. StoreFits(Accessors!Store, owned, borrowed)'
  BY <1>1, SameStore
<1>3. ~complained' /\ phase \in {"live", "finalized"} /\ borrowed' \in SUBSET Value
  BY <1>1, CheckerIsQuiet DEF PropertiesInv
<1>4. /\ selfRefs' \in SelfRefs
      /\ selfRefs'.rc = selfRefs'.owned + selfRefs'.pool
  <2>0. selfRefs \in SelfRefs
    BY PropertyFacts
  <2>1. selfRefs.pool + 1 \in Nat /\ selfRefs.owned - 1 \in Nat
    BY <1>1, PropertyFacts
  <2>2. /\ selfRefs' \in SelfRefs /\ selfRefs'.rc = selfRefs.rc
        /\ selfRefs'.owned = selfRefs.owned - 1 /\ selfRefs'.pool = selfRefs.pool + 1
    BY <1>1, <2>0, <2>1 DEF SelfRefs
  <2> QED
    BY <1>1, <2>1, <2>2, PropertyFacts
<1>5. phase' # "live" => \A p \in Property : ivars'[p] = NULL
  BY <1>1 DEF PropertiesInv
<1> QED
  BY <1>1, <1>2, <1>3, <1>4, <1>5, LifeStep

LEMMA PerformFinalizeStep ==
  ASSUME PropertiesInv, Accessors!mullePerformFinalize
  PROVE  PropertiesInv'
<1>1. /\ cls' = cls /\ kind' = kind /\ owned' = owned /\ borrowed' = borrowed /\ selfRefs' = selfRefs
      /\ complained' = complained /\ phase = "live" /\ phase' = "finalized"
      /\ Accessors!_MulleObjCStandardFinalize
  BY DEF Accessors!mullePerformFinalize, Accessors!Client
<1>2. StoreFits(Accessors!Store, owned, borrowed)' /\ \A p \in Property : ivars'[p] = NULL
  BY <1>1, FinalizeStep
<1>3. /\ ~complained' /\ borrowed' \in SUBSET Value
      /\ selfRefs' \in SelfRefs
      /\ selfRefs'.rc = selfRefs'.owned + selfRefs'.pool
  BY <1>1 DEF PropertiesInv
<1> QED
  BY <1>1, <1>2, <1>3, LifeStep

(* The pool gives up what it has: nothing that was read is safe after it.  *)
LEMMA DrainedFits ==
  ASSUME KindsFit, NEW own, NEW read \in SUBSET Value, NEW s, StoreFits(s, own, read), NEW t,
         t = [ivars |-> s.ivars, rc |-> [v \in Value |-> s.rc[v] - s.pool[v]], pool |-> [v \in Value |-> 0]]
  PROVE  StoreFits(t, own, {})
<1>1. s \in PropertyStore
  BY DEF StoreFits
<1>2. ASSUME NEW v \in Value
      PROVE  /\ s.rc[v] = Cardinality(Holders(s, v)) + s.pool[v] + OwnedOnce(own, v)
             /\ s.rc[v] \in Nat /\ Cardinality(Holders(s, v)) \in Nat /\ s.pool[v] \in Nat
             /\ OwnedOnce(own, v) \in Nat
             /\ s.rc[v] - s.pool[v] \in Nat
  <2>1. IsFiniteSet(Holders(s, v))
    BY PropertyOperators, FS_Subset DEF Holders
  <2>2. /\ s.rc[v] = Cardinality(Holders(s, v)) + s.pool[v] + OwnedOnce(own, v)
        /\ s.rc[v] \in Nat /\ Cardinality(Holders(s, v)) \in Nat /\ s.pool[v] \in Nat
        /\ OwnedOnce(own, v) \in Nat
    BY <1>1, <2>1, FS_CardinalityType DEF StoreFits, ValuesBalance, PropertyStore, OwnedOnce
  <2> QED
    BY <2>2
<1>3. /\ t \in PropertyStore /\ t.ivars = s.ivars
      /\ \A v \in Value : t.rc[v] = s.rc[v] - s.pool[v] /\ t.pool[v] = 0
  BY <1>1, <1>2 DEF PropertyStore
<1>4. ValuesBalance(t, own)
  <2> SUFFICES ASSUME NEW v \in Value
               PROVE  t.rc[v] = Cardinality(Holders(t, v)) + t.pool[v] + OwnedOnce(own, v)
    BY DEF ValuesBalance
  <2>1. Holders(t, v) = Holders(s, v)
    BY <1>3 DEF Holders
  <2> QED
    BY <1>2, <1>3, <2>1
<1>5. StringsFit(t)
  <2> SUFFICES ASSUME NEW p \in Property, kind[p].type = "Strdup", t.ivars[p] # NULL
               PROVE  t.rc[t.ivars[p]] = 1
    BY DEF StringsFit
  <2>1. s.ivars[p] \in Value /\ s.rc[s.ivars[p]] = 1 /\ s.pool[s.ivars[p]] = 0
    BY <1>3, StringIsHeldOnce
  <2> QED
    BY <1>3, <2>1
<1>6. \A p \in Property : kind[p].type = "VoidPointer" => t.ivars[p] = NULL
  BY <1>3 DEF StoreFits
<1> QED
  BY <1>3, <1>4, <1>5, <1>6 DEF StoreFits, ReadsFit

LEMMA PopPoolStep ==
  ASSUME PropertiesInv, Accessors!PopPool
  PROVE  PropertiesInv'
<1>1. PICK s : s = Accessors!Store
  OBVIOUS
<1>2. /\ StoreFits(s, owned, borrowed) /\ KindsFit /\ borrowed \in SUBSET Value
      /\ s.ivars = ivars /\ s.rc = rc /\ s.pool = pool
  BY <1>1, PropertyFacts
<1>3. PICK drained : drained = [ivars |-> ivars, rc |-> [v \in Value |-> rc[v] - pool[v]],
                                pool |-> [v \in Value |-> 0]]
  OBVIOUS
<1>4. StoreFits(drained, owned, {})
  BY <1>2, <1>3, DrainedFits
<1>5. PICK dies \in BOOLEAN : dies <=> (selfRefs.pool > 0 /\ selfRefs.rc - selfRefs.pool = 0)
  OBVIOUS
<1>6. PICK f : f = IF dies /\ phase = "live" THEN Accessors!Finalized(drained) ELSE drained
  OBVIOUS
<1>7. /\ cls' = cls /\ kind' = kind /\ owned' = owned /\ borrowed' = {} /\ complained' = complained
      /\ Accessors!Becomes(f)
      /\ selfRefs' = [selfRefs EXCEPT !.rc = selfRefs.rc - selfRefs.pool, !.pool = 0]
      /\ phase' = IF dies THEN "gone" ELSE phase
  BY <1>3, <1>5, <1>6 DEF Accessors!PopPool, Accessors!Nothing
<1>8. /\ StoreFits(f, owned, {})
      /\ dies \/ phase # "live" => \A p \in Property : f.ivars[p] = NULL
  <2>1. CASE dies /\ phase = "live"
    BY <1>2, <1>4, <1>6, <2>1, FinalizedFits
  <2>2. CASE ~(dies /\ phase = "live")
    BY <1>3, <1>4, <1>6, <2>2 DEF PropertiesInv
  <2> QED
    BY <2>1, <2>2
<1>9. StoreFits(Accessors!Store, owned, borrowed)'
  BY <1>7, <1>8, StoreNext
<1>10. phase' # "live" => \A p \in Property : ivars'[p] = NULL
  BY <1>7, <1>8 DEF Accessors!Becomes
<1>11. /\ selfRefs.rc \in Nat /\ selfRefs.owned \in Nat /\ selfRefs.pool \in Nat
       /\ selfRefs.rc = selfRefs.owned + selfRefs.pool
  BY PropertyFacts
<1>12. /\ selfRefs' \in SelfRefs
       /\ selfRefs'.rc = selfRefs'.owned + selfRefs'.pool
       /\ selfRefs'.rc = selfRefs.owned
  <2>0. selfRefs \in SelfRefs
    BY PropertyFacts
  <2>1. selfRefs.rc - selfRefs.pool = selfRefs.owned
    BY <1>11
  <2>2. /\ selfRefs' \in SelfRefs /\ selfRefs'.rc = selfRefs.owned
        /\ selfRefs'.owned = selfRefs.owned /\ selfRefs'.pool = 0
    BY <1>7, <1>11, <2>0, <2>1 DEF SelfRefs
  <2> QED
    BY <1>11, <2>2
<1>13. phase' \in {"none", "gone"} => selfRefs'.rc = 0
  BY <1>5, <1>7, <1>11, <1>12 DEF PropertiesInv
<1>14. phase' \in {"none", "live", "finalized", "gone"} /\ ~complained' /\ borrowed' \in SUBSET Value
  BY <1>7 DEF PropertiesInv
<1> QED
  BY <1>7, <1>9, <1>10, <1>12, <1>13, <1>14, LifeStep

LEMMA PropertiesSame ==
  ASSUME PropertiesInv, UNCHANGED <<cls, kind, Accessors!object>>
  PROVE  PropertiesInv'
<1>1. /\ cls' = cls /\ kind' = kind /\ phase' = phase /\ ivars' = ivars /\ rc' = rc /\ pool' = pool
      /\ owned' = owned /\ borrowed' = borrowed /\ selfRefs' = selfRefs /\ complained' = complained
  BY DEF Accessors!object
<1>2. StoreFits(Accessors!Store, owned, borrowed)'
  BY <1>1, SameStore
<1>3. KindsFit'
  BY <1>1 DEF PropertiesInv, KindsFit
<1> QED
  BY <1>1, <1>2, <1>3 DEF PropertiesInv

LEMMA PropertiesStep == PropertiesInv /\ [Accessors!Next]_(Accessors!vars) => PropertiesInv'
<1> SUFFICES ASSUME PropertiesInv, [Accessors!Next]_(Accessors!vars) PROVE PropertiesInv'
  OBVIOUS
<1>1. ASSUME NEW t \in Caller, NEW p \in Property, NEW a \in Accessors!Accessor,
             Accessors!_MulleDynamicObjectForward(t, p, a)
      PROVE  PropertiesInv'
  BY <1>1, PropertiesSame DEF Accessors!_MulleDynamicObjectForward
<1>2. ASSUME NEW t \in Caller, Accessors!SearchMissing(t) \/ Accessors!AddMethodList(t)
      PROVE  PropertiesInv'
  BY <1>2, PropertiesSame DEF Accessors!SearchMissing, Accessors!AddMethodList
<1>3. ASSUME NEW p \in Property, NEW v \in Accessors!Passable(p),
             Accessors!Set(p, v) \/ Accessors!SetReadonly(p, v)
      PROVE  PropertiesInv'
  BY <1>3, SetStep
<1>4. ASSUME NEW p \in Property, Accessors!Get(p) PROVE PropertiesInv'
  BY <1>4, ReadStep
<1>5. ASSUME NEW p \in Property, NEW v \in Value, Accessors!RetainGetterWillReadRelationship(p, v)
      PROVE  PropertiesInv'
  BY <1>5, RelationshipStep
<1>6. ASSUME NEW v \in Value, Accessors!CreateValue(v) \/ Accessors!ReleaseValue(v)
      PROVE  PropertiesInv'
  BY <1>6, MakeValueStep, GiveUpValueStep
<1>7. CASE Accessors!_MulleObjCStandardNew \/ Accessors!NSObjectInstance
  BY <1>7, BirthStep
<1>8. CASE Accessors!_MulleObjCStandardRetain
  BY <1>8, RetainSelfStep
<1>9. CASE Accessors!_MulleObjCStandardRelease
  BY <1>9, ReleaseSelfStep
<1>10. CASE Accessors!_MulleObjCStandardAutorelease
  BY <1>10, AutoreleaseSelfStep
<1>11. CASE Accessors!mullePerformFinalize
  BY <1>11, PerformFinalizeStep
<1>12. CASE Accessors!PopPool
  BY <1>12, PopPoolStep
<1>13. CASE UNCHANGED Accessors!vars
  BY <1>13, PropertiesSame DEF Accessors!vars
<1> QED
  BY <1>1, <1>2, <1>3, <1>4, <1>5, <1>6, <1>7, <1>8, <1>9, <1>10, <1>11, <1>12, <1>13
     DEF Accessors!Next

(* The list with a new setter comes after its entry in the lookup.         *)
LEMMA KeysInit == Accessors!Init => Accessors!SettersHaveKeys
  BY DEF Accessors!Init, Accessors!SettersHaveKeys

LEMMA KeysStep ==
  Accessors!SettersHaveKeys /\ [Accessors!Next]_(Accessors!vars) => Accessors!SettersHaveKeys'
<1> SUFFICES ASSUME Accessors!SettersHaveKeys, [Accessors!Next]_(Accessors!vars)
             PROVE  Accessors!SettersHaveKeys'
  OBVIOUS
<1>1. CASE \E t \in Caller : Accessors!AddMethodList(t)
  <2>1. PICK p, missing : /\ getter_lookup' = IF "setter" \in missing THEN getter_lookup \cup {p}
                                                                     ELSE getter_lookup
                          /\ methods' = methods \cup {<<p, a>> : a \in missing}
                          /\ cls' = cls
    BY <1>1 DEF Accessors!AddMethodList
  <2>2. ASSUME NEW q \in Property, <<q, "setter">> \in methods', cls = "MulleDynamicObject"
        PROVE  q \in getter_lookup'
    <3>1. CASE <<q, "setter">> \in methods
      BY <2>1, <2>2, <3>1 DEF Accessors!SettersHaveKeys
    <3>2. CASE <<q, "setter">> \in {<<p, a>> : a \in missing}
      BY <2>1, <3>2
    <3> QED
      BY <2>1, <2>2, <3>1, <3>2
  <2> QED
    BY <2>1, <2>2 DEF Accessors!SettersHaveKeys
<1>2. CASE UNCHANGED <<cls, methods, getter_lookup>>
  BY <1>2 DEF Accessors!SettersHaveKeys
<1>3. (\E t \in Caller : Accessors!AddMethodList(t)) \/ UNCHANGED <<cls, methods, getter_lookup>>
  BY DEF Accessors!Next, Accessors!vars, Accessors!making, Accessors!_MulleDynamicObjectForward,
     Accessors!SearchMissing, Accessors!Set, Accessors!SetReadonly, Accessors!Get,
     Accessors!RetainGetterWillReadRelationship, Accessors!CreateValue, Accessors!ReleaseValue,
     Accessors!_MulleObjCStandardNew, Accessors!NSObjectInstance, Accessors!_MulleObjCStandardRetain,
     Accessors!_MulleObjCStandardRelease, Accessors!_MulleObjCStandardAutorelease,
     Accessors!mullePerformFinalize, Accessors!PopPool
<1> QED
  BY <1>1, <1>2, <1>3

(* Each value is counted by who keeps it, so what was read is alive.       *)
LEMMA ValuesAreHeld == PropertiesInv /\ Accessors!SettersHaveKeys => Accessors!ContentsAreHeld
<1> SUFFICES ASSUME PropertiesInv, Accessors!SettersHaveKeys PROVE Accessors!ContentsAreHeld
  OBVIOUS
<1>1. PICK s : s = Accessors!Store
  OBVIOUS
<1>2. /\ StoreFits(s, owned, borrowed) /\ s \in PropertyStore
      /\ s.ivars = ivars /\ s.rc = rc /\ s.pool = pool
      /\ borrowed \in SUBSET Value /\ owned \in SUBSET Value
  BY <1>1, PropertyFacts
<1>3. ASSUME NEW v \in Value
      PROVE  rc[v] = Accessors!Cardinality({p \in Property : Accessors!Keeps(p) /\ ivars[p] = v})
                     + pool[v] + (IF v \in owned THEN 1 ELSE 0)
  <2>1. {p \in Property : Accessors!Keeps(p) /\ ivars[p] = v} = Holders(s, v)
    <3>1. phase # "live" => \A p \in Property : ivars[p] # v
      BY PropertyOperators DEF PropertiesInv
    <3> QED
      BY <1>2, <3>1 DEF Holders, KeepsValue, Accessors!Keeps, Accessors!Plain
  <2>2. s.rc[v] = Cardinality(Holders(s, v)) + s.pool[v] + OwnedOnce(owned, v)
    BY <1>2 DEF StoreFits, ValuesBalance
  <2> QED
    BY <1>2, <2>1, <2>2, PropertyOperators DEF OwnedOnce
<1>4. ASSUME NEW v \in borrowed PROVE rc[v] > 0
  <2>1. v \in Value
    BY <1>2
  <2>2. s.rc[v] = Cardinality(Holders(s, v)) + s.pool[v] + OwnedOnce(owned, v)
    BY <1>2, <2>1 DEF StoreFits, ValuesBalance
  <2>3. Cardinality(Holders(s, v)) \in Nat /\ s.pool[v] \in Nat /\ OwnedOnce(owned, v) \in Nat
    <3>1. IsFiniteSet(Holders(s, v))
      BY PropertyOperators, FS_Subset DEF Holders
    <3> QED
      BY <1>2, <2>1, <3>1, FS_CardinalityType DEF PropertyStore, OwnedOnce
  <2>4. s.pool[v] > 0 \/ Cardinality(Holders(s, v)) >= 1
    <3>1. CASE s.pool[v] > 0
      BY <3>1
    <3>2. CASE ~(s.pool[v] > 0)
      <4>1. PICK p \in Property : KeepsObject(p) /\ s.ivars[p] = v
        BY <1>2, <3>2 DEF StoreFits, ReadsFit
      <4>2. KeepsValue(p)
        BY <4>1 DEF KeepsObject, KeepsValue
      <4> QED
        BY <1>2, <2>1, <4>1, <4>2, HolderCounts
    <3> QED
      BY <3>1, <3>2
  <2> QED
    BY <1>2, <2>2, <2>3, <2>4
<1>5. /\ phase \in {"finalized", "gone"} => \A p \in Property : ivars[p] = NULL
      /\ ~complained
  BY DEF PropertiesInv
<1> QED
  BY <1>3, <1>4, <1>5 DEF Accessors!ContentsAreHeld

(* Properties keep what they should as long as the object lives and not a  *)
(* moment longer: the retain count of each value is the number of          *)
(* properties that hold it, of releases the pool owes it and of references *)
(* of the client; what a getter returned stays until the pool is popped;   *)
(* a property is nil when -finalize has run, the checker of superfluous    *)
(* releases never raises, and a setter finds its key: for any number of    *)
(* properties and values, of any kinds that a class can declare.           *)
THEOREM PropertiesHold == Accessors!Spec => []Accessors!ContentsAreHeld
BY ValuesAreHeld, PropertiesInit, PropertiesStep, KeysInit, KeysStep, PTL DEF Accessors!Spec

-----------------------------------------------------------------------------
(* The composition.                                                        *)

(* A behaviour of MCValues is one of each of its components: it runs one   *)
(* of them, and leaves the others at rest.                                 *)
THEOREM Composition == Spec => Accessors!Spec /\ Contents!Spec /\ Memory!Spec /\ Messages!Spec
<1>1. Init => Accessors!Init /\ Contents!Init /\ Memory!Init /\ Messages!Init
  BY DEF Init
<1>2. [Next]_vars => [Accessors!Next]_(Accessors!vars)
  <2>1. UNCHANGED propertyVars => UNCHANGED Accessors!vars
    BY DEF propertyVars, Accessors!vars, Accessors!object, Accessors!making
  <2> QED
    BY <2>1 DEF Next, vars
<1>3. [Next]_vars => [Contents!Next]_(Contents!vars)
  BY DEF Next, vars, containerVars, Contents!vars
<1>4. [Next]_vars => [Memory!Next]_(Memory!vars)
  BY DEF Next, vars, memoryVars, Memory!vars
<1>5. [Next]_vars => [Messages!Next]_(Messages!vars)
  BY DEF Next, vars, messageVars, Messages!vars
<1> QED
  BY <1>1, <1>2, <1>3, <1>4, <1>5, PTL
     DEF Spec, Accessors!Spec, Contents!Spec, Memory!Spec, Messages!Spec

(* What properties, containers and invocations keep is alive and given back*)
(* as often as it was taken, whichever of them a behaviour exercises       *)
(* (MulleDynamicObject.m, MulleObjCContainerObjectCallback.m,              *)
(* NSInvocation.m).                                                        *)
THEOREM ContentsHold == Spec => []ContentsAreHeld
<1>1. Accessors!ContentsAreHeld /\ Contents!ContentsAreHeld /\ Messages!InvocationsBalance
        => ContentsAreHeld
  BY DEF ContentsAreHeld
<1> QED
  BY <1>1, Composition, PropertiesHold, ContainersHold, InvocationsGiveBack, PTL
=============================================================================
