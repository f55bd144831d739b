------------------------ MODULE AutoreleasePoolProofs ------------------------
(***************************************************************************)
(* Proofs about the autorelease pools of a thread: what the calls in       *)
(* progress come back to is still there, every reference has one owner,    *)
(* and the object map counts the autoreleases that are still to be         *)
(* released, for any number of objects, pools, slots and nested calls.     *)
(***************************************************************************)
EXTENDS AutoreleasePool, SumLemmas

-----------------------------------------------------------------------------
(* Counting in one array of slots.                                         *)

Count(q, o) == Cardinality(Occurrences(q, o))

Hit(p, o) == IF p = o THEN 1 ELSE 0

Hits(S, o) == [p \in S |-> Hit(p, o)]

(* A subset has as many elements as its members add to a sum.              *)
LEMMA CountIsSum ==
  ASSUME NEW S, IsFiniteSet(S), NEW A \in SUBSET S
  PROVE  Cardinality(A) = SumFunction([x \in S |-> IF x \in A THEN 1 ELSE 0])
<1> DEFINE f == [x \in S |-> IF x \in A THEN 1 ELSE 0]
           T == {s \in SUBSET S : Cardinality(s \cap A) = SumFunctionOnSet(f, s)}
<1>1. f \in [S -> Int] /\ \A x \in S : f[x] = IF x \in A THEN 1 ELSE 0
  OBVIOUS
<1>2. ASSUME NEW s \in SUBSET S, \A r \in SUBSET s : r # s => r \in T PROVE s \in T
  <2> HIDE DEF f
  <2>1. CASE s = {}
    <3>1. SumFunctionOnSet(f, {}) = 0
      BY <1>1, SumAdd
    <3> QED
      BY <2>1, <3>1, FS_EmptySet
  <2>2. CASE s # {}
    <3>1. PICK x \in s : TRUE
      BY <2>2
    <3>2. PICK r \in SUBSET s : r = s \ {x}
      OBVIOUS
    <3>3. r \in T /\ r \in SUBSET S /\ x \in S \ r /\ s = r \cup {x}
      BY <1>2, <3>1, <3>2
    <3>4. SumFunctionOnSet(f, s) = SumFunctionOnSet(f, r) + f[x]
      BY <1>1, <3>3, SumAdd
    <3>5. Cardinality(r \cap A) = SumFunctionOnSet(f, r)
      BY <3>3
    <3>6. IsFiniteSet(r \cap A) /\ Cardinality(r \cap A) \in Nat
      BY <3>3, FS_Subset, FS_CardinalityType
    <3>7. CASE x \in A
      <4>1. s \cap A = (r \cap A) \cup {x} /\ x \notin r \cap A
        BY <3>3, <3>7
      <4>2. Cardinality(s \cap A) = Cardinality(r \cap A) + 1
        BY <3>6, <4>1, FS_AddElement
      <4>3. f[x] = 1
        BY <1>1, <3>3, <3>7
      <4>4. Cardinality(s \cap A) = SumFunctionOnSet(f, s)
        BY <3>4, <3>5, <4>2, <4>3
      <4> QED
        BY <4>4
    <3>8. CASE x \notin A
      <4>1. s \cap A = r \cap A
        BY <3>3, <3>8
      <4>2. f[x] = 0
        BY <1>1, <3>3, <3>8
      <4>3. Cardinality(s \cap A) = SumFunctionOnSet(f, s)
        <5>1. PICK n \in Nat : n = Cardinality(r \cap A)
          BY <3>6
        <5>2. SumFunctionOnSet(f, s) = n + 0
          BY <3>4, <3>5, <4>2, <5>1
        <5> QED
          BY <4>1, <5>1, <5>2
      <4> QED
        BY <4>3
    <3> QED
      BY <3>7, <3>8
  <2> QED
    BY <2>1, <2>2
<1>3. \A s \in SUBSET S : s \in T
  <2> HIDE DEF T
  <2> QED
    BY <1>2, SubsetInduction
<1>4. S \in T /\ S \cap A = A /\ DOMAIN f = S
  BY <1>3
<1> QED
  BY <1>4 DEF SumFunction

(* The occurrences in a sequence are the sum of its hits.                  *)
LEMMA CountIsWeight ==
  ASSUME NEW S, NEW q \in Seq(S), NEW o
  PROVE  Count(q, o) = Weight(q, Hits(S, o)) /\ Count(q, o) \in Nat
<1>1. PICK n \in Nat : n = Len(q)
  BY LenProperties
<1>2. DOMAIN q = 1 .. n /\ \A i \in 1 .. n : q[i] \in S
  BY <1>1, LenProperties
<1>3. PICK A : A = Occurrences(q, o)
  OBVIOUS
<1>4. A \in SUBSET (1 .. n) /\ IsFiniteSet(1 .. n)
  BY <1>2, <1>3, FS_Interval DEF Occurrences
<1>5. Cardinality(A) = SumFunction([i \in 1 .. n |-> IF i \in A THEN 1 ELSE 0])
  BY <1>4, CountIsSum
<1>6. [i \in 1 .. n |-> IF i \in A THEN 1 ELSE 0] = Weights(q, Hits(S, o))
  <2>1. \A i \in 1 .. n : (i \in A) <=> q[i] = o
    BY <1>2, <1>3 DEF Occurrences
  <2>2. \A i \in 1 .. n : Hits(S, o)[q[i]] = IF i \in A THEN 1 ELSE 0
    BY <1>2, <2>1 DEF Hits, Hit
  <2>3. Weights(q, Hits(S, o)) = [i \in 1 .. n |-> Hits(S, o)[q[i]]]
    BY <1>2 DEF Weights
  <2> QED
    BY <2>2, <2>3
<1>7. Cardinality(A) \in Nat
  BY <1>4, FS_Subset, FS_CardinalityType
<1> QED
  BY <1>3, <1>5, <1>6, <1>7 DEF Count, Weight

(* Nothing is in an empty array.                                           *)
LEMMA CountEmpty ==
  ASSUME NEW o
  PROVE  Count(<<>>, o) = 0
<1>1. Occurrences(<<>>, o) = {}
  BY DEF Occurrences
<1> QED
  BY <1>1, FS_EmptySet DEF Count

(* An object that is added is counted.                                     *)
LEMMA CountAppend ==
  ASSUME NEW S, NEW q \in Seq(S), NEW p \in S, NEW o
  PROVE  Count(Append(q, p), o) = Count(q, o) + Hit(p, o)
<1>1. PICK w : w = Hits(S, o)
  OBVIOUS
<1>2. w \in [S -> Int] /\ \A x \in S : w[x] = Hit(x, o)
  BY <1>1 DEF Hits, Hit
<1>3. Weight(Append(q, p), w) = Weight(q, w) + w[p]
  BY <1>2, WeightAppend
<1>4. Append(q, p) \in Seq(S)
  BY AppendProperties
<1> QED
  BY <1>1, <1>2, <1>3, <1>4, CountIsWeight

(* The last object that is taken away is not counted any more.             *)
LEMMA CountFront ==
  ASSUME NEW S, NEW q \in Seq(S), q # <<>>, NEW o
  PROVE  /\ Front(q) \in Seq(S) /\ Last(q) \in S /\ Len(q) \in Nat \ {0}
         /\ Len(Front(q)) = Len(q) - 1 /\ \A i \in 1 .. Len(q) - 1 : Front(q)[i] = q[i]
         /\ Count(q, o) = Count(Front(q), o) + Hit(Last(q), o)
<1>1. PICK w : w = Hits(S, o)
  OBVIOUS
<1>2. w \in [S -> Int] /\ \A x \in S : w[x] = Hit(x, o)
  BY <1>1 DEF Hits, Hit
<1>3. /\ Len(q) \in Nat \ {0} /\ Last(q) \in S
      /\ Front(q) \in Seq(S) /\ Len(Front(q)) = Len(q) - 1
      /\ \A i \in 1 .. Len(q) - 1 : Front(q)[i] = q[i]
      /\ Weight(q, w) = Weight(Front(q), w) + w[Last(q)]
  BY <1>2, WeightFront DEF Front, Last
<1> QED
  BY <1>1, <1>2, <1>3, CountIsWeight

(* A slot is overwritten.                                                  *)
LEMMA CountSet ==
  ASSUME NEW S, NEW q \in Seq(S), NEW i \in 1 .. Len(q), NEW p \in S, NEW o
  PROVE  Count([q EXCEPT ![i] = p], o) = Count(q, o) + Hit(p, o) - Hit(q[i], o)
<1>1. PICK w : w = Hits(S, o)
  OBVIOUS
<1>2. w \in [S -> Int] /\ \A x \in S : w[x] = Hit(x, o)
  BY <1>1 DEF Hits, Hit
<1>3. PICK r : r = [q EXCEPT ![i] = p]
  OBVIOUS
<1>4. /\ r \in Seq(S) /\ q[i] \in S /\ Len(r) = Len(q) /\ r[i] = p
      /\ \A j \in 1 .. Len(q) : j # i => r[j] = q[j]
  BY <1>3, ExceptSeq, ElementOfSeq
<1>5. Weight(r, w) = Weight(q, w) + w[r[i]] - w[q[i]]
  BY <1>2, <1>4, WeightSet
<1> QED
  BY <1>1, <1>2, <1>3, <1>4, <1>5, CountIsWeight

(* A block is copied to the end of an array.                               *)
LEMMA CountConcat ==
  ASSUME NEW S, NEW q \in Seq(S), NEW r \in Seq(S), NEW o
  PROVE  Count(q \o r, o) = Count(q, o) + Count(r, o)
<1>1. PICK w : w = Hits(S, o)
  OBVIOUS
<1>2. w \in [S -> Int]
  BY <1>1 DEF Hits, Hit
<1>3. Weight(q \o r, w) = Weight(q, w) + Weight(r, w)
  BY <1>2, WeightConcat
<1>4. q \o r \in Seq(S)
  BY ConcatProperties
<1> QED
  BY <1>1, <1>3, <1>4, CountIsWeight

(* What is in an array is counted.                                         *)
LEMMA CountPositive ==
  ASSUME NEW S, NEW q \in Seq(S), NEW o
  PROVE  (Count(q, o) > 0) <=> \E i \in DOMAIN q : q[i] = o
<1>1. Len(q) \in Nat /\ DOMAIN q = 1 .. Len(q)
  BY LenProperties
<1>2. IsFiniteSet(Occurrences(q, o)) /\ Count(q, o) \in Nat
  <2>1. Occurrences(q, o) \in SUBSET (1 .. Len(q)) /\ IsFiniteSet(1 .. Len(q))
    BY <1>1, FS_Interval DEF Occurrences
  <2> QED
    BY <2>1, FS_Subset, FS_CardinalityType DEF Count
<1>3. (Count(q, o) = 0) <=> Occurrences(q, o) = {}
  BY <1>2, FS_EmptySet DEF Count
<1> QED
  BY <1>2, <1>3 DEF Occurrences

-----------------------------------------------------------------------------
(* Counting in storages, pools and calls in progress.                      *)

ChunkWeight(o) == [c \in Chunk |-> Count(c.objects, o)]

StorageWeight(o) == [s \in Seq(Chunk) |-> CountObject(s, o)]

FrameWeight(o) == [f \in Frame |-> TakenObject(f, o)]

(* The arrays of a pool hold no more than they have room for.              *)
Storage == Seq({c \in Chunk : Len(c.objects) <= ChunkSize})

(* A storage is a sequence of arrays.                                      *)
LEMMA StorageType == Storage \subseteq Seq(Chunk)
<1>1. {c \in Chunk : Len(c.objects) <= ChunkSize} \subseteq Chunk
  OBVIOUS
<1> QED
  BY <1>1, SeqMonotonic DEF Storage

(* What a storage counts is the sum over its arrays.                       *)
LEMMA CountObjectIsWeight ==
  ASSUME NEW o, NEW s \in Seq(Chunk)
  PROVE  /\ ChunkWeight(o) \in [Chunk -> Nat] /\ ChunkWeight(o) \in [Chunk -> Int]
         /\ CountObject(s, o) = Weight(s, ChunkWeight(o))
         /\ CountObject(s, o) \in Nat
<1>1. ASSUME NEW c \in Chunk PROVE Count(c.objects, o) \in Nat
  <2>1. c.objects \in Seq(Slot)
    BY DEF Chunk
  <2> QED
    BY <2>1, CountIsWeight
<1>2. ChunkWeight(o) \in [Chunk -> Nat] /\ ChunkWeight(o) \in [Chunk -> Int]
  BY <1>1 DEF ChunkWeight
<1>3. \A i \in DOMAIN s : s[i] \in Chunk
  BY LenProperties
<1>4. Weights(s, ChunkWeight(o)) = [c \in DOMAIN s |-> Cardinality(Occurrences(s[c].objects, o))]
  BY <1>3 DEF Weights, ChunkWeight, Count
<1>5. CountObject(s, o) = Weight(s, ChunkWeight(o))
  BY <1>4 DEF CountObject, Weight
<1>6. Weight(s, ChunkWeight(o)) \in Nat
  BY <1>2, WeightNat
<1> QED
  BY <1>2, <1>5, <1>6

(* How often a storage has an object is a number.                          *)
LEMMA StorageWeightType ==
  ASSUME NEW o
  PROVE  StorageWeight(o) \in [Seq(Chunk) -> Nat] /\ StorageWeight(o) \in [Seq(Chunk) -> Int]
BY CountObjectIsWeight DEF StorageWeight

(* The kinds of calls, and what is in their frames.                        *)
LEMMA FrameKinds ==
  ASSUME NEW f \in Frame
  PROVE  /\ f.kind \in {"dealloc", "drain", "walk"}
         /\ f.kind = "dealloc" => /\ f.object \in Obj /\ f.base \in Nat
                                  /\ f = [kind |-> "dealloc", object |-> f.object, base |-> f.base]
         /\ f.kind = "drain" =>
              /\ f.pool \in Nat /\ f.chain \in Seq(Chunk) /\ f.target \in Nat
              /\ f.then \in {"return", "push"}
              /\ f = [kind |-> "drain", pool |-> f.pool, chain |-> f.chain,
                      target |-> f.target, then |-> f.then]
         /\ f.kind = "walk" =>
              /\ f.pool \in Nat /\ f.chunk \in Nat /\ f.slot \in Nat
              /\ f.objects \in SUBSET Obj /\ f.all \in BOOLEAN /\ f.stale \in Seq(Chunk)
              /\ f = [kind |-> "walk", pool |-> f.pool, chunk |-> f.chunk, slot |-> f.slot,
                      objects |-> f.objects, all |-> f.all, stale |-> f.stale]
BY DEF Frame

(* What a call has taken out of a storage is counted as well.              *)
LEMMA FrameWeightType ==
  ASSUME NEW o
  PROVE  FrameWeight(o) \in [Frame -> Nat] /\ FrameWeight(o) \in [Frame -> Int]
<1>1. ASSUME NEW f \in Frame PROVE TakenObject(f, o) \in Nat
  BY FrameKinds, CountObjectIsWeight DEF TakenObject
<1> QED
  BY <1>1 DEF FrameWeight

(* The autoreleases that are still to be released.                         *)
PendingIn(P, S, o) == Weight(P, StorageWeight(o)) + Weight(S, FrameWeight(o))

(* The pending releases are those in the storages and those in calls.      *)
LEMMA PendingParts ==
  ASSUME NEW o, NEW P \in Seq(Seq(Chunk)), NEW S \in Seq(Frame)
  PROVE  /\ SumFunction([k \in DOMAIN P |-> CountObject(P[k], o)]) = Weight(P, StorageWeight(o))
         /\ SumFunction([f \in DOMAIN S |-> TakenObject(S[f], o)]) = Weight(S, FrameWeight(o))
         /\ Weight(P, StorageWeight(o)) \in Nat /\ Weight(S, FrameWeight(o)) \in Nat
         /\ PendingIn(P, S, o) \in Nat
<1>1. \A k \in DOMAIN P : P[k] \in Seq(Chunk)
  BY LenProperties
<1>2. Weights(P, StorageWeight(o)) = [k \in DOMAIN P |-> CountObject(P[k], o)]
  BY <1>1 DEF Weights, StorageWeight
<1>3. \A f \in DOMAIN S : S[f] \in Frame
  BY LenProperties
<1>4. Weights(S, FrameWeight(o)) = [f \in DOMAIN S |-> TakenObject(S[f], o)]
  BY <1>3 DEF Weights, FrameWeight
<1>5. Weight(P, StorageWeight(o)) \in Nat
  BY StorageWeightType, WeightNat
<1>6. Weight(S, FrameWeight(o)) \in Nat
  BY FrameWeightType, WeightNat
<1> QED
  BY <1>2, <1>4, <1>5, <1>6 DEF Weight, PendingIn

-----------------------------------------------------------------------------
(* Adding to a storage.                                                    *)

(* Cursors into a storage stay valid when it becomes another one.          *)
Kept(s, t) ==
  \A c \in DOMAIN s : c \in DOMAIN t /\ DOMAIN s[c].objects \subseteq DOMAIN t[c].objects

(* A storage is taken apart into its arrays.                               *)
LEMMA StorageParts ==
  ASSUME NEW s \in Storage
  PROVE  /\ s \in Seq(Chunk) /\ Len(s) \in Nat /\ DOMAIN s = 1 .. Len(s)
         /\ \A c \in 1 .. Len(s) :
              /\ s[c] \in Chunk /\ s[c].objects \in Seq(Slot)
              /\ s[c].count \in 0 .. CountModulus - 1
              /\ Len(s[c].objects) \in Nat /\ Len(s[c].objects) <= ChunkSize
              /\ DOMAIN s[c].objects = 1 .. Len(s[c].objects)
<1>1. s \in Seq(Chunk)
  BY StorageType
<1>2. Len(s) \in Nat /\ DOMAIN s = 1 .. Len(s)
  BY <1>1, LenProperties
<1>3. ASSUME NEW c \in 1 .. Len(s)
      PROVE  /\ s[c] \in Chunk /\ s[c].objects \in Seq(Slot)
             /\ s[c].count \in 0 .. CountModulus - 1
             /\ Len(s[c].objects) \in Nat /\ Len(s[c].objects) <= ChunkSize
             /\ DOMAIN s[c].objects = 1 .. Len(s[c].objects)
  <2>1. s[c] \in {d \in Chunk : Len(d.objects) <= ChunkSize}
    BY <1>3, ElementOfSeq DEF Storage
  <2>2. s[c].objects \in Seq(Slot) /\ s[c].count \in 0 .. CountModulus - 1
    BY <2>1 DEF Chunk
  <2> QED
    BY <2>1, <2>2, LenProperties
<1> QED
  BY <1>1, <1>2, <1>3

(* An array is replaced by one that keeps its slots.                       *)
LEMMA ChunkReplaced ==
  ASSUME NEW s \in Storage, NEW i \in 1 .. Len(s), NEW c \in Chunk,
         Len(c.objects) <= ChunkSize, DOMAIN s[i].objects \subseteq DOMAIN c.objects
  PROVE  /\ [s EXCEPT ![i] = c] \in Storage /\ Kept(s, [s EXCEPT ![i] = c])
         /\ \A o : CountObject([s EXCEPT ![i] = c], o)
                     = CountObject(s, o) + Count(c.objects, o) - Count(s[i].objects, o)
<1>1. PICK t : t = [s EXCEPT ![i] = c]
  OBVIOUS
<1>2. PICK S : S = {d \in Chunk : Len(d.objects) <= ChunkSize}
  OBVIOUS
<1>3. s \in Seq(S) /\ c \in S /\ Storage = Seq(S)
  BY <1>2 DEF Storage
<1>4. t \in Seq(S) /\ Len(t) = Len(s) /\ \A j \in 1 .. Len(s) : t[j] = IF j = i THEN c ELSE s[j]
  BY <1>1, <1>3, ExceptSeq
<1>5. t \in Storage
  BY <1>3, <1>4
<1>6. Kept(s, t)
  <2>1. DOMAIN s = 1 .. Len(s) /\ DOMAIN t = 1 .. Len(s)
    BY <1>3, <1>4, LenProperties
  <2> QED
    BY <1>4, <2>1 DEF Kept
<1>7. ASSUME NEW o
      PROVE  CountObject(t, o) = CountObject(s, o) + Count(c.objects, o) - Count(s[i].objects, o)
  <2>1. s \in Seq(Chunk) /\ t \in Seq(Chunk) /\ s[i] \in Chunk
    BY <1>5, StorageType, StorageParts
  <2>2. PICK w : w = ChunkWeight(o)
    OBVIOUS
  <2>3. w \in [Chunk -> Int] /\ CountObject(s, o) = Weight(s, w) /\ CountObject(t, o) = Weight(t, w)
    BY <2>1, <2>2, CountObjectIsWeight
  <2>4. Weight(t, w) = Weight(s, w) + w[c] - w[s[i]]
    <3>1. Len(t) = Len(s) /\ t[i] = c /\ \A j \in 1 .. Len(s) : j # i => t[j] = s[j]
      BY <1>4
    <3>2. PICK C : C = Chunk
      OBVIOUS
    <3>3. /\ s \in Seq(C) /\ t \in Seq(C) /\ Len(t) = Len(s) /\ w \in [C -> Int]
          /\ i \in 1 .. Len(s) /\ \A j \in 1 .. Len(s) : j # i => t[j] = s[j]
      BY <2>1, <2>3, <3>1, <3>2
    <3>4. Weight(t, w) = Weight(s, w) + w[t[i]] - w[s[i]]
      BY <3>3, WeightSet
    <3> QED
      BY <3>1, <3>4
  <2>5. w[c] = Count(c.objects, o) /\ w[s[i]] = Count(s[i].objects, o)
    BY <2>1, <2>2 DEF ChunkWeight
  <2> QED
    BY <2>3, <2>4, <2>5
<1> QED
  BY <1>1, <1>5, <1>6, <1>7

(* An array is appended.                                                   *)
LEMMA ChunkAppended ==
  ASSUME NEW s \in Storage, NEW c \in Chunk, Len(c.objects) <= ChunkSize
  PROVE  /\ Append(s, c) \in Storage /\ Kept(s, Append(s, c))
         /\ \A o : CountObject(Append(s, c), o) = CountObject(s, o) + Count(c.objects, o)
<1>1. PICK t : t = Append(s, c)
  OBVIOUS
<1>2. PICK S : S = {d \in Chunk : Len(d.objects) <= ChunkSize}
  OBVIOUS
<1>3. s \in Seq(S) /\ c \in S /\ Storage = Seq(S)
  BY <1>2 DEF Storage
<1>4. t \in Seq(S) /\ Len(t) = Len(s) + 1 /\ \A j \in 1 .. Len(s) : t[j] = s[j]
  BY <1>1, <1>3, AppendProperties
<1>5. t \in Storage
  BY <1>3, <1>4
<1>6. Kept(s, t)
  <2>1. Len(s) \in Nat /\ DOMAIN s = 1 .. Len(s) /\ DOMAIN t = 1 .. Len(s) + 1
    BY <1>3, <1>4, LenProperties
  <2>2. ASSUME NEW j \in DOMAIN s PROVE j \in DOMAIN t /\ t[j] = s[j]
    BY <1>4, <2>1
  <2> QED
    BY <2>2 DEF Kept
<1>7. ASSUME NEW o
      PROVE  CountObject(t, o) = CountObject(s, o) + Count(c.objects, o)
  <2>1. s \in Seq(Chunk) /\ t \in Seq(Chunk)
    BY <1>5, StorageType
  <2>2. PICK w : w = ChunkWeight(o)
    OBVIOUS
  <2>3. w \in [Chunk -> Int] /\ CountObject(s, o) = Weight(s, w) /\ CountObject(t, o) = Weight(t, w)
    BY <2>1, <2>2, CountObjectIsWeight
  <2>4. Weight(t, w) = Weight(s, w) + w[c]
    BY <1>1, <2>1, <2>3, WeightAppend
  <2>5. w[c] = Count(c.objects, o)
    BY <2>2 DEF ChunkWeight
  <2> QED
    BY <2>3, <2>4, <2>5
<1> QED
  BY <1>1, <1>5, <1>6, <1>7

(* A new array is empty.                                                   *)
LEMMA EmptyChunkType ==
  /\ EmptyChunk \in Chunk /\ Len(EmptyChunk.objects) <= ChunkSize
  /\ Len(EmptyChunk.objects) = 0 /\ \A o : Count(EmptyChunk.objects, o) = 0
<1>1. EmptyChunk.objects = <<>> /\ EmptyChunk.count = 0
  BY DEF EmptyChunk
<1>2. EmptyChunk \in Chunk
  BY PoolAssumption DEF EmptyChunk, Chunk
<1> QED
  BY <1>1, <1>2, CountEmpty, PoolAssumption

(* Cursors that stay valid twice stay valid.                               *)
LEMMA KeptTwice ==
  ASSUME NEW s, NEW t, NEW u, Kept(s, t), Kept(t, u)
  PROVE  Kept(s, u)
BY DEF Kept

(* addObject() counts the object once, in the storage of the tail pool.    *)
LEMMA AddedObjectFits ==
  ASSUME NEW s \in Storage, NEW p \in Slot
  PROVE  /\ AddedObject(s, p) \in Storage /\ Kept(s, AddedObject(s, p))
         /\ \A o : CountObject(AddedObject(s, p), o) = CountObject(s, o) + Hit(p, o)
<1>1. PICK t : t = WithSpace(s)
  OBVIOUS
<1>2. /\ t \in Storage /\ Kept(s, t) /\ \A o : CountObject(t, o) = CountObject(s, o)
      /\ Len(t) \in Nat \ {0} /\ Len(t[Len(t)].objects) < ChunkSize
  <2>1. CASE CanAdd(s)
    <3>1. t = s /\ s # <<>> /\ Len(s[Len(s)].objects) < ChunkSize
      BY <1>1, <2>1 DEF WithSpace, CanAdd, Last
    <3>2. Len(s) \in Nat \ {0}
      BY <3>1, EmptySeq DEF Storage
    <3>3. Kept(s, s)
      BY DEF Kept
    <3> QED
      BY <3>1, <3>2, <3>3
  <2>2. CASE ~CanAdd(s)
    <3>1. t = Append(s, EmptyChunk)
      BY <1>1, <2>2 DEF WithSpace
    <3>2. /\ t \in Storage /\ Kept(s, t)
          /\ \A o : CountObject(t, o) = CountObject(s, o) + Count(EmptyChunk.objects, o)
      BY <3>1, ChunkAppended, EmptyChunkType
    <3>3. s \in Seq(Chunk)
      BY StorageType
    <3>4. \A o : CountObject(t, o) = CountObject(s, o)
      BY <3>2, <3>3, CountObjectIsWeight, EmptyChunkType
    <3>5. Len(t) = Len(s) + 1 /\ t[Len(s) + 1] = EmptyChunk /\ Len(s) \in Nat
      BY <3>1, <3>3, AppendProperties, EmptyChunkType, LenProperties
    <3>6. Len(t) \in Nat \ {0} /\ Len(t[Len(t)].objects) < ChunkSize
      BY <3>5, EmptyChunkType, PoolAssumption
    <3> QED
      BY <3>2, <3>4, <3>6
  <2> QED
    BY <2>1, <2>2
<1>3. PICK n \in Nat \ {0} : n = Len(t)
  BY <1>2
<1>4. PICK c \in Chunk : c = t[n]
  BY <1>2, <1>3, StorageParts
<1>5. PICK q \in Seq(Slot) : q = c.objects
  BY <1>4 DEF Chunk
<1>6. PICK d : d = Added(c, p)
  OBVIOUS
<1>7. /\ Append(q, p) \in Seq(Slot) /\ Len(Append(q, p)) = Len(q) + 1
      /\ \A o : Count(Append(q, p), o) = Count(q, o) + Hit(p, o)
  BY AppendProperties, CountAppend
<1>8. d.objects = Append(q, p) /\ d.count = (c.count + 1) % CountModulus
      /\ d = [objects |-> d.objects, count |-> d.count]
  BY <1>5, <1>6 DEF Added
<1>9. (c.count + 1) % CountModulus \in 0 .. CountModulus - 1
  <2>1. PICK a \in Int : a = c.count + 1
    BY <1>4 DEF Chunk
  <2>2. a % CountModulus \in 0 .. CountModulus - 1
    BY PoolAssumption
  <2> QED
    BY <2>1, <2>2
<1>10. d \in Chunk
  BY <1>7, <1>8, <1>9 DEF Chunk
<1>11. PICK m \in Nat : m = Len(q)
  BY LenProperties
<1>12. m < ChunkSize /\ Len(d.objects) = m + 1 /\ n \in 1 .. Len(t) /\ t \in Storage
  BY <1>2, <1>3, <1>4, <1>5, <1>7, <1>8, <1>11
<1>13. Len(d.objects) <= ChunkSize
  BY <1>12, PoolAssumption
<1>14. DOMAIN t[n].objects \subseteq DOMAIN d.objects
  <2>1. DOMAIN q = 1 .. m /\ DOMAIN d.objects = 1 .. m + 1
    BY <1>7, <1>8, <1>11, LenProperties
  <2> QED
    BY <1>4, <1>5, <2>1
<1>15. /\ [t EXCEPT ![n] = d] \in Storage /\ Kept(t, [t EXCEPT ![n] = d])
       /\ \A o : CountObject([t EXCEPT ![n] = d], o)
                   = CountObject(t, o) + Count(d.objects, o) - Count(t[n].objects, o)
  BY <1>10, <1>12, <1>13, <1>14, ChunkReplaced
<1>16. AddedObject(s, p) = [t EXCEPT ![n] = d]
  BY <1>1, <1>3, <1>4, <1>6 DEF AddedObject
<1>17. ASSUME NEW o PROVE CountObject([t EXCEPT ![n] = d], o) = CountObject(s, o) + Hit(p, o)
  <2>1. PICK x \in Int, y \in Int, z \in Int :
          x = CountObject(t, o) /\ y = Count(q, o) /\ z = Hit(p, o)
    BY <1>2, StorageType, CountObjectIsWeight, CountIsWeight DEF Hit
  <2>2. CountObject([t EXCEPT ![n] = d], o) = x + (y + z) - y
    BY <1>4, <1>5, <1>7, <1>8, <1>15, <2>1
  <2>3. x + (y + z) - y = x + z
    OBVIOUS
  <2> QED
    BY <1>2, <2>1, <2>2, <2>3
<1> QED
  BY <1>2, <1>15, <1>16, <1>17, KeptTwice

(* Where the k-th block ends of the n objects that a bulk call adds, if    *)
(* the first ones filled up an array and more blocks follow.               *)
BlockEnd(n, first, more, k) == IF k < more THEN first + k * ChunkSize ELSE n

BlockCount(n, first) == (n - first + ChunkSize - 1) \div ChunkSize

Blocks(q, n, first, more) ==
  [c \in 1 .. more |->
     [objects |-> SubSeq(q, first + (c - 1) * ChunkSize + 1, BlockEnd(n, first, more, c)),
      count   |-> 0]]

(* The blocks are adjacent, no larger than an array, and end at the end.   *)
LEMMA BlockBounds ==
  ASSUME NEW n \in Nat, NEW first \in 0 .. n, NEW more, more = BlockCount(n, first)
  PROVE  /\ more \in Nat
         /\ BlockEnd(n, first, more, 0) = first /\ BlockEnd(n, first, more, more) = n
         /\ \A k \in 0 .. more : BlockEnd(n, first, more, k) \in first .. n
         /\ \A k \in 0 .. more - 1 :
              /\ BlockEnd(n, first, more, k) = first + k * ChunkSize
              /\ BlockEnd(n, first, more, k) <= BlockEnd(n, first, more, k + 1)
              /\ BlockEnd(n, first, more, k + 1) - BlockEnd(n, first, more, k) <= ChunkSize
<1>1. PICK d \in Nat \ {0} : d = ChunkSize
  BY PoolAssumption
<1>2. PICK a \in Nat : a = n - first
  OBVIOUS
<1>3. more = (a + d - 1) \div d
  BY <1>1, <1>2 DEF BlockCount
<1>4. PICK b \in Nat : b = a + d - 1
  OBVIOUS
<1>5. (b \div d) \in Nat /\ (b \div d) * d <= b /\ b < (b \div d) * d + d
  BY SMT
<1>6. PICK m \in Nat : m = more /\ m * d <= b /\ b < m * d + d
  BY <1>3, <1>4, <1>5
<1>7. a <= m * d /\ (m > 0 => m * d - d < a) /\ m * d \in Nat
  <2>1. PICK e \in Nat : e = m * d
    OBVIOUS
  <2>2. a <= e /\ e - d < a
    BY <1>4, <1>6, <2>1
  <2> QED
    BY <2>1, <2>2
<1>8. n = first + a /\ n \in Nat /\ first \in Nat
  BY <1>2
<1>9. m = 0 => n = first
  BY <1>7, <1>8
<1>10. ASSUME NEW k \in 0 .. m - 1
       PROVE  first + k * d \in Nat /\ k * d <= m * d - d
  <2>1. PICK j \in Nat : m = k + 1 + j
    <3>1. m - (k + 1) \in Nat /\ m = k + 1 + (m - (k + 1))
      OBVIOUS
    <3> QED
      BY <3>1
  <2>2. m * d = k * d + d + j * d /\ j * d \in Nat /\ k * d \in Nat
    BY <2>1
  <2>3. PICK x \in Nat, y \in Nat : x = k * d /\ y = j * d
    BY <2>2
  <2>4. x <= x + d + y - d
    OBVIOUS
  <2> QED
    BY <1>8, <2>2, <2>3, <2>4
<1>11. ASSUME NEW k \in 0 .. m PROVE BlockEnd(n, first, more, k) \in first .. n
  <2>1. CASE k < m
    <3>1. PICK x \in Nat, y \in Nat : x = k * d /\ y = m * d
      BY <1>7, <1>10, <2>1
    <3>2. x <= y - d /\ y - d < a
      BY <1>7, <1>10, <2>1, <3>1
    <3>3. first + x \in first .. n
      BY <1>8, <3>2
    <3> QED
      BY <1>1, <1>6, <2>1, <3>1, <3>3 DEF BlockEnd
  <2>2. CASE ~(k < m)
    BY <1>6, <1>8, <2>2 DEF BlockEnd
  <2> QED
    BY <2>1, <2>2
<1>12. ASSUME NEW k \in 0 .. m - 1
       PROVE  /\ BlockEnd(n, first, more, k) = first + k * ChunkSize
              /\ BlockEnd(n, first, more, k) <= BlockEnd(n, first, more, k + 1)
              /\ BlockEnd(n, first, more, k + 1) - BlockEnd(n, first, more, k) <= ChunkSize
  <2>1. BlockEnd(n, first, more, k) = first + k * d
    BY <1>1, <1>6 DEF BlockEnd
  <2>2. PICK x \in Nat, y \in Nat : x = k * d /\ y = m * d
    BY <1>7, <1>10
  <2>3. (k + 1) * d = x + d
    BY <2>2
  <2>4. CASE k + 1 < m
    <3>1. BlockEnd(n, first, more, k + 1) = first + (x + d)
      BY <1>1, <1>6, <2>3, <2>4 DEF BlockEnd
    <3> QED
      BY <1>1, <1>8, <2>1, <2>2, <3>1
  <2>5. CASE k + 1 = m
    <3>1. BlockEnd(n, first, more, k + 1) = n
      BY <1>6, <2>5 DEF BlockEnd
    <3>2. y = x + d
      BY <2>2, <2>3, <2>5
    <3>3. a <= y /\ y - d < a
      BY <1>7, <2>2, <2>5
    <3>4. first + x <= n /\ n - (first + x) <= d
      BY <1>8, <3>2, <3>3
    <3> QED
      BY <1>1, <2>1, <2>2, <3>1, <3>4
  <2> QED
    BY <2>4, <2>5
<1>13. BlockEnd(n, first, more, 0) = first /\ BlockEnd(n, first, more, m) = n
  BY <1>1, <1>6, <1>9, <1>8 DEF BlockEnd
<1> QED
  BY <1>6, <1>11, <1>12, <1>13

(* What is between two places of an array, and what both parts count.      *)
LEMMA CountParts ==
  ASSUME NEW q \in Seq(Slot), NEW j \in 0 .. Len(q), NEW k \in j .. Len(q)
  PROVE  /\ SubSeq(q, j + 1, k) \in Seq(Slot) /\ Len(SubSeq(q, j + 1, k)) = k - j
         /\ \A o : Count(SubSeq(q, 1, k), o)
                     = Count(SubSeq(q, 1, j), o) + Count(SubSeq(q, j + 1, k), o)
<1>1. Len(q) \in Nat
  BY LenProperties
<1>2. \A i \in j + 1 .. k : q[i] \in Slot
  BY <1>1, ElementOfSeq
<1>3. SubSeq(q, j + 1, k) \in Seq(Slot) /\ Len(SubSeq(q, j + 1, k)) = k - j
  <2>1. j + 1 \in Int /\ k \in Int
    BY <1>1
  <2>2. /\ SubSeq(q, j + 1, k) \in Seq(Slot)
        /\ Len(SubSeq(q, j + 1, k)) = IF j + 1 <= k THEN k - (j + 1) + 1 ELSE 0
    BY <1>2, <2>1, SubSeqProperties
  <2> QED
    BY <1>1, <2>2
<1>4. SubSeq(q, 1, j) \in Seq(Slot)
  BY PrefixOfSeq
<1>5. SubSeq(q, 1, k) = SubSeq(q, 1, j) \o SubSeq(q, j + 1, k)
  <2>1. 1 \in 1 .. Len(q) + 1 /\ j \in 1 - 1 .. Len(q)
    BY <1>1
  <2> QED
    BY <2>1, ConcatAdjacentSubSeq
<1>6. ASSUME NEW o
      PROVE  Count(SubSeq(q, 1, k), o) = Count(SubSeq(q, 1, j), o) + Count(SubSeq(q, j + 1, k), o)
  <2>1. PICK a, b, S : a = SubSeq(q, 1, j) /\ b = SubSeq(q, j + 1, k) /\ S = Slot
    OBVIOUS
  <2>2. a \in Seq(S) /\ b \in Seq(S)
    BY <1>3, <1>4, <2>1
  <2>3. Count(a \o b, o) = Count(a, o) + Count(b, o)
    BY <2>2, CountConcat
  <2> QED
    BY <1>5, <2>1, <2>3
<1> QED
  BY <1>3, <1>6

(* Arrays are appended.                                                    *)
LEMMA ChunksAppended ==
  ASSUME NEW s \in Storage, NEW t \in Storage
  PROVE  /\ s \o t \in Storage /\ Kept(s, s \o t)
         /\ \A o : CountObject(s \o t, o) = CountObject(s, o) + CountObject(t, o)
<1>1. PICK u : u = s \o t
  OBVIOUS
<1>2. PICK S : S = {d \in Chunk : Len(d.objects) <= ChunkSize}
  OBVIOUS
<1>3. s \in Seq(S) /\ t \in Seq(S) /\ Storage = Seq(S)
  BY <1>2 DEF Storage
<1>4. /\ u \in Seq(S) /\ Len(u) = Len(s) + Len(t)
      /\ \A i \in 1 .. Len(s) + Len(t) : u[i] = IF i <= Len(s) THEN s[i] ELSE t[i - Len(s)]
  BY <1>1, <1>3, ConcatProperties
<1>5. u \in Storage
  BY <1>3, <1>4
<1>6. Kept(s, u)
  <2>1. /\ Len(s) \in Nat /\ Len(t) \in Nat
        /\ DOMAIN s = 1 .. Len(s) /\ DOMAIN u = 1 .. Len(s) + Len(t)
    BY <1>3, <1>4, LenProperties
  <2>2. ASSUME NEW j \in DOMAIN s PROVE j \in DOMAIN u /\ u[j] = s[j]
    BY <1>4, <2>1
  <2> QED
    BY <2>2 DEF Kept
<1>7. ASSUME NEW o
      PROVE  CountObject(u, o) = CountObject(s, o) + CountObject(t, o)
  <2>1. s \in Seq(Chunk) /\ t \in Seq(Chunk) /\ u \in Seq(Chunk)
    BY <1>5, StorageType
  <2>2. PICK w, C : w = ChunkWeight(o) /\ C = Chunk
    OBVIOUS
  <2>3. /\ w \in [C -> Int] /\ CountObject(s, o) = Weight(s, w)
        /\ CountObject(t, o) = Weight(t, w) /\ CountObject(u, o) = Weight(u, w)
        /\ s \in Seq(C) /\ t \in Seq(C)
    BY <2>1, <2>2, CountObjectIsWeight
  <2>4. Weight(u, w) = Weight(s, w) + Weight(t, w)
    BY <1>1, <2>3, WeightConcat
  <2> QED
    BY <2>3, <2>4
<1> QED
  BY <1>1, <1>5, <1>6, <1>7

(* The blocks of a bulk call are arrays that count what is in them.        *)
LEMMA BlocksFit ==
  ASSUME NEW q \in Seq(Slot), NEW n, n = Len(q), NEW first \in 0 .. n,
         NEW more, more = BlockCount(n, first), NEW t, t = Blocks(q, n, first, more)
  PROVE  /\ t \in Storage
         /\ \A o : Count(q, o) = Count(SubSeq(q, 1, first), o) + CountObject(t, o)
<1>1. n \in Nat
  BY LenProperties
<1>a. more \in Nat
  BY <1>1, BlockBounds
<1>b. BlockEnd(n, first, more, 0) = first /\ BlockEnd(n, first, more, more) = n
  BY <1>1, BlockBounds
<1>c. \A k \in 0 .. more : BlockEnd(n, first, more, k) \in first .. n
  BY <1>1, BlockBounds
<1>d. \A k \in 0 .. more - 1 :
        /\ BlockEnd(n, first, more, k) = first + k * ChunkSize
        /\ BlockEnd(n, first, more, k) <= BlockEnd(n, first, more, k + 1)
        /\ BlockEnd(n, first, more, k + 1) - BlockEnd(n, first, more, k) <= ChunkSize
  BY <1>1, BlockBounds
<1> DEFINE End(k) == BlockEnd(n, first, more, k)
<1>2. /\ more \in Nat /\ End(0) = first /\ End(more) = n
      /\ \A k \in 0 .. more : End(k) \in first .. n
      /\ \A k \in 0 .. more - 1 : /\ End(k) = first + k * ChunkSize
                                  /\ End(k) <= End(k + 1)
                                  /\ End(k + 1) - End(k) <= ChunkSize
  BY <1>a, <1>b, <1>c, <1>d
<1>3. ASSUME NEW k \in 0 .. more - 1
      PROVE  t[k + 1] = [objects |-> SubSeq(q, End(k) + 1, End(k + 1)), count |-> 0]
  <2>1. k + 1 \in 1 .. more /\ (k + 1) - 1 = k
    BY <1>2
  <2>2. t[k + 1] = [objects |-> SubSeq(q, first + ((k + 1) - 1) * ChunkSize + 1, End(k + 1)),
                    count   |-> 0]
    BY <2>1 DEF Blocks
  <2>3. End(k) = first + k * ChunkSize
    BY <1>2
  <2> QED
    BY <2>1, <2>2, <2>3
<1> HIDE DEF End
<1>4. ASSUME NEW k \in 0 .. more - 1
      PROVE  /\ k + 1 \in 0 .. more
             /\ End(k) \in 0 .. n /\ End(k + 1) \in End(k) .. n
             /\ End(k + 1) - End(k) <= ChunkSize
  <2>1. k \in 0 .. more /\ k + 1 \in 0 .. more
    BY <1>2
  <2>2. PICK a, b : a = End(k) /\ b = End(k + 1)
    OBVIOUS
  <2>3. a \in first .. n /\ b \in first .. n /\ a <= b /\ b - a <= ChunkSize
    BY <1>2, <2>1, <2>2
  <2>4. a \in 0 .. n /\ b \in a .. n
    BY <1>1, <2>3
  <2> QED
    BY <2>1, <2>2, <2>3, <2>4
<1>5. ASSUME NEW k \in 0 .. more - 1
      PROVE  /\ t[k + 1] \in Chunk /\ Len(t[k + 1].objects) <= ChunkSize
             /\ \A o : Count(SubSeq(q, 1, End(k + 1)), o)
                         = Count(SubSeq(q, 1, End(k)), o) + Count(t[k + 1].objects, o)
  <2>1. PICK a, b : a = End(k) /\ b = End(k + 1)
    OBVIOUS
  <2>2. a \in 0 .. Len(q) /\ b \in a .. Len(q) /\ b - a <= ChunkSize
    BY <1>4, <2>1
  <2>3. PICK r : r = SubSeq(q, a + 1, b)
    OBVIOUS
  <2>4. /\ r \in Seq(Slot) /\ Len(r) = b - a
        /\ \A o : Count(SubSeq(q, 1, b), o) = Count(SubSeq(q, 1, a), o) + Count(r, o)
    BY <2>2, <2>3, CountParts
  <2>5. t[k + 1] = [objects |-> r, count |-> 0]
    BY <1>3, <2>1, <2>3
  <2>6. 0 \in 0 .. CountModulus - 1
    BY PoolAssumption
  <2>7. t[k + 1] \in Chunk /\ t[k + 1].objects = r
    <3>1. PICK c : c = [objects |-> r, count |-> 0]
      OBVIOUS
    <3>2. c \in Chunk /\ c.objects = r
      BY <2>4, <2>6, <3>1 DEF Chunk
    <3> QED
      BY <2>5, <3>1, <3>2
  <2> QED
    BY <2>1, <2>2, <2>4, <2>7
<1>6. t \in Storage
  <2>1. PICK S : S = {d \in Chunk : Len(d.objects) <= ChunkSize}
    OBVIOUS
  <2>2. ASSUME NEW c \in 1 .. more PROVE t[c] \in S
    <3>1. c - 1 \in 0 .. more - 1 /\ (c - 1) + 1 = c
      BY <1>2
    <3> QED
      BY <1>5, <2>1, <3>1
  <2>3. t \in [1 .. more -> S]
    <3>1. t = [c \in 1 .. more |-> t[c]]
      BY DEF Blocks
    <3> QED
      BY <2>2, <3>1
  <2>4. t \in Seq(S)
    BY <1>2, <2>3
  <2> QED
    BY <2>1, <2>4 DEF Storage
<1>7. ASSUME NEW o PROVE Count(q, o) = Count(SubSeq(q, 1, first), o) + CountObject(t, o)
  <2> DEFINE T == {k \in 0 .. more : Count(SubSeq(q, 1, End(k)), o)
                     = Count(SubSeq(q, 1, first), o) + CountObject(SubSeq(t, 1, k), o)}
  <2>1. t \in Seq(Chunk) /\ Len(t) = more
    <3>0. DOMAIN t = 1 .. more
      BY DEF Blocks
    <3>1. DOMAIN t = 1 .. more /\ DOMAIN t = 1 .. Len(t) /\ Len(t) \in Nat /\ t \in Seq(Chunk)
      BY <1>6, <3>0, StorageParts
    <3> QED
      BY <1>2, <3>1
  <2>2. ASSUME NEW k \in 0 .. n PROVE Count(SubSeq(q, 1, k), o) \in Nat
    <3>1. SubSeq(q, 1, k) \in Seq(Slot)
      BY PrefixOfSeq
    <3> QED
      BY <3>1, CountIsWeight
  <2>3. 0 \in T
    <3>1. SubSeq(t, 1, 0) = <<>>
      BY SubSeqEmpty
    <3>2. <<>> \in Seq(Chunk)
      OBVIOUS
    <3>3. CountObject(<<>>, o) = 0
      BY <3>2, CountObjectIsWeight, WeightEmpty
    <3>4. PICK x \in Nat : x = Count(SubSeq(q, 1, first), o)
      BY <2>2
    <3>5. Count(SubSeq(q, 1, End(0)), o)
            = Count(SubSeq(q, 1, first), o) + CountObject(SubSeq(t, 1, 0), o)
      <4> HIDE DEF T
      <4>1. Count(SubSeq(q, 1, End(0)), o) = x
        BY <1>2, <3>4
      <4>2. Count(SubSeq(q, 1, first), o) + CountObject(SubSeq(t, 1, 0), o) = x + 0
        BY <3>1, <3>3, <3>4
      <4> QED
        BY <4>1, <4>2
    <3> QED
      BY <1>2, <3>5
  <2>4. ASSUME NEW k \in 0 .. more - 1, k \in T PROVE k + 1 \in T
    <3>1. PICK C, w, d : C = Chunk /\ w = ChunkWeight(o) /\ d = t[k + 1]
      OBVIOUS
    <3>2. k \in 0 .. Len(t) /\ k < Len(t) /\ k + 1 \in 0 .. Len(t)
      BY <1>2, <2>1
    <3>3. PICK u : u = SubSeq(t, 1, k)
      OBVIOUS
    <3>4. u \in Seq(Chunk) /\ Append(u, d) = SubSeq(t, 1, k + 1)
      <4> HIDE DEF T
      <4>1. t \in Seq(C)
        BY <2>1, <3>1
      <4>2. u \in Seq(C) /\ Append(u, t[k + 1]) = SubSeq(t, 1, k + 1)
        BY <3>2, <3>3, <4>1, PrefixOfSeq
      <4> QED
        BY <3>1, <4>2
    <3>5. SubSeq(t, 1, k + 1) \in Seq(Chunk) /\ d \in Chunk /\ w[d] = Count(d.objects, o)
      BY <1>5, <2>1, <3>1, <3>2, PrefixOfSeq DEF ChunkWeight
    <3>6. /\ CountObject(u, o) = Weight(u, w) /\ w \in [C -> Int] /\ u \in Seq(C) /\ d \in C
          /\ CountObject(SubSeq(t, 1, k + 1), o) = Weight(Append(u, d), w)
      BY <3>1, <3>4, <3>5, CountObjectIsWeight
    <3>7. Weight(Append(u, d), w) = Weight(u, w) + w[d]
      BY <3>6, WeightAppend
    <3>8. Count(SubSeq(q, 1, End(k + 1)), o) = Count(SubSeq(q, 1, End(k)), o) + Count(d.objects, o)
      BY <1>5, <3>1
    <3>9. Count(SubSeq(q, 1, End(k)), o) = Count(SubSeq(q, 1, first), o) + CountObject(u, o)
      BY <2>4, <3>3
    <3>10. PICK x \in Int, y \in Int, z \in Int :
             x = Count(SubSeq(q, 1, first), o) /\ y = CountObject(u, o) /\ z = Count(d.objects, o)
      <4>1. Count(SubSeq(q, 1, first), o) \in Int
        BY <2>2
      <4>2. CountObject(u, o) \in Int
        BY <3>4, CountObjectIsWeight
      <4>3. Count(d.objects, o) \in Int
        BY <3>1, <3>5, <3>6
      <4> QED
        BY <4>1, <4>2, <4>3
    <3>11. (x + y) + z = x + (y + z)
      OBVIOUS
    <3>12. Count(SubSeq(q, 1, End(k + 1)), o)
             = Count(SubSeq(q, 1, first), o) + CountObject(SubSeq(t, 1, k + 1), o)
      BY <3>5, <3>6, <3>7, <3>8, <3>9, <3>10, <3>11
    <3> QED
      BY <1>4, <3>12
  <2> HIDE DEF T
  <2>5. more \in T
    <3>1. \A k \in 0 .. more - 1 : k \in T => k + 1 \in T
      BY <2>4
    <3>2. \A k \in 0 .. more : k \in T
      BY <1>2, <2>3, <3>1, UpTo
    <3> QED
      BY <1>2, <3>2
  <2>6. SubSeq(t, 1, more) = t /\ SubSeq(q, 1, n) = q
    BY <2>1, SubSeqFull
  <2> QED
    BY <1>2, <2>5, <2>6 DEF T
<1> QED
  BY <1>6, <1>7

(* addObjects() counts every object once, in the tail pool's storage.      *)
LEMMA AddedObjectsFit ==
  ASSUME NEW s \in Storage, NEW q \in Seq(Slot)
  PROVE  /\ AddedObjects(s, q) \in Storage /\ Kept(s, AddedObjects(s, q))
         /\ \A o : CountObject(AddedObjects(s, q), o) = CountObject(s, o) + Count(q, o)
<1>1. PICK n \in Nat : n = Len(q)
  BY LenProperties
<1>2. PICK left : left = IF s = <<>> THEN 0 ELSE ChunkSize - Len(Last(s).objects)
  OBVIOUS
<1>3. PICK first : first = IF n < left THEN n ELSE left
  OBVIOUS
<1>4. PICK more : more = BlockCount(n, first)
  OBVIOUS
<1>5. PICK t : t = Blocks(q, n, first, more)
  OBVIOUS
<1>6. PICK a : a = IF first = 0 THEN s
                   ELSE [s EXCEPT ![Len(s)].objects = @ \o SubSeq(q, 1, first)]
  OBVIOUS
<1>7. AddedObjects(s, q) = a \o t
  BY <1>1, <1>2, <1>3, <1>4, <1>5, <1>6 DEF AddedObjects, BlockCount, Blocks, BlockEnd
<1>8. s # <<>> =>
        /\ Len(s) \in Nat \ {0} /\ Last(s) = s[Len(s)] /\ Last(s) \in Chunk
        /\ Last(s).objects \in Seq(Slot) /\ Last(s).count \in 0 .. CountModulus - 1
        /\ Len(Last(s).objects) \in Nat /\ Len(Last(s).objects) <= ChunkSize
        /\ DOMAIN Last(s).objects = 1 .. Len(Last(s).objects)
  <2>1. ASSUME s # <<>> PROVE Len(s) \in Nat \ {0} /\ Last(s) = s[Len(s)]
    BY <2>1, EmptySeq DEF Storage, Last
  <2> QED
    BY <2>1, StorageParts
<1>9. left \in Nat
  <2>1. CASE s = <<>>
    BY <1>2, <2>1
  <2>2. CASE s # <<>>
    <3>1. PICK m \in Nat : m = Len(Last(s).objects) /\ m <= ChunkSize
      BY <1>8, <2>2
    <3> QED
      BY <1>2, <2>2, <3>1, PoolAssumption
  <2> QED
    BY <2>1, <2>2
<1>10. first \in 0 .. n /\ first <= left /\ first \in 0 .. Len(q)
  BY <1>1, <1>3, <1>9
<1>11. /\ t \in Storage
       /\ \A o : Count(q, o) = Count(SubSeq(q, 1, first), o) + CountObject(t, o)
  BY <1>1, <1>4, <1>5, <1>10, BlocksFit
<1>12. PICK r : r = SubSeq(q, 1, first)
  OBVIOUS
<1>13. r \in Seq(Slot) /\ Len(r) = first
  BY <1>10, <1>12, PrefixOfSeq
<1>14. /\ a \in Storage /\ Kept(s, a)
       /\ \A o : CountObject(a, o) = CountObject(s, o) + Count(r, o)
  <2>1. CASE first = 0
    <3>1. a = s
      BY <1>6, <2>1
    <3>2. r = <<>>
      BY <1>12, <2>1, SubSeqEmpty
    <3>3. \A o : CountObject(s, o) \in Nat
      BY StorageType, CountObjectIsWeight
    <3>4. \A o : Count(r, o) = 0
      BY <3>2, CountEmpty
    <3>5. Kept(s, s)
      BY DEF Kept
    <3>6. ASSUME NEW o PROVE CountObject(a, o) = CountObject(s, o) + Count(r, o)
      <4>1. PICK x \in Nat : x = CountObject(s, o)
        BY <3>3
      <4>2. x = x + 0
        OBVIOUS
      <4> QED
        BY <3>1, <3>4, <4>1, <4>2
    <3> QED
      BY <3>1, <3>5, <3>6
  <2>2. CASE first # 0
    <3>1. s # <<>>
      BY <1>2, <1>9, <1>10, <2>2
    <3>2. PICK k \in Nat \ {0}, c \in Chunk : k = Len(s) /\ c = s[k]
      BY <1>8, <3>1
    <3>3. PICK p \in Seq(Slot) : p = c.objects
      BY DEF Chunk
    <3>4. PICK m \in Nat : m = Len(p)
      BY LenProperties
    <3>5. c = Last(s) /\ m + left = ChunkSize
      <4>1. c = Last(s)
        BY <1>8, <3>1, <3>2
      <4>2. left = ChunkSize - m
        BY <1>2, <3>1, <3>3, <3>4, <4>1
      <4> QED
        BY <1>9, <4>1, <4>2, PoolAssumption
    <3>6. PICK d : d = [c EXCEPT !.objects = p \o r]
      OBVIOUS
    <3>7. /\ p \o r \in Seq(Slot) /\ Len(p \o r) = m + first
          /\ \A o : Count(p \o r, o) = Count(p, o) + Count(r, o)
      <4>1. PICK S : S = Slot
        OBVIOUS
      <4>2. p \in Seq(S) /\ r \in Seq(S)
        BY <1>13, <4>1
      <4>3. p \o r \in Seq(S) /\ Len(p \o r) = Len(p) + Len(r)
        BY <4>2, ConcatProperties
      <4>4. \A o : Count(p \o r, o) = Count(p, o) + Count(r, o)
        BY <4>2, CountConcat
      <4> QED
        BY <1>13, <3>4, <4>1, <4>3, <4>4
    <3>8. d \in Chunk /\ d.objects = p \o r
      BY <3>6, <3>7 DEF Chunk
    <3>9. Len(d.objects) <= ChunkSize
      BY <1>9, <1>10, <3>5, <3>7, <3>8, PoolAssumption
    <3>10. DOMAIN s[k].objects \subseteq DOMAIN d.objects
      <4>1. DOMAIN p = 1 .. m /\ DOMAIN d.objects = 1 .. m + first
        BY <3>4, <3>7, <3>8, LenProperties
      <4> QED
        BY <1>10, <3>2, <3>3, <4>1
    <3>11. k \in 1 .. Len(s)
      BY <3>2
    <3>12. /\ [s EXCEPT ![k] = d] \in Storage /\ Kept(s, [s EXCEPT ![k] = d])
           /\ \A o : CountObject([s EXCEPT ![k] = d], o)
                       = CountObject(s, o) + Count(d.objects, o) - Count(s[k].objects, o)
      BY <3>8, <3>9, <3>10, <3>11, ChunkReplaced
    <3>13. a = [s EXCEPT ![k] = d]
      BY <1>6, <1>12, <2>2, <3>2, <3>3, <3>6
    <3>14. ASSUME NEW o PROVE CountObject(a, o) = CountObject(s, o) + Count(r, o)
      <4>1. PICK x \in Int, y \in Int, z \in Int :
              x = CountObject(s, o) /\ y = Count(p, o) /\ z = Count(r, o)
        BY <1>13, StorageType, CountObjectIsWeight, CountIsWeight
      <4>2. x + (y + z) - y = x + z
        OBVIOUS
      <4>3. CountObject(a, o) = x + (y + z) - y
        BY <3>2, <3>3, <3>7, <3>8, <3>12, <3>13, <4>1
      <4> QED
        BY <4>1, <4>2, <4>3
    <3> QED
      BY <3>12, <3>13, <3>14
  <2> QED
    BY <2>1, <2>2
<1>15. /\ a \o t \in Storage /\ Kept(a, a \o t)
       /\ \A o : CountObject(a \o t, o) = CountObject(a, o) + CountObject(t, o)
  BY <1>11, <1>14, ChunksAppended
<1>16. ASSUME NEW o PROVE CountObject(a \o t, o) = CountObject(s, o) + Count(q, o)
  <2>1. PICK x \in Int, y \in Int, z \in Int :
          x = CountObject(s, o) /\ y = Count(r, o) /\ z = CountObject(t, o)
    <3>1. CountObject(s, o) \in Int /\ CountObject(t, o) \in Int
      BY <1>11, StorageType, CountObjectIsWeight
    <3>2. Count(r, o) \in Int
      BY <1>13, CountIsWeight
    <3> QED
      BY <3>1, <3>2
  <2>2. (x + y) + z = x + (y + z)
    OBVIOUS
  <2> QED
    BY <1>11, <1>12, <1>14, <1>15, <2>1, <2>2
<1> QED
  BY <1>7, <1>14, <1>15, <1>16, KeptTwice

(* A hole is made in a slot.                                               *)
LEMMA PunchedFits ==
  ASSUME NEW s \in Storage, NEW i \in 1 .. Len(s), NEW j \in DOMAIN s[i].objects, NEW t,
         t = [s EXCEPT ![i] = Punched(s[i], j)]
  PROVE  /\ t \in Storage /\ Kept(s, t)
         /\ \A o \in Obj : CountObject(t, o) = CountObject(s, o) - Hit(s[i].objects[j], o)
<1>1. PICK c \in Chunk : c = s[i]
  BY StorageParts
<1>2. PICK q \in Seq(Slot) : q = c.objects
  BY DEF Chunk
<1>3. PICK d : d = Punched(c, j)
  OBVIOUS
<1>4. PICK r : r = [q EXCEPT ![j] = Hole]
  OBVIOUS
<1>5. d = [objects |-> r, count |-> (c.count - 1) % CountModulus]
  BY <1>2, <1>3, <1>4 DEF Punched
<1>6. (c.count - 1) % CountModulus \in 0 .. CountModulus - 1
  <2>1. PICK a \in Int : a = c.count - 1
    BY DEF Chunk
  <2>2. a % CountModulus \in 0 .. CountModulus - 1
    BY PoolAssumption
  <2> QED
    BY <2>1, <2>2
<1>7. j \in 1 .. Len(q) /\ Hole \in Slot
  BY <1>1, <1>2, LenProperties DEF Slot
<1>8. /\ r \in Seq(Slot) /\ Len(r) = Len(q) /\ DOMAIN r = DOMAIN q
      /\ \A o : Count(r, o) = Count(q, o) + Hit(Hole, o) - Hit(q[j], o)
  <2>1. r \in Seq(Slot) /\ Len(r) = Len(q)
    BY <1>4, <1>7, ExceptSeq
  <2>2. DOMAIN r = DOMAIN q
    BY <1>4
  <2>3. \A o : Count([q EXCEPT ![j] = Hole], o) = Count(q, o) + Hit(Hole, o) - Hit(q[j], o)
    BY <1>7, CountSet
  <2> QED
    BY <1>4, <2>1, <2>2, <2>3
<1>9. d \in Chunk /\ d.objects = r
  BY <1>5, <1>6, <1>8 DEF Chunk
<1>10. Len(d.objects) <= ChunkSize /\ DOMAIN s[i].objects \subseteq DOMAIN d.objects
  <2>1. Len(s[i].objects) <= ChunkSize
    BY StorageParts
  <2> QED
    BY <1>1, <1>2, <1>8, <1>9, <2>1
<1>11. /\ [s EXCEPT ![i] = d] \in Storage /\ Kept(s, [s EXCEPT ![i] = d])
       /\ \A o : CountObject([s EXCEPT ![i] = d], o)
                   = CountObject(s, o) + Count(d.objects, o) - Count(s[i].objects, o)
  BY <1>9, <1>10, ChunkReplaced
<1>12. ASSUME NEW o \in Obj
       PROVE  CountObject([s EXCEPT ![i] = d], o) = CountObject(s, o) - Hit(s[i].objects[j], o)
  <2>1. PICK x \in Int, y \in Int, z \in Int :
          x = CountObject(s, o) /\ y = Count(q, o) /\ z = Hit(q[j], o)
    <3>1. CountObject(s, o) \in Int
      BY StorageType, CountObjectIsWeight
    <3>2. Count(q, o) \in Int
      BY CountIsWeight
    <3>3. Hit(q[j], o) \in Int
      BY DEF Hit
    <3> QED
      BY <3>1, <3>2, <3>3
  <2>2. Hit(Hole, o) = 0
    BY PoolAssumption DEF Hit
  <2>3. Count(r, o) = y + 0 - z
    BY <1>8, <2>1, <2>2
  <2>4. x + (y + 0 - z) - y = x - z
    OBVIOUS
  <2>5. CountObject([s EXCEPT ![i] = d], o) = x + (y + 0 - z) - y
    BY <1>1, <1>2, <1>9, <1>11, <2>1, <2>3
  <2>6. Hit(s[i].objects[j], o) = z
    BY <1>1, <1>2, <2>1
  <2> QED
    BY <2>1, <2>4, <2>5, <2>6
<1> QED
  BY <1>1, <1>3, <1>11, <1>12

-----------------------------------------------------------------------------
(* The calls in progress and the pools they use.                           *)

Height(f) == IF f.kind = "dealloc" THEN f.base ELSE f.pool

FrameFits(P, f) ==
  /\ f.kind = "dealloc" => f.base <= Len(P)
  /\ f.kind = "drain" => f.pool \in 1 .. Len(P) /\ f.target <= f.pool
  /\ f.kind = "walk" =>
       /\ f.pool \in 1 .. Len(P)
       /\ f.stale = <<>>
       /\ f.chunk > 0 => f.chunk \in DOMAIN P[f.pool]
       /\ f.slot > 0 => f.chunk \in DOMAIN P[f.pool] /\ f.slot \in DOMAIN P[f.pool][f.chunk].objects

(* Code that runs inside a call pops only pools that it pushed, and drains *)
(* only pools that no walk is in.                                          *)
Below(f, g) ==
  /\ g.kind = "dealloc" => Height(f) <= g.base
  /\ g.kind = "drain" /\ g.target # 0 => Height(f) < g.pool /\ Height(f) < g.target
  /\ g.kind = "drain" /\ g.target = 0 => (f.kind = "walk" => f.pool # g.pool)

Pops(f) == f.kind = "drain" /\ f.target # 0

(* A pool releases only by way of -dealloc; popping, it is the last one.   *)
Calls(f, g) ==
  f.kind # "dealloc" => g.kind = "dealloc" /\ (Pops(f) => g.base = f.pool)

StackFits(P, S) ==
  /\ \A i \in 1 .. Len(S) : FrameFits(P, S[i])
  /\ \A i \in 1 .. Len(S), j \in 1 .. Len(S) : i < j => Below(S[i], S[j])
  /\ \A i \in 1 .. Len(S) - 1 : Calls(S[i], S[i + 1])
  /\ S # <<>> => (Pops(S[Len(S)]) => S[Len(S)].pool = Len(P))

(* Frames stay right when their pool is there, and keeps its slots while a *)
(* walk is in it.                                                          *)
LEMMA FrameStays ==
  ASSUME NEW P \in Seq(Storage), NEW Q \in Seq(Storage), NEW f \in Frame, FrameFits(P, f),
         Height(f) <= Len(Q), f.kind = "walk" => Kept(P[f.pool], Q[f.pool])
  PROVE  FrameFits(Q, f)
<1>1. CASE f.kind = "dealloc"
  BY <1>1 DEF FrameFits, Height
<1>2. CASE f.kind # "dealloc"
  <2>1. Height(f) = f.pool
    BY <1>2 DEF Height
  <2>2. f.pool \in 1 .. Len(P)
    BY <1>2, FrameKinds DEF FrameFits
  <2>3. Len(P) \in Nat /\ Len(Q) \in Nat
    BY LenProperties
  <2>4. f.pool \in 1 .. Len(Q)
    BY <2>1, <2>2, <2>3
  <2>5. f.kind = "walk" => Kept(P[f.pool], Q[f.pool]) /\ f.stale = <<>>
    BY DEF FrameFits
  <2>6. ASSUME f.kind = "walk", f.slot > 0
        PROVE  f.chunk \in DOMAIN Q[f.pool] /\ f.slot \in DOMAIN Q[f.pool][f.chunk].objects
    <3>1. f.chunk \in DOMAIN P[f.pool] /\ f.slot \in DOMAIN P[f.pool][f.chunk].objects
      BY <2>6 DEF FrameFits
    <3> QED
      BY <2>5, <2>6, <3>1 DEF Kept
  <2>7. ASSUME f.kind = "walk", f.chunk > 0 PROVE f.chunk \in DOMAIN Q[f.pool]
    <3>1. f.chunk \in DOMAIN P[f.pool]
      BY <2>7 DEF FrameFits
    <3> QED
      BY <2>5, <2>7, <3>1 DEF Kept
  <2>8. f.kind = "drain" => f.target <= f.pool
    BY DEF FrameFits
  <2> QED
    BY <1>2, <2>4, <2>5, <2>6, <2>7, <2>8 DEF FrameFits
<1> QED
  BY <1>1, <1>2

(* The calls stay right when pools grow.                                   *)
LEMMA PoolsGrow ==
  ASSUME NEW P \in Seq(Storage), NEW Q \in Seq(Storage), NEW S \in Seq(Frame), StackFits(P, S),
         Len(P) <= Len(Q), \A k \in 1 .. Len(P) : Kept(P[k], Q[k]),
         S # <<>> => (Pops(S[Len(S)]) => Len(P) = Len(Q))
  PROVE  StackFits(Q, S)
<1>1. ASSUME NEW i \in 1 .. Len(S) PROVE FrameFits(Q, S[i])
  <2>1. PICK f \in Frame : f = S[i]
    BY ElementOfSeq
  <2>2. FrameFits(P, f)
    BY <2>1 DEF StackFits
  <2>3. Height(f) <= Len(P) /\ Height(f) \in Nat
    BY <2>2, FrameKinds DEF FrameFits, Height
  <2>4. Len(P) \in Nat /\ Len(Q) \in Nat
    BY LenProperties
  <2>5. Height(f) <= Len(Q)
    BY <2>3, <2>4
  <2>6. f.kind = "walk" => Kept(P[f.pool], Q[f.pool])
    BY <2>2 DEF FrameFits
  <2> QED
    BY <2>1, <2>2, <2>5, <2>6, FrameStays
<1> QED
  BY <1>1 DEF StackFits

(* Calls stay right when the last pool goes away that none of them uses.   *)
LEMMA PoolGoes ==
  ASSUME NEW P \in Seq(Storage), P # <<>>, NEW S \in Seq(Frame), StackFits(P, S),
         \A i \in 1 .. Len(S) : Height(S[i]) < Len(P),
         S # <<>> => ~Pops(S[Len(S)])
  PROVE  Front(P) \in Seq(Storage) /\ StackFits(Front(P), S)
<1>1. PICK Q : Q = Front(P)
  OBVIOUS
<1>2. PICK n \in Nat \ {0} : n = Len(P)
  BY EmptySeq
<1>3. Q \in Seq(Storage) /\ Len(Q) = n - 1 /\ \A k \in 1 .. n - 1 : Q[k] = P[k]
  <2>1. n - 1 \in 0 .. Len(P)
    BY <1>2
  <2>2. PICK T : T = Storage
    OBVIOUS
  <2>3. P \in Seq(T)
    BY <2>2
  <2>4. Q = SubSeq(P, 1, n - 1)
    BY <1>1, <1>2 DEF Front
  <2>5. Q \in Seq(T) /\ Len(Q) = n - 1 /\ \A k \in 1 .. n - 1 : Q[k] = P[k]
    BY <2>1, <2>3, <2>4, PrefixOfSeq
  <2> QED
    BY <2>2, <2>5
<1>4. ASSUME NEW i \in 1 .. Len(S) PROVE FrameFits(Q, S[i])
  <2>1. PICK f \in Frame : f = S[i]
    BY ElementOfSeq
  <2>2. FrameFits(P, f)
    BY <2>1 DEF StackFits
  <2>3. Height(f) < n /\ Height(f) \in Nat
    BY <1>2, <2>1, FrameKinds DEF Height
  <2>4. Height(f) <= Len(Q)
    BY <1>3, <2>3
  <2>5. ASSUME f.kind = "walk" PROVE Kept(P[f.pool], Q[f.pool])
    <3>1. f.pool \in 1 .. n - 1
      BY <1>2, <2>2, <2>3, <2>5 DEF FrameFits, Height
    <3>2. Q[f.pool] = P[f.pool]
      BY <1>3, <3>1
    <3> QED
      BY <3>2 DEF Kept
  <2> QED
    BY <1>3, <2>1, <2>2, <2>4, <2>5, FrameStays
<1> QED
  BY <1>1, <1>3, <1>4 DEF StackFits

(* A call is entered.                                                      *)
LEMMA CallEntered ==
  ASSUME NEW P \in Seq(Storage), NEW S \in Seq(Frame), NEW f \in Frame,
         \A i \in 1 .. Len(S) : FrameFits(P, S[i]) /\ Below(S[i], f),
         \A i \in 1 .. Len(S), j \in 1 .. Len(S) : i < j => Below(S[i], S[j]),
         \A i \in 1 .. Len(S) - 1 : Calls(S[i], S[i + 1]),
         S # <<>> => Calls(S[Len(S)], f),
         FrameFits(P, f), Pops(f) => f.pool = Len(P)
  PROVE  Append(S, f) \in Seq(Frame) /\ StackFits(P, Append(S, f))
<1>1. PICK T : T = Append(S, f)
  OBVIOUS
<1>2. PICK n \in Nat : n = Len(S)
  BY LenProperties
<1>3. /\ T \in Seq(Frame) /\ Len(T) = n + 1 /\ T # <<>>
      /\ \A i \in 1 .. n : T[i] = S[i]
      /\ T[n + 1] = f
  BY <1>1, <1>2, AppendProperties
<1>4. \A i \in 1 .. Len(T) : FrameFits(P, T[i])
  <2>1. ASSUME NEW i \in 1 .. n + 1 PROVE FrameFits(P, T[i])
    <3>1. CASE i = n + 1
      BY <1>3, <3>1
    <3>2. CASE i # n + 1
      <4>1. i \in 1 .. n
        BY <3>2
      <4> QED
        BY <1>2, <1>3, <4>1
    <3> QED
      BY <3>1, <3>2
  <2> QED
    BY <1>3, <2>1
<1>5. \A i \in 1 .. Len(T), j \in 1 .. Len(T) : i < j => Below(T[i], T[j])
  <2>1. ASSUME NEW i \in 1 .. n + 1, NEW j \in 1 .. n + 1, i < j PROVE Below(T[i], T[j])
    <3>1. i \in 1 .. n /\ T[i] = S[i]
      BY <1>3, <2>1
    <3>2. CASE j = n + 1
      BY <1>2, <1>3, <3>1, <3>2
    <3>3. CASE j # n + 1
      <4>1. j \in 1 .. n
        BY <3>3
      <4> QED
        BY <1>2, <1>3, <2>1, <3>1, <4>1
    <3> QED
      BY <3>2, <3>3
  <2> QED
    BY <1>3, <2>1
<1>6. \A i \in 1 .. Len(T) - 1 : Calls(T[i], T[i + 1])
  <2>1. ASSUME NEW i \in 1 .. n PROVE Calls(T[i], T[i + 1])
    <3>1. CASE i = n
      <4>1. S # <<>>
        BY <1>2, <3>1, EmptySeq
      <4> QED
        BY <1>2, <1>3, <3>1, <4>1
    <3>2. CASE i # n
      <4>1. i \in 1 .. n - 1 /\ i + 1 \in 1 .. n
        BY <3>2
      <4> QED
        BY <1>2, <1>3, <4>1
    <3> QED
      BY <3>1, <3>2
  <2>2. Len(T) - 1 = n
    BY <1>3
  <2> QED
    BY <2>1, <2>2
<1>7. Pops(T[Len(T)]) => T[Len(T)].pool = Len(P)
  BY <1>3
<1> QED
  BY <1>1, <1>3, <1>4, <1>5, <1>6, <1>7 DEF StackFits

(* What is left of the stack when a call has returned.                     *)
LEMMA Rest ==
  ASSUME NEW S \in Seq(Frame), S # <<>>
  PROVE  /\ Len(S) \in Nat \ {0} /\ Last(S) = S[Len(S)] /\ Last(S) \in Frame
         /\ Front(S) \in Seq(Frame) /\ Len(Front(S)) = Len(S) - 1
         /\ \A i \in 1 .. Len(S) - 1 : Front(S)[i] = S[i]
<1>1. PICK T : T = Frame
  OBVIOUS
<1>2. S \in Seq(T)
  BY <1>1
<1>3. Len(S) \in Nat \ {0}
  BY EmptySeq
<1>4. Len(S) - 1 \in 0 .. Len(S) /\ Len(S) \in 1 .. Len(S)
  BY <1>3
<1>5. /\ Front(S) \in Seq(T) /\ Len(Front(S)) = Len(S) - 1
      /\ \A i \in 1 .. Len(S) - 1 : Front(S)[i] = S[i]
  BY <1>2, <1>4, PrefixOfSeq DEF Front
<1>6. Last(S) = S[Len(S)] /\ Last(S) \in Frame
  BY <1>4, ElementOfSeq DEF Last
<1> QED
  BY <1>1, <1>3, <1>5, <1>6

(* A call returns.                                                         *)
LEMMA CallReturns ==
  ASSUME NEW P \in Seq(Storage), NEW S \in Seq(Frame), S # <<>>, StackFits(P, S),
         \A i \in 1 .. Len(S) : i = Len(S) - 1 => (Pops(S[i]) => S[i].pool = Len(P))
  PROVE  StackFits(P, Front(S))
<1>1. PICK n \in Nat \ {0} : n = Len(S)
  BY Rest
<1>2. PICK T \in Seq(Frame) : T = Front(S)
  BY Rest
<1>3. Len(T) = n - 1 /\ \A i \in 1 .. n - 1 : T[i] = S[i]
  BY <1>1, <1>2, Rest
<1>4. \A i \in 1 .. Len(T) : FrameFits(P, T[i])
  BY <1>1, <1>3 DEF StackFits
<1>5. \A i \in 1 .. Len(T), j \in 1 .. Len(T) : i < j => Below(T[i], T[j])
  BY <1>1, <1>3 DEF StackFits
<1>6. \A i \in 1 .. Len(T) - 1 : Calls(T[i], T[i + 1])
  <2>1. ASSUME NEW i \in 1 .. n - 1 - 1 PROVE Calls(T[i], T[i + 1])
    <3>1. i \in 1 .. n - 1 /\ i + 1 \in 1 .. n - 1
      BY <1>1
    <3>2. Calls(S[i], S[i + 1])
      BY <1>1, <3>1 DEF StackFits
    <3> QED
      BY <1>3, <3>1, <3>2
  <2> QED
    BY <1>3, <2>1
<1>7. T # <<>> => (Pops(T[Len(T)]) => T[Len(T)].pool = Len(P))
  <2>1. ASSUME T # <<>> PROVE Pops(T[Len(T)]) => T[Len(T)].pool = Len(P)
    <3>1. Len(T) \in Nat \ {0}
      BY <2>1, EmptySeq
    <3>2. n - 1 \in 1 .. n - 1 /\ n - 1 \in 1 .. n /\ T[n - 1] = S[n - 1]
      BY <1>1, <1>3, <3>1
    <3> QED
      BY <1>1, <1>3, <3>2
  <2> QED
    BY <2>1
<1> QED
  BY <1>2, <1>4, <1>5, <1>6, <1>7 DEF StackFits

(* The innermost call goes on.                                             *)
LEMMA CallGoesOn ==
  ASSUME NEW P \in Seq(Storage), NEW S \in Seq(Frame), S # <<>>, NEW f \in Frame,
         \A i \in 1 .. Len(S) - 1 : FrameFits(P, S[i]),
         \A i \in 1 .. Len(S), j \in 1 .. Len(S) : i < j => Below(S[i], S[j]),
         \A i \in 1 .. Len(S) - 1 : Calls(S[i], S[i + 1]),
         FrameFits(P, f), f.kind # "dealloc", f.kind = S[Len(S)].kind,
         Pops(f) => f.pool = Len(P),
         \A i \in 1 .. Len(S) - 1 : Below(S[i], S[Len(S)]) => Below(S[i], f)
  PROVE  /\ [S EXCEPT ![Len(S)] = f] \in Seq(Frame)
         /\ [S EXCEPT ![Len(S)] = f] = Append(Front(S), f)
         /\ StackFits(P, [S EXCEPT ![Len(S)] = f])
<1>1. PICK n \in Nat \ {0} : n = Len(S)
  BY Rest
<1>2. PICK T : T = [S EXCEPT ![n] = f]
  OBVIOUS
<1>3. /\ T \in Seq(Frame) /\ Len(T) = n /\ T[n] = f
      /\ \A i \in 1 .. n : i # n => T[i] = S[i]
  <2>1. n \in 1 .. Len(S)
    BY <1>1
  <2> QED
    BY <1>1, <1>2, <2>1, ExceptSeq
<1>4. \A i \in 1 .. n - 1 : i \in 1 .. n /\ T[i] = S[i]
  BY <1>3
<1>5. \A i \in 1 .. Len(T) : FrameFits(P, T[i])
  <2>1. ASSUME NEW i \in 1 .. n PROVE FrameFits(P, T[i])
    <3>1. CASE i = n
      BY <1>3, <3>1
    <3>2. CASE i # n
      <4>1. i \in 1 .. n - 1
        BY <3>2
      <4> QED
        BY <1>1, <1>4, <4>1
    <3> QED
      BY <3>1, <3>2
  <2> QED
    BY <1>3, <2>1
<1>6. \A i \in 1 .. Len(T), j \in 1 .. Len(T) : i < j => Below(T[i], T[j])
  <2>1. ASSUME NEW i \in 1 .. n, NEW j \in 1 .. n, i < j PROVE Below(T[i], T[j])
    <3>1. i \in 1 .. n - 1 /\ T[i] = S[i]
      BY <1>4, <2>1
    <3>2. Below(S[i], S[j])
      BY <1>1, <2>1
    <3>3. CASE j = n
      BY <1>1, <1>3, <3>1, <3>2, <3>3
    <3>4. CASE j # n
      BY <1>3, <3>1, <3>2, <3>4
    <3> QED
      BY <3>3, <3>4
  <2> QED
    BY <1>3, <2>1
<1>7. \A i \in 1 .. Len(T) - 1 : Calls(T[i], T[i + 1])
  <2>1. ASSUME NEW i \in 1 .. n - 1 PROVE Calls(T[i], T[i + 1])
    <3>1. T[i] = S[i] /\ i + 1 \in 1 .. n /\ Calls(S[i], S[i + 1])
      BY <1>1, <1>4
    <3>2. CASE i + 1 = n
      <4>1. T[i + 1] = f /\ S[i + 1].kind # "dealloc"
        BY <1>1, <1>3, <3>2
      <4> QED
        BY <3>1, <4>1 DEF Calls
    <3>3. CASE i + 1 # n
      <4>1. T[i + 1] = S[i + 1]
        BY <1>3, <3>1, <3>3
      <4> QED
        BY <3>1, <4>1
    <3> QED
      BY <3>2, <3>3
  <2> QED
    BY <1>3, <2>1
<1>8. StackFits(P, T)
  BY <1>3, <1>5, <1>6, <1>7 DEF StackFits
<1>9. T = Append(Front(S), f)
  <2>1. PICK R \in Seq(Frame) : R = Front(S)
    BY Rest
  <2>2. Len(R) = n - 1 /\ \A i \in 1 .. n - 1 : R[i] = S[i]
    BY <1>1, <2>1, Rest
  <2>3. PICK U : U = Append(R, f)
    OBVIOUS
  <2>4. /\ U \in Seq(Frame) /\ Len(U) = n
        /\ \A i \in 1 .. n - 1 : U[i] = R[i]
        /\ U[n] = f
    <3>1. /\ U \in Seq(Frame) /\ Len(U) = Len(R) + 1
          /\ \A i \in 1 .. Len(R) : U[i] = R[i]
          /\ U[Len(R) + 1] = f
      BY <2>3, AppendProperties
    <3>2. Len(R) + 1 = n
      BY <1>1, <2>2
    <3> QED
      BY <2>2, <3>1, <3>2
  <2>5. \A i \in 1 .. n : T[i] = U[i]
    <3>1. ASSUME NEW i \in 1 .. n PROVE T[i] = U[i]
      <4>1. i = n \/ i \in 1 .. n - 1
        BY <1>1
      <4> QED
        BY <1>3, <1>4, <2>2, <2>4, <4>1
    <3> QED
      BY <3>1
  <2>6. T = U
    BY <1>3, <2>4, <2>5, SeqEqual
  <2> QED
    BY <2>1, <2>3, <2>6
<1> QED
  BY <1>1, <1>2, <1>3, <1>8, <1>9

(* -dealloc starts, when a reference is released that was the last one.    *)
LEMMA DeallocEntered ==
  ASSUME NEW P \in Seq(Storage), NEW S \in Seq(Frame), StackFits(P, S), NEW o \in Obj, NEW f,
         f = [kind |-> "dealloc", object |-> o, base |-> Len(P)]
  PROVE  Append(S, f) \in Seq(Frame) /\ StackFits(P, Append(S, f))
<1>1. PICK n \in Nat : n = Len(P)
  BY LenProperties
<1>2. f \in Frame /\ f.kind = "dealloc" /\ f.base = n
  BY <1>1 DEF Frame
<1>3. ASSUME NEW i \in 1 .. Len(S) PROVE FrameFits(P, S[i]) /\ Below(S[i], f)
  <2>1. PICK g \in Frame : g = S[i]
    BY ElementOfSeq
  <2>2. FrameFits(P, g)
    BY <2>1 DEF StackFits
  <2>3. Height(g) <= n
    BY <1>1, <2>2, FrameKinds DEF FrameFits, Height
  <2> QED
    BY <1>2, <2>1, <2>2, <2>3 DEF Below
<1>4. FrameFits(P, f) /\ ~Pops(f)
  BY <1>1, <1>2 DEF FrameFits, Pops
<1>5. S # <<>> => Calls(S[Len(S)], f)
  BY <1>1, <1>2 DEF StackFits, Calls
<1>6. /\ \A i \in 1 .. Len(S), j \in 1 .. Len(S) : i < j => Below(S[i], S[j])
      /\ \A i \in 1 .. Len(S) - 1 : Calls(S[i], S[i + 1])
  BY DEF StackFits
<1> QED
  BY <1>2, <1>3, <1>4, <1>5, <1>6, CallEntered

(* A frame on the stack holds what its drain has taken.                    *)
LEMMA PendingEntered ==
  ASSUME NEW o, NEW P \in Seq(Storage), NEW S \in Seq(Frame), NEW f \in Frame
  PROVE  PendingIn(P, Append(S, f), o) = PendingIn(P, S, o) + TakenObject(f, o)
<1>1. PICK F, w : F = Frame /\ w = FrameWeight(o)
  OBVIOUS
<1>2. S \in Seq(F) /\ f \in F /\ w \in [F -> Int]
  BY <1>1, FrameWeightType
<1>3. Weight(Append(S, f), w) = Weight(S, w) + w[f]
  BY <1>2, WeightAppend
<1>4. P \in Seq(Seq(Chunk))
  BY StorageType, SeqMonotonic
<1>5. Weight(P, StorageWeight(o)) \in Nat /\ Weight(S, w) \in Nat
  BY <1>1, <1>4, PendingParts
<1>6. w[f] = TakenObject(f, o) /\ w[f] \in Nat
  BY <1>1, FrameWeightType DEF FrameWeight
<1>7. PICK x \in Int, y \in Int, z \in Int :
        x = Weight(P, StorageWeight(o)) /\ y = Weight(S, w) /\ z = w[f]
  BY <1>5, <1>6
<1>8. x + (y + z) = (x + y) + z
  OBVIOUS
<1> QED
  BY <1>1, <1>3, <1>6, <1>7, <1>8 DEF PendingIn

(* Pool k has another storage, all others have theirs.                     *)
Replaced(P, Q, k) ==
  /\ P \in Seq(Storage) /\ Q \in Seq(Storage)
  /\ k \in 1 .. Len(P) /\ Len(Q) = Len(P) /\ \A j \in 1 .. Len(P) : j # k => Q[j] = P[j]

(* A pool's storage becomes another one.                                   *)
LEMMA PendingPool ==
  ASSUME NEW o, NEW P, NEW Q, NEW S, NEW k
  PROVE  Replaced(P, Q, k) /\ S \in Seq(Frame)
         => PendingIn(Q, S, o) = PendingIn(P, S, o) + CountObject(Q[k], o) - CountObject(P[k], o)
<1>1. ASSUME P \in Seq(Storage), Q \in Seq(Storage), S \in Seq(Frame),
             k \in 1 .. Len(P), Len(Q) = Len(P), \A j \in 1 .. Len(P) : j # k => Q[j] = P[j]
      PROVE  PendingIn(Q, S, o) = PendingIn(P, S, o) + CountObject(Q[k], o) - CountObject(P[k], o)
  <2>1. PICK C, w : C = Seq(Chunk) /\ w = StorageWeight(o)
    OBVIOUS
  <2>2. /\ P \in Seq(C) /\ Q \in Seq(C) /\ w \in [C -> Int]
        /\ k \in 1 .. Len(P) /\ Len(Q) = Len(P) /\ \A j \in 1 .. Len(P) : j # k => Q[j] = P[j]
    BY <1>1, <2>1, StorageType, SeqMonotonic, StorageWeightType
  <2>3. Weight(Q, w) = Weight(P, w) + w[Q[k]] - w[P[k]]
    BY <2>2, WeightSet
  <2>4. Q[k] \in C /\ P[k] \in C
    BY <2>2, ElementOfSeq
  <2>5. /\ w[Q[k]] = CountObject(Q[k], o) /\ w[P[k]] = CountObject(P[k], o)
        /\ w[Q[k]] \in Int /\ w[P[k]] \in Int
    <3>1. \A c \in C : w[c] = CountObject(c, o)
      BY <2>1 DEF StorageWeight
    <3> QED
      BY <2>2, <2>4, <3>1
  <2>6. Weight(P, w) \in Nat /\ Weight(S, FrameWeight(o)) \in Nat
    BY <1>1, <2>1, <2>2, PendingParts
  <2>7. PICK x \in Int, y \in Int, z \in Int, u \in Int :
          x = Weight(P, w) /\ y = Weight(S, FrameWeight(o)) /\ z = w[Q[k]] /\ u = w[P[k]]
    BY <2>5, <2>6
  <2>8. (x + z - u) + y = (x + y) + z - u
    OBVIOUS
  <2>9. PendingIn(Q, S, o) = (x + z - u) + y /\ PendingIn(P, S, o) = x + y
    BY <2>1, <2>3, <2>7 DEF PendingIn
  <2> QED
    BY <2>5, <2>7, <2>8, <2>9
<1> QED
  BY <1>1 DEF Replaced

(* The storage of one pool takes objects, or gets a hole.                  *)
Changed(P, Q, k) ==
  /\ Q \in Seq(Storage) /\ Len(Q) = Len(P) /\ Kept(P[k], Q[k])
  /\ \A j \in 1 .. Len(P) : j # k => Q[j] = P[j]

(* An EXCEPT of the pools is such a change.                                *)
LEMMA ChangedPool ==
  ASSUME NEW P \in Seq(Storage), NEW k \in 1 .. Len(P), NEW t \in Storage, Kept(P[k], t)
  PROVE  Changed(P, [P EXCEPT ![k] = t], k) /\ [P EXCEPT ![k] = t][k] = t
<1>1. PICK Q : Q = [P EXCEPT ![k] = t]
  OBVIOUS
<1>2. /\ Q \in Seq(Storage) /\ Len(Q) = Len(P) /\ Q[k] = t
      /\ \A j \in 1 .. Len(P) : j # k => Q[j] = P[j]
  BY <1>1, ExceptSeq
<1>3. Changed(P, Q, k) /\ Q[k] = t
  BY <1>2 DEF Changed
<1> QED
  BY <1>1, <1>3

(* The calls stay right, and what was added is pending.                    *)
LEMMA PoolChanges ==
  ASSUME NEW P, NEW S, NEW k, NEW Q
  PROVE  (/\ P \in Seq(Storage) /\ S \in Seq(Frame) /\ StackFits(P, S) /\ k \in 1 .. Len(P)
          /\ Changed(P, Q, k))
         => /\ Q \in Seq(Storage) /\ StackFits(Q, S)
            /\ \A o : PendingIn(Q, S, o) = PendingIn(P, S, o) + CountObject(Q[k], o) - CountObject(P[k], o)
<1> SUFFICES
      ASSUME P \in Seq(Storage), S \in Seq(Frame), StackFits(P, S), k \in 1 .. Len(P), Changed(P, Q, k)
      PROVE  /\ Q \in Seq(Storage) /\ StackFits(Q, S)
             /\ \A o : PendingIn(Q, S, o) = PendingIn(P, S, o) + CountObject(Q[k], o) - CountObject(P[k], o)
  OBVIOUS
<1>1. /\ Q \in Seq(Storage) /\ Len(Q) = Len(P) /\ Kept(P[k], Q[k])
      /\ \A j \in 1 .. Len(P) : j # k => Q[j] = P[j]
  BY DEF Changed
<1>2. \A j \in 1 .. Len(P) : Kept(P[j], Q[j])
  <2>1. ASSUME NEW j \in 1 .. Len(P) PROVE Kept(P[j], Q[j])
    <3>1. CASE j = k
      BY <1>1, <3>1
    <3>2. CASE j # k
      BY <1>1, <3>2 DEF Kept
    <3> QED
      BY <3>1, <3>2
  <2> QED
    BY <2>1
<1>3. Len(P) \in Nat
  BY LenProperties
<1>4. StackFits(Q, S)
  <2>1. Len(P) <= Len(Q)
    BY <1>1, <1>3
  <2>2. S # <<>> => (Pops(S[Len(S)]) => Len(P) = Len(Q))
    BY <1>1
  <2>3. PICK R : R = Q
    OBVIOUS
  <2>4. R \in Seq(Storage) /\ Len(P) <= Len(R) /\ (\A j \in 1 .. Len(P) : Kept(P[j], R[j]))
        /\ (S # <<>> => (Pops(S[Len(S)]) => Len(P) = Len(R)))
    BY <1>1, <1>2, <2>1, <2>2, <2>3
  <2>5. StackFits(R, S)
    BY <2>4, PoolsGrow
  <2> QED
    BY <2>3, <2>5
<1>5. ASSUME NEW o
      PROVE  PendingIn(Q, S, o) = PendingIn(P, S, o) + CountObject(Q[k], o) - CountObject(P[k], o)
  <2>1. Replaced(P, Q, k)
    BY <1>1 DEF Replaced
  <2> QED
    BY <2>1, PendingPool
<1> QED
  BY <1>1, <1>4, <1>5

(* So is the storage of a new pool.                                        *)
LEMMA NewStorage ==
  <<EmptyChunk>> \in Storage /\ <<>> \in Storage
  /\ \A o : CountObject(<<EmptyChunk>>, o) = 0 /\ CountObject(<<>>, o) = 0
<1>1. <<>> \in Storage /\ <<>> \in Seq(Chunk)
  BY DEF Storage
<1>2. PICK s : s = <<>>
  OBVIOUS
<1>3. \A o : CountObject(s, o) = 0
  BY <1>1, <1>2, CountObjectIsWeight, WeightEmpty
<1>4. <<EmptyChunk>> = Append(s, EmptyChunk)
  BY <1>2
<1>5. /\ Append(s, EmptyChunk) \in Storage
      /\ \A o : CountObject(Append(s, EmptyChunk), o) = CountObject(s, o) + Count(EmptyChunk.objects, o)
  BY <1>1, <1>2, EmptyChunkType, ChunkAppended
<1>6. \A o : CountObject(Append(s, EmptyChunk), o) = 0 + 0
  BY <1>3, <1>5, EmptyChunkType
<1> QED
  BY <1>1, <1>2, <1>3, <1>4, <1>5, <1>6

(* A pool is pushed.                                                       *)
Pushed(P) == Append(P, <<EmptyChunk>>)

(* The calls stay right, and nothing more is pending.                      *)
LEMMA PoolPushed ==
  ASSUME NEW P \in Seq(Storage), NEW S \in Seq(Frame), StackFits(P, S),
         S # <<>> => ~Pops(S[Len(S)])
  PROVE  /\ Pushed(P) \in Seq(Storage) /\ StackFits(Pushed(P), S)
         /\ \A o : PendingIn(Pushed(P), S, o) = PendingIn(P, S, o)
<1>0. PICK Q : Q = Pushed(P)
  OBVIOUS
<1>1. /\ Q \in Seq(Storage) /\ Len(Q) = Len(P) + 1 /\ \A i \in 1 .. Len(P) : Q[i] = P[i]
  BY <1>0, NewStorage, AppendProperties DEF Pushed
<1>2. Len(P) \in Nat
  BY LenProperties
<1>3. \A k \in 1 .. Len(P) : Kept(P[k], Q[k])
  BY <1>1 DEF Kept
<1>4. StackFits(Q, S)
  <2>1. PICK R : R = Q
    OBVIOUS
  <2>2. R \in Seq(Storage) /\ Len(P) <= Len(R) /\ (\A j \in 1 .. Len(P) : Kept(P[j], R[j]))
        /\ (S # <<>> => (Pops(S[Len(S)]) => Len(P) = Len(R)))
    BY <1>1, <1>2, <1>3, <2>1
  <2>3. StackFits(R, S)
    BY <2>2, PoolsGrow
  <2> QED
    BY <2>1, <2>3
<1>5. ASSUME NEW o PROVE PendingIn(Q, S, o) = PendingIn(P, S, o)
  <2>1. PICK C, w, e : C = Seq(Chunk) /\ w = StorageWeight(o) /\ e = <<EmptyChunk>>
    OBVIOUS
  <2>2. P \in Seq(C) /\ w \in [C -> Int] /\ e \in C
    BY <2>1, NewStorage, StorageType, SeqMonotonic, StorageWeightType
  <2>3. Weight(Append(P, e), w) = Weight(P, w) + w[e]
    BY <2>2, WeightAppend
  <2>4. w[e] = 0
    BY <2>1, <2>2, NewStorage DEF StorageWeight
  <2>5. Weight(P, w) \in Nat
    BY <2>1, <2>2, PendingParts
  <2> QED
    BY <1>0, <2>1, <2>3, <2>4, <2>5 DEF PendingIn, Pushed
<1> QED
  BY <1>0, <1>1, <1>4, <1>5

-----------------------------------------------------------------------------
(* The pools and the calls in progress fit, whatever strides are used.     *)

PoolFits ==
  /\ ~DrainsWalked
  /\ TypeOK
  /\ pools \in Seq(Storage)
  /\ StackFits(pools, stack)

(* What a step does to the map it does to the pending releases.            *)
MapFollows ==
  \A q \in Obj : /\ PendingIn(pools, stack, q) \in Nat
                 /\ object_map'[q] - object_map[q]
                      = PendingIn(pools', stack', q) - PendingIn(pools, stack, q)

(* The pending releases of an object are a number.                         *)
LEMMA PendingType ==
  ASSUME NEW P \in Seq(Storage), NEW S \in Seq(Frame)
  PROVE  \A o : PendingIn(P, S, o) \in Nat
<1>1. P \in Seq(Seq(Chunk))
  BY StorageType, SeqMonotonic
<1> QED
  BY <1>1, PendingParts

(* Client code does not run while a pool is popped.                        *)
LEMMA ClientTop ==
  ASSUME PoolFits, ClientRuns
  PROVE  stack # <<>> => ~Pops(stack[Len(stack)])
BY DEF ClientRuns, Top, Last, Pops

(* A step that neither maps nor releases anything.                         *)
LEMMA MapStays ==
  ASSUME PoolFits, object_map' = object_map,
         \A q \in Obj : PendingIn(pools', stack', q) = PendingIn(pools, stack, q)
  PROVE  MapFollows
<1>1. ASSUME NEW q \in Obj
      PROVE  /\ PendingIn(pools, stack, q) \in Nat
             /\ object_map'[q] - object_map[q] = PendingIn(pools', stack', q) - PendingIn(pools, stack, q)
  <2>1. PendingIn(pools, stack, q) \in Nat /\ object_map[q] \in Int
    BY PendingType DEF PoolFits, TypeOK
  <2>2. PICK x \in Int, y \in Int : x = PendingIn(pools, stack, q) /\ y = object_map[q]
    BY <2>1
  <2>3. PendingIn(pools', stack', q) = x /\ object_map'[q] = y
    BY <2>2
  <2> QED
    BY <2>1, <2>2, <2>3
<1> QED
  BY <1>1 DEF MapFollows

(* A step that releases an object from a pool.                             *)
LEMMA MapShrinks ==
  ASSUME PoolFits, NEW o \in Obj, object_map' = [object_map EXCEPT ![o] = @ - 1],
         \A q \in Obj : PendingIn(pools', stack', q) = PendingIn(pools, stack, q) - Hit(o, q)
  PROVE  MapFollows
<1>1. ASSUME NEW q \in Obj
      PROVE  /\ PendingIn(pools, stack, q) \in Nat
             /\ object_map'[q] - object_map[q] = PendingIn(pools', stack', q) - PendingIn(pools, stack, q)
  <2>1. PendingIn(pools, stack, q) \in Nat /\ object_map[q] \in Int /\ Hit(o, q) \in Int
    BY PendingType DEF PoolFits, TypeOK, Hit
  <2>2. PICK x \in Int, y \in Int, z \in Int :
          x = PendingIn(pools, stack, q) /\ y = object_map[q] /\ z = Hit(o, q)
    BY <2>1
  <2>3. object_map \in [Obj -> Int]
    BY DEF PoolFits, TypeOK
  <2>4. object_map'[q] = y - z
    BY <2>2, <2>3 DEF Hit
  <2>5. PendingIn(pools', stack', q) = x - z
    BY <2>2
  <2>6. (y - z) - y = (x - z) - x
    BY <2>2
  <2> QED
    BY <2>1, <2>2, <2>4, <2>5, <2>6
<1> QED
  BY <1>1 DEF MapFollows

(* A step that leaves pools and calls alone.                               *)
LEMMA PoolsUntouched ==
  ASSUME PoolFits, UNCHANGED <<pools, object_map, stack>>
  PROVE  /\ pools' \in Seq(Storage) /\ StackFits(pools', stack') /\ stack' \in Seq(Frame)
         /\ object_map' \in [Obj -> Int] /\ MapFollows
<1>1. MapFollows
  BY MapStays
<1> QED
  BY <1>1 DEF PoolFits, TypeOK

(* _autoreleaseObject().                                                   *)
LEMMA AutoreleaseFits ==
  ASSUME PoolFits, NEW o \in Obj, DoAutorelease(o), stack' = stack
  PROVE  /\ pools' \in Seq(Storage) /\ StackFits(pools', stack') /\ stack' \in Seq(Frame)
         /\ object_map' \in [Obj -> Int] /\ leaked' \in [Obj -> Int] /\ MapFollows
<1>1. object_map \in [Obj -> Int] /\ leaked \in [Obj -> Int]
  BY DEF PoolFits, TypeOK
<1>2. CASE UNCHANGED <<pools, object_map>>
  <2>1. leaked' \in [Obj -> Int]
    <3>1. leaked' = leaked \/ leaked' = [leaked EXCEPT ![o] = @ + 1]
          \/ (o \notin ConstantObj /\ pools # <<>>)
      BY DEF DoAutorelease
    <3>2. ASSUME o \notin ConstantObj, pools # <<>> PROVE leaked' = leaked
      BY <3>2 DEF DoAutorelease
    <3> QED
      BY <1>1, <3>1, <3>2
  <2> QED
    BY <1>2, <2>1, PoolsUntouched
<1>3. CASE ~UNCHANGED <<pools, object_map>>
  <2>1. /\ pools # <<>> /\ object_map' = [object_map EXCEPT ![o] = @ + 1] /\ leaked' = leaked
        /\ pools' = [pools EXCEPT ![Len(pools)] = AddedObject(@, o)]
    BY <1>3 DEF DoAutorelease
  <2>2. pools \in Seq(Storage) /\ stack \in Seq(Frame) /\ StackFits(pools, stack)
    BY DEF PoolFits, TypeOK
  <2>3. PICK n \in Nat \ {0} : n = Len(pools)
    BY <2>1, <2>2, EmptySeq
  <2>4. PICK s \in Storage : s = pools[n]
    BY <2>2, <2>3, ElementOfSeq
  <2>5. PICK t : t = AddedObject(s, o)
    OBVIOUS
  <2>6. /\ t \in Storage /\ Kept(s, t)
        /\ \A q : CountObject(t, q) = CountObject(s, q) + Hit(o, q)
    <3>1. o \in Slot
      BY DEF Slot
    <3> QED
      BY <2>5, <3>1, AddedObjectFits
  <2>7. PICK Q : Q = [pools EXCEPT ![n] = t]
    OBVIOUS
  <2>8. pools' = Q
    BY <2>1, <2>3, <2>4, <2>5, <2>7
  <2>9. /\ Q \in Seq(Storage) /\ StackFits(Q, stack)
        /\ \A q : PendingIn(Q, stack, q)
                    = PendingIn(pools, stack, q) + CountObject(t, q) - CountObject(s, q)
    <3>1. n \in 1 .. Len(pools)
      BY <2>3
    <3>2. Kept(pools[n], t)
      BY <2>4, <2>6
    <3>3. Changed(pools, Q, n) /\ Q[n] = t
      BY <2>2, <2>6, <2>7, <3>1, <3>2, ChangedPool
    <3>4. /\ Q \in Seq(Storage) /\ StackFits(Q, stack)
          /\ \A q : PendingIn(Q, stack, q)
                      = PendingIn(pools, stack, q) + CountObject(Q[n], q) - CountObject(pools[n], q)
      BY <2>2, <3>1, <3>3, PoolChanges
    <3> QED
      BY <2>4, <3>3, <3>4
  <2>10. ASSUME NEW q \in Obj
         PROVE  /\ PendingIn(pools, stack, q) \in Nat
                /\ object_map'[q] - object_map[q]
                     = PendingIn(pools', stack', q) - PendingIn(pools, stack, q)
    <3>1. PICK x \in Int, y \in Int, z \in Int :
            x = PendingIn(pools, stack, q) /\ y = CountObject(s, q) /\ z = Hit(o, q)
      <4>1. PendingIn(pools, stack, q) \in Int
        BY <2>2, PendingType
      <4>2. CountObject(s, q) \in Int
        BY StorageType, CountObjectIsWeight
      <4>3. Hit(o, q) \in Int
        BY DEF Hit
      <4> QED
        BY <4>1, <4>2, <4>3
    <3>2. object_map'[q] - object_map[q] = z
      <4>1. object_map'[q] = object_map[q] + z
        BY <1>1, <2>1, <3>1 DEF Hit
      <4> QED
        BY <1>1, <3>1, <4>1
    <3>3. x + (y + z) - y - x = z
      OBVIOUS
    <3>4. PendingIn(pools', stack', q) = x + (y + z) - y
      BY <2>6, <2>8, <2>9, <3>1
    <3>5. PendingIn(pools, stack, q) \in Nat
      BY <2>2, PendingType
    <3> QED
      BY <3>1, <3>2, <3>3, <3>4, <3>5
  <2>11. object_map' \in [Obj -> Int]
    BY <1>1, <2>1
  <2> QED
    BY <1>1, <2>1, <2>2, <2>8, <2>9, <2>10, <2>11 DEF MapFollows
<1> QED
  BY <1>2, <1>3

(* What a step leaves behind, whatever it does to the other counters.      *)
Fitting ==
  /\ pools' \in Seq(Storage) /\ stack' \in Seq(Frame) /\ StackFits(pools', stack')
  /\ object_map' \in [Obj -> Int]

(* The retain counter of an object, and what else a -release starts.       *)
LEMMA ReleaseFits ==
  ASSUME PoolFits, NEW o \in Obj, NEW Q \in Seq(Storage), Len(Q) = Len(pools),
         NEW R \in Seq(Frame), StackFits(Q, R), ReleaseFrom(o, R)
  PROVE  /\ stack' \in Seq(Frame) /\ StackFits(Q, stack') /\ rc' \in [Obj -> Int]
         /\ \A q : PendingIn(Q, stack', q) = PendingIn(Q, R, q)
<1>1. rc \in [Obj -> Int]
  BY DEF PoolFits, TypeOK
<1>2. PICK f : f = DeallocFrame(o)
  OBVIOUS
<1>3. f = [kind |-> "dealloc", object |-> o, base |-> Len(Q)]
  BY <1>2 DEF DeallocFrame
<1>4. CASE stack' = R
  <2>1. rc' \in [Obj -> Int]
    BY <1>1 DEF ReleaseFrom
  <2> QED
    BY <1>4, <2>1
<1>5. CASE stack' = Append(R, f)
  <2>1. rc' \in [Obj -> Int]
    BY <1>1 DEF ReleaseFrom
  <2>2. Append(R, f) \in Seq(Frame) /\ StackFits(Q, Append(R, f))
    BY <1>3, DeallocEntered
  <2>3. f \in Frame /\ \A q : TakenObject(f, q) = 0
    <3>1. Len(Q) \in Nat
      BY LenProperties
    <3> QED
      BY <1>3, <3>1 DEF Frame, TakenObject
  <2>4. ASSUME NEW q PROVE PendingIn(Q, Append(R, f), q) = PendingIn(Q, R, q)
    <3>1. PendingIn(Q, Append(R, f), q) = PendingIn(Q, R, q) + 0
      BY <2>3, PendingEntered
    <3>2. PendingIn(Q, R, q) \in Nat
      BY PendingType
    <3> QED
      BY <3>1, <3>2
  <2> QED
    BY <1>5, <2>1, <2>2, <2>4
<1> QED
  BY <1>2, <1>4, <1>5 DEF ReleaseFrom

(* -release by client code.                                                *)
LEMMA ReleaseStepFits ==
  ASSUME PoolFits, NEW o \in Obj, Release(o)
  PROVE  Fitting /\ MapFollows /\ rc' \in [Obj -> Int]
<1>1. /\ pools \in Seq(Storage) /\ stack \in Seq(Frame) /\ StackFits(pools, stack)
      /\ object_map \in [Obj -> Int]
  BY DEF PoolFits, TypeOK
<1>2. ReleaseFrom(o, stack) /\ UNCHANGED <<pools, object_map>>
  BY DEF Release
<1>3. /\ stack' \in Seq(Frame) /\ StackFits(pools, stack') /\ rc' \in [Obj -> Int]
      /\ \A q : PendingIn(pools, stack', q) = PendingIn(pools, stack, q)
  BY <1>1, <1>2, ReleaseFits
<1>4. MapFollows
  <2>1. \A q \in Obj : PendingIn(pools', stack', q) = PendingIn(pools, stack, q)
    BY <1>2, <1>3
  <2> QED
    BY <1>2, <2>1, MapStays
<1> QED
  BY <1>1, <1>2, <1>3, <1>4 DEF Fitting

(* The calls of T that are in -dealloc are so in S, too.                   *)
NoNewDealloc(S, T) ==
  \A i \in 1 .. Len(T) : T[i].kind = "dealloc" =>
    i \in 1 .. Len(S) /\ S[i].kind = "dealloc" /\ S[i].object = T[i].object

(* Calls that are not -dealloc come, go on and return.                     *)
LEMMA NoNewDeallocs ==
  ASSUME NEW S \in Seq(Frame)
  PROVE  /\ NoNewDealloc(S, S)
         /\ \A f \in Frame : f.kind # "dealloc" => NoNewDealloc(S, Append(S, f))
         /\ S # <<>> => /\ NoNewDealloc(S, Front(S))
                        /\ \A f \in Frame : f.kind # "dealloc" => NoNewDealloc(S, Append(Front(S), f))
<1>1. PICK n \in Nat : n = Len(S)
  BY LenProperties
<1>2. NoNewDealloc(S, S)
  BY DEF NoNewDealloc
<1>3. ASSUME NEW R \in Seq(Frame), NoNewDealloc(S, R), NEW f \in Frame, f.kind # "dealloc"
      PROVE  NoNewDealloc(S, Append(R, f))
  <2>1. PICK m \in Nat : m = Len(R)
    BY LenProperties
  <2>2. PICK T : T = Append(R, f)
    OBVIOUS
  <2>3. /\ Len(T) = m + 1 /\ T[m + 1] = f /\ \A i \in 1 .. m : T[i] = R[i]
    BY <2>1, <2>2, AppendProperties
  <2>4. \A i \in 1 .. Len(T) : i \in 1 .. m \/ i = m + 1
    BY <2>1, <2>3
  <2>5. NoNewDealloc(S, T)
    BY <1>3, <2>1, <2>3, <2>4 DEF NoNewDealloc
  <2> QED
    BY <2>2, <2>5
<1>4. ASSUME S # <<>> PROVE Front(S) \in Seq(Frame) /\ NoNewDealloc(S, Front(S))
  <2>1. PICK R \in Seq(Frame) : R = Front(S) /\ Len(R) = n - 1 /\ \A i \in 1 .. n - 1 : R[i] = S[i]
    BY <1>1, <1>4, Rest
  <2>2. \A i \in 1 .. Len(R) : i \in 1 .. n /\ R[i] = S[i]
    BY <1>1, <2>1
  <2> QED
    BY <1>1, <2>1, <2>2 DEF NoNewDealloc
<1> QED
  BY <1>2, <1>3, <1>4

(* A pool releases an object, or goes past a slot.                         *)
PoolReleases ==
  \E R \in Seq(Frame) :
    /\ NoNewDealloc(stack, R)
    /\ \/ stack' = R /\ UNCHANGED <<object_map, rc>>
       \/ \E p \in Obj : Unmap(p) /\ ReleaseFrom(p, R)

(* Client code has pools drained, walked or popped.                        *)
LEMMA CallFits ==
  ASSUME PoolFits, ClientRuns, NEW f \in Frame, f.kind \in {"drain", "walk"}, FrameFits(pools, f),
         f.kind = "drain" /\ f.target # 0 => f.pool > BasePools /\ f.target > BasePools,
         f.kind = "drain" /\ f.target = 0 => f.pool \notin {stack[i].pool : i \in WalksIn(f.pool)},
         Pops(f) => f.pool = Len(pools), \A q : TakenObject(f, q) = 0,
         stack' = Append(stack, f), UNCHANGED <<pools, object_map>>
  PROVE  Fitting /\ MapFollows /\ NoNewDealloc(stack, stack')
<1>1. /\ pools \in Seq(Storage) /\ stack \in Seq(Frame) /\ StackFits(pools, stack)
      /\ object_map \in [Obj -> Int]
  BY DEF PoolFits, TypeOK
<1>2. PICK n \in Nat : n = Len(stack)
  BY <1>1, LenProperties
<1>3. ASSUME NEW i \in 1 .. n PROVE FrameFits(pools, stack[i]) /\ Below(stack[i], f)
  <2>1. PICK g \in Frame, h \in Frame : g = stack[i] /\ h = stack[n]
    <3>1. n \in 1 .. Len(stack)
      BY <1>2
    <3> QED
      BY <1>1, <1>2, <3>1, ElementOfSeq
  <2>2. FrameFits(pools, g)
    BY <1>1, <1>2, <2>1 DEF StackFits
  <2>3. h.kind = "dealloc" /\ BasePools = h.base /\ h.base \in Nat
    <3>1. stack # <<>> /\ Top = h
      BY <1>1, <1>2, <2>1, EmptySeq DEF Top, Last
    <3>2. h.kind = "dealloc"
      BY <3>1 DEF ClientRuns
    <3> QED
      BY <3>1, <3>2, FrameKinds DEF BasePools
  <2>4. Height(g) <= h.base
    <3>1. CASE i = n
      BY <2>1, <2>3, <3>1 DEF Height
    <3>2. CASE i # n
      <4>1. Below(g, h)
        BY <1>1, <1>2, <2>1, <3>2 DEF StackFits
      <4> QED
        BY <2>3, <4>1 DEF Below
    <3> QED
      BY <3>1, <3>2
  <2>5. Height(g) \in Nat
    BY FrameKinds DEF Height
  <2>6. f.kind # "dealloc" /\ (f.kind = "drain" => f.pool \in Nat /\ f.target \in Nat)
    BY FrameKinds
  <2>7. f.kind = "drain" /\ f.target = 0 => (g.kind = "walk" => g.pool # f.pool)
    BY <1>1, <1>2, <2>1 DEF WalksIn
  <2>8. Below(g, f)
    BY <2>3, <2>4, <2>5, <2>6, <2>7 DEF Below
  <2> QED
    BY <2>1, <2>2, <2>8
<1>4. stack # <<>> => Calls(stack[Len(stack)], f)
  BY DEF Calls, ClientRuns, Top, Last
<1>5. /\ \A i \in 1 .. Len(stack), j \in 1 .. Len(stack) : i < j => Below(stack[i], stack[j])
      /\ \A i \in 1 .. Len(stack) - 1 : Calls(stack[i], stack[i + 1])
  BY <1>1 DEF StackFits
<1>6. Append(stack, f) \in Seq(Frame) /\ StackFits(pools, Append(stack, f))
  BY <1>1, <1>2, <1>3, <1>4, <1>5, CallEntered
<1>7. ASSUME NEW q \in Obj PROVE PendingIn(pools', stack', q) = PendingIn(pools, stack, q)
  <2>1. PendingIn(pools, Append(stack, f), q) = PendingIn(pools, stack, q) + 0
    BY <1>1, PendingEntered
  <2>2. PendingIn(pools, stack, q) \in Nat
    BY <1>1, PendingType
  <2> QED
    BY <2>1, <2>2
<1>8. MapFollows
  BY <1>7, MapStays
<1> QED
  BY <1>1, <1>6, <1>8, NoNewDeallocs DEF Fitting

(* A walk starts at the last slot of the newest array of a pool.           *)
LEMMA WalkFrameFits ==
  ASSUME PoolFits, NEW n \in 1 .. Len(pools), NEW S \in SUBSET Obj, NEW all \in BOOLEAN,
         NEW f, f = WalkFrame(n, S, all)
  PROVE  /\ f \in Frame /\ f.kind = "walk" /\ FrameFits(pools, f) /\ ~Pops(f)
         /\ \A q : TakenObject(f, q) = 0
<1>1. pools \in Seq(Storage) /\ Len(pools) \in Nat
  BY LenProperties DEF PoolFits
<1>2. PICK s \in Storage : s = pools[n]
  BY <1>1, ElementOfSeq
<1>3. PICK m \in Nat : m = Len(s) /\ (s # <<>> => m # 0)
  BY StorageParts, EmptySeq
<1>4. /\ f \in Frame /\ f.kind = "walk" /\ f.pool = n /\ f.chunk = m /\ f.stale = <<>>
      /\ f.slot > 0 => s # <<>> /\ f.slot = Len(s[m].objects)
  <2>1. CASE s = <<>>
    <3>1. f = [kind |-> "walk", pool |-> n, chunk |-> m, slot |-> 0, objects |-> S, all |-> all,
               stale |-> <<>>]
      BY <1>2, <1>3, <2>1 DEF WalkFrame
    <3> QED
      BY <1>1, <3>1 DEF Frame
  <2>2. CASE s # <<>>
    <3>1. m \in 1 .. Len(s) /\ m # 0
      BY <1>3, <2>2
    <3>2. PICK l \in Nat : l = Len(s[m].objects)
      BY <3>1, StorageParts
    <3>3. f = [kind |-> "walk", pool |-> n, chunk |-> m, slot |-> l, objects |-> S, all |-> all,
               stale |-> <<>>]
      BY <1>2, <1>3, <2>2, <3>2 DEF WalkFrame, Last
    <3> QED
      BY <1>1, <2>2, <3>2, <3>3 DEF Frame
  <2> QED
    BY <2>1, <2>2
<1>5. FrameFits(pools, f)
  <2>1. f.chunk > 0 => f.chunk \in DOMAIN s
    BY <1>3, <1>4, StorageParts
  <2>2. ASSUME f.slot > 0 PROVE m \in DOMAIN s /\ f.slot \in DOMAIN s[m].objects
    <3>1. m \in 1 .. Len(s)
      BY <1>3, <1>4, <2>2
    <3> QED
      BY <1>4, <2>2, <3>1, StorageParts
  <2> QED
    BY <1>1, <1>2, <1>4, <2>1, <2>2 DEF FrameFits
<1>6. ~Pops(f) /\ \A q : TakenObject(f, q) = 0
  BY <1>4 DEF Pops, TakenObject
<1> QED
  BY <1>4, <1>5, <1>6

(* Pools are popped, emptied or walked, one by one or all of them.         *)
LEMMA CallsFit ==
  ASSUME PoolFits,
         \/ \E k \in 1 .. Len(pools) : MulleAutoreleasePoolPop(k) \/ ReleaseAllPoolObjects(k)
         \/ \E S \in SUBSET Obj \ {{}}, all \in BOOLEAN : ReleasePoolObjects(S, all)
  PROVE  Fitting /\ MapFollows /\ NoNewDealloc(stack, stack')
<1>1. /\ pools \in Seq(Storage) /\ stack \in Seq(Frame) /\ StackFits(pools, stack)
  BY DEF PoolFits, TypeOK
<1>2. PICK n \in Nat : n = Len(pools)
  BY <1>1, LenProperties
<1>3. BasePools \in Nat
  <2>1. CASE stack = <<>>
    BY <2>1 DEF BasePools
  <2>2. CASE stack # <<>>
    <3>1. Top \in Frame /\ Top.kind = "dealloc"
      BY <1>1, <2>2, Rest DEF Top, ClientRuns, MulleAutoreleasePoolPop, ReleaseAllPoolObjects,
         ReleasePoolObjects
    <3> QED
      BY <2>2, <3>1, FrameKinds DEF BasePools
  <2> QED
    BY <2>1, <2>2
<1>4. ASSUME NEW k \in 1 .. n, MulleAutoreleasePoolPop(k)
      PROVE  Fitting /\ MapFollows /\ NoNewDealloc(stack, stack')
  <2>1. PICK f : f = DrainFrame(n, k, "return")
    OBVIOUS
  <2>2. /\ f \in Frame /\ f.kind = "drain" /\ f.pool = n /\ f.target = k /\ f.chain = <<>>
    BY <2>1 DEF DrainFrame, Frame
  <2>3. /\ ClientRuns /\ k > BasePools /\ stack' = Append(stack, f)
        /\ UNCHANGED <<pools, object_map>>
    BY <1>2, <1>4, <2>1 DEF MulleAutoreleasePoolPop, PopAutoreleasePool
  <2>4. FrameFits(pools, f) /\ (Pops(f) => f.pool = Len(pools))
    BY <1>2, <2>2 DEF FrameFits, Pops
  <2>5. f.pool > BasePools /\ f.target > BasePools /\ f.target # 0
    BY <1>3, <2>2, <2>3
  <2>6. \A q : TakenObject(f, q) = 0
    BY <2>2, NewStorage DEF TakenObject
  <2> QED
    BY <2>2, <2>3, <2>4, <2>5, <2>6, CallFits
<1>5. ASSUME NEW k \in 1 .. n, ReleaseAllPoolObjects(k)
      PROVE  Fitting /\ MapFollows /\ NoNewDealloc(stack, stack')
  <2>1. PICK f : f = DrainFrame(k, 0, "return")
    OBVIOUS
  <2>2. /\ f \in Frame /\ f.kind = "drain" /\ f.pool = k /\ f.target = 0 /\ f.chain = <<>>
    BY <2>1 DEF DrainFrame, Frame
  <2>3. /\ ClientRuns /\ Cardinality(WalksIn(k)) <= 0 /\ stack' = Append(stack, f)
        /\ UNCHANGED <<pools, object_map>>
    BY <1>5, <2>1 DEF ReleaseAllPoolObjects, PoolFits
  <2>4. FrameFits(pools, f) /\ ~Pops(f)
    BY <1>2, <2>2 DEF FrameFits, Pops
  <2>5. WalksIn(k) = {}
    <3>1. WalksIn(k) \subseteq 1 .. Len(stack) /\ Len(stack) \in Nat
      BY <1>1, LenProperties DEF WalksIn
    <3>2. IsFiniteSet(WalksIn(k))
      <4>1. IsFiniteSet(1 .. Len(stack))
        BY <3>1, FS_Interval
      <4> QED
        BY <3>1, <4>1, FS_Subset
    <3> QED
      BY <2>3, <3>2, FS_CardinalityType, FS_EmptySet
  <2>6. \A q : TakenObject(f, q) = 0
    BY <2>2, NewStorage DEF TakenObject
  <2> QED
    BY <2>2, <2>3, <2>4, <2>5, <2>6, CallFits
<1>6. ASSUME NEW S \in SUBSET Obj, NEW all \in BOOLEAN, ReleasePoolObjects(S, all)
      PROVE  Fitting /\ MapFollows /\ NoNewDealloc(stack, stack')
  <2>1. n \in 1 .. Len(pools)
    BY <1>1, <1>2, <1>6, EmptySeq DEF ReleasePoolObjects
  <2>2. PICK f : f = WalkFrame(n, S, all)
    OBVIOUS
  <2>3. /\ f \in Frame /\ f.kind = "walk" /\ FrameFits(pools, f) /\ ~Pops(f)
        /\ \A q : TakenObject(f, q) = 0
    BY <2>1, <2>2, WalkFrameFits
  <2>4. ClientRuns /\ stack' = Append(stack, f) /\ UNCHANGED <<pools, object_map>>
    BY <1>2, <1>6, <2>2 DEF ReleasePoolObjects
  <2> QED
    BY <2>3, <2>4, CallFits
<1> QED
  BY <1>2, <1>4, <1>5, <1>6

(* What is pending when the innermost call has returned or gone on.        *)
LEMMA PendingReturns ==
  ASSUME NEW P \in Seq(Storage), NEW S \in Seq(Frame), S # <<>>, NEW o
  PROVE  PendingIn(P, Front(S), o) = PendingIn(P, S, o) - TakenObject(Last(S), o)
<1>1. PICK R \in Seq(Frame), g \in Frame : R = Front(S) /\ g = Last(S)
  BY Rest
<1>2. R \in Seq(Frame)
  OBVIOUS
<1>3. S = Append(R, g)
  <2>1. Append(R, g) \in Seq(Frame) /\ Len(Append(R, g)) = Len(R) + 1
        /\ (\A i \in 1 .. Len(R) : Append(R, g)[i] = R[i]) /\ Append(R, g)[Len(R) + 1] = g
    BY <1>2, AppendProperties
  <2>2. /\ Len(S) \in Nat \ {0} /\ g = S[Len(S)] /\ Len(R) = Len(S) - 1
        /\ \A i \in 1 .. Len(S) - 1 : R[i] = S[i]
    BY <1>1, Rest
  <2>3. PICK T : T = Append(R, g)
    OBVIOUS
  <2>4. T \in Seq(Frame) /\ Len(T) = Len(S) /\ \A i \in 1 .. Len(S) : T[i] = S[i]
    BY <2>1, <2>2, <2>3
  <2>5. T = S
    BY <2>4, SeqEqual
  <2> QED
    BY <2>3, <2>5
<1>4. PendingIn(P, Append(R, g), o) = PendingIn(P, R, o) + TakenObject(g, o)
  BY <1>2, PendingEntered
<1>5. PendingIn(P, R, o) \in Int /\ TakenObject(g, o) \in Int
  BY <1>2, PendingType, FrameKinds, CountObjectIsWeight DEF TakenObject
<1>6. PICK x \in Int, y \in Int : x = PendingIn(P, R, o) /\ y = TakenObject(g, o)
  BY <1>5
<1>7. (x + y) - y = x
  OBVIOUS
<1> QED
  BY <1>1, <1>3, <1>4, <1>6, <1>7

(* A call that goes on has taken more or less than before.                 *)
LEMMA PendingGoesOn ==
  ASSUME NEW P \in Seq(Storage), NEW S \in Seq(Frame), S # <<>>, NEW f \in Frame, NEW o
  PROVE  PendingIn(P, Append(Front(S), f), o)
           = PendingIn(P, S, o) + TakenObject(f, o) - TakenObject(Last(S), o)
<1>1. Front(S) \in Seq(Frame) /\ Last(S) \in Frame
  BY Rest
<1>2. PendingIn(P, Append(Front(S), f), o) = PendingIn(P, Front(S), o) + TakenObject(f, o)
  BY <1>1, PendingEntered
<1>3. PendingIn(P, Front(S), o) = PendingIn(P, S, o) - TakenObject(Last(S), o)
  BY PendingReturns
<1>4. PendingIn(P, S, o) \in Int /\ TakenObject(f, o) \in Int /\ TakenObject(Last(S), o) \in Int
  <2>1. \A g \in Frame : TakenObject(g, o) \in Int
    BY FrameKinds, CountObjectIsWeight DEF TakenObject
  <2> QED
    BY <1>1, <2>1, PendingType
<1>5. PICK x \in Int, y \in Int, z \in Int :
        x = PendingIn(P, S, o) /\ y = TakenObject(f, o) /\ z = TakenObject(Last(S), o)
  BY <1>4
<1>6. (x - z) + y = x + y - z
  OBVIOUS
<1> QED
  BY <1>2, <1>3, <1>5, <1>6

(* A pool is pushed.                                                       *)
LEMMA PushFits ==
  ASSUME PoolFits, MulleAutoreleasePoolPush
  PROVE  Fitting /\ MapFollows /\ NoNewDealloc(stack, stack')
<1>1. /\ pools \in Seq(Storage) /\ stack \in Seq(Frame) /\ StackFits(pools, stack)
      /\ object_map \in [Obj -> Int]
  BY DEF PoolFits, TypeOK
<1>2. pools' = Pushed(pools) /\ UNCHANGED <<object_map, stack>> /\ ClientRuns
  BY DEF MulleAutoreleasePoolPush, PushAutoreleasePool, Pushed
<1>3. PICK Q : Q = Pushed(pools)
  OBVIOUS
<1>4. /\ Q \in Seq(Storage) /\ StackFits(Q, stack)
      /\ \A o : PendingIn(Q, stack, o) = PendingIn(pools, stack, o)
  BY <1>1, <1>2, <1>3, ClientTop, PoolPushed
<1>5. MapFollows
  <2>1. \A q \in Obj : PendingIn(pools', stack', q) = PendingIn(pools, stack, q)
    BY <1>2, <1>3, <1>4
  <2> QED
    BY <1>2, <2>1, MapStays
<1> QED
  BY <1>1, <1>2, <1>3, <1>4, <1>5, NoNewDeallocs DEF Fitting

(* All pools are popped.                                                   *)
LEMMA ResetFits ==
  ASSUME PoolFits, NEW then \in {"return", "push"}, ResetOrDone(then)
  PROVE  Fitting /\ MapFollows /\ NoNewDealloc(stack, stack')
<1>1. /\ pools \in Seq(Storage) /\ stack \in Seq(Frame) /\ StackFits(pools, stack)
      /\ object_map \in [Obj -> Int] /\ stack = <<>> /\ UNCHANGED object_map
  BY DEF PoolFits, TypeOK, ResetOrDone
<1>2. CASE pools = <<>>
  <2>1. pools' = <<<<EmptyChunk>>>> /\ stack' = stack
    BY <1>2 DEF ResetOrDone
  <2>2. PICK Q : Q = Pushed(pools)
    OBVIOUS
  <2>3. /\ Q \in Seq(Storage) /\ StackFits(Q, stack)
        /\ \A o : PendingIn(Q, stack, o) = PendingIn(pools, stack, o)
    BY <1>1, <2>2, PoolPushed
  <2>4. pools' = Q
    BY <1>2, <2>1, <2>2 DEF Pushed
  <2>5. \A q \in Obj : PendingIn(pools', stack', q) = PendingIn(pools, stack, q)
    BY <2>1, <2>3, <2>4
  <2>6. MapFollows
    BY <1>1, <2>5, MapStays
  <2> QED
    BY <1>1, <2>1, <2>3, <2>4, <2>6, NoNewDeallocs DEF Fitting
<1>3. CASE pools # <<>>
  <2>1. PICK n \in Nat \ {0} : n = Len(pools)
    BY <1>1, <1>3, EmptySeq
  <2>2. PICK f : f = DrainFrame(n, 1, then)
    OBVIOUS
  <2>3. /\ f \in Frame /\ f.kind = "drain" /\ f.pool = n /\ f.target = 1 /\ f.chain = <<>>
    BY <2>2 DEF DrainFrame, Frame
  <2>4. stack' = Append(stack, f) /\ UNCHANGED <<pools, object_map>> /\ ClientRuns
    BY <1>1, <1>3, <2>1, <2>2 DEF ResetOrDone, ClientRuns
  <2>5. FrameFits(pools, f) /\ (Pops(f) => f.pool = Len(pools))
    BY <2>1, <2>3 DEF FrameFits, Pops
  <2>6. f.pool > BasePools /\ f.target > BasePools /\ f.target # 0
    BY <1>1, <2>1, <2>3 DEF BasePools
  <2>7. \A q : TakenObject(f, q) = 0
    BY <2>3, NewStorage DEF TakenObject
  <2> QED
    BY <2>3, <2>4, <2>5, <2>6, <2>7, CallFits
<1> QED
  BY <1>2, <1>3

(* A drain takes the storage of its pool.                                  *)
LEMMA TakeFits ==
  ASSUME PoolFits, DrainTakeStorage
  PROVE  Fitting /\ MapFollows /\ NoNewDealloc(stack, stack')
<1>1. /\ pools \in Seq(Storage) /\ stack \in Seq(Frame) /\ StackFits(pools, stack)
      /\ object_map \in [Obj -> Int] /\ stack # <<>> /\ UNCHANGED object_map
  BY DEF PoolFits, TypeOK, DrainTakeStorage, Running
<1>2. PICK n \in Nat \ {0}, f \in Frame : n = Len(stack) /\ f = Last(stack) /\ f = stack[n]
  BY <1>1, Rest
<1>3. f.kind = "drain" /\ f.chain = <<>>
  BY <1>2 DEF DrainTakeStorage, Running, Top
<1>4. FrameFits(pools, f) /\ (Pops(f) => f.pool = Len(pools))
  BY <1>1, <1>2 DEF StackFits
<1>5. PICK k \in 1 .. Len(pools) : k = f.pool
  BY <1>3, <1>4 DEF FrameFits
<1>6. PICK s \in Storage : s = pools[k]
  BY <1>1, ElementOfSeq
<1>7. PICK g : g = [f EXCEPT !.chain = s]
  OBVIOUS
<1>8. /\ g \in Frame /\ g.kind = "drain" /\ g.pool = k /\ g.target = f.target /\ g.chain = s
  <2>1. s \in Seq(Chunk)
    BY StorageType
  <2>2. /\ f.pool \in Nat /\ f.target \in Nat /\ f.then \in {"return", "push"}
        /\ f = [kind |-> "drain", pool |-> f.pool, chain |-> f.chain,
                target |-> f.target, then |-> f.then]
    BY <1>3, FrameKinds
  <2>3. g = [kind |-> "drain", pool |-> f.pool, chain |-> s, target |-> f.target, then |-> f.then]
    BY <1>7, <2>2
  <2> QED
    BY <1>5, <2>1, <2>2, <2>3 DEF Frame
<1>9. PICK Q : Q = [pools EXCEPT ![k] = <<>>]
  OBVIOUS
<1>10. pools' = Q /\ stack' = [stack EXCEPT ![n] = g]
  <2>1. /\ stack' = [StorageLost(Top.pool) EXCEPT ![Len(stack)].chain = pools[Top.pool]]
        /\ pools' = [pools EXCEPT ![Top.pool] = <<>>]
    BY DEF DrainTakeStorage
  <2>2. ASSUME NEW i \in 1 .. n, stack[i].kind = "walk" PROVE stack[i].pool # k
    <3>1. i \in 1 .. Len(stack) /\ n \in 1 .. Len(stack) /\ i < n
      BY <1>2, <1>3, <2>2
    <3>2. PICK h \in Frame : h = stack[i]
      BY <1>1, <3>1, ElementOfSeq
    <3>3. Below(h, f)
      BY <1>1, <1>2, <3>1, <3>2 DEF StackFits
    <3>4. h.kind = "walk" /\ Height(h) = h.pool /\ h.pool \in Nat
      BY <2>2, <3>2, FrameKinds DEF Height
    <3>5. k \in Nat
      BY <1>1, <1>5, LenProperties
    <3>6. CASE f.target # 0
      BY <1>3, <1>5, <3>2, <3>3, <3>4, <3>5, <3>6 DEF Below
    <3>7. CASE f.target = 0
      BY <1>3, <1>5, <3>2, <3>3, <3>4, <3>7 DEF Below
    <3> QED
      BY <3>6, <3>7
  <2>3. StorageLost(k) = stack
    <3>1. stack = [i \in 1 .. n |-> stack[i]] /\ DOMAIN stack = 1 .. n
      BY <1>1, <1>2
    <3> QED
      BY <2>2, <3>1 DEF StorageLost, WalksIn
  <2> QED
    BY <1>2, <1>5, <1>6, <1>7, <1>9, <2>1, <2>3 DEF Top
<1>11. /\ Q \in Seq(Storage) /\ Len(Q) = Len(pools) /\ Q[k] = <<>>
       /\ \A j \in 1 .. Len(pools) : j # k => Q[j] = pools[j]
  BY <1>1, <1>9, NewStorage, ExceptSeq
<1>12. ASSUME NEW i \in 1 .. n - 1 PROVE FrameFits(Q, stack[i])
  <2>1. i \in 1 .. Len(stack) /\ n \in 1 .. Len(stack) /\ i < n
    BY <1>2
  <2>2. PICK h \in Frame : h = stack[i]
    BY <1>1, <2>1, ElementOfSeq
  <2>3. FrameFits(pools, h) /\ Below(h, f)
    BY <1>1, <1>2, <2>1, <2>2 DEF StackFits
  <2>4. Len(pools) \in Nat
    BY <1>1, LenProperties
  <2>5. Height(h) <= Len(Q)
    BY <1>11, <2>3, <2>4, FrameKinds DEF FrameFits, Height
  <2>6. ASSUME h.kind = "walk" PROVE Kept(pools[h.pool], Q[h.pool])
    <3>1. h.pool # k
      <4>1. h.pool \in Nat /\ k \in Nat /\ Height(h) = h.pool
        BY <1>5, <2>4, <2>6, FrameKinds DEF Height
      <4> QED
        BY <1>3, <1>5, <2>3, <2>6, <4>1 DEF Below
    <3>2. h.pool \in 1 .. Len(pools)
      BY <2>3, <2>6 DEF FrameFits
    <3> QED
      BY <1>11, <3>1, <3>2 DEF Kept
  <2>7. FrameFits(Q, h)
    BY <1>1, <1>11, <2>3, <2>5, <2>6, FrameStays
  <2> QED
    BY <2>2, <2>7
<1>13. FrameFits(Q, g) /\ (Pops(g) => g.pool = Len(Q))
  BY <1>3, <1>4, <1>5, <1>8, <1>11 DEF FrameFits, Pops
<1>14. \A i \in 1 .. n - 1 : Below(stack[i], f) => Below(stack[i], g)
  BY <1>3, <1>5, <1>8 DEF Below
<1>15. /\ [stack EXCEPT ![n] = g] \in Seq(Frame)
       /\ [stack EXCEPT ![n] = g] = Append(Front(stack), g)
       /\ StackFits(Q, [stack EXCEPT ![n] = g])
  <2>1. /\ \A i \in 1 .. Len(stack), j \in 1 .. Len(stack) : i < j => Below(stack[i], stack[j])
        /\ \A i \in 1 .. Len(stack) - 1 : Calls(stack[i], stack[i + 1])
    BY <1>1 DEF StackFits
  <2>2. g.kind # "dealloc" /\ g.kind = stack[Len(stack)].kind
    BY <1>2, <1>3, <1>8
  <2> QED
    BY <1>1, <1>2, <1>8, <1>11, <1>12, <1>13, <1>14, <2>1, <2>2, CallGoesOn
<1>16. ASSUME NEW q \in Obj PROVE PendingIn(pools', stack', q) = PendingIn(pools, stack, q)
  <2>1. PendingIn(Q, stack, q) = PendingIn(pools, stack, q) + CountObject(Q[k], q) - CountObject(pools[k], q)
    <3>1. Replaced(pools, Q, k)
      BY <1>1, <1>11 DEF Replaced
    <3>2. stack \in Seq(Frame)
      BY <1>1
    <3> QED
      BY <3>1, <3>2, PendingPool
  <2>2. PendingIn(Q, Append(Front(stack), g), q)
          = PendingIn(Q, stack, q) + TakenObject(g, q) - TakenObject(Last(stack), q)
    BY <1>1, <1>8, <1>11, PendingGoesOn
  <2>3. TakenObject(g, q) = CountObject(s, q) /\ TakenObject(f, q) = 0 /\ CountObject(Q[k], q) = 0
    BY <1>3, <1>8, <1>11, NewStorage DEF TakenObject
  <2>4. PICK x \in Int, y \in Int : x = PendingIn(pools, stack, q) /\ y = CountObject(s, q)
    <3>1. PendingIn(pools, stack, q) \in Int
      BY <1>1, PendingType
    <3>2. CountObject(s, q) \in Int
      BY StorageType, CountObjectIsWeight
    <3> QED
      BY <3>1, <3>2
  <2>5. (x + 0 - y) + y - 0 = x
    OBVIOUS
  <2> QED
    BY <1>2, <1>6, <1>10, <1>15, <2>1, <2>2, <2>3, <2>4, <2>5
<1>17. MapFollows
  BY <1>1, <1>16, MapStays
<1>18. NoNewDealloc(stack, stack')
  BY <1>1, <1>8, <1>10, <1>15, NoNewDeallocs
<1> QED
  BY <1>1, <1>10, <1>11, <1>15, <1>17, <1>18 DEF Fitting

(* The innermost drain or walk goes on, in the same pools.                 *)
LEMMA TopGoesOn ==
  ASSUME PoolFits, stack # <<>>, NEW f, f = Last(stack), f.kind \in {"drain", "walk"},
         NEW g \in Frame, g.kind = f.kind, FrameFits(pools, g),
         Pops(g) => g.pool = Len(pools),
         f.kind = "drain" => g.pool = f.pool /\ g.target = f.target
  PROVE  /\ [stack EXCEPT ![Len(stack)] = g] \in Seq(Frame)
         /\ [stack EXCEPT ![Len(stack)] = g] = Append(Front(stack), g)
         /\ StackFits(pools, [stack EXCEPT ![Len(stack)] = g])
         /\ NoNewDealloc(stack, [stack EXCEPT ![Len(stack)] = g])
         /\ \A q : PendingIn(pools, [stack EXCEPT ![Len(stack)] = g], q)
                     = PendingIn(pools, stack, q) + TakenObject(g, q) - TakenObject(f, q)
<1>1. /\ pools \in Seq(Storage) /\ stack \in Seq(Frame) /\ StackFits(pools, stack)
  BY DEF PoolFits, TypeOK
<1>2. /\ \A i \in 1 .. Len(stack) : FrameFits(pools, stack[i])
      /\ \A i \in 1 .. Len(stack), j \in 1 .. Len(stack) : i < j => Below(stack[i], stack[j])
      /\ \A i \in 1 .. Len(stack) - 1 : Calls(stack[i], stack[i + 1])
  BY <1>1 DEF StackFits
<1>3. Len(stack) \in Nat \ {0} /\ f = stack[Len(stack)]
  BY <1>1, Rest
<1>4. \A i \in 1 .. Len(stack) - 1 : FrameFits(pools, stack[i])
  BY <1>2, <1>3
<1>5. \A i \in 1 .. Len(stack) - 1 : Below(stack[i], stack[Len(stack)]) => Below(stack[i], g)
  BY <1>3 DEF Below
<1>6. g.kind # "dealloc" /\ g.kind = stack[Len(stack)].kind
  BY <1>3
<1>7. /\ [stack EXCEPT ![Len(stack)] = g] \in Seq(Frame)
      /\ [stack EXCEPT ![Len(stack)] = g] = Append(Front(stack), g)
      /\ StackFits(pools, [stack EXCEPT ![Len(stack)] = g])
  BY <1>1, <1>2, <1>4, <1>5, <1>6, CallGoesOn
<1>8. \A q : PendingIn(pools, Append(Front(stack), g), q)
               = PendingIn(pools, stack, q) + TakenObject(g, q) - TakenObject(Last(stack), q)
  BY <1>1, PendingGoesOn
<1>9. NoNewDealloc(stack, Append(Front(stack), g))
  BY <1>1, <1>6, NoNewDeallocs
<1> QED
  BY <1>7, <1>8, <1>9

(* What is left of a storage without its newest array.                     *)
LEMMA ChunkFreed ==
  ASSUME NEW s \in Seq(Chunk), s # <<>>, NEW o
  PROVE  /\ Front(s) \in Seq(Chunk) /\ Last(s) \in Chunk /\ Len(s) \in Nat \ {0}
         /\ Last(s) = s[Len(s)]
         /\ CountObject(s, o) = CountObject(Front(s), o) + Count(Last(s).objects, o)
<1>1. PICK C, w : C = Chunk /\ w = ChunkWeight(o)
  OBVIOUS
<1>2. s \in Seq(C) /\ w \in [C -> Int]
  BY <1>1, CountObjectIsWeight
<1>3. /\ Front(s) \in Seq(C) /\ Last(s) \in C /\ Len(s) \in Nat \ {0}
      /\ Weight(s, w) = Weight(Front(s), w) + w[Last(s)]
  BY <1>2, WeightFront DEF Front, Last
<1>4. CountObject(s, o) = Weight(s, w) /\ CountObject(Front(s), o) = Weight(Front(s), w)
  BY <1>1, <1>2, <1>3, CountObjectIsWeight
<1>5. w[Last(s)] = Count(Last(s).objects, o)
  BY <1>1, <1>3 DEF ChunkWeight
<1> QED
  BY <1>1, <1>3, <1>4, <1>5 DEF Last

(* What a storage counts when one of its arrays becomes another one.       *)
LEMMA ChunkSet ==
  ASSUME NEW s, NEW r, NEW n, NEW o
  PROVE  (/\ s \in Seq(Chunk) /\ r \in Seq(Chunk) /\ n \in 1 .. Len(s) /\ Len(r) = Len(s)
          /\ \A j \in 1 .. Len(s) : j # n => r[j] = s[j])
         => CountObject(r, o) = CountObject(s, o) + Count(r[n].objects, o) - Count(s[n].objects, o)
<1>1. ASSUME s \in Seq(Chunk), r \in Seq(Chunk), n \in 1 .. Len(s), Len(r) = Len(s),
             \A j \in 1 .. Len(s) : j # n => r[j] = s[j]
      PROVE  CountObject(r, o) = CountObject(s, o) + Count(r[n].objects, o) - Count(s[n].objects, o)
  <2>1. PICK C, w : C = Chunk /\ w = ChunkWeight(o)
    OBVIOUS
  <2>2. /\ s \in Seq(C) /\ r \in Seq(C) /\ w \in [C -> Int] /\ n \in 1 .. Len(s)
        /\ Len(r) = Len(s) /\ \A j \in 1 .. Len(s) : j # n => r[j] = s[j]
    BY <1>1, <2>1, CountObjectIsWeight
  <2>3. Weight(r, w) = Weight(s, w) + w[r[n]] - w[s[n]]
    BY <2>2, WeightSet
  <2>4. CountObject(r, o) = Weight(r, w) /\ CountObject(s, o) = Weight(s, w)
    BY <1>1, <2>1, CountObjectIsWeight
  <2>5. r[n] \in C /\ s[n] \in C
    BY <2>2, ElementOfSeq
  <2>6. w[r[n]] = Count(r[n].objects, o) /\ w[s[n]] = Count(s[n].objects, o)
    BY <2>1, <2>5 DEF ChunkWeight
  <2> QED
    BY <2>3, <2>4, <2>6
<1> QED
  BY <1>1

(* What is left of a storage when its newest array has lost its last slot. *)
WithoutLast(s) == [s EXCEPT ![Len(s)].objects = Front(Last(s).objects)]

(* A storage without its last object has that object once less.            *)
LEMMA SlotTaken ==
  ASSUME NEW s \in Seq(Chunk), s # <<>>, Last(s).objects # <<>>
  PROVE  /\ WithoutLast(s) \in Seq(Chunk) /\ Last(Last(s).objects) \in Slot
         /\ \A o : CountObject(WithoutLast(s), o) = CountObject(s, o) - Hit(Last(Last(s).objects), o)
<1>0. PICK t, q : t = WithoutLast(s) /\ q = Last(s).objects
  OBVIOUS
<1>1. PICK n \in Nat \ {0}, c \in Chunk : n = Len(s) /\ c = s[n] /\ c = Last(s)
  BY ChunkFreed
<1>2. c.objects = q /\ q \in Seq(Slot) /\ q # <<>> /\ c.count \in 0 .. CountModulus - 1
  BY <1>0, <1>1 DEF Chunk
<1>3. Front(q) \in Seq(Slot) /\ Last(q) \in Slot
  BY <1>2, CountFront
<1>4. PICK d : d = [c EXCEPT !.objects = Front(q)]
  OBVIOUS
<1>5. d \in Chunk /\ d.objects = Front(q)
  <2>1. c = [objects |-> c.objects, count |-> c.count]
    BY DEF Chunk
  <2>2. d = [objects |-> Front(q), count |-> c.count]
    BY <1>4, <2>1
  <2> QED
    BY <1>2, <1>3, <2>2 DEF Chunk
<1>6. t = [s EXCEPT ![n] = d]
  BY <1>0, <1>1, <1>4 DEF WithoutLast
<1>7. PICK C : C = Chunk
  OBVIOUS
<1>8. /\ t \in Seq(C) /\ Len(t) = n /\ t[n] = d
      /\ \A j \in 1 .. n : j # n => t[j] = s[j]
  <2>1. s \in Seq(C) /\ n \in 1 .. Len(s) /\ d \in C
    BY <1>1, <1>5, <1>7
  <2>2. /\ [s EXCEPT ![n] = d] \in Seq(C) /\ Len([s EXCEPT ![n] = d]) = Len(s)
        /\ \A j \in 1 .. Len(s) : [s EXCEPT ![n] = d][j] = IF j = n THEN d ELSE s[j]
    BY <2>1, ExceptSeq
  <2> QED
    BY <1>1, <1>6, <2>1, <2>2
<1>9. ASSUME NEW o PROVE CountObject(t, o) = CountObject(s, o) - Hit(Last(q), o)
  <2>1. t \in Seq(Chunk) /\ Len(t) = Len(s) /\ n \in 1 .. Len(s)
        /\ \A j \in 1 .. Len(s) : j # n => t[j] = s[j]
    BY <1>1, <1>7, <1>8
  <2>2. CountObject(t, o) = CountObject(s, o) + Count(t[n].objects, o) - Count(s[n].objects, o)
    <3>1. PICK r : r = t
      OBVIOUS
    <3>2. r \in Seq(Chunk) /\ n \in 1 .. Len(s) /\ Len(r) = Len(s)
          /\ \A j \in 1 .. Len(s) : j # n => r[j] = s[j]
      BY <2>1, <3>1
    <3>3. CountObject(r, o) = CountObject(s, o) + Count(r[n].objects, o) - Count(s[n].objects, o)
      BY <3>2, ChunkSet
    <3> QED
      BY <3>1, <3>3
  <2>3. Count(t[n].objects, o) = Count(Front(q), o) /\ Count(s[n].objects, o) = Count(q, o)
    BY <1>1, <1>2, <1>5, <1>8
  <2>6. Count(q, o) = Count(Front(q), o) + Hit(Last(q), o)
    BY <1>2, CountFront
  <2>7. CountObject(s, o) \in Int /\ Count(Front(q), o) \in Int /\ Hit(Last(q), o) \in Int
    BY <1>3, CountObjectIsWeight, CountIsWeight DEF Hit
  <2>8. PICK x \in Int, y \in Int, z \in Int :
          x = CountObject(s, o) /\ y = Count(Front(q), o) /\ z = Hit(Last(q), o)
    BY <2>7
  <2>9. x + y - (y + z) = x - z
    OBVIOUS
  <2> QED
    BY <2>2, <2>3, <2>6, <2>8, <2>9
<1> QED
  BY <1>0, <1>3, <1>7, <1>8, <1>9

(* A drain goes on with less in its chain.                                 *)
LEMMA DrainGoesOn ==
  ASSUME PoolFits, stack # <<>>, Top.kind = "drain", NEW t \in Seq(Chunk), NEW R,
         R = [stack EXCEPT ![Len(stack)].chain = t]
  PROVE  /\ R \in Seq(Frame) /\ StackFits(pools, R) /\ NoNewDealloc(stack, R)
         /\ \A q : PendingIn(pools, R, q)
                     = PendingIn(pools, stack, q) + CountObject(t, q) - CountObject(Top.chain, q)
<1>1. /\ pools \in Seq(Storage) /\ stack \in Seq(Frame) /\ StackFits(pools, stack)
  BY DEF PoolFits, TypeOK
<1>2. PICK n \in Nat \ {0}, f \in Frame : n = Len(stack) /\ f = Last(stack) /\ f = stack[n]
  BY <1>1, Rest
<1>3. f.kind = "drain" /\ f = Top
  BY <1>2 DEF Top
<1>4. FrameFits(pools, f) /\ (Pops(f) => f.pool = Len(pools))
  BY <1>1, <1>2 DEF StackFits
<1>5. PICK g : g = [f EXCEPT !.chain = t]
  OBVIOUS
<1>6. /\ g \in Frame /\ g.kind = "drain" /\ g.pool = f.pool /\ g.target = f.target /\ g.chain = t
  <2>1. /\ f.pool \in Nat /\ f.target \in Nat /\ f.then \in {"return", "push"}
        /\ f = [kind |-> "drain", pool |-> f.pool, chain |-> f.chain,
                target |-> f.target, then |-> f.then]
    BY <1>3, FrameKinds
  <2>2. g = [kind |-> "drain", pool |-> f.pool, chain |-> t, target |-> f.target, then |-> f.then]
    BY <1>5, <2>1
  <2> QED
    BY <2>1, <2>2 DEF Frame
<1>7. R = [stack EXCEPT ![Len(stack)] = g]
  BY <1>2, <1>5
<1>8. FrameFits(pools, g) /\ (Pops(g) => g.pool = Len(pools))
  BY <1>3, <1>4, <1>6 DEF FrameFits, Pops
<1>9. \A q : TakenObject(g, q) = CountObject(t, q) /\ TakenObject(f, q) = CountObject(Top.chain, q)
  BY <1>3, <1>6 DEF TakenObject
<1>10. /\ [stack EXCEPT ![Len(stack)] = g] \in Seq(Frame)
       /\ StackFits(pools, [stack EXCEPT ![Len(stack)] = g])
       /\ NoNewDealloc(stack, [stack EXCEPT ![Len(stack)] = g])
       /\ \A q : PendingIn(pools, [stack EXCEPT ![Len(stack)] = g], q)
                   = PendingIn(pools, stack, q) + TakenObject(g, q) - TakenObject(f, q)
  BY <1>2, <1>3, <1>6, <1>8, TopGoesOn
<1> QED
  BY <1>7, <1>9, <1>10

(* An array is freed, or an object of it is released.                      *)
LEMMA FreeChunkFits ==
  ASSUME PoolFits, DrainFreeChunk
  PROVE  Fitting /\ MapFollows /\ NoNewDealloc(stack, stack')
<1>1. /\ pools \in Seq(Storage) /\ stack \in Seq(Frame) /\ object_map \in [Obj -> Int]
      /\ stack # <<>> /\ UNCHANGED <<pools, object_map>>
  BY DEF PoolFits, TypeOK, DrainFreeChunk, Running
<1>2. PICK s : s = Top.chain
  OBVIOUS
<1>3. s \in Seq(Chunk) /\ s # <<>> /\ Last(s).objects = <<>> /\ Top.kind = "drain"
  <2>1. Top \in Frame /\ Top.kind = "drain"
    BY <1>1, Rest DEF Top, DrainFreeChunk, Running
  <2> QED
    BY <1>2, <2>1, FrameKinds DEF DrainFreeChunk
<1>4. PICK t \in Seq(Chunk) : t = Front(s)
  BY <1>3, ChunkFreed
<1>5. \A q : CountObject(t, q) = CountObject(s, q)
  <2>1. \A q : /\ CountObject(s, q) = CountObject(t, q) + 0
               /\ CountObject(t, q) \in Int
    BY <1>3, <1>4, ChunkFreed, CountEmpty, CountObjectIsWeight
  <2> QED
    BY <2>1
<1>6. PICK R : R = [stack EXCEPT ![Len(stack)].chain = t]
  OBVIOUS
<1>7. stack' = R
  BY <1>2, <1>4, <1>6 DEF DrainFreeChunk
<1>8. /\ R \in Seq(Frame) /\ StackFits(pools, R) /\ NoNewDealloc(stack, R)
      /\ \A q : PendingIn(pools, R, q)
                  = PendingIn(pools, stack, q) + CountObject(t, q) - CountObject(s, q)
  BY <1>1, <1>2, <1>3, <1>6, DrainGoesOn
<1>9. ASSUME NEW q \in Obj PROVE PendingIn(pools', stack', q) = PendingIn(pools, stack, q)
  <2>1. PendingIn(pools, stack, q) \in Int /\ CountObject(s, q) \in Int
    BY <1>1, <1>3, PendingType, CountObjectIsWeight
  <2>2. PICK x \in Int, y \in Int : x = PendingIn(pools, stack, q) /\ y = CountObject(s, q)
    BY <2>1
  <2>3. PendingIn(pools, R, q) = x + y - y
    BY <1>5, <1>8, <2>2
  <2> QED
    BY <1>1, <1>7, <2>2, <2>3
<1>10. MapFollows
  BY <1>1, <1>9, MapStays
<1> QED
  BY <1>1, <1>7, <1>8, <1>10 DEF Fitting

(* A drain takes the next object out of its array.                         *)
LEMMA DrainObjectFits ==
  ASSUME PoolFits, DrainObject
  PROVE  Fitting /\ MapFollows /\ rc' \in [Obj -> Int] /\ PoolReleases
<1>1. /\ pools \in Seq(Storage) /\ stack \in Seq(Frame) /\ object_map \in [Obj -> Int]
      /\ rc \in [Obj -> Int] /\ stack # <<>> /\ UNCHANGED pools
  BY DEF PoolFits, TypeOK, DrainObject, Running
<1>2. PICK s : s = Top.chain
  OBVIOUS
<1>3. s \in Seq(Chunk) /\ s # <<>> /\ Top.kind = "drain"
  <2>1. Top \in Frame /\ Top.kind = "drain"
    BY <1>1, Rest DEF Top, DrainObject, Running
  <2> QED
    BY <1>2, <2>1, FrameKinds DEF DrainObject
<1>4. PICK objects : objects = Last(s).objects
  OBVIOUS
<1>5. PICK p : p = Last(objects)
  OBVIOUS
<1>6. PICK t : t = [s EXCEPT ![Len(s)].objects = Front(objects)]
  OBVIOUS
<1>7. objects # <<>>
  BY <1>2, <1>4 DEF DrainObject
<1>8. /\ t \in Seq(Chunk) /\ p \in Slot
      /\ \A q : CountObject(t, q) = CountObject(s, q) - Hit(p, q)
  <2>1. t = WithoutLast(s) /\ p = Last(Last(s).objects) /\ Last(s).objects # <<>>
    BY <1>4, <1>5, <1>6, <1>7 DEF WithoutLast
  <2>2. /\ WithoutLast(s) \in Seq(Chunk) /\ Last(Last(s).objects) \in Slot
        /\ \A o : CountObject(WithoutLast(s), o) = CountObject(s, o) - Hit(Last(Last(s).objects), o)
    BY <1>3, <2>1, SlotTaken
  <2> QED
    BY <2>1, <2>2
<1>9. PICK R : R = [stack EXCEPT ![Len(stack)].chain = t]
  OBVIOUS
<1>10. /\ R \in Seq(Frame) /\ StackFits(pools, R) /\ NoNewDealloc(stack, R)
       /\ \A q : PendingIn(pools, R, q)
                   = PendingIn(pools, stack, q) + CountObject(t, q) - CountObject(s, q)
  BY <1>1, <1>2, <1>3, <1>8, <1>9, DrainGoesOn
<1>11. ASSUME NEW q PROVE PendingIn(pools, R, q) = PendingIn(pools, stack, q) - Hit(p, q)
  <2>1. PendingIn(pools, stack, q) \in Int /\ CountObject(s, q) \in Int /\ Hit(p, q) \in Int
    BY <1>1, <1>3, PendingType, CountObjectIsWeight DEF Hit
  <2>2. PICK x \in Int, y \in Int, z \in Int :
          x = PendingIn(pools, stack, q) /\ y = CountObject(s, q) /\ z = Hit(p, q)
    BY <2>1
  <2>3. PendingIn(pools, R, q) = x + (y - z) - y
    BY <1>8, <1>10, <2>2
  <2> QED
    BY <2>2, <2>3
<1>12. R = [stack EXCEPT ![Len(stack)].chain[Len(s)].objects = Front(objects)]
  <2>1. PICK n \in Nat \ {0}, f \in Frame : n = Len(stack) /\ f = Last(stack) /\ f = stack[n]
    BY <1>1, Rest
  <2>2. s = stack[n].chain
    BY <1>2, <2>1 DEF Top
  <2> QED
    BY <1>6, <1>9, <2>1, <2>2
<1>13. IF p = Hole THEN stack' = R /\ UNCHANGED <<object_map, rc>>
                   ELSE Unmap(p) /\ ReleaseFrom(p, R)
  BY <1>2, <1>4, <1>5, <1>12 DEF DrainObject
<1>14. CASE p = Hole
  <2>1. stack' = R /\ UNCHANGED <<object_map, rc>>
    BY <1>13, <1>14
  <2>2. ASSUME NEW q \in Obj PROVE PendingIn(pools', stack', q) = PendingIn(pools, stack, q)
    <3>1. Hit(p, q) = 0
      BY <1>14, PoolAssumption DEF Hit
    <3>2. PendingIn(pools, stack, q) \in Int
      BY <1>1, PendingType
    <3> QED
      BY <1>1, <1>11, <2>1, <3>1, <3>2
  <2>3. MapFollows
    BY <2>1, <2>2, MapStays
  <2> QED
    BY <1>1, <1>10, <2>1, <2>3 DEF Fitting, PoolReleases
<1>15. CASE p # Hole
  <2>1. p \in Obj /\ Unmap(p) /\ ReleaseFrom(p, R)
    BY <1>8, <1>13, <1>15 DEF Slot
  <2>2. /\ stack' \in Seq(Frame) /\ StackFits(pools, stack') /\ rc' \in [Obj -> Int]
        /\ \A q : PendingIn(pools, stack', q) = PendingIn(pools, R, q)
    BY <1>1, <1>10, <2>1, ReleaseFits
  <2>3. MapFollows
    <3>1. \A q \in Obj : PendingIn(pools', stack', q) = PendingIn(pools, stack, q) - Hit(p, q)
      BY <1>1, <1>11, <2>2
    <3>2. object_map' = [object_map EXCEPT ![p] = @ - 1]
      BY <2>1 DEF Unmap
    <3> QED
      BY <2>1, <3>1, <3>2, MapShrinks
  <2>4. object_map' \in [Obj -> Int]
    BY <1>1, <2>1 DEF Unmap
  <2> QED
    BY <1>1, <1>10, <2>1, <2>2, <2>3, <2>4 DEF Fitting, PoolReleases
<1> QED
  BY <1>14, <1>15

(* A call returns to a -dealloc or to client code.                         *)
LEMMA TopReturns ==
  ASSUME PoolFits, stack # <<>>, Top.kind \in {"drain", "walk"}
  PROVE  /\ Front(stack) \in Seq(Frame) /\ StackFits(pools, Front(stack))
         /\ Front(stack) # <<>> => ~Pops(Front(stack)[Len(Front(stack))])
         /\ \A q : PendingIn(pools, Front(stack), q) = PendingIn(pools, stack, q) - TakenObject(Top, q)
<1>1. /\ pools \in Seq(Storage) /\ stack \in Seq(Frame) /\ StackFits(pools, stack)
  BY DEF PoolFits, TypeOK
<1>2. PICK n \in Nat \ {0} : n = Len(stack) /\ Top = stack[n] /\ Len(Front(stack)) = n - 1
                             /\ \A i \in 1 .. n - 1 : Front(stack)[i] = stack[i]
  BY <1>1, Rest DEF Top
<1>3. ASSUME NEW i \in 1 .. n, i = n - 1 PROVE ~Pops(stack[i])
  <2>1. Calls(stack[i], stack[i + 1]) /\ stack[i + 1] = Top
    BY <1>1, <1>2, <1>3 DEF StackFits
  <2> QED
    BY <2>1 DEF Calls, Pops
<1>4. \A i \in 1 .. Len(stack) : i = Len(stack) - 1 => (Pops(stack[i]) => stack[i].pool = Len(pools))
  BY <1>2, <1>3
<1>5. Front(stack) \in Seq(Frame) /\ StackFits(pools, Front(stack))
  BY <1>1, <1>4, CallReturns, Rest
<1>6. Front(stack) # <<>> => ~Pops(Front(stack)[Len(Front(stack))])
  <2>1. ASSUME Front(stack) # <<>> PROVE ~Pops(Front(stack)[Len(Front(stack))])
    <3>1. n - 1 \in 1 .. n
      BY <1>2, <1>5, <2>1, EmptySeq
    <3> QED
      BY <1>2, <1>3, <3>1
  <2> QED
    BY <2>1
<1>7. \A q : PendingIn(pools, Front(stack), q) = PendingIn(pools, stack, q) - TakenObject(Top, q)
  BY <1>1, PendingReturns DEF Top
<1> QED
  BY <1>5, <1>6, <1>7

(* A pool that is walked gets a hole.                                      *)
LEMMA WalkSlotFits ==
  ASSUME PoolFits, WalkSlot
  PROVE  Fitting /\ MapFollows /\ rc' \in [Obj -> Int] /\ PoolReleases
<1>1. /\ pools \in Seq(Storage) /\ stack \in Seq(Frame) /\ StackFits(pools, stack)
      /\ object_map \in [Obj -> Int] /\ rc \in [Obj -> Int] /\ stack # <<>>
  BY DEF PoolFits, TypeOK, WalkSlot, Running
<1>2. PICK n \in Nat \ {0}, f \in Frame : n = Len(stack) /\ f = Last(stack) /\ f = stack[n]
  BY <1>1, Rest
<1>3. f = Top /\ f.kind = "walk" /\ f.slot > 0
  BY <1>2 DEF Top, WalkSlot, Running
<1>4. FrameFits(pools, f)
  BY <1>1, <1>2 DEF StackFits
<1>5. PICK k \in 1 .. Len(pools) : k = f.pool
  BY <1>3, <1>4 DEF FrameFits
<1>6. PICK s \in Storage : s = pools[k]
  BY <1>1, ElementOfSeq
<1>7. PICK c \in 1 .. Len(s) : c = f.chunk
  BY <1>3, <1>4, <1>5, <1>6, StorageParts DEF FrameFits
<1>8. PICK j \in DOMAIN s[c].objects : j = f.slot
  BY <1>3, <1>4, <1>5, <1>6, <1>7 DEF FrameFits
<1>9. PICK p : p = s[c].objects[j]
  OBVIOUS
<1>10. PICK g : g = [f EXCEPT !.slot = @ - 1]
  OBVIOUS
<1>11. /\ j \in Nat \ {0} /\ j - 1 \in Nat
       /\ g \in Frame /\ g.kind = "walk" /\ g.pool = k /\ g.chunk = c /\ g.slot = j - 1
       /\ f.stale = <<>> /\ g.stale = <<>>
  <2>1. /\ f.pool \in Nat /\ f.chunk \in Nat /\ f.slot \in Nat /\ f.stale \in Seq(Chunk)
        /\ f.objects \in SUBSET Obj /\ f.all \in BOOLEAN /\ f.stale = <<>>
        /\ f = [kind |-> "walk", pool |-> f.pool, chunk |-> f.chunk, slot |-> f.slot,
                objects |-> f.objects, all |-> f.all, stale |-> f.stale]
    BY <1>3, <1>4, FrameKinds DEF FrameFits
  <2>2. g = [kind |-> "walk", pool |-> f.pool, chunk |-> f.chunk, slot |-> f.slot - 1,
             objects |-> f.objects, all |-> f.all, stale |-> f.stale]
    BY <1>10, <2>1
  <2>3. f.slot - 1 \in Nat
    BY <1>3, <2>1
  <2> QED
    BY <1>3, <1>5, <1>7, <1>8, <2>1, <2>2, <2>3 DEF Frame
<1>12. FrameFits(pools, g) /\ ~Pops(g)
  <2>1. DOMAIN s[c].objects = 1 .. Len(s[c].objects) /\ Len(s[c].objects) \in Nat
        /\ DOMAIN s = 1 .. Len(s)
    BY StorageParts
  <2>2. g.slot > 0 => g.slot \in DOMAIN s[c].objects
    BY <1>11, <2>1
  <2> QED
    BY <1>5, <1>6, <1>11, <2>1, <2>2 DEF FrameFits, Pops
<1>13. PICK R : R = [stack EXCEPT ![Len(stack)] = g]
  OBVIOUS
<1>14. /\ R \in Seq(Frame) /\ StackFits(pools, R) /\ NoNewDealloc(stack, R)
       /\ \A q : PendingIn(pools, R, q) = PendingIn(pools, stack, q)
  <2>1. /\ [stack EXCEPT ![Len(stack)] = g] \in Seq(Frame)
        /\ StackFits(pools, [stack EXCEPT ![Len(stack)] = g])
        /\ NoNewDealloc(stack, [stack EXCEPT ![Len(stack)] = g])
        /\ \A q : PendingIn(pools, [stack EXCEPT ![Len(stack)] = g], q)
                    = PendingIn(pools, stack, q) + TakenObject(g, q) - TakenObject(f, q)
    BY <1>1, <1>2, <1>3, <1>11, <1>12, TopGoesOn
  <2>2. \A q : /\ PendingIn(pools, stack, q) \in Int
               /\ TakenObject(g, q) = 0 /\ TakenObject(f, q) = 0
    BY <1>1, <1>3, <1>11, PendingType DEF TakenObject
  <2>3. ASSUME NEW q PROVE PendingIn(pools, R, q) = PendingIn(pools, stack, q)
    <3>1. PICK x \in Int : x = PendingIn(pools, stack, q)
      BY <2>2
    <3>2. PendingIn(pools, R, q) = x + 0 - 0
      BY <1>13, <2>1, <2>2, <3>1
    <3> QED
      BY <3>1, <3>2
  <2> QED
    BY <1>13, <2>1, <2>3
<1>15. IF p \in f.objects
       THEN /\ pools' = [pools EXCEPT ![k][c] = Punched(@, j)]
            /\ Unmap(p) /\ ReleaseFrom(p, R)
       ELSE stack' = R /\ UNCHANGED <<pools, object_map, rc>>
  <2>1. R = [stack EXCEPT ![Len(stack)].slot = @ - 1]
    BY <1>2, <1>10, <1>13
  <2>2. SlotReads(Top) = {p} /\ Top.stale = <<>>
    BY <1>3, <1>5, <1>6, <1>7, <1>8, <1>9, <1>11 DEF SlotReads
  <2> QED
    BY <1>3, <1>5, <1>7, <1>8, <2>1, <2>2 DEF WalkSlot
<1>16. CASE p \notin f.objects
  <2>1. stack' = R /\ UNCHANGED <<pools, object_map, rc>>
    BY <1>15, <1>16
  <2>2. \A q \in Obj : PendingIn(pools', stack', q) = PendingIn(pools, stack, q)
    BY <1>14, <2>1
  <2>3. MapFollows
    BY <2>1, <2>2, MapStays
  <2> QED
    BY <1>1, <1>14, <2>1, <2>3 DEF Fitting, PoolReleases
<1>17. CASE p \in f.objects
  <2>1. p \in Obj
    BY <1>3, <1>17, FrameKinds
  <2>2. PICK t : t = [s EXCEPT ![c] = Punched(s[c], j)]
    OBVIOUS
  <2>3. t \in Storage /\ Kept(s, t) /\ \A o \in Obj : CountObject(t, o) = CountObject(s, o) - Hit(p, o)
    <3>1. /\ t \in Storage /\ Kept(s, t)
          /\ \A o \in Obj : CountObject(t, o) = CountObject(s, o) - Hit(s[c].objects[j], o)
      BY <2>2, PunchedFits, ZenonT(60)
    <3> QED
      BY <1>9, <3>1
  <2>4. PICK Q : Q = [pools EXCEPT ![k] = t]
    OBVIOUS
  <2>5. pools' = Q
    BY <1>6, <1>15, <1>17, <2>2, <2>4
  <2>6. Changed(pools, Q, k) /\ Q[k] = t
    <3>1. Kept(pools[k], t)
      BY <1>6, <2>3
    <3>2. pools \in Seq(Storage) /\ t \in Storage /\ k \in 1 .. Len(pools)
      BY <1>1, <2>3
    <3>3. Changed(pools, [pools EXCEPT ![k] = t], k) /\ [pools EXCEPT ![k] = t][k] = t
      BY <3>1, <3>2, ChangedPool
    <3> QED
      BY <2>4, <3>3
  <2>7. /\ Q \in Seq(Storage) /\ StackFits(Q, R) /\ Len(Q) = Len(pools)
        /\ \A q : PendingIn(Q, R, q) = PendingIn(pools, R, q) + CountObject(Q[k], q) - CountObject(pools[k], q)
    <3>1. Len(Q) = Len(pools)
      BY <2>6 DEF Changed
    <3>2. pools \in Seq(Storage) /\ R \in Seq(Frame) /\ StackFits(pools, R) /\ k \in 1 .. Len(pools)
          /\ Changed(pools, Q, k)
      BY <1>1, <1>14, <2>6
    <3> QED
      BY <3>1, <3>2, PoolChanges
  <2>8. Unmap(p) /\ ReleaseFrom(p, R)
    BY <1>15, <1>17
  <2>9. /\ stack' \in Seq(Frame) /\ StackFits(Q, stack') /\ rc' \in [Obj -> Int]
        /\ \A q : PendingIn(Q, stack', q) = PendingIn(Q, R, q)
    BY <1>14, <2>1, <2>7, <2>8, ReleaseFits
  <2>10. ASSUME NEW q \in Obj
         PROVE  PendingIn(pools', stack', q) = PendingIn(pools, stack, q) - Hit(p, q)
    <3>1. PendingIn(pools, stack, q) \in Int /\ CountObject(s, q) \in Int /\ Hit(p, q) \in Int
      BY <1>1, PendingType, StorageType, CountObjectIsWeight DEF Hit
    <3>2. PICK x \in Int, y \in Int, z \in Int :
            x = PendingIn(pools, stack, q) /\ y = CountObject(s, q) /\ z = Hit(p, q)
      BY <3>1
    <3>3. PendingIn(Q, R, q) = x + (y - z) - y
      BY <1>6, <1>14, <2>3, <2>6, <2>7, <3>2
    <3> QED
      BY <2>5, <2>9, <3>2, <3>3
  <2>11. object_map' = [object_map EXCEPT ![p] = @ - 1]
    BY <2>8 DEF Unmap
  <2>12. MapFollows
    BY <2>1, <2>10, <2>11, MapShrinks
  <2>13. object_map' \in [Obj -> Int]
    BY <1>1, <2>1, <2>11
  <2>14. pools' \in Seq(Storage) /\ StackFits(pools', stack')
    BY <2>5, <2>7, <2>9
  <2> QED
    BY <1>14, <2>1, <2>8, <2>9, <2>12, <2>13, <2>14 DEF Fitting, PoolReleases
<1> QED
  BY <1>16, <1>17

(* A walk goes on to another array or pool, or is over.                    *)
LEMMA WalkNextFits ==
  ASSUME PoolFits, WalkNext
  PROVE  Fitting /\ MapFollows /\ NoNewDealloc(stack, stack')
<1>1. /\ pools \in Seq(Storage) /\ stack \in Seq(Frame) /\ StackFits(pools, stack)
      /\ object_map \in [Obj -> Int] /\ stack # <<>> /\ UNCHANGED <<pools, object_map>>
  BY DEF PoolFits, TypeOK, WalkNext, Running
<1>2. PICK n \in Nat \ {0}, f \in Frame : n = Len(stack) /\ f = Last(stack) /\ f = stack[n]
  BY <1>1, Rest
<1>3. f = Top /\ f.kind = "walk"
  BY <1>2 DEF Top, WalkNext, Running
<1>4. FrameFits(pools, f)
  BY <1>1, <1>2 DEF StackFits
<1>5. PICK k \in 1 .. Len(pools) : k = f.pool
  BY <1>3, <1>4 DEF FrameFits
<1>6. PICK s \in Storage : s = pools[k]
  BY <1>1, ElementOfSeq
<1>7. /\ f.pool \in Nat /\ f.chunk \in Nat /\ f.slot \in Nat
      /\ f.objects \in SUBSET Obj /\ f.all \in BOOLEAN /\ f.stale = <<>>
      /\ f = [kind |-> "walk", pool |-> f.pool, chunk |-> f.chunk, slot |-> f.slot,
              objects |-> f.objects, all |-> f.all, stale |-> <<>>]
  BY <1>3, <1>4, FrameKinds DEF FrameFits
<1>8. \A q : TakenObject(f, q) = 0 /\ PendingIn(pools, stack, q) \in Int
  BY <1>1, <1>3, PendingType DEF TakenObject
<1>9. ASSUME NEW g \in Frame, g.kind = "walk", FrameFits(pools, g),
             stack' = [stack EXCEPT ![Len(stack)] = g] \/ stack' = Append(Front(stack), g)
      PROVE  Fitting /\ MapFollows /\ NoNewDealloc(stack, stack')
  <2>1. \A q : TakenObject(g, q) = 0 /\ ~Pops(g)
    BY <1>9 DEF TakenObject, Pops
  <2>2. /\ [stack EXCEPT ![Len(stack)] = g] \in Seq(Frame)
        /\ [stack EXCEPT ![Len(stack)] = g] = Append(Front(stack), g)
        /\ StackFits(pools, [stack EXCEPT ![Len(stack)] = g])
        /\ NoNewDealloc(stack, [stack EXCEPT ![Len(stack)] = g])
        /\ \A q : PendingIn(pools, [stack EXCEPT ![Len(stack)] = g], q)
                    = PendingIn(pools, stack, q) + TakenObject(g, q) - TakenObject(f, q)
    BY <1>1, <1>2, <1>3, <1>9, <2>1, TopGoesOn
  <2>3. stack' = [stack EXCEPT ![Len(stack)] = g]
    BY <1>9, <2>2
  <2>4. ASSUME NEW q \in Obj PROVE PendingIn(pools', stack', q) = PendingIn(pools, stack, q)
    <3>1. PICK x \in Int : x = PendingIn(pools, stack, q)
      BY <1>8
    <3>2. PendingIn(pools, [stack EXCEPT ![Len(stack)] = g], q) = x + 0 - 0
      BY <1>8, <2>1, <2>2, <3>1
    <3> QED
      BY <1>1, <2>3, <3>1, <3>2
  <2>5. MapFollows
    BY <1>1, <2>4, MapStays
  <2> QED
    BY <1>1, <2>2, <2>3, <2>5 DEF Fitting
<1>10. CASE f.chunk > 1
  <2>1. f.chunk \in 1 .. Len(s) /\ f.chunk - 1 \in 1 .. Len(s)
    BY <1>3, <1>4, <1>5, <1>6, <1>7, <1>10, StorageParts DEF FrameFits
  <2>2. PICK c \in 1 .. Len(s) : c = f.chunk - 1
    BY <2>1
  <2>3. PICK l \in Nat : l = Len(s[c].objects) /\ DOMAIN s[c].objects = 1 .. l
    BY StorageParts
  <2>4. PICK g : g = [f EXCEPT !.chunk = c, !.slot = l]
    OBVIOUS
  <2>5. g = [kind |-> "walk", pool |-> k, chunk |-> c, slot |-> l,
             objects |-> f.objects, all |-> f.all, stale |-> <<>>]
    <3>1. PICK m, j, S, b : m = f.chunk /\ j = f.slot /\ S = f.objects /\ b = f.all
      OBVIOUS
    <3>2. f = [kind |-> "walk", pool |-> k, chunk |-> m, slot |-> j, objects |-> S, all |-> b,
               stale |-> <<>>]
      BY <1>5, <1>7, <3>1
    <3>3. [f EXCEPT !.chunk = c]
            = [kind |-> "walk", pool |-> k, chunk |-> c, slot |-> j, objects |-> S, all |-> b,
               stale |-> <<>>]
      BY <3>2
    <3>4. g = [[f EXCEPT !.chunk = c] EXCEPT !.slot = l]
      BY <2>4
    <3> QED
      BY <3>1, <3>3, <3>4
  <2>6. c \in Nat /\ k \in Nat
    BY <1>5, <1>7, <1>10, <2>2
  <2>7. g \in Frame /\ g.kind = "walk"
    BY <1>7, <2>5, <2>6 DEF Frame
  <2>8. FrameFits(pools, g)
    <3>1. DOMAIN s = 1 .. Len(s)
      BY StorageParts
    <3>2. c \in DOMAIN s /\ (l > 0 => l \in DOMAIN s[c].objects)
      BY <2>3, <3>1
    <3> QED
      BY <1>6, <2>5, <3>2 DEF FrameFits
  <2>9. stack' = [stack EXCEPT ![Len(stack)] = g]
    <3>1. stack' = [stack EXCEPT ![Len(stack)].chunk = @ - 1,
                                 ![Len(stack)].slot = Len(pools[Top.pool][Top.chunk - 1].objects)]
      BY <1>7, <1>3, <1>10 DEF WalkNext
    <3>2. Len(pools[Top.pool][Top.chunk - 1].objects) = l
      BY <1>3, <1>5, <1>6, <2>2, <2>3
    <3>3. stack' = [stack EXCEPT ![n] = [f EXCEPT !.chunk = f.chunk - 1, !.slot = l]]
      BY <1>1, <1>2, <3>1, <3>2
    <3> QED
      BY <1>2, <2>2, <2>4, <3>3
  <2> QED
    BY <1>9, <2>7, <2>8, <2>9
<1>11. CASE ~(f.chunk > 1) /\ f.all /\ f.pool > 1
  <2>1. k - 1 \in 1 .. Len(pools)
    BY <1>1, <1>5, <1>7, <1>11, LenProperties
  <2>2. PICK g : g = WalkFrame(k - 1, f.objects, TRUE)
    OBVIOUS
  <2>3. g \in Frame /\ g.kind = "walk" /\ FrameFits(pools, g)
    BY <1>7, <2>1, <2>2, WalkFrameFits
  <2>4. stack' = Append(Front(stack), g)
    BY <1>7, <1>3, <1>5, <1>11, <2>2 DEF WalkNext
  <2> QED
    BY <1>9, <2>3, <2>4
<1>12. CASE ~(f.chunk > 1) /\ ~(f.all /\ f.pool > 1)
  <2>1. stack' = Front(stack)
    BY <1>7, <1>3, <1>12 DEF WalkNext
  <2>2. /\ Front(stack) \in Seq(Frame) /\ StackFits(pools, Front(stack))
        /\ \A q : PendingIn(pools, Front(stack), q) = PendingIn(pools, stack, q) - TakenObject(f, q)
    BY <1>1, <1>3, TopReturns
  <2>3. ASSUME NEW q \in Obj PROVE PendingIn(pools', stack', q) = PendingIn(pools, stack, q)
    <3>1. PICK x \in Int : x = PendingIn(pools, stack, q)
      BY <1>8
    <3>2. PendingIn(pools, Front(stack), q) = x - 0
      BY <1>8, <2>2, <3>1
    <3> QED
      BY <1>1, <2>1, <3>1, <3>2
  <2>4. MapFollows
    BY <1>1, <2>3, MapStays
  <2> QED
    BY <1>1, <2>1, <2>2, <2>4, NoNewDeallocs DEF Fitting
<1> QED
  BY <1>10, <1>11, <1>12

(* -dealloc returns to whatever released the object.                       *)
LEMMA DeallocReturnFits ==
  ASSUME PoolFits, DeallocReturn
  PROVE  Fitting /\ MapFollows
<1>1. /\ pools \in Seq(Storage) /\ stack \in Seq(Frame) /\ StackFits(pools, stack)
      /\ object_map \in [Obj -> Int] /\ stack # <<>> /\ UNCHANGED <<pools, object_map>>
      /\ Top.kind = "dealloc" /\ Len(pools) = Top.base /\ stack' = Front(stack)
  BY DEF PoolFits, TypeOK, DeallocReturn, Running
<1>2. PICK n \in Nat \ {0} : n = Len(stack) /\ Top = stack[n]
  BY <1>1, Rest DEF Top
<1>3. ASSUME NEW i \in 1 .. n, i = n - 1, Pops(stack[i]) PROVE stack[i].pool = Len(pools)
  <2>1. Calls(stack[i], stack[i + 1]) /\ stack[i + 1] = Top
    BY <1>1, <1>2, <1>3 DEF StackFits
  <2> QED
    BY <1>1, <1>3, <2>1 DEF Calls, Pops
<1>4. Front(stack) \in Seq(Frame) /\ StackFits(pools, Front(stack))
  BY <1>1, <1>2, <1>3, CallReturns, Rest
<1>5. ASSUME NEW q \in Obj PROVE PendingIn(pools', stack', q) = PendingIn(pools, stack, q)
  <2>1. PendingIn(pools, Front(stack), q) = PendingIn(pools, stack, q) - TakenObject(Top, q)
    BY <1>1, PendingReturns DEF Top
  <2>2. PICK x \in Int : x = PendingIn(pools, stack, q)
    BY <1>1, PendingType
  <2>3. TakenObject(Top, q) = 0
    BY <1>1 DEF TakenObject
  <2> QED
    BY <1>1, <2>1, <2>2, <2>3
<1>6. MapFollows
  BY <1>1, <1>5, MapStays
<1> QED
  BY <1>1, <1>4, <1>6 DEF Fitting

(* What is pending when the last pool goes away.                           *)
LEMMA PendingGoes ==
  ASSUME NEW P \in Seq(Storage), P # <<>>, NEW S \in Seq(Frame), NEW o
  PROVE  PendingIn(Front(P), S, o) = PendingIn(P, S, o) - CountObject(P[Len(P)], o)
<1>1. PICK C, w : C = Seq(Chunk) /\ w = StorageWeight(o)
  OBVIOUS
<1>2. P \in Seq(C) /\ w \in [C -> Int]
  BY <1>1, StorageType, SeqMonotonic, StorageWeightType
<1>3. PICK R \in Seq(C), p \in C : R = Front(P) /\ p = P[Len(P)] /\ Weight(P, w) = Weight(R, w) + w[p]
  <2>1. /\ Front(P) \in Seq(C) /\ P[Len(P)] \in C
        /\ Weight(P, w) = Weight(Front(P), w) + w[P[Len(P)]]
    BY <1>2, WeightFront DEF Front
  <2> QED
    BY <2>1
<1>4. w[p] = CountObject(p, o) /\ w[p] \in Int
  BY <1>1, <1>2, <1>3 DEF StorageWeight
<1>5. Weight(R, w) \in Int /\ Weight(S, FrameWeight(o)) \in Int
  <2>1. R \in Seq(Seq(Chunk)) /\ Weight(R, w) = Weight(R, StorageWeight(o))
    BY <1>1
  <2>2. Weight(R, StorageWeight(o)) \in Nat /\ Weight(S, FrameWeight(o)) \in Nat
    BY <2>1, PendingParts
  <2> QED
    BY <2>1, <2>2
<1>6. PICK x \in Int, y \in Int, z \in Int :
        x = Weight(R, w) /\ y = w[p] /\ z = Weight(S, FrameWeight(o))
  BY <1>4, <1>5
<1>7. x + z = (x + y) + z - y
  OBVIOUS
<1> QED
  BY <1>1, <1>3, <1>4, <1>6, <1>7 DEF PendingIn

(* A pool is empty; popped, it goes away.                                  *)
LEMMA DrainFinishFits ==
  ASSUME PoolFits, DrainFinish
  PROVE  Fitting /\ MapFollows /\ NoNewDealloc(stack, stack')
<1>1. /\ pools \in Seq(Storage) /\ stack \in Seq(Frame) /\ StackFits(pools, stack)
      /\ object_map \in [Obj -> Int] /\ stack # <<>> /\ UNCHANGED object_map
  BY DEF PoolFits, TypeOK, DrainFinish, Running
<1>2. PICK n \in Nat \ {0}, f \in Frame : n = Len(stack) /\ f = Last(stack) /\ f = stack[n]
  BY <1>1, Rest
<1>3. f = Top /\ f.kind = "drain" /\ f.chain = <<>> /\ pools[f.pool] = <<>>
  BY <1>2 DEF Top, DrainFinish, Running
<1>4. FrameFits(pools, f) /\ (Pops(f) => f.pool = Len(pools))
  BY <1>1, <1>2 DEF StackFits
<1>5. \A q : TakenObject(f, q) = 0 /\ PendingIn(pools, stack, q) \in Int
  BY <1>1, <1>3, PendingType, NewStorage DEF TakenObject
<1>6. PICK R \in Seq(Frame) : R = Front(stack)
  BY <1>1, Rest
<1>7. /\ StackFits(pools, R) /\ (R # <<>> => ~Pops(R[Len(R)]))
      /\ \A q : PendingIn(pools, R, q) = PendingIn(pools, stack, q)
  <2>1. /\ StackFits(pools, R) /\ (R # <<>> => ~Pops(R[Len(R)]))
        /\ \A q : PendingIn(pools, R, q) = PendingIn(pools, stack, q) - TakenObject(f, q)
    BY <1>1, <1>3, <1>6, TopReturns
  <2>2. ASSUME NEW q PROVE PendingIn(pools, R, q) = PendingIn(pools, stack, q)
    <3>1. PICK x \in Int : x = PendingIn(pools, stack, q)
      BY <1>5
    <3>2. PendingIn(pools, R, q) = x - 0
      BY <1>5, <2>1, <3>1
    <3> QED
      BY <3>1, <3>2
  <2> QED
    BY <2>1, <2>2
<1>8. CASE f.target = 0
  <2>1. stack' = R /\ pools' = pools
    BY <1>3, <1>6, <1>8 DEF DrainFinish
  <2>2. \A q \in Obj : PendingIn(pools', stack', q) = PendingIn(pools, stack, q)
    BY <1>7, <2>1
  <2>3. MapFollows
    BY <1>1, <2>2, MapStays
  <2> QED
    BY <1>1, <1>6, <1>7, <2>1, <2>3, NoNewDeallocs DEF Fitting
<1>9. CASE f.target # 0
  <2>1. /\ f.pool = Len(pools) /\ f.pool \in 1 .. Len(pools) /\ f.target <= f.pool
        /\ f.target \in Nat \ {0} /\ Len(pools) \in Nat /\ pools # <<>>
    BY <1>1, <1>3, <1>4, <1>9, FrameKinds, LenProperties, EmptySeq DEF FrameFits, Pops
  <2>2. PICK m \in Nat \ {0} : m = Len(pools)
    BY <2>1
  <2>3. PICK P : P = Front(pools)
    OBVIOUS
  <2>4. ASSUME NEW i \in 1 .. n - 1
        PROVE  stack[i] \in Frame /\ Below(stack[i], f) /\ Height(stack[i]) < f.target
               /\ Height(stack[i]) < m
    <3>1. i \in 1 .. Len(stack) /\ n \in 1 .. Len(stack) /\ i < n
      BY <1>2
    <3>2. PICK h \in Frame : h = stack[i]
      BY <1>1, <3>1, ElementOfSeq
    <3>3. Below(h, f)
      BY <1>1, <1>2, <3>1, <3>2 DEF StackFits
    <3>4. Height(h) < f.target /\ Height(h) < m
      BY <1>3, <1>9, <2>1, <2>2, <3>3 DEF Below
    <3> QED
      BY <3>2, <3>3, <3>4
  <2>5. Len(R) = n - 1 /\ \A i \in 1 .. n - 1 : R[i] = stack[i]
    BY <1>1, <1>2, <1>6, Rest
  <2>6. P \in Seq(Storage) /\ StackFits(P, R)
    <3>1. \A i \in 1 .. Len(R) : Height(R[i]) < Len(pools)
      BY <2>2, <2>4, <2>5
    <3>2. Front(pools) \in Seq(Storage) /\ StackFits(Front(pools), R)
      BY <1>1, <1>7, <2>1, <3>1, PoolGoes
    <3> QED
      BY <2>3, <3>2
  <2>7. Len(P) = m - 1
    BY <1>1, <2>1, <2>2, <2>3, CountFront
  <2>8. \A S \in Seq(Frame) : \A q : PendingIn(P, S, q) = PendingIn(pools, S, q)
    <3>1. ASSUME NEW S \in Seq(Frame), NEW q PROVE PendingIn(P, S, q) = PendingIn(pools, S, q)
      <4>1. PendingIn(P, S, q) = PendingIn(pools, S, q) - CountObject(pools[Len(pools)], q)
        BY <1>1, <2>1, <2>3, PendingGoes
      <4>2. CountObject(pools[Len(pools)], q) = 0
        BY <1>3, <2>1, NewStorage
      <4>3. PICK x \in Int : x = PendingIn(pools, S, q)
        BY <1>1, PendingType
      <4> QED
        BY <4>1, <4>2, <4>3
    <3> QED
      BY <3>1
  <2>9. CASE f.pool = f.target
    <3>1. /\ stack' = R
          /\ pools' = P \/ pools' = Pushed(P)
      BY <1>3, <1>6, <1>9, <2>3, <2>9 DEF DrainFinish, Pushed
    <3>2. PICK Q : Q = pools'
      OBVIOUS
    <3>3. Q \in Seq(Storage) /\ StackFits(Q, R) /\ \A q : PendingIn(Q, R, q) = PendingIn(P, R, q)
      <4>1. CASE Q = P
        BY <2>6, <4>1
      <4>2. CASE Q = Pushed(P)
        <5>1. P \in Seq(Storage) /\ StackFits(P, R) /\ (R # <<>> => ~Pops(R[Len(R)]))
          BY <1>7, <2>6
        <5>2. /\ Pushed(P) \in Seq(Storage) /\ StackFits(Pushed(P), R)
              /\ \A q : PendingIn(Pushed(P), R, q) = PendingIn(P, R, q)
          BY <5>1, PoolPushed
        <5> QED
          BY <4>2, <5>2
      <4> QED
        BY <3>1, <3>2, <4>1, <4>2
    <3>4. \A q \in Obj : PendingIn(pools', stack', q) = PendingIn(pools, stack, q)
      BY <1>7, <2>8, <3>1, <3>2, <3>3
    <3>5. MapFollows
      BY <1>1, <3>4, MapStays
    <3> QED
      BY <1>1, <1>6, <3>1, <3>2, <3>3, <3>5, NoNewDeallocs DEF Fitting
  <2>10. CASE f.pool # f.target
    <3>1. PICK g : g = [f EXCEPT !.pool = m - 1]
      OBVIOUS
    <3>2. g \in Frame /\ g.kind = "drain" /\ g.pool = m - 1 /\ g.target = f.target /\ g.chain = <<>>
      <4>1. /\ f.chain \in Seq(Chunk) /\ f.target \in Nat /\ f.then \in {"return", "push"}
            /\ f = [kind |-> "drain", pool |-> f.pool, chain |-> f.chain,
                    target |-> f.target, then |-> f.then]
        BY <1>3, FrameKinds
      <4>2. g = [kind |-> "drain", pool |-> m - 1, chain |-> f.chain,
                 target |-> f.target, then |-> f.then]
        BY <3>1, <4>1
      <4>3. m - 1 \in Nat
        BY <2>2
      <4> QED
        BY <1>3, <4>1, <4>2, <4>3 DEF Frame
    <3>3. pools' = P /\ stack' = [stack EXCEPT ![Len(stack)] = g]
      <4>1. pools' = Front(pools) /\ stack' = [stack EXCEPT ![Len(stack)].pool = Len(Front(pools))]
        BY <1>3, <1>9, <2>10 DEF DrainFinish
      <4> QED
        BY <1>2, <2>3, <2>7, <3>1, <4>1
    <3>4. f.target <= m - 1 /\ m - 1 \in 1 .. m - 1
      BY <2>1, <2>2, <2>10
    <3>5. FrameFits(P, g) /\ (Pops(g) => g.pool = Len(P))
      BY <2>7, <3>2, <3>4 DEF FrameFits, Pops
    <3>6. \A i \in 1 .. Len(stack) - 1 : FrameFits(P, stack[i])
      BY <1>2, <2>5, <2>6 DEF StackFits
    <3>7. ASSUME NEW i \in 1 .. Len(stack) - 1 PROVE Below(stack[i], g)
      <4>1. Height(stack[i]) < f.target /\ Height(stack[i]) \in Int
        BY <1>2, <2>4, FrameKinds DEF Height
      <4>2. Height(stack[i]) < m - 1
        BY <2>1, <2>2, <3>4, <4>1
      <4> QED
        BY <1>9, <3>2, <4>1, <4>2 DEF Below
    <3>8. /\ [stack EXCEPT ![Len(stack)] = g] \in Seq(Frame)
          /\ [stack EXCEPT ![Len(stack)] = g] = Append(Front(stack), g)
          /\ StackFits(P, [stack EXCEPT ![Len(stack)] = g])
      <4>1. /\ \A i \in 1 .. Len(stack), j \in 1 .. Len(stack) : i < j => Below(stack[i], stack[j])
            /\ \A i \in 1 .. Len(stack) - 1 : Calls(stack[i], stack[i + 1])
        BY <1>1 DEF StackFits
      <4>2. g.kind # "dealloc" /\ g.kind = stack[Len(stack)].kind
        BY <1>2, <1>3, <3>2
      <4> QED
        BY <1>1, <2>6, <3>2, <3>5, <3>6, <3>7, <4>1, <4>2, CallGoesOn
    <3>9. ASSUME NEW q \in Obj PROVE PendingIn(pools', stack', q) = PendingIn(pools, stack, q)
      <4>1. PendingIn(P, Append(R, g), q)
              = PendingIn(P, stack, q) + TakenObject(g, q) - TakenObject(f, q)
        <5>1. P \in Seq(Storage) /\ stack \in Seq(Frame) /\ stack # <<>> /\ g \in Frame
          BY <1>1, <2>6, <3>2
        <5>2. PendingIn(P, Append(Front(stack), g), q)
                = PendingIn(P, stack, q) + TakenObject(g, q) - TakenObject(Last(stack), q)
          BY <5>1, PendingGoesOn
        <5> QED
          BY <1>2, <1>6, <5>2
      <4>2. TakenObject(g, q) = 0 /\ PendingIn(P, stack, q) = PendingIn(pools, stack, q)
        BY <1>1, <2>8, <3>2, NewStorage DEF TakenObject
      <4>3. PICK x \in Int : x = PendingIn(pools, stack, q)
        BY <1>5
      <4>4. PendingIn(P, Append(R, g), q) = x + 0 - 0
        BY <1>5, <4>1, <4>2, <4>3
      <4> QED
        <5>1. stack' = Append(R, g) /\ pools' = P
          BY <1>6, <3>3, <3>8
        <5>2. PendingIn(P, Append(R, g), q) = x
          BY <4>3, <4>4
        <5> QED
          BY <4>3, <5>1, <5>2
    <3>10. MapFollows
      BY <1>1, <3>9, MapStays
    <3>11. NoNewDealloc(stack, stack')
      BY <1>1, <3>2, <3>3, <3>8, NoNewDeallocs
    <3> QED
      BY <1>1, <2>6, <3>3, <3>8, <3>10, <3>11 DEF Fitting
  <2> QED
    BY <2>9, <2>10
<1> QED
  BY <1>8, <1>9

(* What is counted in a part of memory is a number.                        *)
LEMMA CountNat ==
  ASSUME NEW n \in Nat, NEW q, DOMAIN q = 1 .. n, NEW o
  PROVE  Count(q, o) \in Nat
<1>1. IsFiniteSet(1 .. n)
  BY FS_Interval
<1>2. Occurrences(q, o) \subseteq 1 .. n
  BY DEF Occurrences
<1>3. IsFiniteSet(Occurrences(q, o))
  BY <1>1, <1>2, FS_Subset
<1> QED
  BY <1>3, FS_CardinalityType DEF Count

(* The objects of a bulk call, and the memory that it is given.            *)
BulkCount(memory, step) == (Len(memory) + step - 1) \div step

BulkObjects(memory, step) == [i \in 1 .. BulkCount(memory, step) |-> memory[1 + (i - 1) * step]]

(* What autoreleaseObjects finds in the memory of the caller.              *)
LEMMA BulkParts ==
  ASSUME NEW step \in Nat \ {0}, NEW memory \in Seq(Slot), NEW n, n = BulkCount(memory, step),
         NEW q, q = BulkObjects(memory, step)
  PROVE  /\ n \in Nat /\ DOMAIN q = 1 .. n /\ Len(q) = n
         /\ \A o : Count(q, o) \in Nat /\ Count(SubSeq(memory, 1, n), o) \in Nat
         /\ step = 1 => q = memory /\ SubSeq(memory, 1, n) = q
<1>1. PICK m \in Nat : m = Len(memory) /\ DOMAIN memory = 1 .. m
  BY LenProperties
<1>2. n \in Nat
  <2>1. m + step - 1 \in Nat
    OBVIOUS
  <2>2. \A a \in Nat, b \in Nat \ {0} : a \div b \in Nat
    OBVIOUS
  <2> QED
    BY <1>1, <2>1, <2>2 DEF BulkCount
<1>3. DOMAIN q = 1 .. n /\ Len(q) = n
  BY <1>2 DEF BulkObjects
<1>4. DOMAIN SubSeq(memory, 1, n) = 1 .. n
  BY <1>2
<1>5. \A o : Count(q, o) \in Nat /\ Count(SubSeq(memory, 1, n), o) \in Nat
  BY <1>2, <1>3, <1>4, CountNat
<1>6. ASSUME step = 1 PROVE q = memory /\ SubSeq(memory, 1, n) = q
  <2>1. n = m
    <3>1. (m + 1 - 1) \div 1 = m
      OBVIOUS
    <3> QED
      BY <1>1, <1>6, <3>1 DEF BulkCount
  <2>2. ASSUME NEW i \in 1 .. m PROVE q[i] = memory[i]
    <3>1. 1 + (i - 1) * 1 = i
      OBVIOUS
    <3> QED
      BY <1>6, <2>1, <3>1 DEF BulkObjects
  <2>3. memory \in [1 .. m -> Slot]
    BY <1>1
  <2>4. q = memory
    <3>1. q \in [1 .. m -> Slot]
      BY <2>1, <2>2, <2>3 DEF BulkObjects
    <3> QED
      BY <2>2, <2>3, <3>1
  <2>5. SubSeq(memory, 1, m) = memory
    BY <1>1
  <2> QED
    BY <2>1, <2>4, <2>5
<1> QED
  BY <1>2, <1>3, <1>5, <1>6

(* The memory of the caller is a sequence of slots.                        *)
LEMMA MemoryType ==
  ASSUME NEW step \in Steps, NEW memory \in Memory(step)
  PROVE  step \in Nat \ {0} /\ memory \in Seq(Slot)
<1>1. step \in Nat \ {0}
  BY PoolAssumption
<1>2. PICK n \in 1 .. BulkSize :
        memory \in [1 .. (n - 1) * step + 1 -> IF step = 1 THEN Obj ELSE Slot]
  BY DEF Memory
<1>3. (n - 1) * step + 1 \in Nat
  <2>1. PICK a \in Nat : a = n - 1
    BY <1>2, PoolAssumption
  <2>2. \A b \in Nat : a * b + 1 \in Nat
    OBVIOUS
  <2> QED
    BY <1>1, <2>1, <2>2
<1>4. PICK m \in Nat : m = (n - 1) * step + 1
  BY <1>3
<1>5. memory \in [1 .. m -> Slot]
  BY <1>2, <1>4 DEF Slot
<1> QED
  BY <1>1, <1>5

(* What a bulk call does.                                                  *)
LEMMA BulkDoes ==
  ASSUME NEW step, NEW memory, DoAutoreleaseObjects(memory, step), NEW n, n = BulkCount(memory, step),
         NEW q, q = BulkObjects(memory, step)
  PROVE  /\ ClientRuns /\ \A i \in 1 .. n : q[i] \in live
         /\ \A o \in Obj \ ConstantObj : Count(q, o) <= owned[o]
         /\ owned' = [o \in Obj |-> IF o \in ConstantObj THEN owned[o] ELSE owned[o] - Count(q, o)]
         /\ pools = <<>> =>
              /\ leaked' = [o \in Obj |-> IF o \in ConstantObj THEN leaked[o] ELSE leaked[o] + Count(q, o)]
              /\ UNCHANGED <<pools, object_map>>
         /\ pools # <<>> =>
              /\ object_map' = [o \in Obj |-> object_map[o] + Count(SubSeq(memory, 1, n), o)]
              /\ pools' = [pools EXCEPT ![Len(pools)] = AddedObjects(pools[Len(pools)], q)]
              /\ UNCHANGED leaked
         /\ UNCHANGED <<rc, live, roots, stack>>
BY DEF DoAutoreleaseObjects, BulkCount, BulkObjects, Count

(* _autoreleaseObjects().                                                  *)
LEMMA BulkFits ==
  ASSUME PoolFits, NEW step \in Steps, NEW memory \in Memory(step), DoAutoreleaseObjects(memory, step)
  PROVE  /\ Fitting /\ owned' \in [Obj -> Int] /\ leaked' \in [Obj -> Int]
         /\ step = 1 => MapFollows
<1>1. /\ pools \in Seq(Storage) /\ stack \in Seq(Frame) /\ StackFits(pools, stack)
      /\ object_map \in [Obj -> Int] /\ owned \in [Obj -> Int] /\ leaked \in [Obj -> Int]
      /\ live \in SUBSET Obj
  BY DEF PoolFits, TypeOK
<1>2. step \in Nat \ {0} /\ memory \in Seq(Slot)
  BY MemoryType
<1>3. PICK n, q : n = BulkCount(memory, step) /\ q = BulkObjects(memory, step)
  OBVIOUS
<1>4. /\ n \in Nat /\ DOMAIN q = 1 .. n /\ Len(q) = n
      /\ \A o : Count(q, o) \in Nat /\ Count(SubSeq(memory, 1, n), o) \in Nat
      /\ step = 1 => q = memory /\ SubSeq(memory, 1, n) = q
  BY <1>2, <1>3, BulkParts
<1>5. /\ \A i \in 1 .. n : q[i] \in live
      /\ owned' = [o \in Obj |-> IF o \in ConstantObj THEN owned[o] ELSE owned[o] - Count(q, o)]
      /\ pools = <<>> =>
           /\ leaked' = [o \in Obj |-> IF o \in ConstantObj THEN leaked[o] ELSE leaked[o] + Count(q, o)]
           /\ UNCHANGED <<pools, object_map>>
      /\ pools # <<>> =>
           /\ object_map' = [o \in Obj |-> object_map[o] + Count(SubSeq(memory, 1, n), o)]
           /\ pools' = [pools EXCEPT ![Len(pools)] = AddedObjects(pools[Len(pools)], q)]
           /\ UNCHANGED leaked
      /\ UNCHANGED stack
  BY <1>3, BulkDoes
<1>6. owned' \in [Obj -> Int]
  BY <1>1, <1>4, <1>5
<1>7. CASE pools = <<>>
  <2>1. leaked' \in [Obj -> Int]
    BY <1>1, <1>4, <1>5, <1>7
  <2>2. UNCHANGED <<pools, object_map, stack>>
    BY <1>5, <1>7
  <2> QED
    BY <1>6, <2>1, <2>2, PoolsUntouched DEF Fitting
<1>8. CASE pools # <<>>
  <2>1. /\ leaked' \in [Obj -> Int] /\ stack' = stack
        /\ object_map' = [o \in Obj |-> object_map[o] + Count(SubSeq(memory, 1, n), o)]
    BY <1>1, <1>5, <1>8
  <2>2. object_map' \in [Obj -> Int]
    BY <1>1, <1>4, <2>1
  <2>3. q \in Seq(Slot)
    <3>1. \A i \in 1 .. n : q[i] \in Slot
      BY <1>1, <1>5 DEF Slot
    <3>2. q = [i \in 1 .. n |-> q[i]]
      BY <1>3 DEF BulkObjects
    <3> QED
      BY <1>4, <3>1, <3>2
  <2>4. PICK k \in Nat \ {0} : k = Len(pools)
    BY <1>1, <1>8, EmptySeq
  <2>5. PICK s \in Storage : s = pools[k]
    BY <1>1, <2>4, ElementOfSeq
  <2>6. PICK t : t = AddedObjects(s, q)
    OBVIOUS
  <2>7. t \in Storage /\ Kept(s, t) /\ \A o : CountObject(t, o) = CountObject(s, o) + Count(q, o)
    BY <2>3, <2>6, AddedObjectsFit
  <2>8. PICK Q : Q = [pools EXCEPT ![k] = t]
    OBVIOUS
  <2>9. pools' = Q
    BY <1>5, <1>8, <2>4, <2>5, <2>6, <2>8
  <2>10. Changed(pools, Q, k) /\ Q[k] = t
    <3>1. pools \in Seq(Storage) /\ t \in Storage /\ k \in 1 .. Len(pools) /\ Kept(pools[k], t)
      BY <1>1, <2>4, <2>5, <2>7
    <3>2. Changed(pools, [pools EXCEPT ![k] = t], k) /\ [pools EXCEPT ![k] = t][k] = t
      BY <3>1, ChangedPool
    <3> QED
      BY <2>8, <3>2
  <2>11. /\ Q \in Seq(Storage) /\ StackFits(Q, stack)
         /\ \A o : PendingIn(Q, stack, o)
                     = PendingIn(pools, stack, o) + CountObject(Q[k], o) - CountObject(pools[k], o)
    <3>1. pools \in Seq(Storage) /\ stack \in Seq(Frame) /\ StackFits(pools, stack)
          /\ k \in 1 .. Len(pools) /\ Changed(pools, Q, k)
      BY <1>1, <2>4, <2>10
    <3> QED
      BY <3>1, PoolChanges
  <2>12. ASSUME step = 1, NEW o \in Obj
         PROVE  /\ PendingIn(pools, stack, o) \in Nat
                /\ object_map'[o] - object_map[o]
                     = PendingIn(pools', stack', o) - PendingIn(pools, stack, o)
    <3>1. /\ PendingIn(pools, stack, o) \in Nat /\ CountObject(s, o) \in Int /\ Count(q, o) \in Int
          /\ object_map[o] \in Int
      BY <1>1, <1>4, PendingType, StorageType, CountObjectIsWeight
    <3>2. PICK x \in Int, y \in Int, z \in Int, u \in Int :
            /\ x = PendingIn(pools, stack, o) /\ y = CountObject(s, o) /\ z = Count(q, o)
            /\ u = object_map[o]
      BY <3>1
    <3>3. object_map'[o] = u + z
      BY <1>4, <2>1, <2>12, <3>2
    <3>4. PendingIn(pools', stack', o) = x + (y + z) - y
      BY <2>1, <2>5, <2>7, <2>9, <2>10, <2>11, <3>2
    <3>5. u + z - u = x + (y + z) - y - x
      OBVIOUS
    <3> QED
      BY <3>1, <3>2, <3>3, <3>4, <3>5
  <2>13. step = 1 => MapFollows
    BY <2>12 DEF MapFollows
  <2>14. Fitting
    BY <1>1, <2>1, <2>2, <2>9, <2>11 DEF Fitting
  <2> QED
    BY <1>6, <2>1, <2>13, <2>14
<1> QED
  BY <1>7, <1>8

(* The types of the counters, after a step.                                *)
Counters ==
  /\ rc \in [Obj -> Int] /\ live \in SUBSET Obj /\ owned \in [Obj -> Int]
  /\ roots \in SUBSET Obj /\ leaked \in [Obj -> Int]

(* The parts of the invariant that a step keeps one by one.                *)
LEMMA FitsAgain ==
  ASSUME PoolFits, Fitting, Counters'
  PROVE  PoolFits'
<1>1. pools' \in Seq(Seq(Chunk))
  BY StorageType, SeqMonotonic DEF Fitting
<1> QED
  BY <1>1 DEF Fitting, Counters, PoolFits, TypeOK

(* Operations on one object.                                               *)
LEMMA ObjectFits ==
  ASSUME PoolFits, NEW o \in Obj,
         \/ Alloc(o) \/ Retain(o) \/ Release(o) \/ Autorelease(o)
         \/ BecomeRootObject(o) \/ ResignAsRootObject(o) \/ PushToParentAutoreleasePool(o)
  PROVE  Fitting /\ MapFollows /\ Counters'
<1>1. /\ Counters /\ rc \in [Obj -> Int] /\ live \in SUBSET Obj /\ owned \in [Obj -> Int]
      /\ roots \in SUBSET Obj /\ leaked \in [Obj -> Int] /\ object_map \in [Obj -> Int]
  BY DEF PoolFits, TypeOK, Counters
<1>2. CASE Alloc(o)
  <2>1. Counters'
    BY <1>1, <1>2 DEF Alloc, Counters
  <2>2. UNCHANGED <<pools, object_map, stack>>
    BY <1>2 DEF Alloc
  <2> QED
    BY <2>1, <2>2, PoolsUntouched DEF Fitting
<1>3. CASE Retain(o)
  <2>1. Counters'
    BY <1>1, <1>3 DEF Retain, Counters
  <2>2. UNCHANGED <<pools, object_map, stack>>
    BY <1>3 DEF Retain
  <2> QED
    BY <2>1, <2>2, PoolsUntouched DEF Fitting
<1>4. ASSUME BecomeRootObject(o) PROVE Fitting /\ MapFollows /\ Counters'
  <2>1. Counters'
    BY <1>1, <1>4 DEF BecomeRootObject, Counters
  <2>2. UNCHANGED <<pools, object_map, stack>>
    BY <1>4 DEF BecomeRootObject
  <2> QED
    BY <2>1, <2>2, PoolsUntouched DEF Fitting
<1>5. CASE Release(o)
  <2>1. Fitting /\ MapFollows /\ rc' \in [Obj -> Int]
    BY <1>5, ReleaseStepFits
  <2>2. owned' \in [Obj -> Int] /\ UNCHANGED <<live, roots, leaked>>
    BY <1>1, <1>5 DEF Release, Give
  <2> QED
    BY <1>1, <2>1, <2>2 DEF Counters
<1>6. ASSUME DoAutorelease(o), stack' = stack
      PROVE  Fitting /\ MapFollows /\ leaked' \in [Obj -> Int]
  BY <1>6, AutoreleaseFits DEF Fitting
<1>7. CASE Autorelease(o)
  <2>1. DoAutorelease(o) /\ UNCHANGED <<rc, live, roots, stack>>
    BY <1>7 DEF Autorelease, _MulleObjCAutoreleaseObject
  <2>2. owned' \in [Obj -> Int]
    BY <1>1, <1>7 DEF Autorelease, Give
  <2> QED
    BY <1>1, <1>6, <2>1, <2>2 DEF Counters
<1>8. CASE ResignAsRootObject(o)
  <2>1. DoAutorelease(o) /\ UNCHANGED <<rc, live, owned, stack>> /\ roots' = roots \ {o}
    BY <1>8 DEF ResignAsRootObject
  <2> QED
    BY <1>1, <1>6, <2>1 DEF Counters
<1>9. CASE PushToParentAutoreleasePool(o)
  <2>1. CASE BecomeRootObject(o)
    BY <1>4, <2>1
  <2>2. CASE ~BecomeRootObject(o)
    <3>1. DoAutorelease(o) /\ UNCHANGED <<live, owned, roots, stack>> /\ rc' = [rc EXCEPT ![o] = @ + 1]
      BY <1>9, <2>2 DEF PushToParentAutoreleasePool
    <3> QED
      BY <1>1, <1>6, <3>1 DEF Counters
  <2> QED
    BY <2>1, <2>2
<1> QED
  BY <1>2, <1>3, <1>4, <1>5, <1>7, <1>8, <1>9

(* No step of the pools or of their clients breaks off a call in progress, *)
(* and without strides the object map keeps up with the pools.             *)
LEMMA StepFits ==
  ASSUME PoolFits, [Next]_vars
  PROVE  PoolFits' /\ (Steps \subseteq {1} => MapFollows)
<1>1. /\ Counters /\ rc \in [Obj -> Int] /\ live \in SUBSET Obj /\ owned \in [Obj -> Int]
      /\ roots \in SUBSET Obj /\ leaked \in [Obj -> Int] /\ object_map \in [Obj -> Int]
  BY DEF PoolFits, TypeOK, Counters
<1>2. ASSUME UNCHANGED <<rc, live, owned, roots, leaked>> PROVE Counters'
  BY <1>1, <1>2 DEF Counters
<1>3. ASSUME UNCHANGED <<live, owned, roots, leaked>>, rc' \in [Obj -> Int] PROVE Counters'
  BY <1>1, <1>3 DEF Counters
<1>4. ASSUME NEW o \in Obj,
             \/ Alloc(o) \/ Retain(o) \/ Release(o) \/ Autorelease(o)
             \/ BecomeRootObject(o) \/ ResignAsRootObject(o) \/ PushToParentAutoreleasePool(o)
      PROVE  PoolFits' /\ MapFollows
  BY <1>4, ObjectFits, FitsAgain
<1>5. ASSUME NEW step \in Steps, NEW memory \in Memory(step), DoAutoreleaseObjects(memory, step)
      PROVE  PoolFits' /\ (Steps \subseteq {1} => MapFollows)
  <2>1. /\ Fitting /\ owned' \in [Obj -> Int] /\ leaked' \in [Obj -> Int]
        /\ step = 1 => MapFollows
    BY <1>5, BulkFits
  <2>2. UNCHANGED <<rc, live, roots>>
    BY <1>5 DEF DoAutoreleaseObjects
  <2>3. Counters'
    BY <1>1, <2>1, <2>2 DEF Counters
  <2> QED
    BY <2>1, <2>3, FitsAgain
<1>6. CASE MulleAutoreleasePoolPush
  <2>1. UNCHANGED <<rc, live, owned, roots, leaked>>
    BY <1>6 DEF MulleAutoreleasePoolPush
  <2> QED
    BY <1>2, <1>6, <2>1, PushFits, FitsAgain
<1>7. ASSUME \/ \E k \in 1 .. Len(pools) : MulleAutoreleasePoolPop(k) \/ ReleaseAllPoolObjects(k)
             \/ \E S \in SUBSET Obj \ {{}}, all \in BOOLEAN : ReleasePoolObjects(S, all)
      PROVE  PoolFits' /\ MapFollows
  <2>1. UNCHANGED <<rc, live, owned, roots, leaked>>
    BY <1>7 DEF MulleAutoreleasePoolPop, ReleaseAllPoolObjects, ReleasePoolObjects
  <2> QED
    BY <1>2, <1>7, <2>1, CallsFit, FitsAgain
<1>8. ASSUME NEW then \in {"return", "push"}, ResetOrDone(then) PROVE PoolFits' /\ MapFollows
  <2>1. UNCHANGED <<rc, live, owned, roots, leaked>>
    BY <1>8 DEF ResetOrDone
  <2> QED
    BY <1>2, <1>8, <2>1, ResetFits, FitsAgain
<1>9. CASE DrainTakeStorage
  <2>1. UNCHANGED <<rc, live, owned, roots, leaked>>
    BY <1>9 DEF DrainTakeStorage
  <2> QED
    BY <1>2, <1>9, <2>1, TakeFits, FitsAgain
<1>10. CASE DrainObject
  <2>1. UNCHANGED <<live, owned, roots, leaked>>
    BY <1>10 DEF DrainObject
  <2> QED
    BY <1>3, <1>10, <2>1, DrainObjectFits, FitsAgain
<1>11. CASE DrainFreeChunk
  <2>1. UNCHANGED <<rc, live, owned, roots, leaked>>
    BY <1>11 DEF DrainFreeChunk
  <2> QED
    BY <1>2, <1>11, <2>1, FreeChunkFits, FitsAgain
<1>12. CASE DrainFinish
  <2>1. UNCHANGED <<rc, live, owned, roots, leaked>>
    BY <1>12 DEF DrainFinish
  <2> QED
    BY <1>2, <1>12, <2>1, DrainFinishFits, FitsAgain
<1>13. CASE WalkSlot
  <2>1. UNCHANGED <<live, owned, roots, leaked>>
    BY <1>13 DEF WalkSlot
  <2> QED
    BY <1>3, <1>13, <2>1, WalkSlotFits, FitsAgain
<1>14. CASE WalkNext
  <2>1. UNCHANGED <<rc, live, owned, roots, leaked>>
    BY <1>14 DEF WalkNext
  <2> QED
    BY <1>2, <1>14, <2>1, WalkNextFits, FitsAgain
<1>15. CASE DeallocReturn
  <2>1. UNCHANGED <<rc, owned, roots, leaked>> /\ live' = live \ {Top.object}
    BY <1>15 DEF DeallocReturn
  <2>2. Counters'
    BY <1>1, <2>1 DEF Counters
  <2> QED
    BY <1>15, <2>2, DeallocReturnFits, FitsAgain
<1>16. CASE UNCHANGED vars
  <2>1. UNCHANGED <<rc, live, owned, roots, leaked>> /\ UNCHANGED <<pools, object_map, stack>>
    BY <1>16 DEF vars
  <2>2. Fitting /\ MapFollows
    BY <2>1, PoolsUntouched DEF Fitting
  <2> QED
    BY <1>2, <2>1, <2>2, FitsAgain
<1>17. CASE ClientStep
  BY <1>4, <1>5, <1>6, <1>7, <1>8, <1>17 DEF ClientStep, _MulleObjCAutoreleaseObjects,
     _MulleObjCAutoreleaseSpacedObjects, PoolConfigurationReset, PoolConfigurationDone
<1>18. CASE PoolStep
  BY <1>9, <1>10, <1>11, <1>12, <1>13, <1>14, <1>18 DEF PoolStep
<1> QED
  BY <1>15, <1>16, <1>17, <1>18 DEF Next

(* A thread starts with one pool.                                          *)
LEMMA InitFits == Init /\ ~DrainsWalked => PoolFits
<1> SUFFICES ASSUME Init, ~DrainsWalked PROVE PoolFits
  OBVIOUS
<1>1. pools = <<<<EmptyChunk>>>> /\ stack = <<>>
  BY DEF Init
<1>2. pools \in Seq(Storage)
  BY <1>1, NewStorage
<1>3. pools \in Seq(Seq(Chunk))
  BY <1>2, StorageType, SeqMonotonic
<1>4. StackFits(pools, stack)
  BY <1>1 DEF StackFits
<1>5. /\ object_map \in [Obj -> Int] /\ rc \in [Obj -> Int] /\ live \in SUBSET Obj
      /\ owned \in [Obj -> Int] /\ roots \in SUBSET Obj /\ leaked \in [Obj -> Int]
      /\ stack \in Seq(Frame)
  BY <1>1, PoolAssumption DEF Init
<1> QED
  BY <1>2, <1>3, <1>4, <1>5 DEF PoolFits, TypeOK

(* The pools, arrays and slots that calls in progress come back to are     *)
(* still there, whatever a -dealloc in between did: it may also send       *)
(* -mulleReleaseAllPoolObjects to any pool, one that is being drained or   *)
(* popped included, except one that a walk is in.  (If it does that, too,  *)
(* the walk goes on in arrays that are gone: DrainsWalked.)                *)
THEOREM CursorSafety == ~DrainsWalked => (Spec => []CursorsValid)
<1>1. Init /\ ~DrainsWalked => PoolFits
  BY InitFits
<1>2. PoolFits /\ [Next]_vars => PoolFits'
  BY StepFits
<1>3. PoolFits => CursorsValid
  <2> SUFFICES ASSUME PoolFits PROVE CursorsValid
    OBVIOUS
  <2>1. DOMAIN stack = 1 .. Len(stack) /\ DOMAIN pools = 1 .. Len(pools) /\ TypeOK
    BY DEF PoolFits, TypeOK
  <2>2. \A f \in DOMAIN stack : FrameFits(pools, stack[f])
    BY <2>1 DEF PoolFits, StackFits
  <2> QED
    BY <2>1, <2>2 DEF CursorsValid, FrameFits
<1>4. CASE ~DrainsWalked
  <2>1. Init => PoolFits
    BY <1>1, <1>4
  <2> QED
    BY <1>2, <1>3, <2>1, PTL DEF Spec
<1> QED
  BY <1>4

-----------------------------------------------------------------------------
(* The books: where references and dealloc'd objects are accounted for.    *)

(* An object whose -dealloc runs is allocated and has no references, and   *)
(* no other -dealloc is its own.                                           *)
DeallocsFit(S, r, l) ==
  \A i \in 1 .. Len(S) : S[i].kind = "dealloc" =>
    /\ S[i].object \in l \ ConstantObj /\ r[S[i].object] = 0
    /\ \A j \in 1 .. Len(S) : j # i /\ S[j].kind = "dealloc" => S[j].object # S[i].object

Ledger ==
  /\ owned \in [Obj -> Nat] /\ leaked \in [Obj -> Nat]
  /\ roots \cap ConstantObj = {}
  /\ ReferencesHaveOwners
  /\ ConstantObj \subseteq live
  /\ \A o \in Obj \ ConstantObj : o \notin live => rc[o] = 0
  /\ DeallocsFit(stack, rc, live)

MapCounts == \A o \in Obj : object_map[o] = PendingIn(pools, stack, o)

(* Fewer -dealloc methods run, and fewer objects have a reference.         *)
LEMMA DeallocsLess ==
  ASSUME NEW S, NEW T, NEW r, NEW u, NEW l, NEW m, DeallocsFit(S, r, l), NoNewDealloc(S, T),
         \A p \in l : r[p] = 0 => u[p] = 0 /\ p \in m
  PROVE  DeallocsFit(T, u, m)
BY DEF DeallocsFit, NoNewDealloc

(* A -dealloc starts for an object that has had its last reference.        *)
LEMMA DeallocsMore ==
  ASSUME NEW R \in Seq(Frame), NEW r, NEW u, NEW l, DeallocsFit(R, r, l), NEW f \in Frame,
         f.object \in l \ ConstantObj, r[f.object] # 0, u[f.object] = 0,
         \A p \in l : r[p] = 0 => u[p] = 0
  PROVE  DeallocsFit(Append(R, f), u, l)
<1>1. PICK n \in Nat : n = Len(R)
  BY LenProperties
<1>2. PICK T : T = Append(R, f)
  OBVIOUS
<1>3. /\ Len(T) = n + 1 /\ T[n + 1] = f /\ \A i \in 1 .. n : T[i] = R[i]
  BY <1>1, <1>2, AppendProperties
<1>4. ASSUME NEW i \in 1 .. Len(T), T[i].kind = "dealloc"
      PROVE  /\ T[i].object \in l \ ConstantObj /\ u[T[i].object] = 0
             /\ \A j \in 1 .. Len(T) : j # i /\ T[j].kind = "dealloc" => T[j].object # T[i].object
  <2>1. CASE i = n + 1
    <3>1. \A j \in 1 .. n : T[j].kind = "dealloc" => r[T[j].object] = 0
      BY <1>1, <1>3 DEF DeallocsFit
    <3>2. \A j \in 1 .. Len(T) : j # i => j \in 1 .. n
      BY <1>1, <1>3, <2>1
    <3> QED
      BY <1>3, <2>1, <3>1, <3>2
  <2>2. CASE i # n + 1
    <3>1. i \in 1 .. n
      BY <1>1, <1>3, <2>2
    <3>2. /\ T[i].object \in l \ ConstantObj /\ r[T[i].object] = 0
          /\ \A j \in 1 .. n : j # i /\ T[j].kind = "dealloc" => T[j].object # T[i].object
      BY <1>1, <1>3, <1>4, <3>1 DEF DeallocsFit
    <3>3. \A j \in 1 .. Len(T) : j \in 1 .. n \/ j = n + 1
      BY <1>1, <1>3
    <3> QED
      BY <1>3, <3>2, <3>3
  <2> QED
    BY <2>1, <2>2
<1> QED
  BY <1>2, <1>4 DEF DeallocsFit

(* A step that leaves the counters alone and starts no -dealloc.           *)
LEMMA LedgerQuiet ==
  ASSUME Ledger, UNCHANGED <<object_map, rc, live, owned, roots, leaked>>,
         NoNewDealloc(stack, stack')
  PROVE  Ledger'
<1>1. DeallocsFit(stack', rc', live')
  BY DeallocsLess DEF Ledger
<1>2. ReferencesHaveOwners'
  BY DEF Ledger, ReferencesHaveOwners, RootReference
<1> QED
  BY <1>1, <1>2 DEF Ledger

(* A reference is given back that was there.                               *)
LEMMA LedgerRelease ==
  ASSUME PoolFits, Ledger, NEW o \in Obj, NEW R \in Seq(Frame), NoNewDealloc(stack, R),
         ReleaseFrom(o, R), UNCHANGED live, o \notin ConstantObj => rc[o] > 0
  PROVE  /\ DeallocsFit(stack', rc', live')
         /\ rc' = IF o \in ConstantObj THEN rc ELSE [rc EXCEPT ![o] = @ - 1]
         /\ \A p \in Obj \ ConstantObj : p \notin live' => rc'[p] = 0
<1>1. rc \in [Obj -> Int] /\ Len(pools) \in Nat
  BY LenProperties DEF PoolFits, TypeOK
<1>2. DeallocsFit(R, rc, live)
  BY DeallocsLess DEF Ledger
<1>3. CASE o \in ConstantObj
  BY <1>2, <1>3 DEF ReleaseFrom, Ledger
<1>4. CASE o \notin ConstantObj
  <2>1. PICK u : u = [rc EXCEPT ![o] = @ - 1]
    OBVIOUS
  <2>2. rc' = u /\ stack' = IF rc[o] = 1 THEN Append(R, DeallocFrame(o)) ELSE R
    BY <1>4, <2>1 DEF ReleaseFrom
  <2>3. u[o] = rc[o] - 1 /\ \A p \in Obj : p # o => u[p] = rc[p]
    BY <1>1, <2>1
  <2>4. o \in live /\ rc[o] > 0 /\ rc[o] \in Int /\ live \in SUBSET Obj
    BY <1>1, <1>4 DEF Ledger, PoolFits, TypeOK
  <2>5. \A p \in live : rc[p] = 0 => u[p] = 0
    BY <2>3, <2>4
  <2>6. CASE rc[o] = 1
    <3>1. PICK f : f = DeallocFrame(o)
      OBVIOUS
    <3>2. f \in Frame /\ f.object = o
      BY <1>1, <3>1 DEF DeallocFrame, Frame
    <3>3. f.object \in live \ ConstantObj /\ rc[f.object] # 0 /\ u[f.object] = 0
      BY <1>4, <2>3, <2>4, <2>6, <3>2
    <3>4. DeallocsFit(Append(R, f), u, live)
      BY <1>2, <2>5, <3>2, <3>3, DeallocsMore
    <3>5. stack' = Append(R, f)
      BY <2>2, <2>6, <3>1
    <3>6. \A p \in Obj \ ConstantObj : p \notin live => u[p] = 0
      BY <2>3, <2>4 DEF Ledger
    <3> QED
      BY <1>4, <2>1, <2>2, <3>4, <3>5, <3>6
  <2>7. CASE rc[o] # 1
    <3>1. DeallocsFit(R, u, live)
      BY <1>2, <2>5, NoNewDeallocs, DeallocsLess
    <3>2. \A p \in Obj \ ConstantObj : p \notin live => u[p] = 0
      BY <2>3, <2>4 DEF Ledger
    <3> QED
      BY <1>4, <2>1, <2>2, <2>7, <3>1, <3>2
  <2> QED
    BY <2>6, <2>7
<1> QED
  BY <1>3, <1>4

(* The books of one object: what it has is what is owned, to be released,  *)
(* lost and rooted.                                                        *)
LEMMA Balance ==
  ASSUME PoolFits, Ledger, MapCounts, NEW p \in Obj
  PROVE  /\ rc[p] \in Int /\ owned[p] \in Nat /\ object_map[p] \in Nat /\ leaked[p] \in Nat
         /\ RootReference(p) \in {0, 1}
         /\ p \notin ConstantObj => rc[p] = owned[p] + object_map[p] + leaked[p] + RootReference(p)
<1>1. object_map[p] \in Nat
  BY PendingType DEF MapCounts, PoolFits, TypeOK
<1> QED
  BY <1>1 DEF PoolFits, TypeOK, Ledger, RootReference, ReferencesHaveOwners

(* A pool releases an object.                                              *)
LEMMA LedgerPoolReleases ==
  ASSUME PoolFits, Ledger, MapCounts, PoolFits', MapFollows, NEW o \in Obj, Unmap(o),
         NEW R \in Seq(Frame), NoNewDealloc(stack, R), ReleaseFrom(o, R),
         UNCHANGED <<live, owned, roots, leaked>>
  PROVE  Ledger'
<1>1. object_map[o] > 0
  <2>1. object_map'[o] - object_map[o] = PendingIn(pools', stack', o) - PendingIn(pools, stack, o)
    BY DEF MapFollows
  <2>2. /\ PendingIn(pools', stack', o) \in Nat /\ object_map[o] = PendingIn(pools, stack, o)
        /\ object_map[o] \in Int
    BY PendingType DEF PoolFits, TypeOK, MapCounts
  <2>3. object_map'[o] = object_map[o] - 1
    BY DEF Unmap, PoolFits, TypeOK
  <2>4. PICK x \in Int, y \in Nat : x = object_map[o] /\ y = PendingIn(pools', stack', o)
    BY <2>2
  <2>5. (x - 1) - x = y - x
    BY <2>1, <2>2, <2>3, <2>4
  <2> QED
    BY <2>4, <2>5
<1>2. o \notin ConstantObj => rc[o] > 0
  BY <1>1, Balance
<1>3. /\ DeallocsFit(stack', rc', live')
      /\ rc' = IF o \in ConstantObj THEN rc ELSE [rc EXCEPT ![o] = @ - 1]
      /\ \A p \in Obj \ ConstantObj : p \notin live' => rc'[p] = 0
  BY <1>2, LedgerRelease
<1>4. ASSUME NEW p \in Obj \ ConstantObj
      PROVE  rc'[p] = owned'[p] + object_map'[p] + leaked'[p] + RootReference(p)'
  <2>1. PICK r \in Int, a \in Int, m \in Int, l \in Int, t \in Int :
          /\ r = rc[p] /\ a = owned[p] /\ m = object_map[p] /\ l = leaked[p] /\ t = RootReference(p)
          /\ r = a + m + l + t
    <3>1. /\ rc[p] \in Int /\ owned[p] \in Int /\ object_map[p] \in Int /\ leaked[p] \in Int
          /\ RootReference(p) \in Int
          /\ rc[p] = owned[p] + object_map[p] + leaked[p] + RootReference(p)
      BY Balance
    <3> QED
      BY <3>1
  <2>0. r = a + m + l + t
    BY <2>1
  <2>2. owned'[p] = a /\ leaked'[p] = l /\ RootReference(p)' = t
    BY <2>1 DEF RootReference
  <2>3. CASE p = o
    <3>1. rc'[p] = r - 1
      BY <1>3, <2>1, <2>3 DEF PoolFits, TypeOK
    <3>2. object_map'[p] = m - 1
      BY <2>1, <2>3 DEF PoolFits, TypeOK, Unmap
    <3>3. r - 1 = a + (m - 1) + l + t
      BY <2>0
    <3> QED
      BY <2>2, <3>1, <3>2, <3>3
  <2>4. CASE p # o
    <3>1. rc'[p] = r
      BY <1>3, <2>1, <2>4 DEF PoolFits, TypeOK
    <3>2. object_map'[p] = m
      BY <2>1, <2>4 DEF PoolFits, TypeOK, Unmap
    <3> QED
      BY <2>1, <2>2, <3>1, <3>2
  <2> QED
    BY <2>3, <2>4
<1>5. ReferencesHaveOwners'
  BY <1>4 DEF ReferencesHaveOwners
<1> QED
  BY <1>3, <1>5 DEF Ledger

(* What a step does to the counters of an object.                          *)
Changes(p, r, a, m, l, t) ==
  /\ rc'[p] = rc[p] + r /\ owned'[p] = owned[p] + a /\ object_map'[p] = object_map[p] + m
  /\ leaked'[p] = leaked[p] + l /\ RootReference(p)' = RootReference(p) + t

(* They balance again, if what one of them loses another one gets.         *)
LEMMA Rebalanced ==
  ASSUME PoolFits, Ledger, MapCounts, NEW p \in Obj \ ConstantObj,
         NEW r \in Int, NEW a \in Int, NEW m \in Int, NEW l \in Int, NEW t \in Int,
         Changes(p, r, a, m, l, t), r = a + m + l + t
  PROVE  rc'[p] = owned'[p] + object_map'[p] + leaked'[p] + RootReference(p)'
<1>1. /\ rc[p] \in Int /\ owned[p] \in Int /\ object_map[p] \in Int /\ leaked[p] \in Int
      /\ RootReference(p) \in Int
      /\ rc[p] = owned[p] + object_map[p] + leaked[p] + RootReference(p)
  BY Balance
<1>2. PICK x \in Int, y \in Int, z \in Int, u \in Int :
        /\ x = owned[p] /\ y = object_map[p] /\ z = leaked[p] /\ u = RootReference(p)
        /\ rc[p] = x + y + z + u
  BY <1>1
<1>3. x + y + z + u + (a + m + l + t) = (x + a) + (y + m) + (z + l) + (u + t)
  BY <1>2
<1> QED
  BY <1>2, <1>3 DEF Changes

(* _autoreleaseObject() books the reference as one to be released, or as   *)
(* one that leaks.                                                         *)
LEMMA AutoreleaseBooks ==
  ASSUME PoolFits, Ledger, NEW o \in Obj \ ConstantObj, DoAutorelease(o)
  PROVE  /\ leaked' \in [Obj -> Nat]
         /\ \A p \in Obj : \E m \in Int, l \in Int :
              /\ object_map'[p] = object_map[p] + m /\ leaked'[p] = leaked[p] + l
              /\ m + l = Hit(o, p)
<1>1. object_map \in [Obj -> Int] /\ leaked \in [Obj -> Nat]
  BY DEF PoolFits, TypeOK, Ledger
<1>2. CASE pools = <<>>
  <2>1. leaked' = [leaked EXCEPT ![o] = @ + 1] /\ object_map' = object_map
    BY <1>2 DEF DoAutorelease
  <2>2. leaked' \in [Obj -> Nat]
    BY <1>1, <2>1
  <2>3. ASSUME NEW p \in Obj
        PROVE  /\ object_map'[p] = object_map[p] + 0 /\ leaked'[p] = leaked[p] + Hit(o, p)
               /\ 0 + Hit(o, p) = Hit(o, p) /\ Hit(o, p) \in Int
    BY <1>1, <2>1 DEF Hit
  <2> QED
    BY <2>2, <2>3
<1>3. CASE pools # <<>>
  <2>1. object_map' = [object_map EXCEPT ![o] = @ + 1] /\ leaked' = leaked
    BY <1>3 DEF DoAutorelease
  <2>2. leaked' \in [Obj -> Nat]
    BY <1>1, <2>1
  <2>3. ASSUME NEW p \in Obj
        PROVE  /\ object_map'[p] = object_map[p] + Hit(o, p) /\ leaked'[p] = leaked[p] + 0
               /\ Hit(o, p) + 0 = Hit(o, p) /\ Hit(o, p) \in Int
    BY <1>1, <2>1 DEF Hit
  <2> QED
    BY <2>2, <2>3
<1> QED
  BY <1>2, <1>3

(* +alloc, -retain and _becomeRootObject.                                  *)
LEMMA LedgerTakes ==
  ASSUME PoolFits, Ledger, MapCounts, NEW o \in Obj, Alloc(o) \/ Retain(o) \/ BecomeRootObject(o)
  PROVE  Ledger'
<1>1. /\ rc \in [Obj -> Int] /\ owned \in [Obj -> Nat] /\ leaked \in [Obj -> Nat]
      /\ object_map \in [Obj -> Int] /\ live \in SUBSET Obj /\ stack \in Seq(Frame)
      /\ roots \in SUBSET Obj /\ ConstantObj \subseteq live
  BY DEF PoolFits, TypeOK, Ledger
<1>2. UNCHANGED <<object_map, leaked, stack>> /\ o \notin ConstantObj
  BY <1>1 DEF Alloc, Retain, BecomeRootObject
<1>3. ASSUME NEW p \in Obj, p # o
      PROVE  /\ rc'[p] = rc[p] /\ owned'[p] = owned[p]
             /\ RootReference(p)' = RootReference(p) /\ (p \in live <=> p \in live')
  BY <1>1, <1>3 DEF Alloc, Retain, BecomeRootObject, RootReference
<1>4. /\ owned' \in [Obj -> Nat] /\ roots' \cap ConstantObj = {} /\ ConstantObj \subseteq live'
      /\ o \in live'
  BY <1>1, <1>2 DEF Alloc, Retain, BecomeRootObject, Ledger
<1>5. rc'[o] = owned'[o] + object_map'[o] + leaked'[o] + RootReference(o)'
  <2>0. object_map'[o] = object_map[o] + 0 /\ leaked'[o] = leaked[o] + 0
    <3>1. object_map[o] \in Int /\ leaked[o] \in Int
      BY Balance
    <3> QED
      BY <1>2, <3>1
  <2>1. CASE Alloc(o)
    <3>1. rc[o] = 0 /\ owned[o] = 0
      <4>1. rc[o] = 0
        BY <1>2, <2>1 DEF Alloc, Ledger
      <4>2. /\ owned[o] \in Nat /\ object_map[o] \in Nat /\ leaked[o] \in Nat
            /\ RootReference(o) \in Nat
            /\ rc[o] = owned[o] + object_map[o] + leaked[o] + RootReference(o)
        BY <1>2, Balance
      <4>3. PICK x \in Nat, y \in Nat, z \in Nat, u \in Nat :
              /\ x = owned[o] /\ y = object_map[o] /\ z = leaked[o] /\ u = RootReference(o)
              /\ rc[o] = x + y + z + u
        BY <4>2
      <4>4. x = 0
        BY <4>1, <4>3
      <4> QED
        BY <4>1, <4>3, <4>4
    <3>2. rc'[o] = rc[o] + 1 /\ owned'[o] = owned[o] + 1
      BY <1>1, <2>1, <3>1 DEF Alloc
    <3>3. RootReference(o)' = RootReference(o) + 0
      BY <2>1 DEF Alloc, RootReference
    <3>4. Changes(o, 1, 1, 0, 0, 0)
      BY <2>0, <3>2, <3>3 DEF Changes
    <3> QED
      BY <1>2, <3>4, Rebalanced
  <2>2. CASE Retain(o)
    <3>1. rc'[o] = rc[o] + 1 /\ owned'[o] = owned[o] + 1
      BY <1>1, <2>2 DEF Retain
    <3>2. RootReference(o)' = RootReference(o) + 0
      BY <2>2 DEF Retain, RootReference
    <3>3. Changes(o, 1, 1, 0, 0, 0)
      BY <2>0, <3>1, <3>2 DEF Changes
    <3> QED
      BY <1>2, <3>3, Rebalanced
  <2>3. CASE BecomeRootObject(o)
    <3>1. rc'[o] = rc[o] + 1 /\ owned'[o] = owned[o] + 0
      BY <1>1, <2>3 DEF BecomeRootObject
    <3>2. RootReference(o)' = RootReference(o) + 1
      BY <2>3 DEF BecomeRootObject, RootReference
    <3>3. Changes(o, 1, 0, 0, 0, 1)
      BY <2>0, <3>1, <3>2 DEF Changes
    <3> QED
      BY <1>2, <3>3, Rebalanced
  <2> QED
    BY <2>1, <2>2, <2>3
<1>6. ReferencesHaveOwners'
  <2>1. ASSUME NEW p \in Obj \ ConstantObj
        PROVE  rc'[p] = owned'[p] + object_map'[p] + leaked'[p] + RootReference(p)'
    <3>1. rc[p] = owned[p] + object_map[p] + leaked[p] + RootReference(p)
      BY Balance
    <3>3. CASE p = o
      BY <1>5, <3>3
    <3>4. CASE p # o
      BY <1>2, <1>3, <3>1, <3>4
    <3> QED
      BY <3>3, <3>4
  <2> QED
    BY <2>1 DEF ReferencesHaveOwners
<1>7. DeallocsFit(stack', rc', live')
  <2>1. \A p \in live : rc[p] = 0 => rc'[p] = 0 /\ p \in live'
    <3>1. o \notin live \/ rc[o] # 0
      BY DEF Alloc, Retain, BecomeRootObject
    <3> QED
      BY <1>1, <1>3, <3>1
  <2>2. NoNewDealloc(stack, stack')
    BY <1>1, <1>2, NoNewDeallocs
  <2> QED
    BY <2>1, <2>2, DeallocsLess DEF Ledger
<1>8. \A p \in Obj \ ConstantObj : p \notin live' => rc'[p] = 0
  BY <1>3, <1>4 DEF Ledger
<1> QED
  BY <1>1, <1>2, <1>4, <1>6, <1>7, <1>8 DEF Ledger

(* -release by client code.                                                *)
LEMMA LedgerReleases ==
  ASSUME PoolFits, Ledger, MapCounts, NEW o \in Obj, Release(o)
  PROVE  Ledger'
<1>1. /\ rc \in [Obj -> Int] /\ owned \in [Obj -> Nat] /\ leaked \in [Obj -> Nat]
      /\ object_map \in [Obj -> Int] /\ stack \in Seq(Frame)
  BY DEF PoolFits, TypeOK, Ledger
<1>2. /\ o \notin ConstantObj /\ owned[o] > 0 /\ owned' = [owned EXCEPT ![o] = @ - 1]
      /\ ReleaseFrom(o, stack) /\ UNCHANGED <<object_map, live, roots, leaked>>
  BY DEF Release, Give, MayGive
<1>3. rc[o] > 0 /\ owned' \in [Obj -> Nat]
  <2>1. rc[o] > 0
    <3>1. PICK x \in Nat, y \in Nat, z \in Nat, u \in Nat :
            /\ x = owned[o] /\ y = object_map[o] /\ z = leaked[o] /\ u = RootReference(o)
            /\ rc[o] = x + y + z + u
      <4>1. /\ owned[o] \in Nat /\ object_map[o] \in Nat /\ leaked[o] \in Nat
            /\ RootReference(o) \in Nat
            /\ rc[o] = owned[o] + object_map[o] + leaked[o] + RootReference(o)
        BY <1>2, Balance
      <4> QED
        BY <4>1
    <3> QED
      BY <1>2, <3>1
  <2>2. owned' \in [Obj -> Nat]
    <3>1. owned[o] - 1 \in Nat
      BY <1>1, <1>2
    <3> QED
      BY <1>1, <1>2, <3>1
  <2> QED
    BY <2>1, <2>2
<1>4. /\ DeallocsFit(stack', rc', live') /\ rc' = [rc EXCEPT ![o] = @ - 1]
      /\ \A p \in Obj \ ConstantObj : p \notin live' => rc'[p] = 0
  <2>1. NoNewDealloc(stack, stack)
    BY <1>1, NoNewDeallocs
  <2> QED
    BY <1>1, <1>2, <1>3, <2>1, LedgerRelease
<1>5. ReferencesHaveOwners'
  <2>1. ASSUME NEW p \in Obj \ ConstantObj
        PROVE  rc'[p] = owned'[p] + object_map'[p] + leaked'[p] + RootReference(p)'
    <3>1. /\ rc[p] \in Int /\ owned[p] \in Int /\ object_map[p] \in Int /\ leaked[p] \in Int
          /\ RootReference(p) \in Int /\ RootReference(p)' = RootReference(p)
      BY <1>2, Balance DEF RootReference
    <3>2. CASE p = o
      <4>1. PICK m \in Int, z \in Int : m = -1 /\ z = 0
        OBVIOUS
      <4>2. Changes(p, m, m, z, z, z) /\ m = m + z + z + z
        BY <1>1, <1>2, <1>4, <3>1, <3>2, <4>1 DEF Changes
      <4> QED
        BY <4>2, Rebalanced
    <3>3. CASE p # o
      <4>1. PICK z \in Int : z = 0
        OBVIOUS
      <4>2. Changes(p, z, z, z, z, z) /\ z = z + z + z + z
        BY <1>1, <1>2, <1>4, <3>1, <3>3, <4>1 DEF Changes
      <4> QED
        BY <4>2, Rebalanced
    <3> QED
      BY <3>2, <3>3
  <2> QED
    BY <2>1 DEF ReferencesHaveOwners
<1> QED
  BY <1>1, <1>2, <1>3, <1>4, <1>5 DEF Ledger

(* -autorelease, the end of a root object, and a reference that is handed  *)
(* to the parent pool.                                                     *)
LEMMA LedgerAutoreleases ==
  ASSUME PoolFits, Ledger, MapCounts, NEW o \in Obj \ ConstantObj, DoAutorelease(o),
         UNCHANGED <<live, stack>>,
         \/ owned[o] > 0 /\ owned' = [owned EXCEPT ![o] = @ - 1] /\ UNCHANGED <<rc, roots>>
         \/ o \in roots /\ roots' = roots \ {o} /\ UNCHANGED <<rc, owned>>
         \/ rc[o] > 0 /\ o \in live /\ rc' = [rc EXCEPT ![o] = @ + 1] /\ UNCHANGED <<owned, roots>>
  PROVE  Ledger'
<1>1. /\ rc \in [Obj -> Int] /\ owned \in [Obj -> Nat] /\ leaked \in [Obj -> Nat]
      /\ object_map \in [Obj -> Int] /\ stack \in Seq(Frame)
  BY DEF PoolFits, TypeOK, Ledger
<1>2. /\ leaked' \in [Obj -> Nat]
      /\ \A p \in Obj : \E m \in Int, l \in Int :
           /\ object_map'[p] = object_map[p] + m /\ leaked'[p] = leaked[p] + l
           /\ m + l = Hit(o, p)
  BY AutoreleaseBooks
<1>3. owned' \in [Obj -> Nat]
  <2>1. owned[o] \in Nat
    BY <1>1
  <2>2. CASE owned[o] > 0 /\ owned' = [owned EXCEPT ![o] = @ - 1]
    <3>1. owned[o] - 1 \in Nat
      BY <2>1, <2>2
    <3> QED
      BY <1>1, <2>2, <3>1
  <2>3. CASE owned' = owned
    BY <1>1, <2>3
  <2> QED
    BY <2>2, <2>3
<1>4. ASSUME NEW p \in Obj \ ConstantObj
      PROVE  rc'[p] = owned'[p] + object_map'[p] + leaked'[p] + RootReference(p)'
  <2>1. PICK m \in Int, l \in Int :
          /\ object_map'[p] = object_map[p] + m /\ leaked'[p] = leaked[p] + l /\ m + l = Hit(o, p)
    BY <1>2
  <2>2. PICK h \in Int : h = Hit(o, p) /\ h = IF o = p THEN 1 ELSE 0
    BY DEF Hit
  <2>3. /\ rc[p] \in Int /\ owned[p] \in Int /\ RootReference(p) \in Int
    BY Balance
  <2>0. PICK g \in Int, z \in Int : g = 0 - h /\ z = 0
    BY <2>2
  <2>4. CASE owned[o] > 0 /\ owned' = [owned EXCEPT ![o] = @ - 1] /\ UNCHANGED <<rc, roots>>
    <3>1. owned'[p] = owned[p] + g /\ RootReference(p)' = RootReference(p) + z /\ rc'[p] = rc[p] + z
      BY <1>1, <2>0, <2>2, <2>3, <2>4 DEF RootReference
    <3>2. Changes(p, z, g, m, l, z)
      BY <2>1, <3>1 DEF Changes
    <3>3. z = g + m + l + z
      BY <2>0, <2>1, <2>2
    <3> QED
      BY <3>2, <3>3, Rebalanced
  <2>5. CASE o \in roots /\ roots' = roots \ {o} /\ UNCHANGED <<rc, owned>>
    <3>1. owned'[p] = owned[p] + z /\ RootReference(p)' = RootReference(p) + g /\ rc'[p] = rc[p] + z
      BY <1>1, <2>0, <2>2, <2>3, <2>5 DEF RootReference
    <3>2. Changes(p, z, z, m, l, g)
      BY <2>1, <3>1 DEF Changes
    <3>3. z = z + m + l + g
      BY <2>0, <2>1, <2>2
    <3> QED
      BY <3>2, <3>3, Rebalanced
  <2>6. CASE rc[o] > 0 /\ o \in live /\ rc' = [rc EXCEPT ![o] = @ + 1] /\ UNCHANGED <<owned, roots>>
    <3>1. owned'[p] = owned[p] + z /\ RootReference(p)' = RootReference(p) + z /\ rc'[p] = rc[p] + h
      BY <1>1, <2>0, <2>2, <2>3, <2>6 DEF RootReference
    <3>2. Changes(p, h, z, m, l, z)
      BY <2>1, <3>1 DEF Changes
    <3>3. h = z + m + l + z
      BY <2>0, <2>1, <2>2
    <3> QED
      BY <3>2, <3>3, Rebalanced
  <2> QED
    BY <2>4, <2>5, <2>6
<1>5. ReferencesHaveOwners'
  BY <1>4 DEF ReferencesHaveOwners
<1>7. \A p \in live : rc[p] = 0 => rc'[p] = 0
  BY <1>1 DEF PoolFits, TypeOK
<1>8. \A p \in Obj \ ConstantObj : p \notin live => rc'[p] = 0
  BY <1>1 DEF Ledger
<1>9. DeallocsFit(stack', rc', live')
  <2>1. NoNewDealloc(stack, stack')
    BY <1>1, NoNewDeallocs
  <2>2. \A p \in live : rc[p] = 0 => rc'[p] = 0 /\ p \in live'
    BY <1>7
  <2> QED
    BY <2>1, <2>2, DeallocsLess DEF Ledger
<1>10. roots' \cap ConstantObj = {} /\ ConstantObj \subseteq live'
  BY DEF Ledger
<1> QED
  BY <1>2, <1>3, <1>5, <1>8, <1>9, <1>10 DEF Ledger

(* Operations on one object keep the books.                                *)
LEMMA LedgerObject ==
  ASSUME PoolFits, Ledger, MapCounts, NEW o \in Obj,
         \/ Alloc(o) \/ Retain(o) \/ Release(o) \/ Autorelease(o)
         \/ BecomeRootObject(o) \/ ResignAsRootObject(o) \/ PushToParentAutoreleasePool(o)
  PROVE  Ledger'
<1>1. CASE Alloc(o) \/ Retain(o) \/ BecomeRootObject(o)
  BY <1>1, LedgerTakes
<1>2. CASE Release(o)
  BY <1>2, LedgerReleases
<1>3. CASE Autorelease(o)
  <2>1. CASE o \in ConstantObj
    <3>1. UNCHANGED <<object_map, rc, live, owned, roots, leaked, stack>>
      BY <1>3, <2>1 DEF Autorelease, _MulleObjCAutoreleaseObject, DoAutorelease, Give
    <3>2. NoNewDealloc(stack, stack')
      BY <3>1, NoNewDeallocs DEF PoolFits, TypeOK
    <3> QED
      BY <3>1, <3>2, LedgerQuiet
  <2>2. CASE o \notin ConstantObj
    <3>1. /\ DoAutorelease(o) /\ UNCHANGED <<live, stack>>
          /\ owned[o] > 0 /\ owned' = [owned EXCEPT ![o] = @ - 1] /\ UNCHANGED <<rc, roots>>
      BY <1>3, <2>2 DEF Autorelease, _MulleObjCAutoreleaseObject, Give, MayGive
    <3> QED
      BY <2>2, <3>1, LedgerAutoreleases
  <2> QED
    BY <2>1, <2>2
<1>4. CASE ResignAsRootObject(o)
  <2>1. /\ DoAutorelease(o) /\ UNCHANGED <<live, stack>>
        /\ o \in roots /\ roots' = roots \ {o} /\ UNCHANGED <<rc, owned>> /\ o \notin ConstantObj
    BY <1>4 DEF ResignAsRootObject, Ledger
  <2> QED
    BY <2>1, LedgerAutoreleases
<1>5. CASE PushToParentAutoreleasePool(o) /\ ~BecomeRootObject(o)
  <2>1. /\ DoAutorelease(o) /\ UNCHANGED <<live, stack>>
        /\ rc[o] > 0 /\ o \in live /\ rc' = [rc EXCEPT ![o] = @ + 1] /\ UNCHANGED <<owned, roots>>
        /\ o \notin ConstantObj
    <3>1. rc[o] \in 1 .. MaxRefs - 1 /\ rc[o] \in Int
      BY <1>5 DEF PushToParentAutoreleasePool, PoolFits, TypeOK
    <3> QED
      BY <1>5, <3>1 DEF PushToParentAutoreleasePool
  <2> QED
    BY <2>1, LedgerAutoreleases
<1> QED
  BY <1>1, <1>2, <1>3, <1>4, <1>5 DEF PushToParentAutoreleasePool

(* So does a bulk call without a stride.                                   *)
LEMMA LedgerBulk ==
  ASSUME PoolFits, Ledger, MapCounts, NEW memory \in Memory(1), 1 \in Steps,
         DoAutoreleaseObjects(memory, 1)
  PROVE  Ledger'
<1>1. /\ rc \in [Obj -> Int] /\ owned \in [Obj -> Nat] /\ leaked \in [Obj -> Nat]
      /\ object_map \in [Obj -> Int] /\ stack \in Seq(Frame)
  BY DEF PoolFits, TypeOK, Ledger
<1>2. memory \in Seq(Slot)
  BY MemoryType
<1>3. PICK n, q : n = BulkCount(memory, 1) /\ q = BulkObjects(memory, 1)
  OBVIOUS
<1>4. \A o : Count(q, o) \in Nat /\ Count(SubSeq(memory, 1, n), o) = Count(q, o)
  <2>1. PICK one \in Nat \ {0} : one = 1
    OBVIOUS
  <2>2. n = BulkCount(memory, one) /\ q = BulkObjects(memory, one)
    BY <1>3, <2>1
  <2>3. /\ \A o : Count(q, o) \in Nat /\ Count(SubSeq(memory, 1, n), o) \in Nat
        /\ one = 1 => q = memory /\ SubSeq(memory, 1, n) = q
    BY <1>2, <2>2, BulkParts
  <2> QED
    BY <2>1, <2>3
<1>5. /\ \A o \in Obj \ ConstantObj : Count(q, o) <= owned[o]
      /\ owned' = [o \in Obj |-> IF o \in ConstantObj THEN owned[o] ELSE owned[o] - Count(q, o)]
      /\ pools = <<>> =>
           /\ leaked' = [o \in Obj |-> IF o \in ConstantObj THEN leaked[o] ELSE leaked[o] + Count(q, o)]
           /\ UNCHANGED object_map
      /\ pools # <<>> =>
           /\ object_map' = [o \in Obj |-> object_map[o] + Count(SubSeq(memory, 1, n), o)]
           /\ UNCHANGED leaked
      /\ UNCHANGED <<rc, live, roots, stack>>
  BY <1>3, BulkDoes
<1>6. owned' \in [Obj -> Nat]
  <2>1. ASSUME NEW o \in Obj \ ConstantObj PROVE owned[o] - Count(q, o) \in Nat
    BY <1>1, <1>4, <1>5
  <2> QED
    BY <1>1, <1>5, <2>1
<1>7. leaked' \in [Obj -> Nat]
  <2>1. CASE pools = <<>>
    <3>1. ASSUME NEW o \in Obj PROVE leaked[o] + Count(q, o) \in Nat /\ leaked[o] \in Nat
      BY <1>1, <1>4
    <3>2. leaked' = [o \in Obj |-> IF o \in ConstantObj THEN leaked[o] ELSE leaked[o] + Count(q, o)]
      BY <1>5, <2>1
    <3> QED
      BY <3>1, <3>2
  <2>2. CASE pools # <<>>
    BY <1>1, <1>5, <2>2
  <2> QED
    BY <2>1, <2>2
<1>8. ASSUME NEW p \in Obj \ ConstantObj
      PROVE  rc'[p] = owned'[p] + object_map'[p] + leaked'[p] + RootReference(p)'
  <2>1. PICK c \in Int, d \in Int : c = Count(q, p) /\ d = 0 - c
    BY <1>4
  <2>2. /\ rc[p] \in Int /\ owned[p] \in Int /\ object_map[p] \in Int /\ leaked[p] \in Int
        /\ RootReference(p) \in Int
    BY Balance
  <2>3. rc'[p] = rc[p] + 0 /\ RootReference(p)' = RootReference(p) + 0 /\ owned'[p] = owned[p] + d
    BY <1>5, <2>1, <2>2 DEF RootReference
  <2>4. CASE pools = <<>>
    <3>1. leaked'[p] = leaked[p] + c /\ object_map'[p] = object_map[p] + 0
      BY <1>5, <2>1, <2>2, <2>4
    <3>2. Changes(p, 0, d, 0, c, 0)
      BY <2>3, <3>1 DEF Changes
    <3>3. PICK z \in Int : z = 0 /\ Changes(p, z, d, z, c, z) /\ z = d + z + c + z
      BY <2>1, <3>2
    <3> QED
      BY <3>3, Rebalanced
  <2>5. CASE pools # <<>>
    <3>1. leaked'[p] = leaked[p] + 0 /\ object_map'[p] = object_map[p] + c
      BY <1>4, <1>5, <2>1, <2>2, <2>5
    <3>2. Changes(p, 0, d, c, 0, 0)
      BY <2>3, <3>1 DEF Changes
    <3>3. PICK z \in Int : z = 0 /\ Changes(p, z, d, c, z, z) /\ z = d + c + z + z
      BY <2>1, <3>2
    <3> QED
      BY <3>3, Rebalanced
  <2> QED
    BY <2>4, <2>5
<1>9. ReferencesHaveOwners'
  BY <1>8 DEF ReferencesHaveOwners
<1>10. DeallocsFit(stack', rc', live')
  BY <1>5 DEF Ledger
<1> QED
  BY <1>5, <1>6, <1>7, <1>9, <1>10 DEF Ledger

(* -dealloc is over and the object's memory is free.                       *)
LEMMA LedgerDeallocReturns ==
  ASSUME PoolFits, Ledger, DeallocReturn
  PROVE  Ledger'
<1>1. /\ stack \in Seq(Frame) /\ stack # <<>> /\ stack' = Front(stack) /\ live' = live \ {Top.object}
      /\ UNCHANGED <<object_map, rc, owned, roots, leaked>> /\ Top.kind = "dealloc"
  BY DEF PoolFits, TypeOK, DeallocReturn, Running
<1>2. PICK n \in Nat \ {0} : n = Len(stack) /\ Top = stack[n] /\ Len(Front(stack)) = n - 1
                             /\ \A i \in 1 .. n - 1 : Front(stack)[i] = stack[i]
  BY <1>1, Rest DEF Top
<1>3. Top.object \in live \ ConstantObj /\ rc[Top.object] = 0
  BY <1>1, <1>2 DEF Ledger, DeallocsFit
<1>4. DeallocsFit(Front(stack), rc, live')
  <2>1. ASSUME NEW i \in 1 .. n - 1, stack[i].kind = "dealloc"
        PROVE  /\ stack[i].object \in live' \ ConstantObj /\ rc[stack[i].object] = 0
               /\ \A j \in 1 .. n - 1 : j # i /\ stack[j].kind = "dealloc"
                    => stack[j].object # stack[i].object
    <3>1. i \in 1 .. Len(stack) /\ n \in 1 .. Len(stack) /\ n # i
      BY <1>2
    <3>2. /\ stack[i].object \in live \ ConstantObj /\ rc[stack[i].object] = 0
          /\ \A j \in 1 .. Len(stack) : j # i /\ stack[j].kind = "dealloc"
                => stack[j].object # stack[i].object
      BY <2>1, <3>1 DEF Ledger, DeallocsFit
    <3>3. Top.object # stack[i].object
      BY <1>1, <1>2, <3>1, <3>2
    <3> QED
      BY <1>1, <1>2, <3>2, <3>3
  <2> QED
    BY <1>2, <2>1 DEF DeallocsFit
<1>5. \A o \in Obj \ ConstantObj : o \notin live' => rc'[o] = 0
  BY <1>1, <1>3 DEF Ledger
<1>6. ReferencesHaveOwners'
  BY <1>1 DEF Ledger, ReferencesHaveOwners, RootReference
<1> QED
  BY <1>1, <1>3, <1>4, <1>5, <1>6 DEF Ledger

-----------------------------------------------------------------------------
(* What is asked of clients: nobody uses a stride, and nobody drains a     *)
(* pool that a walk is in.                                                 *)
OrderlyClients == Steps \subseteq {1} /\ ~DrainsWalked

(* The inductive invariant: the calls fit, every reference has one owner,  *)
(* and the map counts what is pending.                                     *)
Books == PoolFits /\ Ledger /\ MapCounts

(* A map that keeps up stays exact.                                        *)
LEMMA MapKeptExact ==
  ASSUME PoolFits, MapCounts, PoolFits', MapFollows
  PROVE  MapCounts'
<1>1. ASSUME NEW q \in Obj
      PROVE  object_map'[q] = PendingIn(pools', stack', q)
  <2>1. /\ object_map[q] \in Int /\ object_map'[q] \in Int
        /\ object_map[q] = PendingIn(pools, stack, q)
        /\ object_map'[q] - object_map[q] = PendingIn(pools', stack', q) - PendingIn(pools, stack, q)
    BY DEF PoolFits, TypeOK, MapCounts, MapFollows
  <2>2. PendingIn(pools', stack', q) \in Nat
    BY PendingType DEF PoolFits, TypeOK
  <2>3. PICK x \in Int, y \in Int, z \in Int :
          x = object_map[q] /\ y = object_map'[q] /\ z = PendingIn(pools', stack', q)
    BY <2>1, <2>2
  <2>4. y - x = z - x
    BY <2>1, <2>3
  <2>5. y = z
    BY <2>4
  <2> QED
    BY <2>3, <2>5
<1> QED
  BY <1>1 DEF MapCounts

(* A pool that releases an object, or goes past a slot, keeps the books.   *)
LEMMA LedgerGoesOn ==
  ASSUME PoolFits, Ledger, MapCounts, PoolFits', MapFollows, PoolReleases,
         UNCHANGED <<live, owned, roots, leaked>>
  PROVE  Ledger'
<1>1. PICK R \in Seq(Frame) :
        /\ NoNewDealloc(stack, R)
        /\ \/ stack' = R /\ UNCHANGED <<object_map, rc>>
           \/ \E p \in Obj : Unmap(p) /\ ReleaseFrom(p, R)
  BY DEF PoolReleases
<1>2. CASE stack' = R /\ UNCHANGED <<object_map, rc>>
  <2>1. NoNewDealloc(stack, stack')
    BY <1>1, <1>2
  <2> QED
    BY <1>2, <2>1, LedgerQuiet
<1>3. ASSUME NEW p \in Obj, Unmap(p), ReleaseFrom(p, R) PROVE Ledger'
  BY <1>1, <1>3, LedgerPoolReleases
<1> QED
  BY <1>1, <1>2, <1>3

(* Every step keeps the books, if no caller uses a stride.                 *)
LEMMA LedgerStep ==
  ASSUME Steps \subseteq {1}, Books, [Next]_vars, PoolFits', MapFollows
  PROVE  Ledger'
<1> USE DEF Books
<1>1. ASSUME NEW o \in Obj,
             \/ Alloc(o) \/ Retain(o) \/ Release(o) \/ Autorelease(o)
             \/ BecomeRootObject(o) \/ ResignAsRootObject(o) \/ PushToParentAutoreleasePool(o)
      PROVE  Ledger'
  BY <1>1, LedgerObject
<1>2. ASSUME NEW step \in Steps, NEW memory \in Memory(step), DoAutoreleaseObjects(memory, step)
      PROVE  Ledger'
  <2>1. step = 1 /\ 1 \in Steps
    BY <1>2
  <2>2. memory \in Memory(1) /\ DoAutoreleaseObjects(memory, 1)
    BY <1>2, <2>1
  <2> QED
    BY <2>1, <2>2, LedgerBulk
<1>3. CASE MulleAutoreleasePoolPush
  <2>1. UNCHANGED <<object_map, rc, live, owned, roots, leaked>>
    BY <1>3 DEF MulleAutoreleasePoolPush
  <2> QED
    BY <1>3, <2>1, PushFits, LedgerQuiet
<1>4. ASSUME \/ \E k \in 1 .. Len(pools) : MulleAutoreleasePoolPop(k) \/ ReleaseAllPoolObjects(k)
             \/ \E S \in SUBSET Obj \ {{}}, all \in BOOLEAN : ReleasePoolObjects(S, all)
      PROVE  Ledger'
  <2>1. UNCHANGED <<object_map, rc, live, owned, roots, leaked>>
    BY <1>4 DEF MulleAutoreleasePoolPop, ReleaseAllPoolObjects, ReleasePoolObjects
  <2> QED
    BY <1>4, <2>1, CallsFit, LedgerQuiet
<1>5. ASSUME NEW then \in {"return", "push"}, ResetOrDone(then) PROVE Ledger'
  <2>1. UNCHANGED <<object_map, rc, live, owned, roots, leaked>>
    BY <1>5 DEF ResetOrDone
  <2> QED
    BY <1>5, <2>1, ResetFits, LedgerQuiet
<1>6. CASE DrainTakeStorage
  <2>1. UNCHANGED <<object_map, rc, live, owned, roots, leaked>>
    BY <1>6 DEF DrainTakeStorage
  <2> QED
    BY <1>6, <2>1, TakeFits, LedgerQuiet
<1>7. CASE DrainObject
  <2>1. UNCHANGED <<live, owned, roots, leaked>>
    BY <1>7 DEF DrainObject
  <2> QED
    BY <1>7, <2>1, DrainObjectFits, LedgerGoesOn
<1>8. CASE DrainFreeChunk
  <2>1. UNCHANGED <<object_map, rc, live, owned, roots, leaked>>
    BY <1>8 DEF DrainFreeChunk
  <2> QED
    BY <1>8, <2>1, FreeChunkFits, LedgerQuiet
<1>9. CASE DrainFinish
  <2>1. UNCHANGED <<object_map, rc, live, owned, roots, leaked>>
    BY <1>9 DEF DrainFinish
  <2> QED
    BY <1>9, <2>1, DrainFinishFits, LedgerQuiet
<1>10. CASE WalkSlot
  <2>1. UNCHANGED <<live, owned, roots, leaked>>
    BY <1>10 DEF WalkSlot
  <2> QED
    BY <1>10, <2>1, WalkSlotFits, LedgerGoesOn
<1>11. CASE WalkNext
  <2>1. UNCHANGED <<object_map, rc, live, owned, roots, leaked>>
    BY <1>11 DEF WalkNext
  <2> QED
    BY <1>11, <2>1, WalkNextFits, LedgerQuiet
<1>12. CASE DeallocReturn
  BY <1>12, LedgerDeallocReturns
<1>13. CASE UNCHANGED vars
  <2>1. UNCHANGED <<object_map, rc, live, owned, roots, leaked>> /\ stack' = stack
    BY <1>13 DEF vars
  <2>2. NoNewDealloc(stack, stack')
    BY <2>1, NoNewDeallocs DEF PoolFits, TypeOK
  <2> QED
    BY <2>1, <2>2, LedgerQuiet
<1>14. CASE ClientStep
  BY <1>1, <1>2, <1>3, <1>4, <1>5, <1>14 DEF ClientStep, _MulleObjCAutoreleaseObjects,
     _MulleObjCAutoreleaseSpacedObjects, PoolConfigurationReset, PoolConfigurationDone
<1>15. CASE PoolStep
  BY <1>6, <1>7, <1>8, <1>9, <1>10, <1>11, <1>15 DEF PoolStep
<1> QED
  BY <1>12, <1>13, <1>14, <1>15 DEF Next

(* So the books are an invariant.                                          *)
LEMMA BooksKept ==
  ASSUME Steps \subseteq {1}, Books, [Next]_vars
  PROVE  Books'
<1>1. PoolFits /\ Ledger /\ MapCounts
  BY DEF Books
<1>2. PoolFits' /\ MapFollows
  BY <1>1, StepFits
<1>3. MapCounts'
  BY <1>1, <1>2, MapKeptExact
<1>4. Ledger'
  BY <1>2, LedgerStep
<1> QED
  BY <1>2, <1>3, <1>4 DEF Books

(* They are in order when a thread starts.                                 *)
LEMMA BooksInit == Init /\ ~DrainsWalked => Books
<1> SUFFICES ASSUME Init, ~DrainsWalked PROVE Books
  OBVIOUS
<1>1. PoolFits
  BY InitFits
<1>2. /\ pools = <<<<EmptyChunk>>>> /\ stack = <<>> /\ object_map = [o \in Obj |-> 0]
      /\ rc = [o \in Obj |-> IF o \in ConstantObj THEN 1 ELSE 0] /\ live = ConstantObj
      /\ owned = [o \in Obj |-> 0] /\ leaked = [o \in Obj |-> 0] /\ roots = {}
  BY DEF Init
<1>3. ASSUME NEW o PROVE PendingIn(pools, stack, o) = 0
  <2>1. PICK C, w, e, n : C = Seq(Chunk) /\ w = StorageWeight(o) /\ e = <<EmptyChunk>> /\ n = <<>>
    OBVIOUS
  <2>2. n \in Seq(C) /\ w \in [C -> Int] /\ e \in C
    <3>1. n \in Seq(C)
      BY <2>1
    <3>2. w \in [C -> Int]
      BY <2>1, StorageWeightType
    <3>3. e \in C
      BY <2>1, NewStorage, StorageType
    <3> QED
      BY <3>1, <3>2, <3>3
  <2>3. Weight(Append(n, e), w) = Weight(n, w) + w[e]
    BY <2>2, WeightAppend
  <2>4. w[e] = 0
    BY <2>1, <2>2, NewStorage DEF StorageWeight
  <2>5. Append(n, e) = pools
    BY <1>2, <2>1
  <2>6. Weight(n, w) = 0 /\ Weight(stack, FrameWeight(o)) = 0
    BY <1>2, <2>1, WeightEmpty
  <2>7. Weight(pools, w) = 0
    BY <2>3, <2>4, <2>5, <2>6
  <2> QED
    BY <2>1, <2>6, <2>7 DEF PendingIn
<1>4. MapCounts
  BY <1>2, <1>3 DEF MapCounts
<1>5. ReferencesHaveOwners
  <2>1. ASSUME NEW o \in Obj \ ConstantObj
        PROVE  rc[o] = owned[o] + object_map[o] + leaked[o] + RootReference(o)
    <3>1. rc[o] = 0 /\ owned[o] = 0 /\ object_map[o] = 0 /\ leaked[o] = 0 /\ RootReference(o) = 0
      BY <1>2 DEF RootReference
    <3> QED
      BY <3>1
  <2> QED
    BY <2>1 DEF ReferencesHaveOwners
<1>6. DeallocsFit(stack, rc, live)
  BY <1>2 DEF DeallocsFit
<1>7. Ledger
  BY <1>2, <1>5, <1>6 DEF Ledger
<1> QED
  BY <1>1, <1>4, <1>7 DEF Books

(* What is pending, for all pools and calls of the thread.                 *)
LEMMA PendingTotal ==
  ASSUME PoolFits, NEW o
  PROVE  Pending(o) = PendingIn(pools, stack, o) /\ Pending(o) \in Nat
BY PendingParts DEF PoolFits, TypeOK, Pending, MulleCountObject, PendingIn

(* If clients are orderly, then, whatever else a -dealloc does while its   *)
(* pool is drained or walked, no pending release is lost or done twice.    *)
THEOREM BalanceKept == OrderlyClients => (Spec => []RetainBalance)
<1>1. Init /\ ~DrainsWalked => Books
  BY BooksInit
<1>2. Steps \subseteq {1} => (Books /\ [Next]_vars => Books')
  BY BooksKept
<1>3. Books => RetainBalance
  <2> SUFFICES ASSUME Books PROVE RetainBalance
    OBVIOUS
  <2>1. PoolFits /\ Ledger /\ MapCounts /\ DOMAIN stack = 1 .. Len(stack)
    BY DEF Books, PoolFits, TypeOK
  <2>2. ASSUME NEW i \in 1 .. Len(stack), stack[i].kind = "dealloc"
        PROVE  /\ stack[i].object \in live \ ConstantObj /\ Pending(stack[i].object) = 0
               /\ \A j \in 1 .. Len(stack) :
                    j # i /\ stack[j].kind = "dealloc" => stack[j].object # stack[i].object
    <3>1. PICK o : o = stack[i].object
      OBVIOUS
    <3>2. /\ o \in live \ ConstantObj /\ rc[o] = 0
          /\ \A j \in 1 .. Len(stack) : j # i /\ stack[j].kind = "dealloc" => stack[j].object # o
      BY <2>1, <2>2, <3>1 DEF Ledger, DeallocsFit
    <3>3. o \in Obj \ ConstantObj
      BY <2>1, <3>2 DEF PoolFits, TypeOK
    <3>4. Pending(o) = object_map[o]
      BY <2>1, <3>3, PendingTotal DEF MapCounts
    <3>5. /\ owned[o] \in Nat /\ object_map[o] \in Nat /\ leaked[o] \in Nat
          /\ RootReference(o) \in Nat
          /\ rc[o] = owned[o] + object_map[o] + leaked[o] + RootReference(o)
      BY <2>1, <3>3, Balance
    <3>6. PICK x \in Nat, y \in Nat, z \in Nat, u \in Nat :
            /\ x = owned[o] /\ y = object_map[o] /\ z = leaked[o] /\ u = RootReference(o)
            /\ 0 = x + y + z + u
      BY <3>2, <3>5
    <3>7. y = 0
      BY <3>6
    <3> QED
      BY <3>1, <3>2, <3>4, <3>6, <3>7
  <2>3. DeallocOnce
    BY <2>1, <2>2 DEF DeallocOnce
  <2> QED
    BY <2>1, <2>3 DEF RetainBalance, Ledger
<1>4. CASE OrderlyClients
  <2>1. (Init => Books) /\ (Books /\ [Next]_vars => Books')
    BY <1>1, <1>2, <1>4 DEF OrderlyClients
  <2>2. Spec => []Books
    BY <2>1, PTL DEF Spec
  <2> QED
    BY <1>3, <2>2, PTL
<1> QED
  BY <1>4

-----------------------------------------------------------------------------
(* Counting and searching without a map.                                   *)

(* The function by which sequences are joined one after the other.         *)
Flattens(q, n, g) == g = [i \in 1 .. n |-> IF i = 1 THEN q[i] ELSE g[i - 1] \o q[i]]

(* There is one for every length.                                          *)
LEMMA FlattenExists ==
  ASSUME NEW q, NEW n \in Nat
  PROVE  \E g : Flattens(q, n, g)
<1> DEFINE T == {k \in 0 .. n : \E g : Flattens(q, k, g)}
<1>1. 0 \in T
  <2>1. PICK g : g = [i \in 1 .. 0 |-> <<>>]
    OBVIOUS
  <2>2. Flattens(q, 0, g)
    BY <2>1 DEF Flattens
  <2> QED
    BY <2>2
<1>2. ASSUME NEW k \in 0 .. n - 1, k \in T PROVE k + 1 \in T
  <2>1. PICK g : Flattens(q, k, g)
    BY <1>2
  <2>2. PICK v : v = IF k + 1 = 1 THEN q[k + 1] ELSE g[k] \o q[k + 1]
    OBVIOUS
  <2>3. PICK h : h = [i \in 1 .. k + 1 |-> IF i = k + 1 THEN v ELSE g[i]]
    OBVIOUS
  <2>4. ASSUME NEW i \in 1 .. k + 1
        PROVE  h[i] = IF i = 1 THEN q[i] ELSE h[i - 1] \o q[i]
    <3>1. CASE i = k + 1
      <4>1. h[i] = v
        BY <2>3, <3>1
      <4>2. i # 1 => h[i - 1] = g[k]
        <5>1. i # 1 => i - 1 \in 1 .. k + 1 /\ i - 1 # k + 1 /\ i - 1 = k
          BY <3>1
        <5> QED
          BY <2>3, <5>1
      <4> QED
        BY <2>2, <3>1, <4>1, <4>2
    <3>2. CASE i # k + 1
      <4>1. i \in 1 .. k
        BY <3>2
      <4>2. h[i] = g[i]
        BY <2>3, <3>2
      <4>3. g[i] = IF i = 1 THEN q[i] ELSE g[i - 1] \o q[i]
        BY <2>1, <4>1 DEF Flattens
      <4>4. i # 1 => h[i - 1] = g[i - 1]
        <5>1. i # 1 => i - 1 \in 1 .. k + 1 /\ i - 1 # k + 1
          BY <4>1
        <5> QED
          BY <2>3, <5>1
      <4> QED
        BY <4>2, <4>3, <4>4
    <3> QED
      BY <3>1, <3>2
  <2>5. h = [i \in 1 .. k + 1 |-> IF i = 1 THEN q[i] ELSE h[i - 1] \o q[i]]
    BY <2>3, <2>4
  <2>6. Flattens(q, k + 1, h)
    BY <2>5 DEF Flattens
  <2> QED
    BY <2>6
<1> HIDE DEF T
<1>3. \A k \in 0 .. n : k \in T
  BY <1>1, <1>2, UpTo
<1> QED
  BY <1>3 DEF T

(* A flattened sequence is the last value of a recursive function.         *)
LEMMA FlattenIsChosen ==
  ASSUME NEW q, Len(q) # 0
  PROVE  FlattenSeq(q) = (CHOOSE g : Flattens(q, Len(q), g))[Len(q)]
BY DEF FlattenSeq, Flattens

(* What sequences weigh by how often they have an object.                  *)
SeqWeight(S, o) == [s \in Seq(S) |-> Count(s, o)]

(* Joined sequences have what each of them has.                            *)
LEMMA FlattenCounts ==
  ASSUME NEW S, NEW q \in Seq(Seq(S))
  PROVE  /\ FlattenSeq(q) \in Seq(S)
         /\ \A o : Count(FlattenSeq(q), o) = Weight(q, SeqWeight(S, o))
<1>1. PICK n \in Nat : n = Len(q)
  BY LenProperties
<1>2. CASE n = 0
  <2>1. q = <<>> /\ FlattenSeq(q) = q
    BY <1>1, <1>2, EmptySeq DEF FlattenSeq
  <2>2. ASSUME NEW o PROVE Count(q, o) = 0 /\ Weight(q, SeqWeight(S, o)) = 0
    BY <2>1, CountEmpty, WeightEmpty
  <2>3. q \in Seq(S)
    BY <2>1
  <2>4. ASSUME NEW o PROVE Count(FlattenSeq(q), o) = Weight(q, SeqWeight(S, o))
    BY <2>1, <2>2
  <2> QED
    BY <2>1, <2>3, <2>4
<1>3. CASE n # 0
  <2>1. PICK g : g = CHOOSE h : Flattens(q, n, h)
    OBVIOUS
  <2>2. Flattens(q, n, g)
    BY <2>1, FlattenExists
  <2>3. FlattenSeq(q) = g[n]
    BY <1>1, <1>3, <2>1, FlattenIsChosen
  <2> DEFINE T == {k \in 0 .. n : k # 0 =>
                     /\ g[k] \in Seq(S)
                     /\ \A o : Count(g[k], o) = Weight(SubSeq(q, 1, k), SeqWeight(S, o))}
  <2>4. 0 \in T
    BY <1>1
  <2>5. ASSUME NEW k \in 0 .. n - 1, k \in T PROVE k + 1 \in T
    <3>1. k + 1 \in 1 .. n /\ k + 1 \in 0 .. n /\ k \in 0 .. Len(q) /\ k < Len(q)
      BY <1>1
    <3>2. q[k + 1] \in Seq(S)
      BY <1>1, <3>1, ElementOfSeq
    <3>3. g[k + 1] = IF k + 1 = 1 THEN q[k + 1] ELSE g[k] \o q[k + 1]
      <4>1. g[k + 1] = IF k + 1 = 1 THEN q[k + 1] ELSE g[(k + 1) - 1] \o q[k + 1]
        BY <2>2, <3>1 DEF Flattens
      <4>2. (k + 1) - 1 = k
        BY <3>1
      <4> QED
        BY <4>1, <4>2
    <3>4. PICK a : a = SubSeq(q, 1, k)
      OBVIOUS
    <3>5. a \in Seq(Seq(S)) /\ SubSeq(q, 1, k + 1) = Append(a, q[k + 1])
      <4>1. SubSeq(q, 1, k) \in Seq(Seq(S))
            /\ Append(SubSeq(q, 1, k), q[k + 1]) = SubSeq(q, 1, k + 1)
        BY <3>1, PrefixOfSeq
      <4> QED
        BY <3>4, <4>1
    <3>6. ASSUME NEW o
          PROVE  Weight(SubSeq(q, 1, k + 1), SeqWeight(S, o)) = Weight(a, SeqWeight(S, o)) + Count(q[k + 1], o)
      <4>1. PICK C, w, e : C = Seq(S) /\ w = SeqWeight(S, o) /\ e = q[k + 1]
        OBVIOUS
      <4>2. w \in [C -> Int] /\ w[e] = Count(e, o)
        BY <3>2, <4>1, CountIsWeight DEF SeqWeight
      <4>3. Weight(Append(a, e), w) = Weight(a, w) + w[e]
        BY <3>2, <3>5, <4>1, <4>2, WeightAppend
      <4> QED
        BY <3>5, <4>1, <4>2, <4>3
    <3>7. CASE k = 0
      <4>1. a = <<>>
        BY <3>4, <3>7, SubSeqEmpty
      <4>2. ASSUME NEW o PROVE Count(g[k + 1], o) = Weight(SubSeq(q, 1, k + 1), SeqWeight(S, o))
        <5>1. Weight(a, SeqWeight(S, o)) = 0 /\ Count(q[k + 1], o) \in Nat
          BY <3>2, <4>1, WeightEmpty, CountIsWeight
        <5> QED
          BY <3>3, <3>6, <3>7, <5>1
      <4> QED
        BY <3>1, <3>2, <3>3, <3>7, <4>2
    <3>8. CASE k # 0
      <4>1. g[k] \in Seq(S) /\ \A o : Count(g[k], o) = Weight(a, SeqWeight(S, o))
        BY <2>5, <3>4, <3>8
      <4>2. g[k + 1] = g[k] \o q[k + 1]
        <5>1. k + 1 # 1
          BY <1>1, <3>8
        <5> QED
          BY <3>3, <5>1
      <4>3. g[k + 1] \in Seq(S)
        BY <3>2, <4>1, <4>2, ConcatProperties
      <4>4. \A o : Count(g[k + 1], o) = Count(g[k], o) + Count(q[k + 1], o)
        BY <3>2, <4>1, <4>2, CountConcat
      <4> QED
        BY <3>1, <3>6, <4>1, <4>3, <4>4
    <3> QED
      BY <3>7, <3>8
  <2> HIDE DEF T
  <2>6. n \in T
    <3>1. \A k \in 0 .. n : k \in T
      BY <1>1, <2>4, <2>5, UpTo
    <3> QED
      BY <1>1, <3>1
  <2>7. SubSeq(q, 1, n) = q
    BY <1>1, SubSeqFull
  <2> QED
    BY <1>3, <2>3, <2>6, <2>7 DEF T
<1> QED
  BY <1>2, <1>3

(* The slots of an array up to each one, without the holes.                *)
Shown(p) == IF p = Hole THEN <<>> ELSE <<p>>

Walks(q, n, g) ==
  g = [i \in 0 .. n |-> IF i = 0 THEN <<>>
                        ELSE g[i - 1] \o (IF q[i] = Hole THEN <<>> ELSE <<q[i]>>)]

(* There is such a walk for every length.                                  *)
LEMMA WalkExists ==
  ASSUME NEW q, NEW n \in Nat
  PROVE  \E g : Walks(q, n, g)
<1> DEFINE T == {k \in 0 .. n : \E g : Walks(q, k, g)}
<1>1. 0 \in T
  <2>1. PICK g : g = [i \in 0 .. 0 |-> <<>>]
    OBVIOUS
  <2>2. Walks(q, 0, g)
    BY <2>1 DEF Walks
  <2> QED
    BY <2>2
<1>2. ASSUME NEW k \in 0 .. n - 1, k \in T PROVE k + 1 \in T
  <2>1. PICK g : Walks(q, k, g)
    BY <1>2
  <2>2. PICK v : v = g[k] \o (IF q[k + 1] = Hole THEN <<>> ELSE <<q[k + 1]>>)
    OBVIOUS
  <2>3. PICK h : h = [i \in 0 .. k + 1 |-> IF i = k + 1 THEN v ELSE g[i]]
    OBVIOUS
  <2>4. ASSUME NEW i \in 0 .. k + 1
        PROVE  h[i] = IF i = 0 THEN <<>>
                      ELSE h[i - 1] \o (IF q[i] = Hole THEN <<>> ELSE <<q[i]>>)
    <3>1. CASE i = k + 1
      <4>1. h[i] = v /\ i # 0
        BY <2>3, <3>1
      <4>2. h[i - 1] = g[k]
        <5>1. i - 1 \in 0 .. k + 1 /\ i - 1 # k + 1 /\ i - 1 = k
          BY <3>1
        <5> QED
          BY <2>3, <5>1
      <4> QED
        BY <2>2, <3>1, <4>1, <4>2
    <3>2. CASE i # k + 1
      <4>1. i \in 0 .. k
        BY <3>2
      <4>2. h[i] = g[i]
        BY <2>3, <3>2
      <4>3. g[i] = IF i = 0 THEN <<>>
                   ELSE g[i - 1] \o (IF q[i] = Hole THEN <<>> ELSE <<q[i]>>)
        BY <2>1, <4>1 DEF Walks
      <4>4. i # 0 => h[i - 1] = g[i - 1]
        <5>1. i # 0 => i - 1 \in 0 .. k + 1 /\ i - 1 # k + 1
          BY <4>1
        <5> QED
          BY <2>3, <5>1
      <4> QED
        BY <4>2, <4>3, <4>4
    <3> QED
      BY <3>1, <3>2
  <2>5. h = [i \in 0 .. k + 1 |-> IF i = 0 THEN <<>>
               ELSE h[i - 1] \o (IF q[i] = Hole THEN <<>> ELSE <<q[i]>>)]
    BY <2>3, <2>4
  <2>6. Walks(q, k + 1, h)
    BY <2>5 DEF Walks
  <2> QED
    BY <2>6
<1> HIDE DEF T
<1>3. \A k \in 0 .. n : k \in T
  BY <1>1, <1>2, UpTo
<1> QED
  BY <1>3 DEF T

(* What a walk visits is the last value of a recursive function.           *)
LEMMA WalkIsChosen ==
  ASSUME NEW q
  PROVE  Visited(q) = (CHOOSE g : Walks(q, Len(q), g))[Len(q)]
BY DEF Visited, Walks

(* A slot shows the object that is in it, if there is one.                 *)
LEMMA ShownCounts ==
  ASSUME NEW p \in Slot
  PROVE  Shown(p) \in Seq(Obj) /\ \A o \in Obj : Count(Shown(p), o) = Hit(p, o)
<1>1. CASE p = Hole
  <2>1. Shown(p) = <<>> /\ \A o \in Obj : Hit(p, o) = 0
    BY <1>1, PoolAssumption DEF Shown, Hit
  <2>2. ASSUME NEW o \in Obj PROVE Count(Shown(p), o) = 0
    BY <2>1, CountEmpty
  <2> QED
    BY <2>1, <2>2
<1>2. CASE p # Hole
  <2>1. p \in Obj
    BY <1>2 DEF Slot
  <2>2. PICK e : e = <<>>
    OBVIOUS
  <2>3. Shown(p) = Append(e, p) /\ e \in Seq(Obj)
    BY <1>2, <2>2 DEF Shown
  <2>4. ASSUME NEW o \in Obj PROVE Count(Shown(p), o) = Hit(p, o)
    <3>1. Count(Append(e, p), o) = Count(e, o) + Hit(p, o)
      BY <2>1, <2>3, CountAppend
    <3>2. Count(e, o) = 0 /\ Hit(p, o) \in Int
      BY <2>2, CountEmpty DEF Hit
    <3> QED
      BY <2>3, <3>1, <3>2
  <2>5. Shown(p) \in Seq(Obj)
    BY <2>1, <2>3, AppendProperties
  <2> QED
    BY <2>4, <2>5
<1> QED
  BY <1>1, <1>2

(* The walk over an array comes to what is in it.                          *)
LEMMA VisitedCounts ==
  ASSUME NEW q \in Seq(Slot)
  PROVE  Visited(q) \in Seq(Obj) /\ \A o \in Obj : Count(Visited(q), o) = Count(q, o)
<1>1. PICK n \in Nat : n = Len(q)
  BY LenProperties
<1>2. PICK g : g = CHOOSE h : Walks(q, n, h)
  OBVIOUS
<1>3. Walks(q, n, g)
  BY <1>2, WalkExists
<1>4. Visited(q) = g[n]
  BY <1>1, <1>2, WalkIsChosen
<1> DEFINE T == {k \in 0 .. n : /\ g[k] \in Seq(Obj)
                                /\ \A o \in Obj : Count(g[k], o) = Count(SubSeq(q, 1, k), o)}
<1>5. 0 \in T
  <2>1. 0 \in 0 .. n
    BY <1>1
  <2>2. g[0] = <<>> /\ SubSeq(q, 1, 0) = <<>>
    BY <1>3, <2>1, SubSeqEmpty DEF Walks
  <2>3. g[0] \in Seq(Obj)
    BY <2>2
  <2> QED
    BY <2>1, <2>2, <2>3
<1>6. ASSUME NEW k \in 0 .. n - 1, k \in T PROVE k + 1 \in T
  <2>1. k + 1 \in 1 .. n /\ k + 1 \in 0 .. n /\ k \in 0 .. Len(q) /\ k < Len(q)
    BY <1>1
  <2>2. PICK p \in Slot : p = q[k + 1]
    BY <1>1, <2>1, ElementOfSeq
  <2>3. g[k + 1] = g[k] \o Shown(p)
    <3>1. g[k + 1] = IF k + 1 = 0 THEN <<>>
                     ELSE g[(k + 1) - 1] \o (IF q[k + 1] = Hole THEN <<>> ELSE <<q[k + 1]>>)
      BY <1>3, <2>1 DEF Walks
    <3>2. (k + 1) - 1 = k /\ k + 1 # 0
      BY <2>1
    <3> QED
      BY <2>2, <3>1, <3>2 DEF Shown
  <2>4. g[k] \in Seq(Obj) /\ \A o \in Obj : Count(g[k], o) = Count(SubSeq(q, 1, k), o)
    BY <1>6
  <2> HIDE DEF T
  <2>5. g[k + 1] \in Seq(Obj)
    BY <2>3, <2>4, ShownCounts, ConcatProperties
  <2>6. PICK a : a = SubSeq(q, 1, k)
    OBVIOUS
  <2>7. a \in Seq(Slot) /\ SubSeq(q, 1, k + 1) = Append(a, p)
    <3>1. SubSeq(q, 1, k) \in Seq(Slot) /\ Append(SubSeq(q, 1, k), q[k + 1]) = SubSeq(q, 1, k + 1)
      BY <2>1, PrefixOfSeq
    <3> QED
      BY <2>2, <2>6, <3>1
  <2>8. ASSUME NEW o \in Obj PROVE Count(g[k + 1], o) = Count(SubSeq(q, 1, k + 1), o)
    <3>1. Count(Append(a, p), o) = Count(a, o) + Hit(p, o)
      BY <2>7, CountAppend
    <3>2. Count(g[k] \o Shown(p), o) = Count(g[k], o) + Count(Shown(p), o)
      BY <2>4, ShownCounts, CountConcat
    <3>3. Count(g[k], o) = Count(a, o) /\ Count(Shown(p), o) = Hit(p, o)
      BY <2>4, <2>6, ShownCounts
    <3> QED
      BY <2>3, <2>7, <3>1, <3>2, <3>3
  <2> QED
    BY <2>1, <2>5, <2>8 DEF T
<1> HIDE DEF T
<1>7. n \in T
  <2>1. \A k \in 0 .. n : k \in T
    BY <1>1, <1>5, <1>6, UpTo
  <2> QED
    BY <1>1, <2>1
<1>8. SubSeq(q, 1, n) = q
  BY <1>1, SubSeqFull
<1> QED
  BY <1>4, <1>7, <1>8 DEF T

(* Element by element, two sequences weigh the same in opposite orders.    *)
Opposite(q, w, r, v) ==
  /\ Len(r) = Len(q)
  /\ \A i \in 1 .. Len(q) : v[r[i]] = w[q[Len(q) + 1 - i]]

(* Then they weigh the same altogether.                                    *)
LEMMA WeightReversed ==
  ASSUME NEW A, NEW q \in Seq(A), NEW w \in [A -> Int],
         NEW B, NEW r \in Seq(B), NEW v \in [B -> Int], Opposite(q, w, r, v)
  PROVE  Weight(r, v) = Weight(q, w)
<1>1. PICK n \in Nat : n = Len(q) /\ n = Len(r)
  BY LenProperties DEF Opposite
<1>2. PICK x, y : x = Weights(q, w) /\ y = Weights(r, v)
  OBVIOUS
<1>3. /\ x \in Seq(Int) /\ Len(x) = n /\ \A i \in 1 .. n : x[i] = w[q[i]]
      /\ Weight(q, w) = SumFunction(x)
  <2>1. /\ Weights(q, w) \in Seq(Int) /\ Len(Weights(q, w)) = Len(q)
        /\ \A i \in 1 .. Len(q) : Weights(q, w)[i] = w[q[i]]
    BY WeightsType
  <2> QED
    BY <1>1, <1>2, <2>1 DEF Weight
<1>4. /\ y \in Seq(Int) /\ Len(y) = n /\ \A i \in 1 .. n : y[i] = v[r[i]]
      /\ Weight(r, v) = SumFunction(y)
  <2>1. /\ Weights(r, v) \in Seq(Int) /\ Len(Weights(r, v)) = Len(r)
        /\ \A i \in 1 .. Len(r) : Weights(r, v)[i] = v[r[i]]
    BY WeightsType
  <2> QED
    BY <1>1, <1>2, <2>1 DEF Weight
<1>5. \A i \in 1 .. Len(x) : y[i] = x[Len(x) + 1 - i]
  <2>1. ASSUME NEW i \in 1 .. n PROVE y[i] = x[n + 1 - i]
    <3>1. n + 1 - i \in 1 .. n
      BY <1>1
    <3>2. v[r[i]] = w[q[n + 1 - i]]
      BY <1>1 DEF Opposite
    <3> QED
      BY <1>3, <1>4, <3>1, <3>2
  <2> QED
    BY <1>3, <2>1
<1>6. SumFunction(y) = SumFunction(x)
  BY <1>3, <1>4, <1>5, SeqSumReversed
<1> QED
  BY <1>3, <1>4, <1>6

(* The walk over the arrays of a pool comes to what is in them.            *)
LEMMA WalkCounts ==
  ASSUME NEW s \in Seq(Chunk)
  PROVE  WalkObjects(s) \in Seq(Obj) /\ \A o \in Obj : Count(WalkObjects(s), o) = CountObject(s, o)
<1>1. PICK n \in Nat : n = Len(s) /\ DOMAIN s = 1 .. n
  BY LenProperties
<1>2. PICK r : r = [c \in 1 .. n |-> Visited(s[n + 1 - c].objects)]
  OBVIOUS
<1>3. WalkObjects(s) = FlattenSeq(r)
  BY <1>1, <1>2 DEF WalkObjects
<1>4. ASSUME NEW c \in 1 .. n
      PROVE  /\ n + 1 - c \in 1 .. n /\ s[n + 1 - c] \in Chunk /\ s[n + 1 - c].objects \in Seq(Slot)
             /\ r[c] \in Seq(Obj)
             /\ \A o \in Obj : Count(r[c], o) = Count(s[n + 1 - c].objects, o)
  <2>1. n + 1 - c \in 1 .. n
    BY <1>1
  <2>2. s[n + 1 - c] \in Chunk
    BY <1>1, <2>1, ElementOfSeq
  <2>3. s[n + 1 - c].objects \in Seq(Slot)
    BY <2>2 DEF Chunk
  <2>4. r[c] = Visited(s[n + 1 - c].objects)
    BY <1>2
  <2> QED
    BY <2>1, <2>2, <2>3, <2>4, VisitedCounts
<1>5. r \in Seq(Seq(Obj)) /\ Len(r) = n
  BY <1>1, <1>2, <1>4
<1>6. ASSUME NEW o \in Obj PROVE Count(WalkObjects(s), o) = CountObject(s, o)
  <2>1. PICK B, w, v : B = Seq(Obj) /\ w = ChunkWeight(o) /\ v = SeqWeight(Obj, o)
    OBVIOUS
  <2>2. w \in [Chunk -> Int] /\ CountObject(s, o) = Weight(s, w)
    BY <2>1, CountObjectIsWeight
  <2>3. v \in [B -> Int] /\ \A q \in B : v[q] = Count(q, o)
    BY <2>1, CountIsWeight DEF SeqWeight
  <2>4. \A c \in 1 .. Len(s) : v[r[c]] = w[s[Len(s) + 1 - c]]
    <3>1. ASSUME NEW c \in 1 .. n PROVE v[r[c]] = w[s[n + 1 - c]]
      <4>1. w[s[n + 1 - c]] = Count(s[n + 1 - c].objects, o)
        BY <1>4, <2>1 DEF ChunkWeight
      <4> QED
        BY <1>4, <2>1, <2>3, <4>1
    <3> QED
      BY <1>1, <3>1
  <2>5. r \in Seq(B) /\ Len(r) = Len(s)
    BY <1>1, <1>5, <2>1
  <2>6. Opposite(s, w, r, v)
    BY <2>4, <2>5 DEF Opposite
  <2>7. Weight(r, v) = Weight(s, w)
    <3>1. w \in [Chunk -> Int] /\ r \in Seq(B) /\ v \in [B -> Int]
      BY <2>2, <2>3, <2>5
    <3> QED
      BY <2>6, <3>1, WeightReversed
  <2> QED
    BY <1>3, <1>5, <2>1, <2>2, <2>7, FlattenCounts
<1> QED
  BY <1>3, <1>5, <1>6, FlattenCounts

(* The dump of a thread's pools shows what a count without a map counts.   *)
LEMMA DumpCounts ==
  ASSUME PoolFits, NEW o \in Obj
  PROVE  Count(DumpedObjects, o) = MulleCountObject(o)
<1>0. PICK P : P = pools
  OBVIOUS
<1>1. PICK n \in Nat : n = Len(P) /\ DOMAIN P = 1 .. n
  BY <1>0, LenProperties DEF PoolFits, TypeOK
<1>2. P \in Seq(Seq(Chunk)) /\ \A k \in 1 .. n : P[k] \in Seq(Chunk)
  BY <1>0, <1>1, ElementOfSeq DEF PoolFits, TypeOK
<1>3. PICK r : r = [k \in 1 .. n |-> WalkObjects(P[n + 1 - k])]
  OBVIOUS
<1>4. DumpedObjects = FlattenSeq(r)
  BY <1>0, <1>1, <1>3 DEF DumpedObjects
<1>5. ASSUME NEW k \in 1 .. n
      PROVE  /\ n + 1 - k \in 1 .. n /\ P[n + 1 - k] \in Seq(Chunk) /\ r[k] \in Seq(Obj)
             /\ Count(r[k], o) = CountObject(P[n + 1 - k], o)
  <2>1. n + 1 - k \in 1 .. n
    BY <1>1
  <2> QED
    BY <1>2, <1>3, <2>1, WalkCounts
<1>6. r \in Seq(Seq(Obj)) /\ Len(r) = n
  BY <1>1, <1>3, <1>5
<1>7. PICK A, B, w, v : A = Seq(Chunk) /\ B = Seq(Obj) /\ w = StorageWeight(o) /\ v = SeqWeight(Obj, o)
  OBVIOUS
<1>8. w \in [A -> Int] /\ \A s \in A : w[s] = CountObject(s, o)
  BY <1>7, StorageWeightType DEF StorageWeight
<1>9. v \in [B -> Int] /\ \A q \in B : v[q] = Count(q, o)
  BY <1>7, CountIsWeight DEF SeqWeight
<1>10. P \in Seq(A) /\ r \in Seq(B) /\ Len(r) = Len(P)
  BY <1>1, <1>2, <1>6, <1>7
<1>11. \A k \in 1 .. Len(P) : v[r[k]] = w[P[Len(P) + 1 - k]]
  <2>1. ASSUME NEW k \in 1 .. n PROVE v[r[k]] = w[P[n + 1 - k]]
    BY <1>5, <1>7, <1>8, <1>9
  <2> QED
    BY <1>1, <2>1
<1>12. Opposite(P, w, r, v)
  BY <1>10, <1>11 DEF Opposite
<1>13. Weight(r, v) = Weight(P, w)
  <2>1. P \in Seq(A) /\ w \in [A -> Int] /\ r \in Seq(B) /\ v \in [B -> Int]
    BY <1>8, <1>9, <1>10
  <2> QED
    BY <1>12, <2>1, WeightReversed
<1>14. MulleCountObject(o) = Weight(P, w)
  BY <1>0, <1>7, PendingParts DEF MulleCountObject, PoolFits, TypeOK
<1> QED
  BY <1>4, <1>6, <1>7, <1>13, <1>14, FlattenCounts

(* An array in a storage has an object if and only if the storage counts it. *)
LEMMA ContainsCounts ==
  ASSUME NEW s \in Seq(Chunk), NEW o
  PROVE  ContainsObject(s, o) <=> CountObject(s, o) # 0
<1>1. PICK n \in Nat : n = Len(s) /\ DOMAIN s = 1 .. n
  BY LenProperties
<1>2. PICK w : w = ChunkWeight(o)
  OBVIOUS
<1>3. w \in [Chunk -> Nat] /\ CountObject(s, o) = Weight(s, w)
  BY <1>2, CountObjectIsWeight
<1>4. (Weight(s, w) = 0) <=> \A c \in 1 .. n : w[s[c]] = 0
  BY <1>1, <1>3, WeightNat
<1>5. ASSUME NEW c \in 1 .. n
      PROVE  (w[s[c]] = 0) <=> ~\E i \in DOMAIN s[c].objects : s[c].objects[i] = o
  <2>1. s[c] \in Chunk /\ s[c].objects \in Seq(Slot)
    <3>1. s[c] \in Chunk
      BY <1>1, ElementOfSeq
    <3> QED
      BY <3>1 DEF Chunk
  <2>2. w[s[c]] = Count(s[c].objects, o)
    BY <1>2, <2>1 DEF ChunkWeight
  <2>3. PICK q \in Seq(Slot) : q = s[c].objects
    BY <2>1
  <2>4. Count(q, o) \in Nat /\ ((Count(q, o) > 0) <=> \E i \in DOMAIN q : q[i] = o)
    BY CountPositive, CountIsWeight
  <2>5. (Count(q, o) = 0) <=> ~(Count(q, o) > 0)
    BY <2>4
  <2> QED
    BY <2>2, <2>3, <2>4, <2>5
<1> QED
  BY <1>1, <1>3, <1>4, <1>5 DEF ContainsObject

(* And some pool has it if and only if the pools count it.                 *)
LEMMA PoolsContain ==
  ASSUME PoolFits, NEW o
  PROVE  /\ MulleContainsObject(o) <=> MulleCountObject(o) # 0
         /\ MulleCountObject(o) \in Nat
<1>0. PICK P : P = pools
  OBVIOUS
<1>1. PICK n \in Nat : n = Len(P) /\ DOMAIN P = 1 .. n
  BY <1>0, LenProperties DEF PoolFits, TypeOK
<1>2. P \in Seq(Seq(Chunk)) /\ \A k \in 1 .. n : P[k] \in Seq(Chunk)
  BY <1>0, <1>1, ElementOfSeq DEF PoolFits, TypeOK
<1>3. PICK A, w : A = Seq(Chunk) /\ w = StorageWeight(o)
  OBVIOUS
<1>4. w \in [A -> Nat] /\ \A s \in A : w[s] = CountObject(s, o)
  BY <1>3, StorageWeightType DEF StorageWeight
<1>5. P \in Seq(A)
  BY <1>2, <1>3
<1>6. ((Weight(P, w) = 0) <=> \A k \in 1 .. n : w[P[k]] = 0) /\ Weight(P, w) \in Nat
  BY <1>1, <1>4, <1>5, WeightNat
<1>7. MulleCountObject(o) = Weight(P, w)
  BY <1>0, <1>3, PendingParts DEF MulleCountObject, PoolFits, TypeOK
<1>8. ASSUME NEW k \in 1 .. n PROVE (w[P[k]] = 0) <=> ~ContainsObject(P[k], o)
  BY <1>2, <1>3, <1>4, ContainsCounts
<1> QED
  BY <1>0, <1>1, <1>6, <1>7, <1>8 DEF MulleContainsObject

(* Nothing is taken while no drain has a storage.                          *)
LEMMA NothingTaken ==
  ASSUME PoolFits, NEW o, \A f \in DOMAIN stack : stack[f].kind = "drain" => stack[f].chain = <<>>
  PROVE  PendingIn(pools, stack, o) = MulleCountObject(o)
<1>1. PICK n \in Nat : n = Len(stack) /\ DOMAIN stack = 1 .. n /\ stack \in Seq(Frame)
  BY LenProperties DEF PoolFits, TypeOK
<1>2. PICK w : w = FrameWeight(o)
  OBVIOUS
<1>3. w \in [Frame -> Nat]
  BY <1>2, FrameWeightType
<1>4. ASSUME NEW f \in 1 .. n PROVE w[stack[f]] = 0
  <2>1. stack[f] \in Frame
    BY <1>1, ElementOfSeq
  <2>2. w[stack[f]] = TakenObject(stack[f], o)
    BY <1>2, <2>1 DEF FrameWeight
  <2>3. CountObject(<<>>, o) = 0
    BY NewStorage
  <2> QED
    BY <1>1, <2>2, <2>3 DEF TakenObject
<1>5. Weight(stack, w) = 0
  BY <1>1, <1>3, <1>4, WeightNat
<1>6. /\ MulleCountObject(o) = Weight(pools, StorageWeight(o))
      /\ Weight(pools, StorageWeight(o)) \in Nat
  BY <1>1, PendingParts DEF MulleCountObject, PoolFits, TypeOK
<1> QED
  BY <1>2, <1>5, <1>6 DEF PendingIn

(* If clients are orderly, the object map counts exactly the               *)
(* autoreleases that are still to be released, and counting and searching  *)
(* without a map and the debugger's dump agree with it.                    *)
THEOREM MapExactness == OrderlyClients => (Spec => []MapIsExact)
<1>1. Init /\ ~DrainsWalked => Books
  BY BooksInit
<1>2. Steps \subseteq {1} => (Books /\ [Next]_vars => Books')
  BY BooksKept
<1>3. Books => MapIsExact
  <2> SUFFICES ASSUME Books, NEW o \in Obj
               PROVE  /\ object_map[o] = Pending(o)
                      /\ Cardinality(Occurrences(DumpedObjects, o)) = MulleCountObject(o)
                      /\ (\A f \in DOMAIN stack : stack[f].kind = "drain" => stack[f].chain = <<>>)
                         => (MulleContainsObject(o) <=> object_map[o] > 0)
    BY DEF MapIsExact
  <2>1. PoolFits /\ MapCounts
    BY DEF Books
  <2>2. object_map[o] = PendingIn(pools, stack, o)
    BY <2>1 DEF MapCounts
  <2>3. object_map[o] = Pending(o)
    BY <2>1, <2>2, PendingTotal
  <2>4. Cardinality(Occurrences(DumpedObjects, o)) = MulleCountObject(o)
    BY <2>1, DumpCounts DEF Count
  <2>5. ASSUME \A f \in DOMAIN stack : stack[f].kind = "drain" => stack[f].chain = <<>>
        PROVE  MulleContainsObject(o) <=> object_map[o] > 0
    <3>1. object_map[o] = MulleCountObject(o)
      BY <2>1, <2>2, <2>5, NothingTaken
    <3>2. /\ MulleContainsObject(o) <=> MulleCountObject(o) # 0
          /\ MulleCountObject(o) \in Nat
      BY <2>1, PoolsContain
    <3>3. MulleCountObject(o) > 0 <=> MulleCountObject(o) # 0
      BY <3>2
    <3> QED
      BY <3>1, <3>2, <3>3
  <2> QED
    BY <2>3, <2>4, <2>5
<1>4. CASE OrderlyClients
  <2>1. (Init => Books) /\ (Books /\ [Next]_vars => Books')
    BY <1>1, <1>2, <1>4 DEF OrderlyClients
  <2>2. Spec => []Books
    BY <2>1, PTL DEF Spec
  <2> QED
    BY <1>3, <2>2, PTL
<1> QED
  BY <1>4

(* What an assertion says of the object map holds if clients are orderly:  *)
(* no object comes out of a pool that the map does not know.               *)
THEOREM NeverOutOfNowhere == OrderlyClients => (Spec => []NotOutOfNowhere)
<1>1. Init /\ ~DrainsWalked => Books
  BY BooksInit
<1>2. Steps \subseteq {1} => (Books /\ [Next]_vars => Books')
  BY BooksKept
<1>3. Books => NotOutOfNowhere
  <2> SUFFICES ASSUME Books, NEW o \in Obj PROVE object_map[o] >= 0
    BY DEF NotOutOfNowhere
  <2>1. object_map[o] \in Nat
    BY Balance DEF Books
  <2> QED
    BY <2>1
<1>4. CASE OrderlyClients
  <2>1. (Init => Books) /\ (Books /\ [Next]_vars => Books')
    BY <1>1, <1>2, <1>4 DEF OrderlyClients
  <2>2. Spec => []Books
    BY <2>1, PTL DEF Spec
  <2> QED
    BY <1>3, <2>2, PTL
<1> QED
  BY <1>4
=============================================================================
