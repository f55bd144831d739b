------------------------------- MODULE SumLemmas -------------------------------
(***************************************************************************)
(* Sums over finite sets, by which references are counted.  The induction  *)
(* over subsets looks at a smallest subset for which a fact fails.         *)
(***************************************************************************)
EXTENDS Integers, Sequences, FiniteSets, Functions, FiniteSetTheorems, SequenceTheorems,
        WellFoundedInduction, TLAPS

(* An element of a set that is not empty, and the sum over all subsets.    *)
Pick(s) == CHOOSE x \in s : TRUE

Adds(f, S, g) ==
  g = [s \in SUBSET S |-> IF s = {} THEN 0 ELSE f[Pick(s)] + g[s \ {Pick(s)}]]

-----------------------------------------------------------------------------
(* If a set of subsets has every one all of whose smaller subsets it has,  *)
(* it has them all.                                                        *)
LEMMA SubsetInduction ==
  ASSUME NEW S, IsFiniteSet(S), NEW T,
         \A s \in SUBSET S : (\A r \in SUBSET s : r # s => r \in T) => s \in T
  PROVE  \A s \in SUBSET S : s \in T
<1> DEFINE bad == {s \in SUBSET S : s \notin T}
<1> SUFFICES ASSUME bad # {} PROVE FALSE
  OBVIOUS
<1>1. IsWellFoundedOn(StrictSubsetOrdering(S), SUBSET S)
  <2>1. IsWellFoundedOn(StrictSubsetOrdering(S), FiniteSubsetsOf(S))
    BY FS_StrictSubsetOrderingWellFounded
  <2>2. FiniteSubsetsOf(S) = SUBSET S
    BY FS_FiniteSubsetsOfFinite
  <2> QED
    BY <2>1, <2>2
<1>2. bad \subseteq SUBSET S
  OBVIOUS
<1> HIDE DEF bad
<1>3. PICK s \in bad : \A r \in bad : <<r, s>> \notin StrictSubsetOrdering(S)
  BY <1>1, <1>2, WFMin
<1>4. s \in SUBSET S /\ s \notin T
  BY <1>3 DEF bad
<1>5. ASSUME NEW r \in SUBSET s, r # s PROVE r \in T
  <2>1. <<r, s>> \in StrictSubsetOrdering(S)
    BY <1>4, <1>5 DEF StrictSubsetOrdering
  <2> QED
    BY <1>3, <1>4, <2>1 DEF bad
<1> QED
  BY <1>4, <1>5

(* There is one function that adds up the values on all subsets.           *)
LEMMA AddsUnique ==
  ASSUME NEW S, IsFiniteSet(S), NEW R \in SUBSET S, NEW f, NEW g, NEW h,
         Adds(f, S, g), Adds(f, R, h)
  PROVE  \A s \in SUBSET R : g[s] = h[s]
<1> DEFINE T == {s \in SUBSET R : g[s] = h[s]}
<1>1. IsFiniteSet(R)
  BY FS_Subset
<1>2. ASSUME NEW s \in SUBSET R, \A r \in SUBSET s : r # s => r \in T PROVE s \in T
  <2>1. s # {} => Pick(s) \in s
    BY DEF Pick
  <2>2. s # {} => g[s \ {Pick(s)}] = h[s \ {Pick(s)}]
    BY <1>2, <2>1
  <2>3. g[s] = IF s = {} THEN 0 ELSE f[Pick(s)] + g[s \ {Pick(s)}]
    BY DEF Adds
  <2>4. h[s] = IF s = {} THEN 0 ELSE f[Pick(s)] + h[s \ {Pick(s)}]
    BY DEF Adds
  <2> QED
    BY <2>2, <2>3, <2>4
<1> HIDE DEF T
<1>3. \A s \in SUBSET R : s \in T
  BY <1>1, <1>2, SubsetInduction
<1> QED
  BY <1>3 DEF T

(* There is a function that adds up the values over every subset.          *)
LEMMA AddsExists ==
  ASSUME NEW S, IsFiniteSet(S), NEW f
  PROVE  \E g : Adds(f, S, g)
<1> DEFINE T == {s \in SUBSET S : \E g : Adds(f, s, g)}
           Total(s) == (CHOOSE g : Adds(f, s, g))[s]
<1>1. ASSUME NEW s \in SUBSET S, \A r \in SUBSET s : r # s => r \in T PROVE s \in T
  <2> DEFINE h == [r \in SUBSET s |-> IF r = {} THEN 0 ELSE f[Pick(r)] + Total(r \ {Pick(r)})]
  <2>1. ASSUME NEW r \in SUBSET s, r # s
        PROVE  Total(r) = IF r = {} THEN 0 ELSE f[Pick(r)] + Total(r \ {Pick(r)})
    <3>1. PICK g : g = CHOOSE a : Adds(f, r, a)
      OBVIOUS
    <3>2. Adds(f, r, g) /\ Total(r) = g[r]
      BY <1>1, <2>1, <3>1
    <3>3. g[r] = IF r = {} THEN 0 ELSE f[Pick(r)] + g[r \ {Pick(r)}]
      BY <3>2 DEF Adds
    <3>4. CASE r # {}
      <4> DEFINE q == r \ {Pick(r)}
      <4>1. q \in SUBSET r /\ q # s /\ q \in SUBSET s
        BY <2>1
      <4>2. PICK e : e = CHOOSE a : Adds(f, q, a)
        OBVIOUS
      <4>3. \E a : Adds(f, q, a)
        BY <1>1, <4>1
      <4>4. Adds(f, q, e) /\ Total(q) = e[q]
        BY <4>2, <4>3
      <4>5. IsFiniteSet(r)
        BY FS_Subset
      <4>6. g[q] = e[q]
        BY <3>2, <4>1, <4>4, <4>5, AddsUnique
      <4> QED
        BY <3>2, <3>3, <3>4, <4>4, <4>6
    <3> QED
      BY <3>2, <3>3, <3>4
  <2>2. h = [r \in SUBSET s |-> IF r = {} THEN 0 ELSE f[Pick(r)] + h[r \ {Pick(r)}]]
    <3> HIDE DEF Total
    <3>1. ASSUME NEW r \in SUBSET s, r # {} PROVE h[r \ {Pick(r)}] = Total(r \ {Pick(r)})
      <4>1. Pick(r) \in r
        BY <3>1 DEF Pick
      <4>2. r \ {Pick(r)} \in SUBSET s /\ r \ {Pick(r)} # s
        BY <4>1
      <4> QED
        BY <2>1, <4>2
    <3> QED
      BY <3>1
  <2>3. Adds(f, s, h)
    BY <2>2 DEF Adds
  <2> QED
    BY <2>3
<1> HIDE DEF T
<1>2. S \in T
  BY <1>1, SubsetInduction
<1> QED
  BY <1>2 DEF T

-----------------------------------------------------------------------------
(* SumFunctionOnSet is one such function.                                  *)
LEMMA SumIsChosen ==
  ASSUME NEW S, NEW f
  PROVE  SumFunctionOnSet(f, S) = (CHOOSE g : Adds(f, S, g))[S]
BY DEF SumFunctionOnSet, FoldFunctionOnSet, MapThenFoldSet, Adds, Pick

(* All of them agree.                                                      *)
LEMMA SumIsAdds ==
  ASSUME NEW S, IsFiniteSet(S), NEW f, NEW g, Adds(f, S, g)
  PROVE  \A s \in SUBSET S : SumFunctionOnSet(f, s) = g[s]
<1> SUFFICES ASSUME NEW s \in SUBSET S PROVE SumFunctionOnSet(f, s) = g[s]
  OBVIOUS
<1>1. PICK h : h = CHOOSE a : Adds(f, s, a)
  OBVIOUS
<1>2. IsFiniteSet(s)
  BY FS_Subset
<1>3. Adds(f, s, h)
  BY <1>1, <1>2, AddsExists
<1>4. g[s] = h[s]
  BY <1>2, <1>3, AddsUnique
<1> QED
  BY <1>1, <1>4, SumIsChosen

(* The sum over a set is a number.                                         *)
LEMMA SumType ==
  ASSUME NEW S, IsFiniteSet(S), NEW f \in [S -> Int]
  PROVE  \A s \in SUBSET S : SumFunctionOnSet(f, s) \in Int
<1>1. PICK g : Adds(f, S, g)
  BY AddsExists
<1> DEFINE T == {s \in SUBSET S : g[s] \in Int}
<1>2. ASSUME NEW s \in SUBSET S, \A r \in SUBSET s : r # s => r \in T PROVE s \in T
  <2>1. g[s] = IF s = {} THEN 0 ELSE f[Pick(s)] + g[s \ {Pick(s)}]
    BY <1>1 DEF Adds
  <2>2. s # {} => Pick(s) \in s
    BY DEF Pick
  <2>3. s # {} => g[s \ {Pick(s)}] \in Int /\ f[Pick(s)] \in Int
    BY <1>2, <2>2
  <2> QED
    BY <2>1, <2>3
<1> HIDE DEF T
<1>3. \A s \in SUBSET S : s \in T
  BY <1>2, SubsetInduction
<1> QED
  BY <1>1, <1>3, SumIsAdds DEF T

(* The order in which the elements are added does not matter.              *)
LEMMA SumAdd ==
  ASSUME NEW S, IsFiniteSet(S), NEW f \in [S -> Int]
  PROVE  /\ SumFunctionOnSet(f, {}) = 0
         /\ \A s \in SUBSET S : \A x \in S \ s :
              SumFunctionOnSet(f, s \cup {x}) = SumFunctionOnSet(f, s) + f[x]
<1>1. PICK g : Adds(f, S, g)
  BY AddsExists
<1>2. \A s \in SUBSET S : g[s] = IF s = {} THEN 0 ELSE f[Pick(s)] + g[s \ {Pick(s)}]
  BY <1>1 DEF Adds
<1>3. \A s \in SUBSET S : SumFunctionOnSet(f, s) = g[s] /\ g[s] \in Int
  BY <1>1, SumIsAdds, SumType
<1> DEFINE T == {s \in SUBSET S : \A x \in S \ s : g[s \cup {x}] = g[s] + f[x]}
<1>4. ASSUME NEW s \in SUBSET S, \A r \in SUBSET s : r # s => r \in T PROVE s \in T
  <2> SUFFICES ASSUME NEW x \in S \ s PROVE g[s \cup {x}] = g[s] + f[x]
    OBVIOUS
  <2>1. PICK y : y = Pick(s \cup {x})
    OBVIOUS
  <2>2. y \in s \cup {x}
    BY <2>1 DEF Pick
  <2>3. PICK r : r = (s \cup {x}) \ {y}
    OBVIOUS
  <2>f. g[s \cup {x}] = f[y] + g[r]
    BY <1>2, <2>1, <2>3
  <2>g. f[x] \in Int /\ g[s] \in Int
    BY <1>3
  <2>4. CASE y = x
    <3>1. r = s
      BY <2>3, <2>4
    <3> QED
      BY <2>f, <2>g, <2>4, <3>1
  <2>5. CASE y # x
    <3>1. PICK q \in SUBSET S : q = s \ {y}
      OBVIOUS
    <3>2. y \in s /\ r = q \cup {x} /\ q \cup {y} = s /\ x \in S \ q /\ y \in S \ q
      BY <2>2, <2>3, <2>5, <3>1
    <3>3. q \in T
      BY <1>4, <3>1, <3>2
    <3>4. g[q \cup {x}] = g[q] + f[x] /\ g[q \cup {y}] = g[q] + f[y]
      BY <3>2, <3>3
    <3>5. g[q] \in Int /\ f[y] \in Int
      BY <1>3, <3>2
    <3>6. g[r] = g[q] + f[x] /\ g[s] = g[q] + f[y]
      BY <3>2, <3>4
    <3> HIDE DEF T
    <3> QED
      BY <2>f, <2>g, <3>5, <3>6
  <2> QED
    BY <2>4, <2>5
<1> HIDE DEF T
<1>5. \A s \in SUBSET S : s \in T
  BY <1>4, SubsetInduction
<1>6. ASSUME NEW s \in SUBSET S, NEW x \in S \ s
      PROVE  SumFunctionOnSet(f, s \cup {x}) = SumFunctionOnSet(f, s) + f[x]
  <2>1. s \cup {x} \in SUBSET S
    OBVIOUS
  <2> QED
    BY <1>3, <1>5, <2>1 DEF T
<1>7. SumFunctionOnSet(f, {}) = 0
  BY <1>2, <1>3
<1> QED
  BY <1>6, <1>7

(* Only the values on the set count.                                       *)
LEMMA SumEqual ==
  ASSUME NEW S, IsFiniteSet(S), NEW f, NEW h, \A x \in S : f[x] = h[x]
  PROVE  SumFunctionOnSet(f, S) = SumFunctionOnSet(h, S)
<1>1. PICK g : Adds(f, S, g)
  BY AddsExists
<1>2. \A s \in SUBSET S : s # {} => f[Pick(s)] = h[Pick(s)]
  BY DEF Pick
<1>3. Adds(h, S, g)
  BY <1>1, <1>2 DEF Adds
<1> QED
  BY <1>1, <1>3, SumIsAdds

(* One value is taken apart.                                               *)
LEMMA SumApart ==
  ASSUME NEW S, IsFiniteSet(S), NEW f \in [S -> Int], NEW x \in S
  PROVE  /\ SumFunction(f) \in Int /\ SumFunctionOnSet(f, S \ {x}) \in Int
         /\ SumFunction(f) = SumFunctionOnSet(f, S \ {x}) + f[x]
<1>1. S \ {x} \in SUBSET S /\ x \in S \ (S \ {x}) /\ (S \ {x}) \cup {x} = S
  OBVIOUS
<1>2. SumFunctionOnSet(f, S) = SumFunctionOnSet(f, S \ {x}) + f[x]
  BY <1>1, SumAdd
<1>3. SumFunction(f) = SumFunctionOnSet(f, S)
  BY DEF SumFunction
<1> QED
  BY <1>1, <1>2, <1>3, SumType

(* One value changes.                                                      *)
LEMMA SumChange ==
  ASSUME NEW S, IsFiniteSet(S), NEW f \in [S -> Int], NEW h \in [S -> Int],
         NEW x \in S, \A y \in S \ {x} : f[y] = h[y]
  PROVE  /\ SumFunction(f) \in Int /\ SumFunction(h) \in Int
         /\ SumFunction(h) = SumFunction(f) + h[x] - f[x]
<1>1. IsFiniteSet(S \ {x})
  BY FS_Subset
<1>2. SumFunctionOnSet(f, S \ {x}) = SumFunctionOnSet(h, S \ {x})
  BY <1>1, SumEqual
<1>3. f[x] \in Int /\ h[x] \in Int
  OBVIOUS
<1> QED
  BY <1>2, <1>3, SumApart

(* A sum of nothing is nothing.                                            *)
LEMMA SumZero ==
  ASSUME NEW S, IsFiniteSet(S), NEW f \in [S -> Int], \A x \in S : f[x] = 0
  PROVE  SumFunction(f) = 0
<1>1. PICK g : Adds(f, S, g)
  BY AddsExists
<1> DEFINE T == {s \in SUBSET S : g[s] = 0}
<1>2. ASSUME NEW s \in SUBSET S, \A r \in SUBSET s : r # s => r \in T PROVE s \in T
  <2>1. g[s] = IF s = {} THEN 0 ELSE f[Pick(s)] + g[s \ {Pick(s)}]
    BY <1>1 DEF Adds
  <2>2. s # {} => Pick(s) \in s
    BY DEF Pick
  <2>3. s # {} => g[s \ {Pick(s)}] = 0 /\ f[Pick(s)] = 0
    BY <1>2, <2>2
  <2> QED
    BY <2>1, <2>3
<1> HIDE DEF T
<1>3. S \in T
  BY <1>2, SubsetInduction
<1> QED
  BY <1>1, <1>3, SumIsAdds DEF T, SumFunction

(* A sum of natural numbers is one, and is not less than any of them.      *)
LEMMA SumNat ==
  ASSUME NEW S, IsFiniteSet(S), NEW f \in [S -> Nat]
  PROVE  SumFunction(f) \in Nat /\ \A x \in S : f[x] <= SumFunction(f)
<1>1. PICK g : Adds(f, S, g)
  BY AddsExists
<1> DEFINE T == {s \in SUBSET S : g[s] \in Nat}
<1>2. ASSUME NEW s \in SUBSET S, \A r \in SUBSET s : r # s => r \in T PROVE s \in T
  <2>1. g[s] = IF s = {} THEN 0 ELSE f[Pick(s)] + g[s \ {Pick(s)}]
    BY <1>1 DEF Adds
  <2>2. s # {} => Pick(s) \in s
    BY DEF Pick
  <2>3. s # {} => g[s \ {Pick(s)}] \in Nat /\ f[Pick(s)] \in Nat
    BY <1>2, <2>2
  <2> QED
    BY <2>1, <2>3
<1> HIDE DEF T
<1>3. \A s \in SUBSET S : s \in T
  BY <1>2, SubsetInduction
<1>4. \A s \in SUBSET S : SumFunctionOnSet(f, s) \in Nat
  BY <1>1, <1>3, SumIsAdds DEF T
<1>5. f \in [S -> Int]
  OBVIOUS
<1>6. ASSUME NEW x \in S PROVE f[x] <= SumFunction(f)
  <2>1. SumFunction(f) = SumFunctionOnSet(f, S \ {x}) + f[x]
    BY <1>5, SumApart
  <2>2. SumFunctionOnSet(f, S \ {x}) \in Nat /\ f[x] \in Nat
    BY <1>4
  <2> QED
    BY <2>1, <2>2
<1> QED
  BY <1>4, <1>6 DEF SumFunction

-----------------------------------------------------------------------------
(* How many elements a set has, after one of them came or went.            *)
LEMMA CountChange ==
  ASSUME NEW S, IsFiniteSet(S), NEW A \in SUBSET S, NEW B \in SUBSET S, NEW x \in S,
         \A y \in S \ {x} : y \in A <=> y \in B
  PROVE  /\ Cardinality(A) \in Nat /\ Cardinality(B) \in Nat
         /\ Cardinality(B) = Cardinality(A) + (IF x \in B THEN 1 ELSE 0)
                                            - (IF x \in A THEN 1 ELSE 0)
<1>1. /\ IsFiniteSet(A) /\ Cardinality(A) \in Nat
      /\ IsFiniteSet(B) /\ Cardinality(B) \in Nat
  BY FS_Subset, FS_CardinalityType
<1>2. CASE (x \in A) = (x \in B)
  <2>1. A = B
    BY <1>2
  <2> QED
    BY <1>1, <2>1
<1>3. CASE x \in A /\ x \notin B
  <2>1. B = A \ {x}
    BY <1>3
  <2>2. Cardinality(B) = Cardinality(A) - 1
    BY <1>1, <1>3, <2>1, FS_RemoveElement
  <2> QED
    BY <1>1, <1>3, <2>2
<1>4. CASE x \notin A /\ x \in B
  <2>1. B = A \cup {x}
    BY <1>4
  <2>2. Cardinality(B) = Cardinality(A) + 1
    BY <1>1, <1>4, <2>1, FS_AddElement
  <2> QED
    BY <1>1, <1>4, <2>2
<1> QED
  BY <1>2, <1>3, <1>4

(* The last member of a set of subsets by size: numbers up to n.           *)
LEMMA UpTo ==
  ASSUME NEW n \in Nat, NEW T, 0 \in T, \A i \in 0 .. n - 1 : i \in T => i + 1 \in T
  PROVE  \A i \in 0 .. n : i \in T
<1> DEFINE U == {s \in SUBSET (1 .. n) : Cardinality(s) \in T}
<1>1. IsFiniteSet(1 .. n) /\ Cardinality(1 .. n) = n
  BY FS_Interval
<1>2. ASSUME NEW s \in SUBSET (1 .. n), \A r \in SUBSET s : r # s => r \in U PROVE s \in U
  <2>1. CASE s = {}
    BY <2>1, FS_EmptySet
  <2>2. CASE s # {}
    <3>1. PICK x \in s : TRUE
      BY <2>2
    <3>2. s \ {x} \in U
      BY <1>2, <3>1
    <3>3. IsFiniteSet(s) /\ Cardinality(s) \in Nat /\ Cardinality(s) <= n
      BY <1>1, FS_Subset, FS_CardinalityType
    <3>4. Cardinality(s \ {x}) = Cardinality(s) - 1
      BY <3>1, <3>3, FS_RemoveElement
    <3>5. Cardinality(s) # 0
      BY <3>1, <3>3, FS_EmptySet
    <3>6. Cardinality(s \ {x}) \in 0 .. n - 1 /\ Cardinality(s \ {x}) + 1 = Cardinality(s)
      BY <3>3, <3>4, <3>5
    <3>7. Cardinality(s \ {x}) \in T
      BY <3>2
    <3>8. Cardinality(s) \in T
      BY <3>6, <3>7
    <3> QED
      BY <3>8
  <2> QED
    BY <2>1, <2>2
<1> HIDE DEF U
<1>3. \A s \in SUBSET (1 .. n) : s \in U
  BY <1>1, <1>2, SubsetInduction
<1>4. ASSUME NEW i \in 0 .. n PROVE i \in T
  <2>1. 1 .. i \in SUBSET (1 .. n)
    OBVIOUS
  <2>2. Cardinality(1 .. i) = i
    BY FS_Interval
  <2> QED
    BY <1>3, <2>1, <2>2 DEF U
<1> QED
  BY <1>4

-----------------------------------------------------------------------------
(* Sums of sequences.                                                      *)

(* A sequence has a sum.                                                   *)
LEMMA SeqSumType ==
  /\ \A q \in Seq(Int) : SumFunction(q) \in Int
  /\ \A q \in Seq(Nat) : SumFunction(q) \in Nat /\ \A i \in DOMAIN q : q[i] <= SumFunction(q)
  /\ SumFunction(<<>>) = 0
<1>1. ASSUME NEW q \in Seq(Int) PROVE SumFunction(q) \in Int
  <2>1. q \in [1 .. Len(q) -> Int] /\ IsFiniteSet(1 .. Len(q)) /\ DOMAIN q = 1 .. Len(q)
    BY FS_Interval
  <2>2. SumFunctionOnSet(q, 1 .. Len(q)) \in Int
    BY <2>1, SumType
  <2> QED
    BY <2>1, <2>2 DEF SumFunction
<1>2. ASSUME NEW q \in Seq(Nat)
      PROVE SumFunction(q) \in Nat /\ \A i \in DOMAIN q : q[i] <= SumFunction(q)
  <2>1. q \in [1 .. Len(q) -> Nat] /\ IsFiniteSet(1 .. Len(q)) /\ DOMAIN q = 1 .. Len(q)
    BY FS_Interval
  <2> QED
    BY <2>1, SumNat
<1>3. SumFunction(<<>>) = 0
  <2>1. PICK q : q = <<>>
    OBVIOUS
  <2>2. DOMAIN q = {} /\ q \in [{} -> Int]
    BY <2>1
  <2>3. SumFunction(q) = 0
    BY <2>2, SumZero, FS_EmptySet
  <2> QED
    BY <2>1, <2>3
<1> QED
  BY <1>1, <1>2, <1>3

(* What is appended is added.                                              *)
LEMMA SeqSumAppend ==
  ASSUME NEW q \in Seq(Int), NEW x \in Int
  PROVE  SumFunction(Append(q, x)) = SumFunction(q) + x
<1>1. PICK n \in Nat : n = Len(q)
  OBVIOUS
<1>2. PICK h : h = Append(q, x)
  OBVIOUS
<1>3. /\ h \in [1 .. n + 1 -> Int] /\ q \in [1 .. n -> Int]
      /\ h[n + 1] = x /\ \A i \in 1 .. n : h[i] = q[i]
  <2>1. /\ Append(q, x) \in Seq(Int)
        /\ Len(Append(q, x)) = Len(q) + 1
        /\ \A i \in 1 .. Len(q) : Append(q, x)[i] = q[i]
        /\ Append(q, x)[Len(q) + 1] = x
    BY AppendProperties
  <2>2. h \in Seq(Int) /\ Len(h) = n + 1
    BY <1>1, <1>2, <2>1
  <2>3. h \in [1 .. Len(h) -> Int] /\ q \in [1 .. Len(q) -> Int]
    BY <2>2, LenProperties
  <2> QED
    BY <1>1, <1>2, <2>1, <2>2, <2>3
<1>4. IsFiniteSet(1 .. n + 1) /\ IsFiniteSet(1 .. n)
  BY FS_Interval
<1>5. SumFunctionOnSet(h, (1 .. n) \cup {n + 1}) = SumFunctionOnSet(h, 1 .. n) + h[n + 1]
  <2>1. 1 .. n \in SUBSET (1 .. n + 1) /\ n + 1 \in (1 .. n + 1) \ (1 .. n)
    OBVIOUS
  <2> QED
    BY <1>3, <1>4, <2>1, SumAdd
<1>6. SumFunctionOnSet(h, 1 .. n) = SumFunctionOnSet(q, 1 .. n)
  BY <1>3, <1>4, SumEqual
<1>7. 1 .. n + 1 = (1 .. n) \cup {n + 1} /\ DOMAIN h = 1 .. n + 1 /\ DOMAIN q = 1 .. n
  BY <1>3
<1>8. SumFunction(h) = SumFunctionOnSet(h, (1 .. n) \cup {n + 1})
      /\ SumFunction(q) = SumFunctionOnSet(q, 1 .. n)
  BY <1>7 DEF SumFunction
<1> QED
  BY <1>2, <1>3, <1>5, <1>6, <1>8

(* The beginning of a sequence, and one more element of it.                *)
LEMMA PrefixOfSeq ==
  ASSUME NEW S, NEW q \in Seq(S), NEW k \in 0 .. Len(q)
  PROVE  /\ SubSeq(q, 1, k) \in Seq(S) /\ Len(SubSeq(q, 1, k)) = k
         /\ \A i \in 1 .. k : SubSeq(q, 1, k)[i] = q[i]
         /\ k < Len(q) => Append(SubSeq(q, 1, k), q[k + 1]) = SubSeq(q, 1, k + 1)
         /\ k = Len(q) => SubSeq(q, 1, k) = q
         /\ k > 0 => Append(SubSeq(q, 1, k - 1), q[k]) = SubSeq(q, 1, k)
<1>1. ASSUME NEW j \in 0 .. Len(q)
      PROVE  /\ SubSeq(q, 1, j) \in Seq(S) /\ Len(SubSeq(q, 1, j)) = j
             /\ \A i \in 1 .. j : SubSeq(q, 1, j)[i] = q[i]
  <2>1. \A i \in 1 .. j : q[i] \in S
    BY ElementOfSeq
  <2>2. /\ SubSeq(q, 1, j) \in Seq(S)
        /\ Len(SubSeq(q, 1, j)) = IF 1 <= j THEN j - 1 + 1 ELSE 0
        /\ \A i \in 1 .. j - 1 + 1 : SubSeq(q, 1, j)[i] = q[1 + i - 1]
    BY <2>1, SubSeqProperties
  <2> QED
    BY <2>2
<1>2. ASSUME NEW j \in 0 .. Len(q), j < Len(q)
      PROVE  Append(SubSeq(q, 1, j), q[j + 1]) = SubSeq(q, 1, j + 1)
  <2>1. PICK a : a = SubSeq(q, 1, j)
    OBVIOUS
  <2>2. PICK b : b = SubSeq(q, 1, j + 1)
    OBVIOUS
  <2>3. PICK x \in S : x = q[j + 1]
    BY <1>2, ElementOfSeq
  <2>4. a \in Seq(S) /\ Len(a) = j /\ \A i \in 1 .. j : a[i] = q[i]
    BY <1>1, <2>1
  <2>5. b \in Seq(S) /\ Len(b) = j + 1 /\ \A i \in 1 .. j + 1 : b[i] = q[i]
    BY <1>1, <1>2, <2>2
  <2>6. /\ Append(a, x) \in Seq(S) /\ Len(Append(a, x)) = Len(a) + 1
        /\ \A i \in 1 .. Len(a) : Append(a, x)[i] = a[i]
        /\ Append(a, x)[Len(a) + 1] = x
    BY <2>4, AppendProperties
  <2>7. \A i \in 1 .. j + 1 : i \in 1 .. j \/ i = j + 1
    OBVIOUS
  <2>8. Len(Append(a, x)) = Len(b) /\ \A i \in 1 .. Len(Append(a, x)) : Append(a, x)[i] = b[i]
    BY <2>3, <2>4, <2>5, <2>6, <2>7
  <2>9. Append(a, x) = b
    BY <2>5, <2>6, <2>8, SeqEqual
  <2> QED
    BY <2>1, <2>2, <2>3, <2>9
<1>3. k = Len(q) => SubSeq(q, 1, k) = q
  BY SubSeqFull
<1>4. k > 0 => Append(SubSeq(q, 1, k - 1), q[k]) = SubSeq(q, 1, k)
  <2>1. k > 0 => k - 1 \in 0 .. Len(q) /\ k - 1 < Len(q) /\ k - 1 + 1 = k
    OBVIOUS
  <2> QED
    BY <1>2, <2>1
<1> QED
  BY <1>1, <1>2, <1>3, <1>4

(* A beginning grows by the element that follows it.                       *)
LEMMA PrefixAppend ==
  ASSUME NEW S, NEW q \in Seq(S), NEW k \in 0 .. Len(q), k < Len(q)
  PROVE  Append(SubSeq(q, 1, k), q[k + 1]) = SubSeq(q, 1, k + 1)
BY PrefixOfSeq

(* What is set at a place is added, and what it replaces is subtracted.    *)
LEMMA SeqSumSet ==
  ASSUME NEW q \in Seq(Int), NEW i \in 1 .. Len(q), NEW x \in Int
  PROVE  SumFunction([q EXCEPT ![i] = x]) = SumFunction(q) + x - q[i]
<1>1. PICK h : h = [q EXCEPT ![i] = x]
  OBVIOUS
<1>2. /\ q \in [1 .. Len(q) -> Int] /\ h \in [1 .. Len(q) -> Int] /\ h[i] = x
      /\ \A j \in (1 .. Len(q)) \ {i} : q[j] = h[j]
  BY <1>1
<1>3. IsFiniteSet(1 .. Len(q))
  BY FS_Interval
<1>4. SumFunction(h) = SumFunction(q) + h[i] - q[i]
  BY <1>2, <1>3, SumChange
<1> QED
  BY <1>1, <1>2, <1>4

(* The sum of two sequences.                                               *)
LEMMA SeqSumConcat ==
  ASSUME NEW q \in Seq(Int), NEW r \in Seq(Int)
  PROVE  SumFunction(q \o r) = SumFunction(q) + SumFunction(r)
<1> DEFINE T == {k \in 0 .. Len(r) : SumFunction(q \o SubSeq(r, 1, k))
                                      = SumFunction(q) + SumFunction(SubSeq(r, 1, k))}
<1>1. 0 \in T
  <2>1. SubSeq(r, 1, 0) = <<>>
    BY SubSeqEmpty
  <2>2. q \o SubSeq(r, 1, 0) = q
    BY <2>1, ConcatEmptySeq
  <2>3. PICK m \in Int : m = SumFunction(q)
    BY SeqSumType
  <2>4. SumFunction(SubSeq(r, 1, 0)) = 0
    BY <2>1, SeqSumType
  <2>5. SumFunction(q \o SubSeq(r, 1, 0)) = SumFunction(q) + SumFunction(SubSeq(r, 1, 0))
    <3> HIDE DEF T
    <3>1. SumFunction(q \o SubSeq(r, 1, 0)) = m
      BY <2>2, <2>3
    <3>2. SumFunction(q) + SumFunction(SubSeq(r, 1, 0)) = m + 0
      BY <2>3, <2>4
    <3> QED
      BY <3>1, <3>2
  <2>6. 0 \in 0 .. Len(r)
    OBVIOUS
  <2> QED
    BY <2>5, <2>6
<1>2. ASSUME NEW k \in 0 .. Len(r) - 1, k \in T PROVE k + 1 \in T
  <2>0. PICK s : s = SubSeq(r, 1, k)
    OBVIOUS
  <2>a. k \in 0 .. Len(r) /\ k < Len(r) /\ k + 1 \in 1 .. Len(r) /\ k + 1 \in 0 .. Len(r)
    OBVIOUS
  <2>1. s \in Seq(Int)
    BY <2>0, <2>a, PrefixOfSeq
  <2>2. PICK x \in Int : x = r[k + 1]
    BY <2>a, ElementOfSeq
  <2>3. SubSeq(r, 1, k + 1) = Append(s, x)
    BY <2>0, <2>2, <2>a, PrefixOfSeq
  <2>5. q \o s \in Seq(Int)
    BY <2>1, ConcatProperties
  <2>4. q \o Append(s, x) = Append(q \o s, x)
    <3> HIDE DEF T
    <3>1. PICK t : t = Append(s, x)
      OBVIOUS
    <3>2. /\ t \in Seq(Int) /\ Len(t) = Len(s) + 1
          /\ \A i \in 1 .. Len(s) : t[i] = s[i]
          /\ t[Len(s) + 1] = x
      BY <2>1, <3>1, AppendProperties
    <3>3. PICK u : u = q \o s
      OBVIOUS
    <3>4. /\ u \in Seq(Int) /\ Len(u) = Len(q) + Len(s)
          /\ \A i \in 1 .. Len(q) + Len(s) : u[i] = IF i <= Len(q) THEN q[i] ELSE s[i - Len(q)]
      BY <2>1, <3>3, ConcatProperties
    <3>5. /\ q \o t \in Seq(Int) /\ Len(q \o t) = Len(q) + Len(t)
          /\ \A i \in 1 .. Len(q) + Len(t) : (q \o t)[i] = IF i <= Len(q) THEN q[i] ELSE t[i - Len(q)]
      BY <3>2, ConcatProperties
    <3>6. /\ Append(u, x) \in Seq(Int) /\ Len(Append(u, x)) = Len(u) + 1
          /\ \A i \in 1 .. Len(u) : Append(u, x)[i] = u[i]
          /\ Append(u, x)[Len(u) + 1] = x
      <4>1. u \in Seq(Int)
        BY <3>4
      <4> QED
        BY <4>1, AppendProperties
    <3>7. PICK a \in Nat, b \in Nat : a = Len(q) /\ b = Len(s)
      BY <2>1, LenProperties
    <3>n. a \in Nat /\ b \in Nat
      BY <3>7
    <3>8. ASSUME NEW i \in 1 .. a + b + 1 PROVE (q \o t)[i] = Append(u, x)[i]
      <4>1. CASE i <= a
        <5>1. (q \o t)[i] = q[i]
          BY <3>2, <3>5, <3>7, <4>1
        <5>a. i \in 1 .. a + b
          BY <3>n, <4>1
        <5>b. Len(u) = a + b
          BY <3>4, <3>7
        <5>2. Append(u, x)[i] = u[i]
          BY <3>6, <5>a, <5>b
        <5>3. u[i] = q[i]
          BY <3>4, <3>7, <4>1, <5>a
        <5> QED
          BY <5>1, <5>2, <5>3
      <4>2. CASE i > a /\ i <= a + b
        <5>a. i - a \in 1 .. b /\ i \in 1 .. a + (b + 1) /\ ~(i <= a)
          BY <3>7, <4>2
        <5>b. t[i - a] = s[i - a]
          BY <3>2, <3>7, <5>a
        <5>1. (q \o t)[i] = s[i - a]
          BY <3>2, <3>5, <3>7, <5>a, <5>b
        <5>c. i \in 1 .. a + b /\ i \in 1 .. Len(u)
          <6>1. i \in 1 .. a + b
            BY <3>n, <4>2
          <6>2. Len(u) = a + b
            BY <3>4, <3>7
          <6> QED
            BY <6>1, <6>2
        <5>d. Append(u, x)[i] = u[i]
          BY <3>6, <5>c
        <5>e. u[i] = s[i - a]
          BY <3>4, <3>7, <5>a, <5>c
        <5>2. Append(u, x)[i] = u[i] /\ u[i] = s[i - a]
          BY <5>d, <5>e
        <5> QED
          BY <5>1, <5>2
      <4>3. CASE i = a + b + 1
        <5>1. (q \o t)[i] = x
          BY <3>2, <3>5, <3>7, <4>3
        <5>2. Append(u, x)[i] = x
          BY <3>4, <3>6, <3>7, <4>3
        <5> QED
          BY <5>1, <5>2
      <4>4. i <= a \/ (i > a /\ i <= a + b) \/ i = a + b + 1
        BY <3>n
      <4> QED
        BY <4>1, <4>2, <4>3, <4>4
    <3>9. Len(q \o t) = a + b + 1 /\ Len(Append(u, x)) = a + b + 1
      BY <3>2, <3>4, <3>5, <3>6, <3>7
    <3>10. q \o t = Append(u, x)
      BY <3>5, <3>6, <3>8, <3>9, SeqEqual
    <3> QED
      BY <3>1, <3>3, <3>10
  <2>6. SumFunction(Append(q \o s, x)) = SumFunction(q \o s) + x
        /\ SumFunction(Append(s, x)) = SumFunction(s) + x
    BY <2>1, <2>5, SeqSumAppend
  <2>7. SumFunction(q \o s) = SumFunction(q) + SumFunction(s)
    BY <1>2, <2>0
  <2>8. PICK a \in Int, b \in Int, c \in Int :
          a = SumFunction(q) /\ b = SumFunction(s) /\ c = SumFunction(q \o s)
    BY <2>1, <2>5, SeqSumType
  <2>9. (a + b) + x = a + (b + x)
    OBVIOUS
  <2>10. SumFunction(q \o SubSeq(r, 1, k + 1)) = SumFunction(q) + SumFunction(SubSeq(r, 1, k + 1))
    BY <2>3, <2>4, <2>6, <2>7, <2>8, <2>9
  <2> QED
    BY <2>10, <2>a
<1> HIDE DEF T
<1>3. Len(r) \in T
  <2>1. PICK n \in Nat : n = Len(r)
    OBVIOUS
  <2>2. \A i \in 0 .. n - 1 : i \in T => i + 1 \in T
    BY <1>2, <2>1
  <2>3. \A i \in 0 .. n : i \in T
    BY <1>1, <2>2, UpTo
  <2> QED
    BY <2>1, <2>3
<1>4. SubSeq(r, 1, Len(r)) = r
  BY SubSeqFull
<1> QED
  BY <1>3, <1>4 DEF T

-----------------------------------------------------------------------------
(* Sums of what the elements of a sequence weigh.                          *)

Weights(q, w) == [i \in DOMAIN q |-> w[q[i]]]

Weight(q, w) == SumFunction(Weights(q, w))

(* The weights of a sequence are a sequence of numbers.                    *)
LEMMA WeightsType ==
  ASSUME NEW S, NEW q \in Seq(S), NEW w \in [S -> Int]
  PROVE  /\ Weights(q, w) \in Seq(Int) /\ Len(Weights(q, w)) = Len(q)
         /\ \A i \in 1 .. Len(q) : Weights(q, w)[i] = w[q[i]]
         /\ Weight(q, w) = SumFunction(Weights(q, w)) /\ Weight(q, w) \in Int
<1>1. PICK n \in Nat : n = Len(q)
  BY LenProperties
<1>2. DOMAIN q = 1 .. n /\ \A i \in 1 .. n : q[i] \in S
  BY <1>1, LenProperties
<1>3. PICK h : h = Weights(q, w)
  OBVIOUS
<1>4. h = [i \in 1 .. n |-> w[q[i]]]
  BY <1>2, <1>3 DEF Weights
<1>5. h \in [1 .. n -> Int]
  BY <1>2, <1>4
<1>6. h \in Seq(Int) /\ Len(h) = n
  BY <1>5
<1> QED
  BY <1>1, <1>3, <1>4, <1>6, SeqSumType DEF Weight

(* Nothing weighs nothing.                                                 *)
LEMMA WeightEmpty ==
  ASSUME NEW w
  PROVE  Weight(<<>>, w) = 0
<1>1. Weights(<<>>, w) = <<>>
  BY DEF Weights
<1> QED
  BY <1>1, SeqSumType DEF Weight

(* With natural weights, a sequence weighs nothing if and only if none of  *)
(* its elements weighs anything.                                           *)
LEMMA WeightNat ==
  ASSUME NEW S, NEW q \in Seq(S), NEW w \in [S -> Nat]
  PROVE  /\ Weight(q, w) \in Nat /\ \A i \in 1 .. Len(q) : w[q[i]] <= Weight(q, w)
         /\ (Weight(q, w) = 0) <=> \A i \in 1 .. Len(q) : w[q[i]] = 0
<1>1. w \in [S -> Int]
  OBVIOUS
<1>2. PICK n \in Nat : n = Len(q)
  BY LenProperties
<1>3. PICK h : h = Weights(q, w)
  OBVIOUS
<1>4. /\ h \in Seq(Int) /\ Len(h) = n /\ \A i \in 1 .. n : h[i] = w[q[i]]
      /\ Weight(q, w) = SumFunction(h)
  BY <1>1, <1>2, <1>3, WeightsType
<1>5. \A i \in 1 .. n : w[q[i]] \in Nat
  BY <1>2, LenProperties
<1>6. DOMAIN h = 1 .. n /\ h \in [1 .. n -> Nat] /\ h \in [1 .. n -> Int] /\ IsFiniteSet(1 .. n)
  <2>1. DOMAIN h = 1 .. n /\ h \in [1 .. n -> Int]
    BY <1>4, LenProperties
  <2>2. \A i \in 1 .. n : h[i] \in Nat
    BY <1>4, <1>5
  <2>3. h \in [1 .. n -> Nat]
    BY <2>1, <2>2
  <2>4. IsFiniteSet(1 .. n)
    BY FS_Interval
  <2> QED
    BY <2>1, <2>3, <2>4
<1>7. SumFunction(h) \in Nat /\ \A i \in 1 .. n : h[i] <= SumFunction(h)
  BY <1>6, SumNat
<1>8. (\A i \in 1 .. n : h[i] = 0) => SumFunction(h) = 0
  BY <1>6, SumZero
<1>9. SumFunction(h) = 0 => \A i \in 1 .. n : h[i] = 0
  <2>1. ASSUME SumFunction(h) = 0, NEW i \in 1 .. n PROVE h[i] = 0
    <3>1. PICK x \in Nat : x = h[i]
      BY <1>6
    <3>2. x <= 0
      BY <1>7, <2>1, <3>1
    <3> QED
      BY <3>1, <3>2
  <2> QED
    BY <2>1
<1>10. \A i \in 1 .. n : w[q[i]] = h[i]
  BY <1>4
<1> QED
  BY <1>2, <1>4, <1>7, <1>8, <1>9, <1>10

(* What is appended adds its weight.                                       *)
LEMMA WeightAppend ==
  ASSUME NEW S, NEW q \in Seq(S), NEW p \in S, NEW w \in [S -> Int]
  PROVE  Weight(Append(q, p), w) = Weight(q, w) + w[p]
<1>1. PICK r : r = Append(q, p)
  OBVIOUS
<1>2. /\ r \in Seq(S) /\ Len(r) = Len(q) + 1
      /\ \A i \in 1 .. Len(q) : r[i] = q[i]
      /\ r[Len(q) + 1] = p
  BY <1>1, AppendProperties
<1>3. PICK n \in Nat : n = Len(q)
  BY LenProperties
<1>4. PICK x \in Int : x = w[p]
  OBVIOUS
<1>5. PICK h, g : h = Weights(q, w) /\ g = Weights(r, w)
  OBVIOUS
<1>6. /\ h \in Seq(Int) /\ Len(h) = n /\ \A i \in 1 .. n : h[i] = w[q[i]]
      /\ Weight(q, w) = SumFunction(h)
  BY <1>3, <1>5, WeightsType
<1>7. /\ g \in Seq(Int) /\ Len(g) = n + 1 /\ \A i \in 1 .. n + 1 : g[i] = w[r[i]]
      /\ Weight(r, w) = SumFunction(g)
  BY <1>2, <1>3, <1>5, WeightsType
<1>8. g = Append(h, x)
  <2>1. /\ Append(h, x) \in Seq(Int) /\ Len(Append(h, x)) = n + 1
        /\ \A i \in 1 .. n : Append(h, x)[i] = h[i]
        /\ Append(h, x)[n + 1] = x
    BY <1>6, AppendProperties
  <2>2. \A i \in 1 .. n + 1 : i \in 1 .. n \/ i = n + 1
    OBVIOUS
  <2>3. \A i \in 1 .. n : g[i] = Append(h, x)[i]
    BY <1>2, <1>3, <1>6, <1>7, <2>1
  <2>4. g[n + 1] = Append(h, x)[n + 1]
    BY <1>2, <1>3, <1>4, <1>7, <2>1
  <2>5. \A i \in 1 .. Len(g) : g[i] = Append(h, x)[i]
    BY <1>7, <2>2, <2>3, <2>4
  <2> QED
    BY <1>7, <2>1, <2>5, SeqEqual
<1>9. SumFunction(g) = SumFunction(h) + x
  BY <1>6, <1>8, SeqSumAppend
<1> QED
  BY <1>1, <1>4, <1>6, <1>7, <1>9

(* Taking the last element away takes its weight away.                     *)
LEMMA WeightFront ==
  ASSUME NEW S, NEW q \in Seq(S), q # <<>>, NEW w \in [S -> Int]
  PROVE  /\ Len(q) \in Nat \ {0} /\ q[Len(q)] \in S
         /\ SubSeq(q, 1, Len(q) - 1) \in Seq(S) /\ Len(SubSeq(q, 1, Len(q) - 1)) = Len(q) - 1
         /\ \A i \in 1 .. Len(q) - 1 : SubSeq(q, 1, Len(q) - 1)[i] = q[i]
         /\ Weight(q, w) = Weight(SubSeq(q, 1, Len(q) - 1), w) + w[q[Len(q)]]
<1>1. Len(q) \in Nat \ {0}
  BY EmptySeq
<1>2. PICK r : r = SubSeq(q, 1, Len(q) - 1)
  OBVIOUS
<1>3. r \in Seq(S) /\ Len(r) = Len(q) - 1 /\ \A i \in 1 .. Len(q) - 1 : r[i] = q[i]
  <2>1. Len(q) - 1 \in 0 .. Len(q)
    BY <1>1
  <2> QED
    BY <1>2, <2>1, PrefixOfSeq
<1>4. PICK x \in S : x = q[Len(q)]
  BY <1>1, ElementOfSeq
<1>5. Append(r, x) = q
  BY <1>1, <1>2, <1>4, PrefixOfSeq
<1>6. Weight(q, w) = Weight(r, w) + w[x]
  BY <1>3, <1>5, WeightAppend
<1> QED
  BY <1>1, <1>2, <1>3, <1>4, <1>6

(* An element is replaced.                                                 *)
LEMMA WeightSet ==
  ASSUME NEW S, NEW q \in Seq(S), NEW r \in Seq(S), Len(r) = Len(q), NEW w \in [S -> Int],
         NEW i \in 1 .. Len(q), \A j \in 1 .. Len(q) : j # i => r[j] = q[j]
  PROVE  Weight(r, w) = Weight(q, w) + w[r[i]] - w[q[i]]
<1>3. PICK n \in Nat : n = Len(q)
  BY LenProperties
<1>4. PICK x \in Int : x = w[r[i]]
  BY ElementOfSeq
<1>5. PICK h, g : h = Weights(q, w) /\ g = Weights(r, w)
  OBVIOUS
<1>6. /\ h \in Seq(Int) /\ Len(h) = n /\ \A j \in 1 .. n : h[j] = w[q[j]]
      /\ Weight(q, w) = SumFunction(h)
  <2>1. /\ Weights(q, w) \in Seq(Int) /\ Len(Weights(q, w)) = Len(q)
        /\ \A j \in 1 .. Len(q) : Weights(q, w)[j] = w[q[j]]
        /\ Weight(q, w) = SumFunction(Weights(q, w))
    BY WeightsType, SMTT(30)
  <2> QED
    BY <1>3, <1>5, <2>1
<1>7. /\ g \in Seq(Int) /\ Len(g) = n /\ \A j \in 1 .. n : g[j] = w[r[j]]
      /\ Weight(r, w) = SumFunction(g)
  <2>1. /\ Weights(r, w) \in Seq(Int) /\ Len(Weights(r, w)) = Len(r)
        /\ \A j \in 1 .. Len(r) : Weights(r, w)[j] = w[r[j]]
        /\ Weight(r, w) = SumFunction(Weights(r, w))
    BY WeightsType, SMTT(30)
  <2> QED
    BY <1>3, <1>5, <2>1
<1>8. g = [h EXCEPT ![i] = x]
  <2>1. /\ [h EXCEPT ![i] = x] \in Seq(Int) /\ Len([h EXCEPT ![i] = x]) = n
        /\ \A j \in 1 .. n : [h EXCEPT ![i] = x][j] = IF j = i THEN x ELSE h[j]
    BY <1>3, <1>6, ExceptSeq
  <2>2. ASSUME NEW j \in 1 .. n PROVE g[j] = [h EXCEPT ![i] = x][j]
    <3>1. [h EXCEPT ![i] = x][j] = IF j = i THEN x ELSE h[j]
      BY <2>1
    <3>2. g[j] = w[r[j]] /\ h[j] = w[q[j]]
      BY <1>6, <1>7
    <3>3. j # i => r[j] = q[j]
      BY <1>3
    <3> QED
      BY <1>4, <3>1, <3>2, <3>3
  <2>3. \A j \in 1 .. Len(g) : g[j] = [h EXCEPT ![i] = x][j]
    BY <1>7, <2>2
  <2> QED
    BY <1>7, <2>1, <2>3, SeqEqual
<1>9. SumFunction(g) = SumFunction(h) + x - h[i]
  BY <1>3, <1>6, <1>8, SeqSumSet
<1> QED
  BY <1>3, <1>4, <1>6, <1>7, <1>9

(* Two sequences are put together.                                         *)
LEMMA WeightConcat ==
  ASSUME NEW S, NEW q \in Seq(S), NEW r \in Seq(S), NEW w \in [S -> Int]
  PROVE  Weight(q \o r, w) = Weight(q, w) + Weight(r, w)
<1>1. PICK s : s = q \o r
  OBVIOUS
<1>2. /\ s \in Seq(S) /\ Len(s) = Len(q) + Len(r)
      /\ \A i \in 1 .. Len(q) + Len(r) : s[i] = IF i <= Len(q) THEN q[i] ELSE r[i - Len(q)]
  BY <1>1, ConcatProperties
<1>3. PICK n \in Nat, m \in Nat : n = Len(q) /\ m = Len(r)
  BY LenProperties
<1>n. n \in Nat /\ m \in Nat
  BY <1>3
<1>4. PICK h, g, e : h = Weights(q, w) /\ g = Weights(r, w) /\ e = Weights(s, w)
  OBVIOUS
<1>5. /\ h \in Seq(Int) /\ Len(h) = n /\ \A j \in 1 .. n : h[j] = w[q[j]]
      /\ Weight(q, w) = SumFunction(h)
  BY <1>3, <1>4, WeightsType
<1>6. /\ g \in Seq(Int) /\ Len(g) = m /\ \A j \in 1 .. m : g[j] = w[r[j]]
      /\ Weight(r, w) = SumFunction(g)
  BY <1>3, <1>4, WeightsType
<1>7. /\ e \in Seq(Int) /\ Len(e) = n + m /\ \A j \in 1 .. n + m : e[j] = w[s[j]]
      /\ Weight(s, w) = SumFunction(e)
  <2>1. s \in Seq(S) /\ Len(s) = n + m
    BY <1>2, <1>3
  <2>2. /\ Weights(s, w) \in Seq(Int) /\ Len(Weights(s, w)) = Len(s)
        /\ \A i \in 1 .. Len(s) : Weights(s, w)[i] = w[s[i]]
        /\ Weight(s, w) = SumFunction(Weights(s, w))
    BY <2>1, WeightsType
  <2>3. e = Weights(s, w)
    BY <1>4
  <2> QED
    BY <2>1, <2>2, <2>3
<1>8. e = h \o g
  <2>1. /\ h \o g \in Seq(Int) /\ Len(h \o g) = n + m
        /\ \A i \in 1 .. n + m : (h \o g)[i] = IF i <= n THEN h[i] ELSE g[i - n]
    <3>1. h \in Seq(Int) /\ g \in Seq(Int)
      BY <1>5, <1>6
    <3>2. /\ h \o g \in Seq(Int) /\ Len(h \o g) = Len(h) + Len(g)
          /\ \A i \in 1 .. Len(h) + Len(g) : (h \o g)[i] = IF i <= Len(h) THEN h[i] ELSE g[i - Len(h)]
      BY <3>1, ConcatProperties
    <3>3. Len(h) = n /\ Len(g) = m
      BY <1>5, <1>6
    <3> QED
      BY <3>2, <3>3
  <2>2. ASSUME NEW i \in 1 .. n + m PROVE e[i] = (h \o g)[i]
    <3>1. CASE i <= n
      <4>1. i \in 1 .. n
        BY <1>n, <3>1
      <4>2. (h \o g)[i] = w[q[i]]
        BY <1>5, <2>1, <3>1, <4>1
      <4>3. s[i] = q[i]
        BY <1>2, <1>3, <3>1
      <4>4. e[i] = w[s[i]]
        BY <1>7
      <4> QED
        BY <4>2, <4>3, <4>4
    <3>2. CASE ~(i <= n)
      <4>1. i - n \in 1 .. m
        BY <1>n, <3>2
      <4>2. (h \o g)[i] = w[r[i - n]]
        BY <1>6, <2>1, <3>2, <4>1
      <4> QED
        BY <1>2, <1>3, <1>7, <3>2, <4>2
    <3> QED
      BY <3>1, <3>2
  <2>3. \A i \in 1 .. Len(e) : e[i] = (h \o g)[i]
    BY <1>7, <2>2
  <2> QED
    BY <1>7, <2>1, <2>3, SeqEqual
<1>9. SumFunction(e) = SumFunction(h) + SumFunction(g)
  BY <1>5, <1>6, <1>8, SeqSumConcat
<1> QED
  BY <1>1, <1>5, <1>6, <1>7, <1>9

-----------------------------------------------------------------------------
(* A sum does not depend on the order: what is taken from the end of one   *)
(* sequence is added to the other.                                         *)
LEMMA SeqSumReversed ==
  ASSUME NEW q \in Seq(Int), NEW r \in Seq(Int), Len(r) = Len(q),
         \A i \in 1 .. Len(q) : r[i] = q[Len(q) + 1 - i]
  PROVE  SumFunction(r) = SumFunction(q)
<1>1. PICK n \in Nat : n = Len(q) /\ n = Len(r)
  BY LenProperties
<1> DEFINE T == {k \in 0 .. n : SumFunction(SubSeq(r, 1, k)) + SumFunction(SubSeq(q, 1, n - k))
                                = SumFunction(q)}
<1>2. PICK m \in Int : m = SumFunction(q)
  BY SeqSumType
<1>3. SubSeq(q, 1, 0) = <<>> /\ SubSeq(r, 1, 0) = <<>> /\ SubSeq(q, 1, n) = q /\ SubSeq(r, 1, n) = r
  BY <1>1, SubSeqEmpty, SubSeqFull
<1>4. 0 \in T
  <2>1. SumFunction(SubSeq(r, 1, 0)) = 0 /\ SumFunction(SubSeq(q, 1, n)) = m
    BY <1>2, <1>3, SeqSumType
  <2>2. n - 0 = n /\ 0 \in 0 .. n
    BY <1>1
  <2>3. SumFunction(SubSeq(r, 1, 0)) + SumFunction(SubSeq(q, 1, n - 0)) = 0 + m
    BY <2>1, <2>2
  <2>4. 0 + m = SumFunction(q)
    BY <1>2
  <2> QED
    BY <2>2, <2>3, <2>4
<1>5. ASSUME NEW k \in 0 .. n - 1, k \in T PROVE k + 1 \in T
  <2>1. PICK j \in Nat : /\ j = n - k /\ j - 1 = n - (k + 1) /\ j \in 1 .. n /\ j \in 0 .. n
                         /\ k \in 0 .. n /\ k < n /\ k + 1 \in 1 .. n /\ j > 0
                         /\ n + 1 - (k + 1) = j /\ k + 1 \in 0 .. n /\ j - 1 \in 0 .. n
    <3>0. n - k \in Int
      BY <1>1
    <3>1. PICK j \in Int : j = n - k
      BY <3>0
    <3>2. /\ j \in Nat /\ j - 1 = n - (k + 1) /\ j \in 1 .. n /\ j \in 0 .. n
          /\ k \in 0 .. n /\ k < n /\ k + 1 \in 1 .. n /\ j > 0
          /\ n + 1 - (k + 1) = j /\ k + 1 \in 0 .. n /\ j - 1 \in 0 .. n
      BY <1>1, <3>1
    <3> QED
      BY <3>1, <3>2
  <2>2. PICK x \in Int : x = r[k + 1] /\ x = q[j]
    <3>1. r[k + 1] = q[j]
      BY <1>1, <2>1
    <3>2. q[j] \in Int
      BY <1>1, <2>1, ElementOfSeq
    <3> QED
      BY <3>1, <3>2
  <2>3. PICK a, b : a = SubSeq(r, 1, k) /\ b = SubSeq(q, 1, j - 1)
    OBVIOUS
  <2>4. a \in Seq(Int) /\ SubSeq(r, 1, k + 1) = Append(a, x)
    <3>1. k \in 0 .. Len(r) /\ k < Len(r)
      BY <1>1, <2>1
    <3>2. Append(SubSeq(r, 1, k), r[k + 1]) = SubSeq(r, 1, k + 1)
      BY <3>1, PrefixAppend
    <3>3. SubSeq(r, 1, k) \in Seq(Int)
      BY <3>1, PrefixOfSeq
    <3> QED
      BY <2>2, <2>3, <3>2, <3>3
  <2>5. b \in Seq(Int) /\ SubSeq(q, 1, j) = Append(b, x)
    <3>1. j \in 0 .. Len(q) /\ j > 0 /\ j - 1 \in 0 .. Len(q)
      BY <1>1, <2>1
    <3>2. Append(SubSeq(q, 1, j - 1), q[j]) = SubSeq(q, 1, j)
      BY <3>1, PrefixOfSeq
    <3>3. SubSeq(q, 1, j - 1) \in Seq(Int)
      BY <3>1, PrefixOfSeq
    <3> QED
      BY <2>2, <2>3, <3>2, <3>3
  <2>6. PICK u \in Int, v \in Int : u = SumFunction(a) /\ v = SumFunction(b)
    BY <2>4, <2>5, SeqSumType
  <2>7. SumFunction(Append(a, x)) = u + x /\ SumFunction(Append(b, x)) = v + x
    BY <2>4, <2>5, <2>6, SeqSumAppend
  <2>8. u + (v + x) = m
    BY <1>2, <1>5, <2>1, <2>3, <2>5, <2>6, <2>7
  <2>9. (u + x) + v = m
    BY <2>8
  <2>10. SumFunction(SubSeq(r, 1, k + 1)) + SumFunction(SubSeq(q, 1, n - (k + 1))) = (u + x) + v
    BY <2>1, <2>3, <2>4, <2>6, <2>7
  <2> QED
    BY <1>2, <2>1, <2>9, <2>10
<1> HIDE DEF T
<1>6. n \in T
  <2>1. \A i \in 0 .. n : i \in T
    BY <1>1, <1>4, <1>5, UpTo
  <2> QED
    BY <1>1, <2>1
<1>7. SumFunction(SubSeq(r, 1, n)) + SumFunction(SubSeq(q, 1, n - n)) = m
  BY <1>2, <1>6 DEF T
<1>8. PICK t \in Int : t = SumFunction(r)
  BY SeqSumType
<1>9. n - n = 0 /\ SumFunction(SubSeq(q, 1, 0)) = 0
  <2>1. n - n = 0
    BY <1>1
  <2>2. SumFunction(SubSeq(q, 1, 0)) = 0
    BY <1>3, SeqSumType
  <2> QED
    BY <2>1, <2>2
<1>10. t + 0 = m
  BY <1>3, <1>7, <1>8, <1>9
<1> QED
  BY <1>2, <1>8, <1>10
=============================================================================
