-------------------------- MODULE ThreadAffinityProofs ------------------------
(***************************************************************************)
(* Proofs about ThreadAffinity, for any number of threads, pools and       *)
(* objects, and any graph of objects that client code may build.           *)
(***************************************************************************)
EXTENDS ThreadAffinity, SumLemmas

-----------------------------------------------------------------------------
(* The inductive invariant.                                                *)

(* What a walk that starts at o visits: the least set that o is in and     *)
(* that has, with an object, what the walk goes on to from there.          *)
Closed(S) == \A x \in S : Walked(x) \subseteq S

Reach(o) == {x \in Obj : \A S \in SUBSET Obj : o \in S /\ Closed(S) => x \in S}

(* Those who carry objects from one thread to another: threads that walk,  *)
(* and, as HasNoThread, the atomic variable.                               *)
Carrier == Thread \cup {HasNoThread}

Walking(t) == call[t].op \in {"relinquish", "gain"}

Cargo(p) ==
  IF p = HasNoThread
  THEN IF available = None THEN {} ELSE Reach(available)
  ELSE IF Walking(p) THEN Reach(call[p].obj) ELSE {}

(* The objects that a relinquish is in the midst of.                       *)
OnStack(t) == {call[t].stack[i].obj : i \in 2 .. Len(call[t].stack)}

(* The part of a cargo that a relinquish has retained and no gain has      *)
(* autoreleased yet.                                                       *)
Package(p) ==
  IF p = HasNoThread THEN Cargo(p)
  ELSE IF call[p].op = "relinquish" THEN call[p].uniquing \ OnStack(p)
  ELSE IF call[p].op = "gain" THEN Cargo(p) \ call[p].uniquing ELSE {}

Packed(o) == {p \in Carrier : o \in Package(p)}

(* Each package has one reference to what is in it.                        *)
BalancedAt(o) == retainCount[o] = References(o) + Cardinality(Packed(o))

Balanced == \A o \in Obj : BalancedAt(o)

(* Objects that are packed are in limbo, the rest of a cargo is its        *)
(* carrier's, unless it never changes its affinity.                        *)
HomeAt(p, x) ==
  IF Bypass(x) THEN thread_id[x] # HasNoThread
  ELSE thread_id[x] \in {IsThreadSafe, IF x \in Package(p) THEN HasNoThread ELSE p}

Homes == \A p \in Carrier : \A x \in Cargo(p) : HomeAt(p, x)

Affine(x) == ~Bypass(x) /\ thread_id[x] # IsThreadSafe

(* An object with an affinity is in one cargo, and its holder with it.     *)
ApartAt(p, x) ==
  Affine(x) => Holders(x) \subseteq Cargo(p) /\ \A q \in Carrier \ {p} : x \notin Cargo(q)

Apart == \A p \in Carrier : \A x \in Cargo(p) : ApartAt(p, x)

(* A carrier has references to what it has not packed.                     *)
BackedAt(t, x) ==
  \/ InPools(t, x)
  \/ /\ call[t].op = "relinquish"
     /\ \E h \in Cargo(t) : x \in Walked(h) /\ (thread_id[x] = IsThreadSafe => h \notin Package(t))

Backed == \A t \in Thread : \A x \in Cargo(t) \ Package(t) : ~Bypass(x) => BackedAt(t, x)

(* What lives and has no thread is on its way.                             *)
LimboAt(x) ==
  retainCount[x] > 0 /\ thread_id[x] = HasNoThread
    => ~Bypass(x) /\ \E p \in Carrier : x \in Package(p)

Limbo == \A x \in Obj : LimboAt(x)

ThreadSafeStays ==
  \A x \in Obj : strategy[x] = "KnownThreadSafe" => thread_id[x] \in {IsThreadSafe, HasNoThread}

(* Who holds an object that is not thread safe is the only one, takes it   *)
(* along, and out of as many pools.                                        *)
HeldAt(o, c) ==
  /\ retainCount[o] > 0 /\ thread_id[o] # IsThreadSafe /\ strategy[o] # "KnownThreadSafe"
  /\ strategy[c] # "KnownThreadSafe" =>
       Walks(o) /\ (LeavesPools(c) => LeavesPools(o)) /\ Holders(c) = {o}

Held == \A o \in Obj : \A c \in ivars[o] : HeldAt(o, c)

(* GraphFollows, for threads that walk as well.                            *)
FollowsAt(t, o, c) ==
  thread_id[o] = t /\ o \notin Cargo(t) /\ ~Bypass(c) => thread_id[c] \in {t, IsThreadSafe}

Follows == \A t \in Thread, o \in Obj : \A c \in ivars[o] : FollowsAt(t, o, c)

(* The walks.                                                              *)
StackFits(s, o, U) ==
  /\ Len(s) >= 1 /\ s[1].obj = None /\ s[1].left \subseteq {o} /\ o \in U \cup s[1].left
  /\ U \subseteq Reach(o)
  /\ \A i \in 2 .. Len(s) : s[i].obj \in U /\ s[i].left \subseteq Walked(s[i].obj)
  /\ \A i \in 2 .. Len(s), j \in 2 .. Len(s) : i # j => s[i].obj # s[j].obj
  /\ \A i \in 2 .. Len(s) - 1 : Walked(s[i].obj) # {}
  /\ \A x \in U : \A c \in Walked(x) :
       c \in U \/ \E i \in 2 .. Len(s) : s[i].obj = x /\ c \in s[i].left

CallFits(t) ==
  /\ call[t].op \in {"relinquish", "gain", "acquire"} => call[t].obj \in Obj
  /\ Walking(t) => StackFits(call[t].stack, call[t].obj, call[t].uniquing)

CallsFit == \A t \in Thread : CallFits(t)

(* Only what was pushed is popped.                                         *)
Popping == \A t \in Thread : call[t].op = "pop" => Len(pools[t]) > 1

Inv ==
  /\ TypeOK /\ NoForeignAccess /\ PoolsAreAffine
  /\ Balanced /\ Homes /\ Apart /\ Backed /\ Limbo
  /\ ThreadSafeStays /\ Held /\ Follows /\ CallsFit

-----------------------------------------------------------------------------
(* Cargos.                                                                 *)

(* What a walk visits is closed, and the least such set.                   *)
LEMMA ReachIsLeast ==
  ASSUME NEW o \in Obj, \A x \in Obj : Walked(x) \subseteq Obj
  PROVE  /\ o \in Reach(o) /\ Reach(o) \in SUBSET Obj /\ Closed(Reach(o))
         /\ \A S \in SUBSET Obj : o \in S /\ Closed(S) => Reach(o) \subseteq S
<1>1. o \in Reach(o) /\ Reach(o) \in SUBSET Obj
  BY DEF Reach
<1>2. ASSUME NEW x \in Reach(o), NEW c \in Walked(x) PROVE c \in Reach(o)
  <2>1. c \in Obj
    BY <1>1
  <2>2. ASSUME NEW S \in SUBSET Obj, o \in S, Closed(S) PROVE c \in S
    <3>1. x \in S
      BY <2>2 DEF Reach
    <3> QED
      BY <2>2, <3>1 DEF Closed
  <2> QED
    BY <2>1, <2>2 DEF Reach
<1>3. Closed(Reach(o))
  BY <1>2 DEF Closed
<1> QED
  BY <1>1, <1>3 DEF Reach

(* All but the first object of a walk are found in another one.            *)
LEMMA ReachHasHolder ==
  ASSUME NEW o \in Obj, \A x \in Obj : Walked(x) \subseteq Obj,
         NEW x \in Reach(o), x # o
  PROVE  \E h \in Reach(o) : x \in Walked(h)
<1> DEFINE S == {y \in Reach(o) : y = o \/ \E h \in Reach(o) : y \in Walked(h)}
<1>1. o \in Reach(o) /\ Reach(o) \in SUBSET Obj /\ Closed(Reach(o))
  BY ReachIsLeast
<1>2. S \in SUBSET Obj /\ o \in S
  BY <1>1
<1>3. Closed(S)
  BY <1>1 DEF Closed
<1> HIDE DEF S
<1>4. Reach(o) \subseteq S
  BY <1>2, <1>3, ReachIsLeast
<1> QED
  BY <1>4 DEF S

(* A walk stays the same as long as what it comes across does.             *)
LEMMA ReachStays ==
  ASSUME NEW o \in Obj, \A x \in Obj : Walked(x) \subseteq Obj,
         \A x \in Obj : (Walked(x) \subseteq Obj)',
         \A x \in Reach(o) : Walked(x)' = Walked(x)
  PROVE  Reach(o)' = Reach(o)
<1>1. /\ o \in Reach(o) /\ Reach(o) \in SUBSET Obj /\ Closed(Reach(o))
      /\ \A S \in SUBSET Obj : o \in S /\ Closed(S) => Reach(o) \subseteq S
  BY ReachIsLeast
<1>2. PICK R : R = Reach(o)'
  OBVIOUS
<1>3. /\ o \in R /\ R \in SUBSET Obj /\ \A x \in R : Walked(x)' \subseteq R
      /\ \A S \in SUBSET Obj : o \in S /\ (\A x \in S : Walked(x)' \subseteq S) => R \subseteq S
  <2>1. \A x \in R : Walked(x)' \subseteq R
    <3>1. ASSUME NEW x \in R, NEW c \in Walked(x)' PROVE c \in R
      <4>1. x \in Obj /\ c \in Obj
        BY <1>2 DEF Reach
      <4>2. ASSUME NEW S \in SUBSET Obj, o \in S, Closed(S)' PROVE c \in S
        <5>1. x \in S
          BY <1>2, <4>2 DEF Reach
        <5> QED
          BY <4>2, <5>1 DEF Closed
      <4> QED
        BY <1>2, <4>1, <4>2 DEF Reach
    <3> QED
      BY <3>1
  <2> QED
    BY <1>2, <2>1 DEF Reach, Closed
<1>4. R \subseteq Reach(o)
  BY <1>1, <1>3 DEF Closed
<1>5. Reach(o) \subseteq R
  <2>1. o \in R \cap Reach(o) /\ R \cap Reach(o) \in SUBSET Obj
    BY <1>1, <1>3
  <2>2. Closed(R \cap Reach(o))
    BY <1>1, <1>3 DEF Closed
  <2> QED
    BY <1>1, <2>1, <2>2
<1> QED
  BY <1>2, <1>4, <1>5

-----------------------------------------------------------------------------
(* References in pools.                                                    *)

Pools == Seq([Obj -> Nat])

(* How often an object is in the pools of one thread, and of all.          *)
InPool(q, o) == SumFunction([i \in DOMAIN q |-> q[i][o]])

PoolTotal(P, o) == SumFunction([t \in Thread |-> InPool(P[t], o)])

(* A count in the pools of a thread is positive if one of them has the     *)
(* object.                                                                 *)
LEMMA InPoolType ==
  ASSUME NEW q \in Pools, NEW o \in Obj
  PROVE  /\ InPool(q, o) \in Nat
         /\ \A i \in 1 .. Len(q) : q[i][o] \in Nat /\ q[i][o] <= InPool(q, o)
         /\ (InPool(q, o) > 0) <=> \E i \in 1 .. Len(q) : q[i][o] > 0
<1>1. PICK n \in Nat : n = Len(q)
  BY LenProperties DEF Pools
<1>2. DOMAIN q = 1 .. n /\ \A i \in 1 .. n : q[i] \in [Obj -> Nat]
  BY <1>1, LenProperties DEF Pools
<1>3. PICK f : f = [i \in 1 .. n |-> q[i][o]]
  OBVIOUS
<1>4. f \in [1 .. n -> Nat] /\ f \in [1 .. n -> Int] /\ IsFiniteSet(1 .. n)
  BY <1>2, <1>3, FS_Interval
<1>5. SumFunction(f) \in Nat /\ \A i \in 1 .. n : f[i] <= SumFunction(f)
  BY <1>4, SumNat
<1>6. InPool(q, o) = SumFunction(f)
  BY <1>2, <1>3 DEF InPool
<1>7. ASSUME \A i \in 1 .. n : ~(q[i][o] > 0) PROVE SumFunction(f) = 0
  <2>1. ASSUME NEW i \in 1 .. n PROVE f[i] = 0
    <3>1. f[i] \in Nat /\ ~(f[i] > 0)
      BY <1>3, <1>4, <1>7
    <3> QED
      BY <3>1
  <2> QED
    BY <1>4, <2>1, SumZero
<1>8. ASSUME NEW i \in 1 .. n, q[i][o] > 0 PROVE SumFunction(f) > 0
  <2>1. f[i] \in Nat /\ f[i] > 0 /\ f[i] <= SumFunction(f)
    BY <1>3, <1>4, <1>5, <1>8
  <2> QED
    BY <1>5, <2>1
<1>9. \A i \in 1 .. n : q[i][o] \in Nat /\ q[i][o] <= SumFunction(f)
  BY <1>3, <1>4, <1>5
<1>10. (SumFunction(f) > 0) <=> \E i \in 1 .. n : q[i][o] > 0
  <2>1. SumFunction(f) = 0 => ~(SumFunction(f) > 0)
    OBVIOUS
  <2> QED
    BY <1>7, <1>8, <2>1
<1> QED
  BY <1>1, <1>5, <1>6, <1>9, <1>10

(* One pool changes.                                                       *)
LEMMA InPoolChange ==
  ASSUME NEW q \in Pools, NEW r \in Pools, NEW o \in Obj,
         Len(r) = Len(q), NEW k \in 1 .. Len(q),
         \A i \in (1 .. Len(q)) \ {k} : r[i][o] = q[i][o]
  PROVE  InPool(r, o) = InPool(q, o) + r[k][o] - q[k][o]
<1>1. PICK n \in Nat : n = Len(q) /\ n = Len(r)
  BY LenProperties DEF Pools
<1>2. /\ DOMAIN q = 1 .. n /\ DOMAIN r = 1 .. n
      /\ \A i \in 1 .. n : q[i] \in [Obj -> Nat] /\ r[i] \in [Obj -> Nat]
  BY <1>1, LenProperties DEF Pools
<1>3. PICK f : f = [i \in 1 .. n |-> q[i][o]]
  OBVIOUS
<1>4. PICK g : g = [i \in 1 .. n |-> r[i][o]]
  OBVIOUS
<1>5. f \in [1 .. n -> Int] /\ g \in [1 .. n -> Int] /\ IsFiniteSet(1 .. n)
  <2>1. IsFiniteSet(1 .. n)
    BY FS_Interval
  <2>2. \A i \in 1 .. n : q[i][o] \in Int /\ r[i][o] \in Int
    BY <1>2
  <2> QED
    BY <1>3, <1>4, <2>1, <2>2
<1>6. SumFunction(g) = SumFunction(f) + g[k] - f[k]
  <2>1. \A i \in (1 .. n) \ {k} : f[i] = g[i]
    BY <1>1, <1>3, <1>4
  <2>2. k \in 1 .. n
    BY <1>1
  <2> QED
    BY <1>5, <2>1, <2>2, SumChange
<1> QED
  BY <1>1, <1>2, <1>3, <1>4, <1>6 DEF InPool

(* A pool is pushed.                                                       *)
LEMMA InPoolAppend ==
  ASSUME NEW q \in Pools, NEW p \in [Obj -> Nat], NEW o \in Obj
  PROVE  Append(q, p) \in Pools /\ InPool(Append(q, p), o) = InPool(q, o) + p[o]
<1>1. PICK n \in Nat : n = Len(q)
  BY LenProperties DEF Pools
<1>2. PICK r : r = Append(q, p)
  OBVIOUS
<1>3. /\ r \in Pools /\ Len(r) = n + 1 /\ \A i \in 1 .. n : r[i] = q[i]
      /\ r[n + 1] = p
  BY <1>1, <1>2, AppendProperties DEF Pools
<1>4. /\ DOMAIN q = 1 .. n /\ DOMAIN r = 1 .. n + 1
      /\ \A i \in 1 .. n : q[i] \in [Obj -> Nat]
  BY <1>1, <1>3, LenProperties DEF Pools
<1>5. PICK f : f = [i \in 1 .. n |-> q[i][o]]
  OBVIOUS
<1>6. PICK g : g = [i \in 1 .. n + 1 |-> r[i][o]]
  OBVIOUS
<1>7. /\ f \in Seq(Int) /\ Len(f) = n /\ g \in Seq(Int) /\ Len(g) = n + 1
      /\ \A i \in 1 .. n : g[i] = f[i]
      /\ g[n + 1] = p[o] /\ p[o] \in Int
  <2>1. \A i \in 1 .. n : i \in 1 .. n + 1 /\ q[i][o] \in Int /\ r[i][o] = q[i][o]
    BY <1>3, <1>4
  <2>2. n + 1 \in 1 .. n + 1 /\ r[n + 1][o] = p[o] /\ p[o] \in Int
    BY <1>3
  <2>3. \A i \in 1 .. n + 1 : r[i][o] \in Int
    <3>1. \A i \in 1 .. n + 1 : i \in 1 .. n \/ i = n + 1
      OBVIOUS
    <3> QED
      BY <2>1, <2>2, <3>1
  <2>4. f \in Seq(Int) /\ Len(f) = n /\ \A i \in 1 .. n : f[i] = q[i][o]
    BY <1>5, <2>1
  <2>5. g \in Seq(Int) /\ Len(g) = n + 1 /\ \A i \in 1 .. n + 1 : g[i] = r[i][o]
    BY <1>6, <2>3
  <2> QED
    BY <2>1, <2>2, <2>4, <2>5
<1>8. g = Append(f, p[o])
  BY <1>7
<1>9. SumFunction(g) = SumFunction(f) + p[o]
  BY <1>7, <1>8, SeqSumAppend
<1> QED
  BY <1>2, <1>3, <1>4, <1>5, <1>6, <1>9 DEF InPool

(* A pool is popped.                                                       *)
LEMMA InPoolPop ==
  ASSUME NEW q \in Pools, Len(q) > 0, NEW o \in Obj, NEW s, s = SubSeq(q, 1, Len(q) - 1)
  PROVE  /\ s \in Pools /\ Len(s) = Len(q) - 1
         /\ InPool(s, o) = InPool(q, o) - q[Len(q)][o]
<1>1. PICK n \in Nat : n = Len(q) /\ n > 0
  BY LenProperties DEF Pools
<1>2. PICK m \in Nat : m = n - 1 /\ n = m + 1 /\ m \in 0 .. Len(q)
  BY <1>1
<1>3. PICK r : r = SubSeq(q, 1, m)
  OBVIOUS
<1>4. r \in Pools /\ Len(r) = m /\ q = Append(r, q[n])
  <2>1. r \in Pools /\ Len(r) = m
    BY <1>2, <1>3, PrefixOfSeq DEF Pools
  <2>2. m < Len(q)
    BY <1>1, <1>2
  <2>3. Append(SubSeq(q, 1, m), q[m + 1]) = SubSeq(q, 1, m + 1)
    BY <1>2, <2>2, PrefixAppend DEF Pools
  <2>4. n \in 0 .. Len(q) /\ n = Len(q)
    BY <1>1
  <2>5. SubSeq(q, 1, n) = q
    BY <2>4, PrefixOfSeq DEF Pools
  <2> QED
    BY <1>2, <1>3, <2>1, <2>3, <2>5
<1>5. q[n] \in [Obj -> Nat]
  BY <1>1, ElementOfSeq DEF Pools
<1>6. InPool(q, o) = InPool(r, o) + q[n][o]
  BY <1>4, <1>5, InPoolAppend
<1>7. PICK a \in Nat, b \in Nat, c \in Nat :
        a = InPool(q, o) /\ b = InPool(r, o) /\ c = q[n][o]
  BY <1>4, <1>5, InPoolType
<1>8. b = a - c
  BY <1>6, <1>7
<1> QED
  BY <1>1, <1>2, <1>3, <1>4, <1>7, <1>8

(* The counts of some of the pools: of none, of one, and of all.           *)
LEMMA InPoolParts ==
  ASSUME NEW q \in Pools, NEW o \in Obj, NEW k \in 1 .. Len(q)
  PROVE  /\ SumFunction([i \in {} |-> q[i][o]]) = 0
         /\ SumFunction([i \in {k} |-> q[i][o]]) = q[k][o]
         /\ SumFunction([i \in 1 .. Len(q) |-> q[i][o]]) = InPool(q, o)
<1>1. DOMAIN q = 1 .. Len(q) /\ q[k] \in [Obj -> Nat]
  BY LenProperties, ElementOfSeq DEF Pools
<1>2. SumFunction([i \in {} |-> q[i][o]]) = 0
  BY SumZero, FS_EmptySet
<1>3. PICK f : f = [i \in {k} |-> q[i][o]]
  OBVIOUS
<1>4. f \in [{k} -> Int] /\ IsFiniteSet({k}) /\ f[k] = q[k][o] /\ {k} \ {k} = {}
  <2>1. q[k][o] \in Int
    BY <1>1
  <2> QED
    BY <1>3, <2>1, FS_Singleton
<1>5. SumFunction(f) = SumFunctionOnSet(f, {}) + f[k] /\ SumFunctionOnSet(f, {}) = 0
  <2>1. SumFunction(f) = SumFunctionOnSet(f, {k} \ {k}) + f[k]
    BY <1>4, SumApart
  <2>2. SumFunctionOnSet(f, {}) = 0
    BY <1>4, SumAdd
  <2> QED
    BY <1>4, <2>1, <2>2
<1> QED
  BY <1>1, <1>2, <1>3, <1>4, <1>5 DEF InPool

(* The pools of all threads.                                               *)
LEMMA PoolTotalType ==
  ASSUME NEW P \in [Thread -> Pools], NEW o \in Obj
  PROVE  PoolTotal(P, o) \in Nat /\ \A t \in Thread : InPool(P[t], o) <= PoolTotal(P, o)
<1>1. IsFiniteSet(Thread)
  BY AffinityAssumption
<1>2. PICK f : f = [t \in Thread |-> InPool(P[t], o)]
  OBVIOUS
<1>3. \A t \in Thread : P[t] \in Pools
  OBVIOUS
<1>4. f \in [Thread -> Nat]
  BY <1>2, <1>3, InPoolType
<1>5. SumFunction(f) \in Nat /\ \A t \in Thread : f[t] <= SumFunction(f)
  BY <1>1, <1>4, SumNat
<1> QED
  BY <1>2, <1>5 DEF PoolTotal

(* One thread changes its pools.                                           *)
LEMMA PoolTotalChange ==
  ASSUME NEW P \in [Thread -> Pools], NEW R \in [Thread -> Pools], NEW o \in Obj,
         NEW t \in Thread, \A u \in Thread \ {t} : R[u] = P[u]
  PROVE  PoolTotal(R, o) = PoolTotal(P, o) + InPool(R[t], o) - InPool(P[t], o)
<1>1. IsFiniteSet(Thread)
  BY AffinityAssumption
<1>2. PICK f : f = [u \in Thread |-> InPool(P[u], o)]
  OBVIOUS
<1>3. PICK g : g = [u \in Thread |-> InPool(R[u], o)]
  OBVIOUS
<1>4. \A u \in Thread : P[u] \in Pools /\ R[u] \in Pools
  OBVIOUS
<1>5. \A u \in Thread : InPool(P[u], o) \in Int /\ InPool(R[u], o) \in Int
  <2>1. \A u \in Thread : InPool(P[u], o) \in Nat /\ InPool(R[u], o) \in Nat
    BY <1>4, InPoolType
  <2> QED
    BY <2>1
<1>6. f \in [Thread -> Int] /\ g \in [Thread -> Int]
  BY <1>2, <1>3, <1>5
<1>7. \A u \in Thread \ {t} : f[u] = g[u]
  BY <1>2, <1>3
<1>8. SumFunction(g) = SumFunction(f) + g[t] - f[t]
  BY <1>1, <1>6, <1>7, SumChange
<1> QED
  BY <1>2, <1>3, <1>8 DEF PoolTotal

(* Two threads that have the object have two references.                   *)
LEMMA PoolTotalTwo ==
  ASSUME NEW P \in [Thread -> Pools], NEW o \in Obj, NEW t \in Thread, NEW u \in Thread,
         t # u
  PROVE  PoolTotal(P, o) >= InPool(P[t], o) + InPool(P[u], o)
<1>1. PICK R : R = [P EXCEPT ![t] = <<>>]
  OBVIOUS
<1>2. <<>> \in Pools /\ Len(<<>>) = 0
  BY DEF Pools
<1>3. R \in [Thread -> Pools] /\ R[t] = <<>> /\ \A v \in Thread \ {t} : R[v] = P[v]
  BY <1>1, <1>2
<1>4. InPool(<<>>, o) = 0
  <2>1. InPool(<<>>, o) \in Nat /\ ~(InPool(<<>>, o) > 0)
    BY <1>2, InPoolType
  <2> QED
    BY <2>1
<1>5. PoolTotal(R, o) = PoolTotal(P, o) + InPool(R[t], o) - InPool(P[t], o)
  BY <1>3, PoolTotalChange
<1>6. PICK a \in Nat, b \in Nat, c \in Nat, d \in Nat :
        /\ a = PoolTotal(P, o) /\ b = PoolTotal(R, o)
        /\ c = InPool(P[t], o) /\ d = InPool(P[u], o)
  <2>1. P[t] \in Pools /\ P[u] \in Pools
    OBVIOUS
  <2> QED
    BY <1>3, <2>1, PoolTotalType, InPoolType
<1>7. d <= b
  <2>1. R[u] = P[u]
    BY <1>3
  <2>2. InPool(R[u], o) <= PoolTotal(R, o)
    BY <1>3, PoolTotalType
  <2> QED
    BY <1>6, <2>1, <2>2
<1>8. b = a - c
  BY <1>3, <1>4, <1>5, <1>6
<1>9. a >= c + d
  BY <1>7, <1>8
<1> QED
  BY <1>6, <1>9

(* Only the pool k of t has another count of o.                            *)
OneCount(P, R, t, k, o) ==
  /\ \A u \in Thread \ {t} : R[u] = P[u]
  /\ Len(R[t]) = Len(P[t]) /\ k \in 1 .. Len(P[t])
  /\ \A i \in (1 .. Len(P[t])) \ {k} : R[t][i][o] = P[t][i][o]

(* Its change is that of the totals.                                       *)
Recounted(P, R, t, k, o) ==
  /\ PoolTotal(R, o) = PoolTotal(P, o) + R[t][k][o] - P[t][k][o]
  /\ InPool(R[t], o) = InPool(P[t], o) + R[t][k][o] - P[t][k][o]
  /\ R[t][k][o] \in Nat /\ P[t][k][o] \in Nat

(* A thread changes the count of one of its pools.                         *)
LEMMA PoolTotalSet ==
  ASSUME NEW P \in [Thread -> Pools], NEW R \in [Thread -> Pools], NEW o \in Obj,
         NEW t \in Thread, NEW k, OneCount(P, R, t, k, o)
  PROVE  Recounted(P, R, t, k, o)
<1>1. P[t] \in Pools /\ R[t] \in Pools /\ k \in 1 .. Len(R[t]) /\ k \in 1 .. Len(P[t])
  BY DEF OneCount
<1>2. PICK a \in Nat, b \in Nat, c \in Nat, d \in Nat, x \in Nat, y \in Nat :
        /\ a = PoolTotal(P, o) /\ b = PoolTotal(R, o)
        /\ c = InPool(P[t], o) /\ d = InPool(R[t], o)
        /\ x = P[t][k][o] /\ y = R[t][k][o]
  BY <1>1, PoolTotalType, InPoolType
<1>0. \A u \in Thread \ {t} : R[u] = P[u]
  BY DEF OneCount
<1>3. b = a + d - c
  BY <1>0, <1>2, PoolTotalChange
<1>4. d = c + y - x
  <2>0. Len(R[t]) = Len(P[t]) /\ \A i \in (1 .. Len(P[t])) \ {k} : R[t][i][o] = P[t][i][o]
    BY DEF OneCount
  <2>1. InPool(R[t], o) = InPool(P[t], o) + R[t][k][o] - P[t][k][o]
    BY <1>1, <2>0, InPoolChange
  <2> QED
    BY <1>2, <2>1
<1>5. b = a + y - x
  BY <1>3, <1>4
<1> QED
  BY <1>2, <1>4, <1>5 DEF Recounted

(* A thread changes its tail pool, and with it the totals.                 *)
TailSet(P, t, n, w, R) == n = Len(P[t]) /\ n > 0 /\ R = [P EXCEPT ![t][n] = w]

TailCounts(P, t, n, w, R) ==
  /\ R \in [Thread -> Pools] /\ \A u \in Thread : Len(R[u]) = Len(P[u])
  /\ \A u \in Thread \ {t} : R[u] = P[u]
  /\ P[t][n] \in [Obj -> Nat]
  /\ \A x \in Obj :
       /\ w[x] \in Nat /\ P[t][n][x] \in Nat
       /\ PoolTotal(R, x) = PoolTotal(P, x) + w[x] - P[t][n][x]
       /\ InPool(R[t], x) = InPool(P[t], x) + w[x] - P[t][n][x]

LEMMA TailChange ==
  ASSUME NEW P \in [Thread -> Pools], NEW t \in Thread, NEW n \in Nat,
         NEW w \in [Obj -> Nat], NEW R, TailSet(P, t, n, w, R)
  PROVE  TailCounts(P, t, n, w, R)
<1>0. n = Len(P[t]) /\ n > 0 /\ R = [P EXCEPT ![t][n] = w]
  BY DEF TailSet
<1>1. P[t] \in Seq([Obj -> Nat]) /\ n \in 1 .. Len(P[t])
  BY <1>0 DEF Pools
<1>2. PICK q : q = [P[t] EXCEPT ![n] = w]
  OBVIOUS
<1>3. /\ q \in Pools /\ Len(q) = Len(P[t]) /\ q[n] = w /\ P[t][n] \in [Obj -> Nat]
      /\ \A i \in (1 .. Len(P[t])) \ {n} : q[i] = P[t][i]
  BY <1>1, <1>2 DEF Pools
<1>4. R = [P EXCEPT ![t] = q]
  BY <1>0, <1>2
<1>5. R[t] = q /\ \A u \in Thread \ {t} : R[u] = P[u]
  BY <1>4
<1>6. R \in [Thread -> Pools] /\ \A u \in Thread : Len(R[u]) = Len(P[u])
  BY <1>3, <1>4, <1>5
<1>7. ASSUME NEW x \in Obj
      PROVE  /\ w[x] \in Nat /\ P[t][n][x] \in Nat
             /\ PoolTotal(R, x) = PoolTotal(P, x) + w[x] - P[t][n][x]
             /\ InPool(R[t], x) = InPool(P[t], x) + w[x] - P[t][n][x]
  <2>1. Len(R[t]) = Len(P[t]) /\ R[t][n] = w
    BY <1>3, <1>5
  <2>2. \A i \in (1 .. Len(P[t])) \ {n} : R[t][i][x] = P[t][i][x]
    BY <1>3, <1>5
  <2>3. P \in [Thread -> Pools] /\ R \in [Thread -> Pools] /\ n \in 1 .. Len(P[t])
    BY <1>1, <1>6
  <2>4. /\ PoolTotal(R, x) = PoolTotal(P, x) + R[t][n][x] - P[t][n][x]
        /\ InPool(R[t], x) = InPool(P[t], x) + R[t][n][x] - P[t][n][x]
        /\ R[t][n][x] \in Nat /\ P[t][n][x] \in Nat
    <3>1. OneCount(P, R, t, n, x)
      BY <1>5, <2>1, <2>2, <2>3 DEF OneCount
    <3>2. Recounted(P, R, t, n, x)
      BY <2>3, <3>1, PoolTotalSet
    <3> QED
      BY <3>2 DEF Recounted
  <2> QED
    BY <2>1, <2>4
<1> QED
  BY <1>3, <1>5, <1>6, <1>7 DEF TailCounts

-----------------------------------------------------------------------------
(* References.                                                             *)

(* What References counts, before a step and after it.                     *)
LEMMA Counted ==
  ASSUME TypeOK
  PROVE  \A x \in Obj :
           /\ References(x) = PoolTotal(pools, x) + Cardinality(Holders(x))
           /\ PoolTotal(pools, x) \in Nat /\ Cardinality(Holders(x)) \in Nat
           /\ IsFiniteSet(Holders(x)) /\ Cardinality(Packed(x)) \in Nat /\ IsFiniteSet(Packed(x))
           /\ References(x) \in Nat
           /\ \A t \in Thread : InPools(t, x) <=> InPool(pools[t], x) > 0
<1> SUFFICES ASSUME NEW x \in Obj
             PROVE /\ References(x) = PoolTotal(pools, x) + Cardinality(Holders(x))
                   /\ PoolTotal(pools, x) \in Nat /\ Cardinality(Holders(x)) \in Nat
                   /\ IsFiniteSet(Holders(x)) /\ Cardinality(Packed(x)) \in Nat
                   /\ IsFiniteSet(Packed(x)) /\ References(x) \in Nat
                   /\ \A t \in Thread : InPools(t, x) <=> InPool(pools[t], x) > 0
  OBVIOUS
<1>1. pools \in [Thread -> Pools]
  BY DEF TypeOK, Pools
<1>2. References(x) = PoolTotal(pools, x) + Cardinality(Holders(x))
  BY DEF References, PoolRefs, PoolTotal, InPool
<1>3. PoolTotal(pools, x) \in Nat
  BY <1>1, PoolTotalType
<1>4. IsFiniteSet(Holders(x)) /\ Cardinality(Holders(x)) \in Nat
  <2>1. Holders(x) \subseteq Obj /\ IsFiniteSet(Obj)
    BY AffinityAssumption DEF Holders
  <2> QED
    BY <2>1, FS_Subset, FS_CardinalityType
<1>5. IsFiniteSet(Packed(x)) /\ Cardinality(Packed(x)) \in Nat
  <2>1. Packed(x) \subseteq Carrier /\ IsFiniteSet(Carrier)
    BY AffinityAssumption, FS_AddElement DEF Packed, Carrier
  <2> QED
    BY <2>1, FS_Subset, FS_CardinalityType
<1>6. \A t \in Thread : InPools(t, x) <=> InPool(pools[t], x) > 0
  <2>1. \A t \in Thread : pools[t] \in Pools
    BY <1>1
  <2> QED
    BY <2>1, InPoolType DEF InPools
<1> QED
  BY <1>2, <1>3, <1>4, <1>5, <1>6

LEMMA CountedNext ==
  ASSUME TypeOK'
  PROVE  \A x \in Obj :
           /\ References(x)' = PoolTotal(pools', x) + Cardinality(Holders(x)')
           /\ PoolTotal(pools', x) \in Nat /\ Cardinality(Holders(x)') \in Nat
           /\ IsFiniteSet(Holders(x)') /\ Cardinality(Packed(x)') \in Nat
           /\ References(x)' \in Nat
           /\ \A t \in Thread : InPools(t, x)' <=> InPool(pools'[t], x) > 0
<1> SUFFICES ASSUME NEW x \in Obj
             PROVE /\ References(x)' = PoolTotal(pools', x) + Cardinality(Holders(x)')
                   /\ PoolTotal(pools', x) \in Nat /\ Cardinality(Holders(x)') \in Nat
                   /\ IsFiniteSet(Holders(x)') /\ Cardinality(Packed(x)') \in Nat
                   /\ References(x)' \in Nat
                   /\ \A t \in Thread : InPools(t, x)' <=> InPool(pools'[t], x) > 0
  OBVIOUS
<1>1. pools' \in [Thread -> Pools]
  BY DEF TypeOK, Pools
<1>2. References(x)' = PoolTotal(pools', x) + Cardinality(Holders(x)')
  BY DEF References, PoolRefs, PoolTotal, InPool
<1>3. PoolTotal(pools', x) \in Nat
  BY <1>1, PoolTotalType
<1>4. IsFiniteSet(Holders(x)') /\ Cardinality(Holders(x)') \in Nat
  <2>1. Holders(x)' \subseteq Obj /\ IsFiniteSet(Obj)
    BY AffinityAssumption DEF Holders
  <2> QED
    BY <2>1, FS_Subset, FS_CardinalityType
<1>5. Cardinality(Packed(x)') \in Nat
  <2>1. Packed(x)' \subseteq Carrier /\ IsFiniteSet(Carrier)
    BY AffinityAssumption, FS_AddElement DEF Packed, Carrier
  <2> QED
    BY <2>1, FS_Subset, FS_CardinalityType
<1>6. \A t \in Thread : InPools(t, x)' <=> InPool(pools'[t], x) > 0
  <2>1. \A t \in Thread : pools'[t] \in Pools
    BY <1>1
  <2> QED
    BY <2>1, InPoolType DEF InPools
<1> QED
  BY <1>2, <1>3, <1>4, <1>5, <1>6

(* The count of an object and what it counts change alike.                 *)
Changes(x, a, b, c) ==
  /\ a \in Int /\ b \in Int /\ c \in Int
  /\ PoolTotal(pools', x) = PoolTotal(pools, x) + a
  /\ Cardinality(Holders(x)') = Cardinality(Holders(x)) + b
  /\ Cardinality(Packed(x)') = Cardinality(Packed(x)) + c
  /\ retainCount'[x] = retainCount[x] + a + b + c

LEMMA BalanceStep ==
  ASSUME TypeOK, TypeOK', NEW x \in Obj, BalancedAt(x), NEW a, NEW b, NEW c, Changes(x, a, b, c)
  PROVE  BalancedAt(x)'
<1>1. PICK p \in Nat, h \in Nat, k \in Nat :
        /\ p = PoolTotal(pools, x) /\ h = Cardinality(Holders(x)) /\ k = Cardinality(Packed(x))
        /\ References(x) = p + h
  BY Counted
<1>2. PICK q \in Nat, i \in Nat, l \in Nat :
        /\ q = PoolTotal(pools', x) /\ i = Cardinality(Holders(x)') /\ l = Cardinality(Packed(x)')
        /\ References(x)' = q + i
  BY CountedNext
<1>3. a \in Int /\ b \in Int /\ c \in Int /\ q = p + a /\ i = h + b /\ l = k + c
  BY <1>1, <1>2 DEF Changes
<1>4. retainCount[x] = p + h + k
  BY <1>1 DEF BalancedAt
<1>5. retainCount'[x] = q + i + l
  BY <1>3, <1>4 DEF Changes
<1> QED
  BY <1>2, <1>5 DEF BalancedAt

(* A reference that a pool or an object has is one.                        *)
LEMMA Referred ==
  ASSUME TypeOK, NEW x \in Obj
  PROVE  /\ \A t \in Thread : InPools(t, x) => References(x) >= 1
         /\ \A h \in Holders(x) : References(x) >= 1
         /\ \A t \in Thread : \A h \in Holders(x) : InPools(t, x) => References(x) >= 2
         /\ \A t, u \in Thread : t # u /\ InPools(t, x) /\ InPools(u, x) => References(x) >= 2
<1>1. PICK p \in Nat, k \in Nat :
        /\ p = PoolTotal(pools, x) /\ k = Cardinality(Holders(x)) /\ References(x) = p + k
  BY Counted
<1>2. pools \in [Thread -> Pools] /\ \A t \in Thread : pools[t] \in Pools
  BY DEF TypeOK, Pools
<1>3. ASSUME NEW t \in Thread, InPools(t, x) PROVE p >= 1
  <2>1. PICK i \in Nat : i = InPool(pools[t], x) /\ i > 0 /\ i <= p
    BY <1>1, <1>2, <1>3, Counted, InPoolType, PoolTotalType
  <2> QED
    BY <2>1
<1>4. ASSUME NEW h \in Holders(x) PROVE k >= 1
  <2>1. IsFiniteSet(Holders(x)) /\ Holders(x) # {}
    BY <1>4, Counted
  <2>2. k # 0
    BY <1>1, <2>1, FS_EmptySet
  <2> QED
    BY <2>2
<1>5. ASSUME NEW t \in Thread, NEW u \in Thread, t # u, InPools(t, x), InPools(u, x)
      PROVE  p >= 2
  <2>1. PICK i \in Nat, j \in Nat :
          i = InPool(pools[t], x) /\ i > 0 /\ j = InPool(pools[u], x) /\ j > 0
    BY <1>2, <1>5, Counted, InPoolType
  <2>2. p >= i + j
    BY <1>1, <1>2, <1>5, <2>1, PoolTotalTwo
  <2> QED
    BY <2>1, <2>2
<1>6. ASSUME NEW t \in Thread, InPools(t, x) PROVE References(x) >= 1
  BY <1>1, <1>3, <1>6
<1>7. ASSUME NEW h \in Holders(x) PROVE References(x) >= 1
  BY <1>1, <1>4, <1>7
<1>8. ASSUME NEW t \in Thread, NEW h \in Holders(x), InPools(t, x) PROVE References(x) >= 2
  BY <1>1, <1>3, <1>4, <1>8
<1>9. ASSUME NEW t \in Thread, NEW u \in Thread, t # u, InPools(t, x), InPools(u, x)
      PROVE  References(x) >= 2
  BY <1>1, <1>5, <1>9
<1> QED
  BY <1>6, <1>7, <1>8, <1>9

(* An object has all its references, and one more if it is packed.         *)
LEMMA Alive ==
  ASSUME TypeOK, NEW x \in Obj, BalancedAt(x)
  PROVE  /\ retainCount[x] \in Nat /\ References(x) \in Nat /\ retainCount[x] >= References(x)
         /\ \A p \in Carrier : x \in Package(p) => retainCount[x] >= References(x) + 1
         /\ retainCount[x] = References(x) => \A p \in Carrier : x \notin Package(p)
<1>1. PICK r \in Nat, k \in Nat :
        /\ r = References(x) /\ k = Cardinality(Packed(x)) /\ retainCount[x] = r + k
  BY Counted DEF BalancedAt
<1>2. ASSUME NEW p \in Carrier, x \in Package(p) PROVE k >= 1
  <2>1. IsFiniteSet(Packed(x)) /\ Packed(x) # {}
    BY <1>2, Counted DEF Packed
  <2>2. k # 0
    BY <1>1, <2>1, FS_EmptySet
  <2> QED
    BY <2>2
<1>3. ASSUME NEW p \in Carrier, x \in Package(p) PROVE retainCount[x] >= References(x) + 1
  BY <1>1, <1>2, <1>3
<1>4. retainCount[x] = References(x) => \A p \in Carrier : x \notin Package(p)
  BY <1>1, <1>2
<1> QED
  BY <1>1, <1>3, <1>4

-----------------------------------------------------------------------------
(* Facts that the invariant states about every object.                     *)

(* Objects that bypass the affinity are not walked.                        *)
LEMMA BypassStops ==
  ASSUME TypeOK, NEW x \in Obj, Bypass(x)
  PROVE  ~Walks(x) /\ Walked(x) = {} /\ ~LeavesPools(x)
<1>1. strategy \in Strategies
  BY DEF TypeOK
<1>2. x \notin Invocation
  BY <1>1, AffinityAssumption DEF Bypass
<1> QED
  BY <1>2 DEF Bypass, Walks, Walked, LeavesPools, FromCurrentPool, FromAllPools

(* Objects that hold others are alive and not thread safe.                 *)
LEMMA WalkedHolds ==
  ASSUME TypeOK, Held, NEW x \in Obj, NEW c \in Walked(x)
  PROVE  /\ c \in Obj /\ c \in ivars[x] /\ x \in Holders(c) /\ HeldAt(x, c)
         /\ ~Bypass(x) /\ thread_id[x] # IsThreadSafe
<1>1. c \in ivars[x] /\ ivars[x] \subseteq Obj
  BY DEF Walked, TypeOK
<1>2. ~Bypass(x)
  BY BypassStops
<1> QED
  BY <1>1, <1>2 DEF Held, HeldAt, Holders

(* A holder of what is not thread safe walks to it.                        *)
LEMMA HolderWalks ==
  ASSUME TypeOK, Held, NEW x \in Obj, strategy[x] # "KnownThreadSafe", NEW h \in Holders(x)
  PROVE  /\ h \in Obj /\ x \in ivars[h] /\ HeldAt(h, x) /\ x \in Walked(h) /\ Holders(x) = {h}
         /\ ~Bypass(h) /\ thread_id[h] # IsThreadSafe
<1>1. h \in Obj /\ x \in ivars[h]
  BY DEF Holders
<1>2. HeldAt(h, x)
  BY <1>1 DEF Held
<1>3. x \in Walked(h) /\ Holders(x) = {h}
  BY <1>1, <1>2 DEF HeldAt, Walked
<1> QED
  BY <1>1, <1>2, <1>3, WalkedHolds

(* The walks and what has a reference stay among the objects.              *)
LEMMA WalkedType ==
  ASSUME TypeOK
  PROVE  \A x \in Obj : Walked(x) \subseteq Obj
BY DEF TypeOK, Walked

LEMMA WalkedTypeNext ==
  ASSUME TypeOK'
  PROVE  \A x \in Obj : (Walked(x) \subseteq Obj)'
BY DEF TypeOK, Walked

(* A cargo has, with each object, what the walk goes on to.                *)
LEMMA CargoType ==
  ASSUME TypeOK, CallsFit, NEW p \in Carrier
  PROVE  Cargo(p) \subseteq Obj /\ Package(p) \subseteq Cargo(p) /\ Closed(Cargo(p))
<1>0. \A x \in Obj : Walked(x) \subseteq Obj
  BY WalkedType
<1>1. ASSUME NEW o \in Obj PROVE Reach(o) \subseteq Obj /\ Closed(Reach(o))
  BY <1>0, ReachIsLeast
<1>2. Closed({})
  BY DEF Closed
<1>3. CASE p = HasNoThread
  <2>1. Package(p) = Cargo(p)
    BY <1>3 DEF Package
  <2>2. available # None => available \in Obj
    BY DEF TypeOK
  <2>3. CASE available = None
    BY <1>2, <1>3, <2>1, <2>3 DEF Cargo
  <2>4. CASE available # None
    BY <1>1, <1>3, <2>1, <2>2, <2>4 DEF Cargo
  <2> QED
    BY <2>3, <2>4
<1>4. CASE p # HasNoThread /\ Walking(p)
  <2>1. p \in Thread /\ CallFits(p)
    BY <1>4 DEF Carrier, CallsFit
  <2>2. Cargo(p) = Reach(call[p].obj) /\ call[p].obj \in Obj
    BY <1>4, <2>1 DEF Cargo, CallFits, Walking
  <2>3. call[p].uniquing \subseteq Cargo(p)
    BY <1>4, <2>1, <2>2 DEF CallFits, StackFits
  <2>4. Package(p) \subseteq Cargo(p)
    BY <1>4, <2>3 DEF Package, Walking
  <2> QED
    BY <1>1, <2>2, <2>4
<1>5. CASE p # HasNoThread /\ ~Walking(p)
  BY <1>2, <1>5 DEF Cargo, Package, Walking
<1> QED
  BY <1>3, <1>4, <1>5

(* A thread that does not walk has no cargo.                               *)
LEMMA NoCargo ==
  ASSUME NEW t \in Thread, ~Walking(t)
  PROVE  Cargo(t) = {} /\ Package(t) = {}
BY AffinityAssumption DEF Cargo, Package, Walking

(* What belongs to a thread that does not walk is in no cargo.             *)
LEMMA OwnNotCarried ==
  ASSUME Homes, NEW t \in Thread, ~Walking(t), NEW x, ~Bypass(x), thread_id[x] = t
  PROVE  \A p \in Carrier : x \notin Cargo(p)
<1> SUFFICES ASSUME NEW p \in Carrier, x \in Cargo(p) PROVE FALSE
  OBVIOUS
<1>1. HomeAt(p, x)
  BY DEF Homes
<1>2. t = p
  BY <1>1, AffinityAssumption DEF HomeAt
<1> QED
  BY <1>2, NoCargo

(* What is in a cargo, and bypasses nothing, has a reference if no package *)
(* has it.                                                                 *)
LEMMA CarriedIsReferred ==
  ASSUME TypeOK, CallsFit, Held, Backed, NEW p \in Carrier, NEW x \in Cargo(p) \ Package(p), ~Bypass(x)
  PROVE  x \in Obj /\ p \in Thread /\ BackedAt(p, x) /\ References(x) >= 1
<1>1. p \in Thread
  BY DEF Carrier, Package
<1>2. x \in Obj /\ Cargo(p) \subseteq Obj
  BY CargoType
<1>3. BackedAt(p, x)
  BY <1>1 DEF Backed
<1>4. CASE InPools(p, x)
  BY <1>1, <1>2, <1>3, <1>4, Referred
<1>5. CASE \E h \in Cargo(p) : x \in Walked(h)
  <2>1. PICK h \in Cargo(p) : x \in Walked(h)
    BY <1>5
  <2>2. h \in Holders(x)
    BY <1>2, <2>1, WalkedHolds
  <2> QED
    BY <1>1, <1>2, <1>3, <2>2, Referred
<1> QED
  BY <1>3, <1>4, <1>5 DEF BackedAt

-----------------------------------------------------------------------------
(* Steps that leave cargos alone.                                          *)

(* The carriers in C keep theirs, the others have none any more.           *)
CargosStay(C) ==
  /\ strategy' = strategy
  /\ \A p \in C : Cargo(p)' = Cargo(p) /\ Package(p)' = Package(p)
  /\ \A p \in Carrier \ C : Cargo(p)' = {} /\ Package(p)' = {}
  /\ \A p \in C : \A x \in Cargo(p) : Walked(x)' = Walked(x)
  /\ \A t \in C : t \in Thread /\ Cargo(t) # Package(t) =>
       (call'[t].op = "relinquish" <=> call[t].op = "relinquish")

(* What is carried stays with the thread that it belongs to, if that       *)
(* matters, has no new holder, and is in the pools of its carrier.         *)
ThreadsStay ==
  \A p \in Carrier : \A x \in Cargo(p) :
    thread_id'[x] = thread_id[x] \/ (Bypass(x) /\ thread_id'[x] # HasNoThread)

HoldersStay == \A p \in Carrier : \A x \in Cargo(p) : Affine(x) => Holders(x)' \subseteq Holders(x)

PoolsStay == \A t \in Thread, x \in Obj : Walking(t) /\ InPools(t, x) => InPools(t, x)'

WalksStay(C) == \A p \in C : \A x \in Cargo(p) : Walked(x)' = Walked(x)

LEMMA BypassStays ==
  ASSUME strategy' = strategy
  PROVE  \A x : /\ Bypass(x)' = Bypass(x) /\ Walks(x)' = Walks(x)
                /\ LeavesPools(x)' = LeavesPools(x)
BY DEF Bypass, Walks, LeavesPools, FromCurrentPool, FromAllPools

(* The carriers of what is carried stay the same, and so does what each    *)
(* conjunct says of them.                                                  *)
LEMMA HomesStay ==
  ASSUME NEW C \in SUBSET Carrier, CargosStay(C), Homes, ThreadsStay
  PROVE  Homes'
<1> SUFFICES ASSUME NEW p \in Carrier, NEW x \in Cargo(p)' PROVE HomeAt(p, x)'
  BY DEF Homes
<1>1. p \in C
  BY DEF CargosStay
<1>2. Cargo(p)' = Cargo(p) /\ Package(p)' = Package(p) /\ Bypass(x)' = Bypass(x)
  BY <1>1, BypassStays DEF CargosStay
<1>3. HomeAt(p, x)
  BY <1>2 DEF Homes
<1>4. thread_id'[x] = thread_id[x] \/ (Bypass(x) /\ thread_id'[x] # HasNoThread)
  BY <1>2 DEF ThreadsStay
<1> QED
  BY <1>2, <1>3, <1>4 DEF HomeAt

LEMMA ApartStays ==
  ASSUME NEW C \in SUBSET Carrier, CargosStay(C), Apart, ThreadsStay, HoldersStay
  PROVE  Apart'
<1> SUFFICES ASSUME NEW p \in Carrier, NEW x \in Cargo(p)' PROVE ApartAt(p, x)'
  BY DEF Apart
<1>1. p \in C
  BY DEF CargosStay
<1>2. Cargo(p)' = Cargo(p) /\ x \in Cargo(p) /\ Bypass(x)' = Bypass(x)
  BY <1>1, BypassStays DEF CargosStay
<1>3. ApartAt(p, x)
  BY <1>2 DEF Apart
<1>4. Affine(x)' => Affine(x)
  BY <1>2 DEF ThreadsStay, Affine
<1>5. Affine(x) => Holders(x)' \subseteq Holders(x)
  BY <1>2 DEF HoldersStay
<1>6. \A q \in Carrier : Cargo(q)' \subseteq Cargo(q)
  BY DEF CargosStay
<1> QED
  BY <1>2, <1>3, <1>4, <1>5, <1>6 DEF ApartAt

LEMMA BackedStays ==
  ASSUME NEW C \in SUBSET Carrier, CargosStay(C), Backed, ThreadsStay, PoolsStay,
         TypeOK, CallsFit
  PROVE  Backed'
<1> SUFFICES ASSUME NEW t \in Thread, NEW x \in (Cargo(t) \ Package(t))', ~Bypass(x)'
             PROVE  BackedAt(t, x)'
  BY DEF Backed
<1>1. t \in C /\ t \in Carrier
  BY DEF CargosStay, Carrier
<1>2. Cargo(t)' = Cargo(t) /\ Package(t)' = Package(t) /\ Bypass(x)' = Bypass(x)
  BY <1>1, BypassStays DEF CargosStay
<1>3. x \in Cargo(t) \ Package(t) /\ ~Bypass(x)
  BY <1>2
<1>4. BackedAt(t, x) /\ x \in Obj
  BY <1>1, <1>3, CargoType DEF Backed
<1>5. thread_id'[x] = thread_id[x]
  BY <1>1, <1>3 DEF ThreadsStay
<1>6. CASE InPools(t, x)
  <2>1. Walking(t)
    BY <1>3, NoCargo
  <2> QED
    BY <1>4, <1>6, <2>1 DEF PoolsStay, BackedAt
<1>7. CASE ~InPools(t, x)
  <2>1. PICK h \in Cargo(t) : x \in Walked(h) /\ (thread_id[x] = IsThreadSafe => h \notin Package(t))
    BY <1>4, <1>7 DEF BackedAt
  <2>2. call'[t].op = "relinquish" /\ Walked(h)' = Walked(h)
    BY <1>1, <1>3, <1>4, <1>7, <2>1 DEF BackedAt, CargosStay
  <2> QED
    BY <1>2, <1>5, <2>1, <2>2 DEF BackedAt
<1> QED
  BY <1>6, <1>7

LEMMA PackedStays ==
  ASSUME CargosStay(Carrier)
  PROVE  \A x : Packed(x)' = Packed(x)
BY DEF CargosStay, Packed

LEMMA LimboStays ==
  ASSUME CargosStay(Carrier), Limbo,
         \A x \in Obj : retainCount'[x] > 0 /\ thread_id'[x] = HasNoThread
                          => retainCount[x] > 0 /\ thread_id[x] = HasNoThread
  PROVE  Limbo'
<1> SUFFICES ASSUME NEW x \in Obj PROVE LimboAt(x)'
  BY DEF Limbo
<1>1. LimboAt(x) /\ Bypass(x)' = Bypass(x)
  BY BypassStays DEF Limbo, CargosStay
<1>2. \A p \in Carrier : Package(p)' = Package(p)
  BY DEF CargosStay
<1> QED
  BY <1>1, <1>2 DEF LimboAt

LEMMA FollowsStays ==
  ASSUME CargosStay(Carrier), Follows, thread_id' = thread_id,
         \A o \in Obj : ivars'[o] \subseteq ivars[o]
  PROVE  Follows'
<1> SUFFICES ASSUME NEW t \in Thread, NEW o \in Obj, NEW c \in ivars'[o] PROVE FollowsAt(t, o, c)'
  BY DEF Follows
<1>1. FollowsAt(t, o, c)
  BY DEF Follows
<1>2. Cargo(t)' = Cargo(t) /\ Bypass(c)' = Bypass(c)
  BY BypassStays DEF CargosStay, Carrier
<1> QED
  BY <1>1, <1>2 DEF FollowsAt

(* The other threads go on with their walks.                               *)
OthersWalk(t) == \A u \in Thread \ {t} : call'[u] = call[u]

LEMMA CargoStays ==
  ASSUME TypeOK, TypeOK', strategy' = strategy, NEW p \in Carrier, CallsFit,
         IF p = HasNoThread THEN available' = available ELSE call'[p] = call[p],
         WalksStay({p})
  PROVE  Cargo(p)' = Cargo(p) /\ Package(p)' = Package(p)
<1>0. \A x \in Obj : Walked(x) \subseteq Obj
  BY WalkedType
<1>1. \A x \in Obj : (Walked(x) \subseteq Obj)'
  BY WalkedTypeNext
<1>2. \A x \in Cargo(p) : Walked(x)' = Walked(x)
  BY DEF WalksStay
<1>3. CASE p = HasNoThread
  <2>1. CASE available = None
    BY <1>3, <2>1 DEF Cargo, Package
  <2>2. CASE available # None
    <3>1. PICK o \in Obj : o = available /\ o = available'
      BY <1>3, <2>2 DEF TypeOK
    <3>2. Cargo(p) = Reach(o) /\ Cargo(p)' = Reach(o)'
      BY <1>3, <2>2, <3>1 DEF Cargo
    <3>3. \A x \in Reach(o) : Walked(x)' = Walked(x)
      BY <1>2, <3>2
    <3>4. Reach(o)' = Reach(o)
      BY <1>0, <1>1, <3>3, ReachStays
    <3> QED
      BY <1>3, <3>2, <3>4 DEF Package
  <2> QED
    BY <2>1, <2>2
<1>4. CASE p # HasNoThread /\ ~Walking(p)
  BY <1>4 DEF Cargo, Package, Walking
<1>5. CASE p # HasNoThread /\ Walking(p)
  <2>1. p \in Thread /\ CallFits(p)
    BY <1>5 DEF Carrier, CallsFit
  <2>2. PICK o \in Obj : o = call[p].obj /\ o = call'[p].obj
    BY <1>5, <2>1 DEF CallFits, Walking
  <2>3. Cargo(p) = Reach(o) /\ Cargo(p)' = Reach(o)'
    BY <1>5, <2>2 DEF Cargo, Walking
  <2>4. \A x \in Reach(o) : Walked(x)' = Walked(x)
    BY <1>2, <2>3
  <2>5. Reach(o)' = Reach(o)
    BY <1>0, <1>1, <2>4, ReachStays
  <2>6. OnStack(p)' = OnStack(p)
    BY <1>5 DEF OnStack
  <2> QED
    BY <1>5, <2>3, <2>5, <2>6 DEF Package
<1> QED
  BY <1>3, <1>4, <1>5

(* So do the calls.                                                        *)
LEMMA FitsStay ==
  ASSUME TypeOK, TypeOK', strategy' = strategy, NEW t \in Thread, CallsFit,
         call'[t] = call[t], WalksStay({t})
  PROVE  CallFits(t)'
<1>1. CallFits(t) /\ t \in Carrier /\ t # HasNoThread
  BY AffinityAssumption DEF CallsFit, Carrier
<1>2. CASE ~Walking(t)
  BY <1>1, <1>2 DEF CallFits, Walking
<1>3. CASE Walking(t)
  <2>1. PICK s, o, U : s = call[t].stack /\ o = call[t].obj /\ U = call[t].uniquing
    OBVIOUS
  <2>2. s = call'[t].stack /\ o = call'[t].obj /\ U = call'[t].uniquing
    BY <2>1
  <2>3. o \in Obj /\ StackFits(s, o, U)
    BY <1>1, <1>3, <2>1 DEF CallFits, Walking
  <2>4. Cargo(t) = Reach(o) /\ Cargo(t)' = Reach(o)' /\ Cargo(t)' = Cargo(t)
    <3>1. Cargo(t)' = Cargo(t)
      BY <1>1, CargoStays
    <3>2. Walking(t)'
      BY <1>3 DEF Walking
    <3> QED
      BY <1>1, <1>3, <2>1, <2>2, <3>1, <3>2 DEF Cargo
  <2>5. \A x \in U : Walked(x)' = Walked(x)
    BY <2>3, <2>4 DEF WalksStay, StackFits
  <2>6. \A i \in 2 .. Len(s) : s[i].obj \in U
    BY <2>3 DEF StackFits
  <2>7. \A i \in 2 .. Len(s) - 1 : s[i].obj \in U
    BY <2>3 DEF StackFits
  <2>8. StackFits(s, o, U)'
    <3>1. /\ Len(s) >= 1 /\ s[1].obj = None /\ s[1].left \subseteq {o} /\ o \in U \cup s[1].left
          /\ \A i \in 2 .. Len(s), j \in 2 .. Len(s) : i # j => s[i].obj # s[j].obj
      BY <2>3 DEF StackFits
    <3>2. U \subseteq Reach(o)'
      BY <2>3, <2>4 DEF StackFits
    <3>3. \A i \in 2 .. Len(s) : s[i].obj \in U /\ s[i].left \subseteq Walked(s[i].obj)'
      BY <2>3, <2>5, <2>6 DEF StackFits
    <3>4. \A i \in 2 .. Len(s) - 1 : Walked(s[i].obj)' # {}
      BY <2>3, <2>5, <2>7 DEF StackFits
    <3>5. \A x \in U : \A c \in Walked(x)' :
            c \in U \/ \E i \in 2 .. Len(s) : s[i].obj = x /\ c \in s[i].left
      BY <2>3, <2>5 DEF StackFits
    <3> QED
      BY <3>1, <3>2, <3>3, <3>4, <3>5 DEF StackFits
  <2> QED
    BY <1>1, <1>3, <2>2, <2>3, <2>8 DEF CallFits, Walking
<1> QED
  BY <1>2, <1>3

(* A step of a thread that does not walk leaves the cargos alone, unless   *)
(* it empties the atomic variable.                                         *)
LEMMA ClientCargos ==
  ASSUME TypeOK, TypeOK', CallsFit, strategy' = strategy, NEW t \in Thread,
         ~Walking(t), ~Walking(t)', CallFits(t)', OthersWalk(t),
         NEW C \in {Carrier, Thread},
         IF C = Carrier THEN available' = available ELSE available' = None,
         WalksStay(C)
  PROVE  CargosStay(C) /\ CallsFit'
<1>1. HasNoThread \notin Thread /\ HasNoThread \in Carrier /\ Thread \subseteq Carrier
  BY AffinityAssumption DEF Carrier
<1>2. C \subseteq Carrier /\ Thread \subseteq C /\ (C = Carrier \/ HasNoThread \notin C)
  BY <1>1 DEF Carrier
<1>3. Cargo(t) = {} /\ Package(t) = {}
  BY NoCargo
<1>4. Cargo(t)' = {} /\ Package(t)' = {}
  BY <1>1 DEF Cargo, Package, Walking
<1>5. ASSUME NEW p \in C PROVE Cargo(p)' = Cargo(p) /\ Package(p)' = Package(p)
  <2>1. WalksStay({p}) /\ p \in Carrier
    BY <1>2 DEF WalksStay
  <2>2. CASE p = t
    BY <1>3, <1>4, <2>2
  <2>3. CASE p = HasNoThread
    <3>1. available' = available
      BY <1>2, <2>3
    <3> QED
      BY <2>1, <2>3, <3>1, CargoStays
  <2>4. CASE p # t /\ p # HasNoThread
    <3>1. call'[p] = call[p]
      BY <2>1, <2>4 DEF OthersWalk, Carrier
    <3> QED
      BY <2>1, <2>4, <3>1, CargoStays
  <2> QED
    BY <2>2, <2>3, <2>4
<1>6. ASSUME NEW p \in Carrier \ C PROVE Cargo(p)' = {} /\ Package(p)' = {}
  <2>1. p = HasNoThread /\ available' = None
    BY <1>1, <1>2 DEF Carrier
  <2> QED
    BY <2>1 DEF Cargo, Package
<1>7. \A u \in Thread : call'[u].op = "relinquish" <=> call[u].op = "relinquish"
  BY DEF OthersWalk, Walking
<1>8. CargosStay(C)
  BY <1>5, <1>6, <1>7 DEF CargosStay, WalksStay
<1>9. ASSUME NEW u \in Thread PROVE CallFits(u)'
  <2>1. CASE u = t
    BY <2>1
  <2>2. CASE u # t
    <3>1. WalksStay({u}) /\ call'[u] = call[u]
      BY <1>2, <2>2 DEF WalksStay, OthersWalk
    <3> QED
      BY <3>1, FitsStay
  <2> QED
    BY <2>1, <2>2
<1> QED
  BY <1>8, <1>9 DEF CallsFit

-----------------------------------------------------------------------------
(* Steps of client code.                                                   *)

(* An autorelease adds one reference to the tail pool.                     *)
LEMMA AutoreleaseAdds ==
  ASSUME TypeOK, NEW t \in Thread, NEW o \in Obj, pools' = Autoreleased(t, o)
  PROVE  /\ pools' \in [Thread -> Seq([Obj -> Nat])]
         /\ \A u \in Thread : Len(pools'[u]) \in 1 .. MaxPools
         /\ \A x \in Obj : PoolTotal(pools', x) = PoolTotal(pools, x) + IF x = o THEN 1 ELSE 0
         /\ \A u \in Thread, x \in Obj : InPools(u, x)' <=> InPools(u, x) \/ (u = t /\ x = o)
<1>1. pools \in [Thread -> Pools] /\ \A u \in Thread : pools[u] \in Pools
  BY DEF TypeOK, Pools
<1>2. PICK n \in Nat : n = Len(pools[t]) /\ n > 0 /\ n = Top(t)
  BY <1>1 DEF TypeOK, Top
<1>3. PICK R : R = pools'
  OBVIOUS
<1>4. PICK v : v = pools[t][n]
  OBVIOUS
<1>5. v \in [Obj -> Nat]
  <2>1. pools[t] \in Seq([Obj -> Nat]) /\ n \in 1 .. Len(pools[t])
    BY <1>1, <1>2 DEF Pools
  <2> QED
    BY <1>4, <2>1
<1>6. PICK w : w = [v EXCEPT ![o] = @ + 1]
  OBVIOUS
<1>7. w \in [Obj -> Nat] /\ \A x \in Obj : w[x] = v[x] + IF x = o THEN 1 ELSE 0
  BY <1>5, <1>6
<1>8. R = [pools EXCEPT ![t][n] = w]
  BY <1>2, <1>3, <1>4, <1>6 DEF Autoreleased
<1>9. /\ R \in [Thread -> Pools] /\ \A u \in Thread : Len(R[u]) = Len(pools[u])
      /\ \A u \in Thread \ {t} : R[u] = pools[u]
      /\ \A x \in Obj :
           /\ w[x] \in Nat /\ v[x] \in Nat
           /\ PoolTotal(R, x) = PoolTotal(pools, x) + w[x] - v[x]
           /\ InPool(R[t], x) = InPool(pools[t], x) + w[x] - v[x]
  <2>1. TailSet(pools, t, n, w, R)
    BY <1>2, <1>8 DEF TailSet
  <2>2. TailCounts(pools, t, n, w, R)
    BY <1>1, <1>7, <2>1, TailChange
  <2> QED
    BY <1>4, <2>2 DEF TailCounts
<1>10. \A u \in Thread : R[u] \in Pools
  BY <1>9
<1>11. ASSUME NEW x \in Obj
       PROVE  /\ PoolTotal(R, x) = PoolTotal(pools, x) + IF x = o THEN 1 ELSE 0
              /\ InPool(R[t], x) = InPool(pools[t], x) + IF x = o THEN 1 ELSE 0
  <2>1. PICK a \in Nat, b \in Nat, c \in Nat, d \in Nat :
          /\ a = PoolTotal(pools, x) /\ b = InPool(pools[t], x) /\ c = v[x] /\ d = w[x]
    BY <1>1, <1>9, PoolTotalType, InPoolType
  <2>2. d = c + IF x = o THEN 1 ELSE 0
    BY <1>7, <2>1
  <2>3. PoolTotal(R, x) = a + d - c /\ InPool(R[t], x) = b + d - c
    BY <1>9, <2>1
  <2> QED
    BY <2>1, <2>2, <2>3
<1>12. ASSUME NEW u \in Thread, NEW x \in Obj
       PROVE  InPools(u, x)' <=> InPools(u, x) \/ (u = t /\ x = o)
  <2>1. InPools(u, x)' <=> InPool(R[u], x) > 0
    BY <1>3, <1>10, InPoolType DEF InPools
  <2>2. InPools(u, x) <=> InPool(pools[u], x) > 0
    BY Counted
  <2>3. CASE u # t
    BY <1>9, <2>1, <2>2, <2>3
  <2>4. CASE u = t
    <3>1. PICK b \in Nat : b = InPool(pools[t], x)
      BY <1>1, InPoolType
    <3> QED
      BY <1>11, <2>1, <2>2, <2>4, <3>1
  <2> QED
    BY <2>3, <2>4
<1>13. R \in [Thread -> Seq([Obj -> Nat])] /\ \A u \in Thread : Len(R[u]) \in 1 .. MaxPools
  BY <1>9 DEF Pools, TypeOK
<1> QED
  BY <1>3, <1>11, <1>12, <1>13

(* An object that a thread knows is alive.                                 *)
LEMMA KnownLives ==
  ASSUME TypeOK, Balanced, NEW t, t \in Thread, NEW o \in Obj, Known(t, o)
  PROVE  References(o) >= 1 /\ retainCount[o] \in Nat /\ retainCount[o] > 0
<1>1. References(o) >= 1
  BY Referred DEF Known
<1>2. PICK r \in Nat, k \in Nat : r = References(o) /\ k = retainCount[o] /\ k >= r
  BY Alive DEF Balanced
<1> QED
  BY <1>1, <1>2

(* A push and a pop of an empty pool change no count.                      *)
LEMMA PushAdds ==
  ASSUME TypeOK, NEW t \in Thread, Len(pools[t]) < MaxPools,
         pools' = [pools EXCEPT ![t] = Append(@, EmptyPool)]
  PROVE  /\ pools' \in [Thread -> Seq([Obj -> Nat])]
         /\ \A u \in Thread : Len(pools'[u]) \in 1 .. MaxPools
         /\ \A x \in Obj : PoolTotal(pools', x) = PoolTotal(pools, x)
         /\ \A u \in Thread, x \in Obj : InPools(u, x)' <=> InPools(u, x)
<1>1. pools \in [Thread -> Pools] /\ \A u \in Thread : pools[u] \in Pools
  BY DEF TypeOK, Pools
<1>2. PICK R : R = pools'
  OBVIOUS
<1>3. EmptyPool \in [Obj -> Nat] /\ \A x \in Obj : EmptyPool[x] = 0
  BY DEF EmptyPool
<1>4. R[t] = Append(pools[t], EmptyPool) /\ \A u \in Thread \ {t} : R[u] = pools[u]
  BY <1>1, <1>2
<1>5. R[t] \in Pools /\ Len(R[t]) = Len(pools[t]) + 1
  BY <1>1, <1>3, <1>4, AppendProperties DEF Pools
<1>6. R \in [Thread -> Pools]
  BY <1>1, <1>2, <1>4, <1>5
<1>7. ASSUME NEW x \in Obj
      PROVE  InPool(R[t], x) = InPool(pools[t], x) /\ PoolTotal(R, x) = PoolTotal(pools, x)
  <2>1. PICK a \in Nat, b \in Nat, c \in Nat :
          a = InPool(pools[t], x) /\ b = PoolTotal(pools, x) /\ c = InPool(R[t], x)
    BY <1>1, <1>5, InPoolType, PoolTotalType
  <2>2. c = a + 0
    BY <1>1, <1>3, <1>4, <2>1, InPoolAppend
  <2>3. PoolTotal(R, x) = b + c - a
    BY <1>1, <1>4, <1>6, <2>1, PoolTotalChange
  <2> QED
    BY <2>1, <2>2, <2>3
<1>8. ASSUME NEW u \in Thread, NEW x \in Obj PROVE InPools(u, x)' <=> InPools(u, x)
  <2>1. R[u] \in Pools
    BY <1>6
  <2>2. InPools(u, x)' <=> InPool(R[u], x) > 0
    BY <1>2, <2>1, InPoolType DEF InPools
  <2>3. InPools(u, x) <=> InPool(pools[u], x) > 0
    BY Counted
  <2>4. InPool(R[u], x) = InPool(pools[u], x)
    BY <1>4, <1>7
  <2> QED
    BY <2>2, <2>3, <2>4
<1>9. \A u \in Thread : Len(R[u]) \in 1 .. MaxPools
  <2>1. \A u \in Thread : Len(pools[u]) \in 1 .. MaxPools
    BY DEF TypeOK
  <2>2. MaxPools \in Nat
    BY AffinityAssumption
  <2>3. Len(R[t]) \in 1 .. MaxPools
    BY <1>5, <2>1, <2>2
  <2> QED
    BY <1>4, <2>1, <2>3
<1>10. R \in [Thread -> Seq([Obj -> Nat])]
  BY <1>6 DEF Pools
<1> QED
  BY <1>2, <1>7, <1>8, <1>9, <1>10

LEMMA PopTakesNothing ==
  ASSUME TypeOK, NEW t \in Thread, Len(pools[t]) > 1, pools[t][Top(t)] = EmptyPool,
         pools' = [pools EXCEPT ![t] = SubSeq(@, 1, Len(@) - 1)]
  PROVE  /\ pools' \in [Thread -> Seq([Obj -> Nat])]
         /\ \A u \in Thread : Len(pools'[u]) \in 1 .. MaxPools
         /\ \A x \in Obj : PoolTotal(pools', x) = PoolTotal(pools, x)
         /\ \A u \in Thread, x \in Obj : InPools(u, x)' <=> InPools(u, x)
<1>1. pools \in [Thread -> Pools] /\ \A u \in Thread : pools[u] \in Pools
  BY DEF TypeOK, Pools
<1>2. PICK R : R = pools'
  OBVIOUS
<1>3. PICK n \in Nat : n = Len(pools[t]) /\ n > 1 /\ n = Top(t) /\ n > 0
  BY <1>1 DEF TypeOK, Top
<1>4. R[t] = SubSeq(pools[t], 1, Len(pools[t]) - 1) /\ \A u \in Thread \ {t} : R[u] = pools[u]
  BY <1>1, <1>2
<1>5. /\ R[t] \in Pools /\ Len(R[t]) = Len(pools[t]) - 1
      /\ \A x \in Obj : InPool(R[t], x) = InPool(pools[t], x) - pools[t][Len(pools[t])][x]
  <2>0. PICK s : s = R[t]
    OBVIOUS
  <2>1. PICK q \in Pools : q = pools[t] /\ s = R[t] /\ Len(q) > 0 /\ s = SubSeq(q, 1, Len(q) - 1)
    BY <1>1, <1>3, <1>4, <2>0
  <2>2. \A x \in Obj : s \in Pools /\ Len(s) = Len(q) - 1
                       /\ InPool(s, x) = InPool(q, x) - q[Len(q)][x]
    BY <2>1, InPoolPop
  <2>4. Len(q) - 1 \in 0 .. Len(q) /\ q \in Seq([Obj -> Nat])
    BY <1>3, <2>1 DEF Pools
  <2>5. s \in Pools /\ Len(s) = Len(q) - 1
    BY <2>1, <2>4, PrefixOfSeq, SMTT(30) DEF Pools
  <2> QED
    BY <2>1, <2>2, <2>5
<1>6. R \in [Thread -> Pools]
  BY <1>1, <1>2, <1>4, <1>5
<1>7. ASSUME NEW x \in Obj
      PROVE  InPool(R[t], x) = InPool(pools[t], x) /\ PoolTotal(R, x) = PoolTotal(pools, x)
  <2>1. PICK a \in Nat, b \in Nat, c \in Nat :
          a = InPool(pools[t], x) /\ b = PoolTotal(pools, x) /\ c = InPool(R[t], x)
    BY <1>1, <1>5, InPoolType, PoolTotalType
  <2>2. pools[t][Len(pools[t])][x] = 0
    BY <1>3 DEF EmptyPool
  <2>3. c = a - 0
    BY <1>5, <2>1, <2>2
  <2>4. PoolTotal(R, x) = b + c - a
    BY <1>1, <1>4, <1>6, <2>1, PoolTotalChange
  <2> QED
    BY <2>1, <2>3, <2>4
<1>8. ASSUME NEW u \in Thread, NEW x \in Obj PROVE InPools(u, x)' <=> InPools(u, x)
  <2>1. R[u] \in Pools
    BY <1>6
  <2>2. InPools(u, x)' <=> InPool(R[u], x) > 0
    BY <1>2, <2>1, InPoolType DEF InPools
  <2>3. InPools(u, x) <=> InPool(pools[u], x) > 0
    BY Counted
  <2>4. InPool(R[u], x) = InPool(pools[u], x)
    BY <1>4, <1>7
  <2> QED
    BY <2>2, <2>3, <2>4
<1>9. \A u \in Thread : Len(R[u]) \in 1 .. MaxPools
  <2>1. \A u \in Thread : Len(pools[u]) \in 1 .. MaxPools
    BY DEF TypeOK
  <2>2. MaxPools \in Nat
    BY AffinityAssumption
  <2>3. Len(R[t]) \in 1 .. MaxPools
    <3>1. PICK k \in 1 .. MaxPools : k = Len(pools[t])
      BY <2>1
    <3>2. k > 1 /\ Len(R[t]) = k - 1
      BY <1>5, <3>1
    <3> QED
      BY <2>2, <3>1, <3>2
  <2> QED
    BY <1>4, <2>1, <2>3
<1>10. R \in [Thread -> Seq([Obj -> Nat])]
  BY <1>6 DEF Pools
<1> QED
  BY <1>2, <1>7, <1>8, <1>9, <1>10

(* The counts of the pools are the same.                                   *)
SameCounts ==
  /\ \A x \in Obj : PoolTotal(pools', x) = PoolTotal(pools, x)
  /\ \A u \in Thread, x \in Obj : InPools(u, x)' <=> InPools(u, x)

(* A step that changes neither objects nor cargos.                         *)
LEMMA ObjectsStay ==
  ASSUME Inv, TypeOK', CallsFit', CargosStay(Carrier), SameCounts,
         UNCHANGED <<strategy, thread_id, retainCount, ivars, raised>>
  PROVE  Inv'
<1>0. /\ TypeOK /\ Homes /\ Apart /\ Backed /\ Limbo /\ Follows /\ CallsFit
      /\ Carrier \in SUBSET Carrier
  BY DEF Inv
<1>1. ThreadsStay /\ HoldersStay /\ PoolsStay
  BY DEF ThreadsStay, HoldersStay, PoolsStay, SameCounts, Holders
<1>2. Homes' /\ Apart' /\ Backed'
  BY <1>0, <1>1, HomesStay, ApartStays, BackedStays
<1>3. Limbo'
  BY <1>0, LimboStays
<1>4. Follows'
  BY <1>0, FollowsStays
<1>5. Balanced'
  <2>1. ASSUME NEW x \in Obj PROVE BalancedAt(x)'
    <3>1. Packed(x)' = Packed(x) /\ Holders(x)' = Holders(x)
      BY PackedStays DEF Holders
    <3>2. PoolTotal(pools', x) = PoolTotal(pools, x)
      BY DEF SameCounts
    <3>3. References(x)' = References(x)
      BY <1>0, <3>1, <3>2, Counted, CountedNext
    <3> QED
      BY <3>1, <3>3 DEF Inv, Balanced, BalancedAt
  <2> QED
    BY <2>1 DEF Balanced
<1>6. ThreadSafeStays' /\ Held' /\ NoForeignAccess'
  <2>1. \A c : Holders(c)' = Holders(c)
    BY DEF Holders
  <2>2. Held'
    BY <2>1, BypassStays DEF Inv, Held, HeldAt
  <2> QED
    BY <2>2 DEF Inv, ThreadSafeStays, NoForeignAccess
<1>7. PoolsAreAffine'
  BY BypassStays DEF Inv, PoolsAreAffine, SameCounts
<1> QED
  BY <1>2, <1>3, <1>4, <1>5, <1>6, <1>7 DEF Inv

(* A thread that does not walk changes no count.                           *)
LEMMA StillStep ==
  ASSUME Inv, TypeOK', SameCounts,
         UNCHANGED <<strategy, thread_id, retainCount, ivars, raised, available>>,
         NEW t \in Thread, ~Walking(t), ~Walking(t)', CallFits(t)', OthersWalk(t)
  PROVE  Inv'
<1>1. TypeOK /\ CallsFit /\ Carrier \in {Carrier, Thread}
  BY DEF Inv
<1>2. WalksStay(Carrier)
  BY BypassStays DEF WalksStay, Walked
<1>3. CargosStay(Carrier) /\ CallsFit'
  BY <1>1, <1>2, ClientCargos
<1> QED
  BY <1>3, ObjectsStay

(* A thread that makes no call.                                            *)
LEMMA NoCallType ==
  NoCall \in [op : {"none", "pop", "relinquish", "gain", "acquire"}, obj : Obj \cup {None},
              stack : Seq([obj : Obj \cup {None}, left : SUBSET Obj]), uniquing : SUBSET Obj]
BY DEF NoCall

(* Pools that are pushed, popped or drained without any effect.            *)
LEMMA PushKeepsInv ==
  ASSUME Inv, NEW t \in Thread, Push(t)
  PROVE  Inv'
<1>1. /\ call[t].op = "none" /\ call' = call /\ TypeOK /\ Len(pools[t]) < MaxPools
      /\ pools' = [pools EXCEPT ![t] = Append(@, EmptyPool)]
      /\ UNCHANGED <<strategy, thread_id, retainCount, ivars, raised, available>>
  BY DEF Push, Running, Inv
<1>2. /\ pools' \in [Thread -> Seq([Obj -> Nat])]
      /\ \A u \in Thread : Len(pools'[u]) \in 1 .. MaxPools
      /\ SameCounts
  BY <1>1, PushAdds DEF SameCounts
<1>3. TypeOK'
  BY <1>1, <1>2 DEF TypeOK
<1>4. ~Walking(t) /\ ~Walking(t)' /\ CallFits(t)' /\ OthersWalk(t)
  BY <1>1 DEF Walking, CallFits, OthersWalk
<1> QED
  BY <1>1, <1>2, <1>3, <1>4, StillStep

LEMMA PopKeepsInv ==
  ASSUME Inv, NEW t \in Thread, Pop(t)
  PROVE  Inv'
<1>1. /\ call[t].op = "none" /\ call' = [call EXCEPT ![t].op = "pop"] /\ TypeOK
      /\ UNCHANGED <<strategy, thread_id, retainCount, ivars, pools, raised, available>>
  BY DEF Pop, Running, Inv, objects
<1>2. SameCounts
  BY <1>1 DEF SameCounts, InPools
<1>3. call'[t].op = "pop" /\ \A u \in Thread \ {t} : call'[u] = call[u]
  BY <1>1 DEF TypeOK
<1>4. TypeOK'
  BY <1>1 DEF TypeOK
<1>5. ~Walking(t) /\ ~Walking(t)' /\ CallFits(t)' /\ OthersWalk(t)
  BY <1>1, <1>3 DEF Walking, CallFits, OthersWalk
<1> QED
  BY <1>1, <1>2, <1>4, <1>5, StillStep

LEMMA PopReturnsKeepsInv ==
  ASSUME Inv, Popping, NEW t \in Thread, PopReturns(t)
  PROVE  Inv'
<1>1. /\ call[t].op = "pop" /\ call' = [call EXCEPT ![t] = NoCall] /\ TypeOK
      /\ pools[t][Top(t)] = EmptyPool
      /\ pools' = [pools EXCEPT ![t] = SubSeq(@, 1, Len(@) - 1)]
      /\ UNCHANGED <<strategy, thread_id, retainCount, ivars, raised, available>>
  BY DEF PopReturns, Running, Inv
<1>2. Len(pools[t]) > 1
  BY <1>1 DEF Popping
<1>3. /\ pools' \in [Thread -> Seq([Obj -> Nat])]
      /\ \A u \in Thread : Len(pools'[u]) \in 1 .. MaxPools
      /\ SameCounts
  BY <1>1, <1>2, PopTakesNothing DEF SameCounts
<1>4. call'[t] = NoCall /\ \A u \in Thread \ {t} : call'[u] = call[u]
  BY <1>1 DEF TypeOK
<1>5. TypeOK'
  BY <1>1, <1>3, NoCallType DEF TypeOK
<1>6. ~Walking(t) /\ ~Walking(t)' /\ CallFits(t)' /\ OthersWalk(t)
  BY <1>1, <1>4 DEF Walking, CallFits, OthersWalk, NoCall
<1> QED
  BY <1>1, <1>3, <1>5, <1>6, StillStep

LEMMA AcquireKeepsInv ==
  ASSUME Inv, NEW t \in Thread, Acquire(t)
  PROVE  Inv'
<1>1. /\ call[t].op = "none" /\ TypeOK /\ available \in Obj
      /\ call' = [call EXCEPT ![t].op = "acquire", ![t].obj = available]
      /\ UNCHANGED <<strategy, thread_id, retainCount, ivars, pools, raised, available>>
  BY DEF Acquire, Running, Inv, objects, TypeOK
<1>2. SameCounts
  BY <1>1 DEF SameCounts, InPools
<1>3. /\ call'[t].op = "acquire" /\ call'[t].obj = available
      /\ \A u \in Thread \ {t} : call'[u] = call[u]
  BY <1>1 DEF TypeOK
<1>4. TypeOK'
  BY <1>1, ZenonT(60) DEF TypeOK
<1>5. ~Walking(t) /\ ~Walking(t)' /\ CallFits(t)' /\ OthersWalk(t)
  BY <1>1, <1>3 DEF Walking, CallFits, OthersWalk
<1> QED
  BY <1>1, <1>2, <1>4, <1>5, StillStep

(* A client step that does not disturb what is carried.                    *)
LEMMA ClientKeeps ==
  ASSUME Inv, TypeOK', strategy' = strategy, available' = available,
         NEW t \in Thread, ~Walking(t), call' = call,
         WalksStay(Carrier), ThreadsStay, HoldersStay, PoolsStay
  PROVE  /\ CargosStay(Carrier) /\ CallsFit' /\ Homes' /\ Apart' /\ Backed'
         /\ \A x : Packed(x)' = Packed(x)
<1>1. /\ TypeOK /\ CallsFit /\ Homes /\ Apart /\ Backed
      /\ Carrier \in {Carrier, Thread} /\ Carrier \in SUBSET Carrier
  BY DEF Inv
<1>2. ~Walking(t)' /\ CallFits(t)' /\ OthersWalk(t)
  BY <1>1 DEF Walking, CallsFit, CallFits, OthersWalk, TypeOK
<1>3. CargosStay(Carrier) /\ CallsFit'
  BY <1>1, <1>2, ClientCargos
<1> QED
  BY <1>1, <1>3, HomesStay, ApartStays, BackedStays, PackedStays

(* A holder of what is not thread safe keeps it to itself, before a step   *)
(* and after it.                                                           *)
LEMMA HeldStays ==
  ASSUME Held, strategy' = strategy, thread_id' = thread_id,
         \A o \in Obj : ivars'[o] \subseteq ivars[o],
         \A o \in Obj : retainCount[o] > 0 /\ ivars'[o] # {} => retainCount'[o] > 0,
         ivars' \in [Obj -> SUBSET Obj]
  PROVE  Held'
<1> SUFFICES ASSUME NEW o \in Obj, NEW c \in ivars'[o] PROVE HeldAt(o, c)'
  BY DEF Held
<1>1. HeldAt(o, c) /\ Walks(o)' = Walks(o) /\ LeavesPools(o)' = LeavesPools(o)
                   /\ LeavesPools(c)' = LeavesPools(c)
  BY BypassStays DEF Held
<1>2. o \in Holders(c)' /\ Holders(c)' \subseteq Holders(c)
  BY DEF Holders
<1>3. retainCount'[o] > 0
  BY <1>1 DEF HeldAt
<1> QED
  BY <1>1, <1>2, <1>3 DEF HeldAt

LEMMA RetainAutoreleaseKeepsInv ==
  ASSUME Inv, NEW t \in Thread, NEW o \in Obj, RetainAutorelease(t, o)
  PROVE  Inv'
<1>1. /\ MayMessage(t, o) /\ TypeOK /\ retainCount' = [retainCount EXCEPT ![o] = @ + 1]
      /\ pools' = Autoreleased(t, o) /\ ~Walking(t) /\ raised = "no" /\ raised' = raised
      /\ UNCHANGED <<strategy, thread_id, ivars, available, call>>
  BY DEF RetainAutorelease, MayMessage, Running, Inv, Walking
<1>2. /\ pools' \in [Thread -> Seq([Obj -> Nat])]
      /\ \A u \in Thread : Len(pools'[u]) \in 1 .. MaxPools
      /\ \A x \in Obj : PoolTotal(pools', x) = PoolTotal(pools, x) + IF x = o THEN 1 ELSE 0
      /\ \A u \in Thread, x \in Obj : InPools(u, x)' <=> InPools(u, x) \/ (u = t /\ x = o)
  BY <1>1, AutoreleaseAdds
<1>3. TypeOK'
  <2>1. retainCount' \in [Obj -> Nat]
    BY <1>1 DEF TypeOK
  <2> QED
    BY <1>1, <1>2, <2>1 DEF TypeOK
<1>4. WalksStay(Carrier) /\ ThreadsStay /\ HoldersStay /\ PoolsStay
  BY <1>1, <1>2, BypassStays DEF WalksStay, Walked, ThreadsStay, HoldersStay, Holders, PoolsStay
<1>5. /\ CargosStay(Carrier) /\ CallsFit' /\ Homes' /\ Apart' /\ Backed'
      /\ \A x : Packed(x)' = Packed(x)
  BY <1>1, <1>3, <1>4, ClientKeeps
<1>6. retainCount[o] \in Nat /\ retainCount[o] > 0
  BY <1>1, KnownLives DEF MayMessage, Inv
<1>7. \A x \in Obj : retainCount[x] \in Nat /\ retainCount'[x] = retainCount[x] + IF x = o THEN 1 ELSE 0
  BY <1>1 DEF TypeOK
<1>8. Limbo'
  <2>1. \A x \in Obj : retainCount'[x] > 0 => retainCount[x] > 0
    BY <1>6, <1>7
  <2> QED
    BY <1>1, <1>5, <2>1, LimboStays DEF Inv
<1>9. Held'
  <2>1. \A x \in Obj : retainCount[x] > 0 => retainCount'[x] > 0
    BY <1>7
  <2> QED
    BY <1>1, <2>1, HeldStays DEF Inv, TypeOK
<1>10. Follows'
  BY <1>1, <1>5, FollowsStays DEF Inv
<1>11. Balanced'
  <2>1. ASSUME NEW x \in Obj PROVE BalancedAt(x)'
    <3>1. PICK d \in Int : d = IF x = o THEN 1 ELSE 0
      OBVIOUS
    <3>2. Holders(x)' = Holders(x) /\ Packed(x)' = Packed(x) /\ BalancedAt(x)
      BY <1>1, <1>5 DEF Holders, Inv, Balanced
    <3>3. Cardinality(Holders(x)) \in Nat /\ Cardinality(Packed(x)) \in Nat
      BY <1>1, Counted
    <3>4. Changes(x, d, 0, 0)
      BY <1>2, <1>7, <3>1, <3>2, <3>3 DEF Changes
    <3> QED
      BY <1>1, <1>3, <3>2, <3>4, BalanceStep
  <2> QED
    BY <2>1 DEF Balanced
<1>12. PoolsAreAffine'
  <2>1. LeavesPools(o) => thread_id[o] \in {t, IsThreadSafe}
    BY <1>1, BypassStops DEF MayMessage, Bypass
  <2> QED
    BY <1>1, <1>2, <2>1, BypassStays DEF Inv, PoolsAreAffine
<1>13. NoForeignAccess' /\ ThreadSafeStays'
  BY <1>1 DEF NoForeignAccess, ThreadSafeStays, Inv
<1> QED
  BY <1>3, <1>5, <1>8, <1>9, <1>10, <1>11, <1>12, <1>13 DEF Inv

LEMMA InstanceKeepsInv ==
  ASSUME Inv, NEW t \in Thread, NEW o \in Obj, Instance(t, o)
  PROVE  Inv'
<1>1. /\ TypeOK /\ retainCount[o] = 0 /\ retainCount' = [retainCount EXCEPT ![o] = 1]
      /\ thread_id' = [thread_id EXCEPT ![o] =
                         IF strategy[o] = "KnownThreadSafe" THEN IsThreadSafe ELSE t]
      /\ pools' = Autoreleased(t, o) /\ ~Walking(t) /\ raised = "no" /\ raised' = raised
      /\ UNCHANGED <<strategy, ivars, available, call>>
  BY DEF Instance, Running, Inv, Walking
<1>2. /\ pools' \in [Thread -> Seq([Obj -> Nat])]
      /\ \A u \in Thread : Len(pools'[u]) \in 1 .. MaxPools
      /\ \A x \in Obj : PoolTotal(pools', x) = PoolTotal(pools, x) + IF x = o THEN 1 ELSE 0
      /\ \A u \in Thread, x \in Obj : InPools(u, x)' <=> InPools(u, x) \/ (u = t /\ x = o)
  BY <1>1, AutoreleaseAdds
<1>3. TypeOK'
  <2>1. retainCount' \in [Obj -> Nat]
    BY <1>1 DEF TypeOK
  <2>2. thread_id' \in [Obj -> Thread \cup {HasNoThread, IsThreadSafe}]
    BY <1>1 DEF TypeOK
  <2> QED
    BY <1>1, <1>2, <2>1, <2>2 DEF TypeOK
<1>4. /\ thread_id'[o] \in {t, IsThreadSafe} /\ thread_id'[o] # HasNoThread
      /\ \A x \in Obj : x # o => thread_id'[x] = thread_id[x]
  BY <1>1, AffinityAssumption DEF TypeOK
<1>5. References(o) = 0 /\ \A p \in Carrier : o \notin Package(p)
  <2>1. /\ retainCount[o] \in Nat /\ References(o) \in Nat /\ retainCount[o] >= References(o)
        /\ retainCount[o] = References(o) => \A p \in Carrier : o \notin Package(p)
    BY <1>1, Alive DEF Inv, Balanced
  <2>2. References(o) = 0
    BY <1>1, <2>1
  <2> QED
    BY <1>1, <2>1, <2>2
<1>6. Holders(o) = {} /\ ivars[o] = {} /\ \A u \in Thread : ~InPools(u, o)
  <2>1. ~(References(o) >= 1)
    BY <1>5
  <2>2. Holders(o) = {} /\ \A u \in Thread : ~InPools(u, o)
    BY <1>1, <2>1, Referred
  <2>3. ASSUME NEW c \in ivars[o] PROVE FALSE
    <3>1. HeldAt(o, c)
      BY DEF Inv, Held
    <3> QED
      BY <1>1, <3>1 DEF HeldAt
  <2> QED
    BY <2>2, <2>3
<1>7. ASSUME NEW p \in Carrier, o \in Cargo(p), ~Bypass(o) PROVE FALSE
  <2>1. o \in Cargo(p) \ Package(p)
    BY <1>5, <1>7
  <2>2. References(o) >= 1
    BY <1>7, <2>1, CarriedIsReferred DEF Inv
  <2> QED
    BY <1>5, <2>2
<1>8. WalksStay(Carrier) /\ ThreadsStay /\ HoldersStay /\ PoolsStay
  <2>1. WalksStay(Carrier) /\ HoldersStay /\ PoolsStay
    BY <1>1, <1>2, BypassStays DEF WalksStay, Walked, HoldersStay, Holders, PoolsStay
  <2>2. ASSUME NEW p \in Carrier, NEW x \in Cargo(p)
        PROVE  thread_id'[x] = thread_id[x] \/ (Bypass(x) /\ thread_id'[x] # HasNoThread)
    <3>1. x \in Obj
      BY CargoType DEF Inv
    <3> QED
      BY <1>4, <1>7, <3>1
  <2> QED
    BY <2>1, <2>2 DEF ThreadsStay
<1>9. /\ CargosStay(Carrier) /\ CallsFit' /\ Homes' /\ Apart' /\ Backed'
      /\ \A x : Packed(x)' = Packed(x)
  BY <1>1, <1>3, <1>8, ClientKeeps
<1>10. \A x \in Obj : retainCount[x] \in Nat /\ retainCount'[x] = retainCount[x] + IF x = o THEN 1 ELSE 0
  BY <1>1 DEF TypeOK
<1>11. Limbo'
  <2>1. \A x \in Obj : retainCount'[x] > 0 /\ thread_id'[x] = HasNoThread
                         => retainCount[x] > 0 /\ thread_id[x] = HasNoThread
    BY <1>4, <1>10
  <2> QED
    BY <1>9, <2>1, LimboStays DEF Inv
<1>12. Held'
  <2>1. ASSUME NEW h \in Obj, NEW c \in ivars'[h] PROVE HeldAt(h, c)'
    <3>1. HeldAt(h, c) /\ c \in ivars[h]
      BY <1>1 DEF Inv, Held
    <3>2. h # o
      BY <1>6, <3>1
    <3>3. thread_id'[h] = thread_id[h] /\ retainCount'[h] = retainCount[h]
      BY <1>4, <1>1, <3>2 DEF TypeOK
    <3>4. Holders(c)' = Holders(c) /\ Walks(h)' = Walks(h)
          /\ LeavesPools(h)' = LeavesPools(h) /\ LeavesPools(c)' = LeavesPools(c)
      BY <1>1, BypassStays DEF Holders
    <3> QED
      BY <1>1, <3>1, <3>3, <3>4 DEF HeldAt
  <2> QED
    BY <2>1 DEF Held
<1>13. Follows'
  <2>1. ASSUME NEW u \in Thread, NEW h \in Obj, NEW c \in ivars'[h] PROVE FollowsAt(u, h, c)'
    <3>1. FollowsAt(u, h, c) /\ c \in ivars[h] /\ c \in Obj /\ h \in Holders(c)
      BY <1>1 DEF Inv, Follows, TypeOK, Holders
    <3>2. h # o /\ c # o
      BY <1>6, <3>1
    <3>3. thread_id'[h] = thread_id[h] /\ thread_id'[c] = thread_id[c]
      BY <1>4, <3>1, <3>2
    <3>4. Cargo(u)' = Cargo(u) /\ Bypass(c)' = Bypass(c)
      BY <1>1, <1>9, BypassStays DEF CargosStay, Carrier
    <3> QED
      BY <3>1, <3>3, <3>4 DEF FollowsAt
  <2> QED
    BY <2>1 DEF Follows
<1>14. Balanced'
  <2>1. ASSUME NEW x \in Obj PROVE BalancedAt(x)'
    <3>1. PICK d \in Int : d = IF x = o THEN 1 ELSE 0
      OBVIOUS
    <3>2. Holders(x)' = Holders(x) /\ Packed(x)' = Packed(x) /\ BalancedAt(x)
      BY <1>1, <1>9 DEF Holders, Inv, Balanced
    <3>3. Cardinality(Holders(x)) \in Nat /\ Cardinality(Packed(x)) \in Nat
      BY <1>1, Counted
    <3>4. Changes(x, d, 0, 0)
      BY <1>2, <1>10, <3>1, <3>2, <3>3 DEF Changes
    <3> QED
      BY <1>1, <1>3, <3>2, <3>4, BalanceStep
  <2> QED
    BY <2>1 DEF Balanced
<1>15. PoolsAreAffine'
  <2>1. ASSUME NEW u \in Thread, NEW x \in Obj, LeavesPools(x)', InPools(u, x)'
        PROVE  thread_id'[x] \in {u, IsThreadSafe}
    <3>1. LeavesPools(x)
      BY <1>1, <2>1, BypassStays
    <3>2. CASE x = o
      BY <1>2, <1>4, <1>6, <2>1, <3>2
    <3>3. CASE x # o
      BY <1>1, <1>2, <1>4, <2>1, <3>1, <3>3 DEF Inv, PoolsAreAffine
    <3> QED
      BY <3>2, <3>3
  <2> QED
    BY <2>1 DEF PoolsAreAffine
<1>16. NoForeignAccess' /\ ThreadSafeStays'
  <2>1. \A x \in Obj : strategy[x] = "KnownThreadSafe" => thread_id'[x] \in {IsThreadSafe, HasNoThread}
    BY <1>1, <1>4 DEF Inv, ThreadSafeStays, TypeOK
  <2> QED
    BY <1>1, <2>1 DEF NoForeignAccess, ThreadSafeStays, Inv
<1> QED
  BY <1>3, <1>9, <1>11, <1>12, <1>13, <1>14, <1>15, <1>16 DEF Inv

(* The instance variables of an object of a thread that does not walk are  *)
(* on no walk.                                                             *)
LEMMA OwnWalksStay ==
  ASSUME Inv, strategy' = strategy, NEW t \in Thread, ~Walking(t), NEW o \in Obj,
         thread_id[o] = t, \A x \in Obj \ {o} : ivars'[x] = ivars[x]
  PROVE  WalksStay(Carrier)
<1> SUFFICES ASSUME NEW p \in Carrier, NEW x \in Cargo(p) PROVE Walked(x)' = Walked(x)
  BY DEF WalksStay
<1>1. x \in Obj /\ TypeOK /\ Homes
  BY CargoType DEF Inv
<1>2. CASE x # o
  BY <1>1, <1>2, BypassStays DEF Walked
<1>3. CASE x = o
  <2>1. Bypass(o)
    BY <1>1, <1>3, OwnNotCarried
  <2>2. ~Walks(o) /\ Walks(o)' = Walks(o)
    BY <1>1, <2>1, BypassStops, BypassStays
  <2> QED
    BY <1>3, <2>2 DEF Walked
<1> QED
  BY <1>2, <1>3

LEMMA ClearIvarKeepsInv ==
  ASSUME Inv, NEW t \in Thread, NEW o \in Obj, NEW c \in Obj, ClearIvar(t, o, c)
  PROVE  Inv'
<1>1. /\ TypeOK /\ thread_id[o] = t /\ c \in ivars[o]
      /\ ivars' = [ivars EXCEPT ![o] = @ \ {c}]
      /\ pools' = Autoreleased(t, c) /\ ~Walking(t) /\ raised = "no" /\ raised' = raised
      /\ UNCHANGED <<strategy, thread_id, retainCount, available, call>>
  BY DEF ClearIvar, MayMessage, Running, Inv, Walking
<1>2. /\ pools' \in [Thread -> Seq([Obj -> Nat])]
      /\ \A u \in Thread : Len(pools'[u]) \in 1 .. MaxPools
      /\ \A x \in Obj : PoolTotal(pools', x) = PoolTotal(pools, x) + IF x = c THEN 1 ELSE 0
      /\ \A u \in Thread, x \in Obj : InPools(u, x)' <=> InPools(u, x) \/ (u = t /\ x = c)
  BY <1>1, AutoreleaseAdds
<1>3. /\ ivars' \in [Obj -> SUBSET Obj] /\ ivars'[o] = ivars[o] \ {c}
      /\ \A x \in Obj \ {o} : ivars'[x] = ivars[x]
      /\ \A x \in Obj : ivars'[x] \subseteq ivars[x]
  BY <1>1 DEF TypeOK
<1>4. TypeOK'
  BY <1>1, <1>2, <1>3 DEF TypeOK
<1>5. /\ o \in Holders(c) /\ Holders(c)' = Holders(c) \ {o}
      /\ \A x \in Obj \ {c} : Holders(x)' = Holders(x)
      /\ \A x \in Obj : Holders(x)' \subseteq Holders(x)
  BY <1>1, <1>3 DEF Holders
<1>6. WalksStay(Carrier)
  BY <1>1, <1>3, OwnWalksStay
<1>7. ThreadsStay /\ HoldersStay /\ PoolsStay
  <2>1. \A p \in Carrier : Cargo(p) \subseteq Obj
    BY CargoType DEF Inv
  <2> QED
    BY <1>1, <1>2, <1>5, <2>1 DEF ThreadsStay, HoldersStay, PoolsStay
<1>8. /\ CargosStay(Carrier) /\ CallsFit' /\ Homes' /\ Apart' /\ Backed'
      /\ \A x : Packed(x)' = Packed(x)
  BY <1>1, <1>4, <1>6, <1>7, ClientKeeps
<1>9. Limbo' /\ Held' /\ Follows'
  <2>1. Limbo'
    BY <1>1, <1>8, LimboStays DEF Inv
  <2>2. Held'
    BY <1>1, <1>3, HeldStays DEF Inv
  <2>3. Follows'
    BY <1>1, <1>3, <1>8, FollowsStays DEF Inv
  <2> QED
    BY <2>1, <2>2, <2>3
<1>10. Balanced'
  <2>1. ASSUME NEW x \in Obj PROVE BalancedAt(x)'
    <3>1. PICK d \in Int : d = IF x = c THEN 1 ELSE 0
      OBVIOUS
    <3>2. Packed(x)' = Packed(x) /\ BalancedAt(x)
      BY <1>8 DEF Inv, Balanced
    <3>3. PICK k \in Nat, r \in Nat : k = Cardinality(Holders(x)) /\ r = retainCount[x]
      BY <1>1, Counted DEF TypeOK
    <3>4. Cardinality(Holders(x)') = k - d
      <4>1. CASE x = c
        <5>1. Cardinality(Holders(c) \ {o}) = Cardinality(Holders(c)) - 1
          BY <1>1, <1>5, Counted, FS_RemoveElement
        <5> QED
          BY <1>5, <3>1, <3>3, <4>1, <5>1
      <4>2. CASE x # c
        BY <1>5, <3>1, <3>3, <4>2
      <4> QED
        BY <4>1, <4>2
    <3>5. PICK e \in Int : e = 0 - d
      BY <3>1
    <3>6. PICK z \in Int : z = 0
      OBVIOUS
    <3>7. Cardinality(Packed(x)) \in Nat
      BY <1>1, Counted
    <3>8. Changes(x, d, e, z)
      <4>1. k - d = k + e /\ r = r + d + e + z
        BY <3>3, <3>5, <3>6
      <4>2. Cardinality(Packed(x)') = Cardinality(Packed(x)) + z
        BY <3>2, <3>6, <3>7
      <4>3. PoolTotal(pools', x) = PoolTotal(pools, x) + d
        BY <1>2, <3>1
      <4>4. Cardinality(Holders(x)') = Cardinality(Holders(x)) + e
        BY <3>3, <3>4, <4>1
      <4>5. retainCount'[x] = retainCount[x] + d + e + z
        BY <1>1, <3>3, <4>1
      <4> QED
        BY <3>1, <3>5, <3>6, <4>2, <4>3, <4>4, <4>5 DEF Changes
    <3> QED
      BY <1>1, <1>4, <3>2, <3>8, BalanceStep
  <2> QED
    BY <2>1 DEF Balanced
<1>11. PoolsAreAffine'
  <2>1. LeavesPools(c) => thread_id[c] \in {t, IsThreadSafe}
    <3>1. FollowsAt(t, o, c)
      BY <1>1 DEF Inv, Follows
    <3>2. o \notin Cargo(t)
      BY <1>1, NoCargo
    <3>3. LeavesPools(c) => ~Bypass(c)
      BY <1>1, BypassStops
    <3> QED
      BY <1>1, <3>1, <3>2, <3>3 DEF FollowsAt
  <2> QED
    BY <1>1, <1>2, <2>1, BypassStays DEF Inv, PoolsAreAffine
<1>12. NoForeignAccess' /\ ThreadSafeStays'
  BY <1>1 DEF NoForeignAccess, ThreadSafeStays, Inv
<1> QED
  BY <1>4, <1>8, <1>9, <1>10, <1>11, <1>12 DEF Inv

LEMMA SetIvarKeepsInv ==
  ASSUME Inv, NEW t \in Thread, NEW o \in Obj, NEW c \in Obj, SetIvar(t, o, c)
  PROVE  Inv'
<1>1. /\ TypeOK /\ thread_id[o] = t /\ c \notin ivars[o] /\ MayHold(o, c)
      /\ MayMessage(t, o) /\ MayMessage(t, c)
      /\ ivars' = [ivars EXCEPT ![o] = @ \cup {c}]
      /\ retainCount' = [retainCount EXCEPT ![c] = @ + 1]
      /\ ~Walking(t) /\ raised = "no" /\ raised' = raised
      /\ UNCHANGED <<strategy, thread_id, pools, available, call>>
  BY DEF SetIvar, MayMessage, Running, Inv, Walking
<1>2. /\ ivars' \in [Obj -> SUBSET Obj] /\ ivars'[o] = ivars[o] \cup {c}
      /\ \A x \in Obj \ {o} : ivars'[x] = ivars[x]
  BY <1>1 DEF TypeOK
<1>3. /\ retainCount' \in [Obj -> Nat]
      /\ \A x \in Obj : retainCount[x] \in Nat /\ retainCount'[x] = retainCount[x] + IF x = c THEN 1 ELSE 0
  BY <1>1, SMTT(30) DEF TypeOK
<1>4. TypeOK'
  BY <1>1, <1>2, <1>3 DEF TypeOK
<1>5. /\ o \notin Holders(c) /\ Holders(c)' = Holders(c) \cup {o}
      /\ \A x \in Obj \ {c} : Holders(x)' = Holders(x)
  BY <1>1, <1>2 DEF Holders
<1>6. WalksStay(Carrier)
  BY <1>1, <1>2, OwnWalksStay
<1>7. ~Bypass(c) => thread_id[c] \in {t, IsThreadSafe}
  BY <1>1 DEF MayMessage, Bypass
<1>8. ThreadsStay /\ HoldersStay /\ PoolsStay
  <2>1. ThreadsStay /\ PoolsStay
    BY <1>1 DEF ThreadsStay, PoolsStay, InPools
  <2>2. ASSUME NEW p \in Carrier, NEW x \in Cargo(p), Affine(x) PROVE Holders(x)' \subseteq Holders(x)
    <3>1. x \in Obj
      BY CargoType DEF Inv
    <3>2. x # c
      <4>1. ASSUME x = c PROVE FALSE
        <5>1. thread_id[c] = t /\ ~Bypass(c)
          BY <1>7, <2>2, <4>1 DEF Affine
        <5> QED
          BY <1>1, <2>2, <4>1, <5>1, OwnNotCarried DEF Inv
      <4> QED
        BY <4>1
    <3> QED
      BY <1>5, <3>1, <3>2
  <2> QED
    BY <2>1, <2>2 DEF HoldersStay
<1>9. /\ CargosStay(Carrier) /\ CallsFit' /\ Homes' /\ Apart' /\ Backed'
      /\ \A x : Packed(x)' = Packed(x)
  BY <1>1, <1>4, <1>6, <1>8, ClientKeeps
<1>10. retainCount[o] > 0 /\ retainCount[c] > 0
  BY <1>1, KnownLives DEF MayMessage, Inv
<1>11. Limbo'
  <2>1. \A x \in Obj : retainCount'[x] > 0 => retainCount[x] > 0
    BY <1>3, <1>10
  <2> QED
    BY <1>1, <1>9, <2>1, LimboStays DEF Inv
<1>12. Held'
  <2>1. ASSUME NEW h \in Obj, NEW x \in ivars'[h] PROVE HeldAt(h, x)'
    <3>1. x \in Obj
      BY <1>2
    <3>2. Walks(h)' = Walks(h) /\ LeavesPools(h)' = LeavesPools(h) /\ LeavesPools(x)' = LeavesPools(x)
      BY <1>1, BypassStays
    <3>3. CASE h = o /\ x = c
      <4>1. retainCount'[o] > 0
        BY <1>3, <1>10
      <4>2. thread_id[o] # IsThreadSafe
        BY <1>1, AffinityAssumption
      <4>3. strategy[o] # "KnownThreadSafe"
        BY <1>1, AffinityAssumption DEF Inv, ThreadSafeStays
      <4>4. strategy[c] # "KnownThreadSafe" =>
              Walks(o) /\ (LeavesPools(c) => LeavesPools(o)) /\ Holders(c)' = {o}
        BY <1>1, <1>5 DEF MayHold
      <4> QED
        BY <1>1, <3>2, <3>3, <4>1, <4>2, <4>3, <4>4 DEF HeldAt
    <3>4. CASE ~(h = o /\ x = c)
      <4>1. x \in ivars[h] /\ HeldAt(h, x)
        BY <1>2, <3>4 DEF Inv, Held
      <4>2. retainCount'[h] > 0
        BY <1>3, <4>1 DEF HeldAt
      <4>3. strategy[x] # "KnownThreadSafe" => Holders(x)' = Holders(x)
        <5>1. CASE x # c
          BY <1>5, <3>1, <5>1
        <5>2. CASE x = c
          <6>1. h \in Holders(c)
            BY <4>1, <5>2 DEF Holders
          <6> QED
            BY <1>1, <5>2, <6>1 DEF MayHold
        <5> QED
          BY <5>1, <5>2
      <4> QED
        BY <1>1, <3>2, <4>1, <4>2, <4>3 DEF HeldAt
    <3> QED
      BY <3>3, <3>4
  <2> QED
    BY <2>1 DEF Held
<1>13. Follows'
  <2>1. ASSUME NEW u \in Thread, NEW h \in Obj, NEW x \in ivars'[h] PROVE FollowsAt(u, h, x)'
    <3>1. Cargo(u)' = Cargo(u) /\ Bypass(x)' = Bypass(x)
      BY <1>1, <1>9, BypassStays DEF CargosStay, Carrier
    <3>2. CASE h = o /\ x = c
      BY <1>1, <1>7, <3>1, <3>2 DEF FollowsAt
    <3>3. CASE ~(h = o /\ x = c)
      <4>1. FollowsAt(u, h, x)
        BY <1>2, <3>3 DEF Inv, Follows
      <4> QED
        BY <1>1, <3>1, <4>1 DEF FollowsAt
    <3> QED
      BY <3>2, <3>3
  <2> QED
    BY <2>1 DEF Follows
<1>14. Balanced'
  <2>1. ASSUME NEW x \in Obj PROVE BalancedAt(x)'
    <3>1. PICK d \in Int : d = IF x = c THEN 1 ELSE 0
      OBVIOUS
    <3>2. Packed(x)' = Packed(x) /\ BalancedAt(x)
      BY <1>9 DEF Inv, Balanced
    <3>3. Cardinality(Holders(x)) \in Nat /\ Cardinality(Packed(x)) \in Nat /\ PoolTotal(pools, x) \in Nat
      BY <1>1, Counted
    <3>4. Cardinality(Holders(x)') = Cardinality(Holders(x)) + d
      <4>1. CASE x = c
        <5>1. Cardinality(Holders(c) \cup {o}) = Cardinality(Holders(c)) + 1
          BY <1>1, <1>5, Counted, FS_AddElement
        <5> QED
          BY <1>5, <3>1, <4>1, <5>1
      <4>2. CASE x # c
        BY <1>5, <3>1, <3>3, <4>2
      <4> QED
        BY <4>1, <4>2
    <3>5. Changes(x, 0, d, 0)
      BY <1>1, <1>3, <3>1, <3>2, <3>3, <3>4 DEF Changes
    <3> QED
      BY <1>1, <1>4, <3>2, <3>5, BalanceStep
  <2> QED
    BY <2>1 DEF Balanced
<1>15. PoolsAreAffine'
  BY <1>1, BypassStays DEF Inv, PoolsAreAffine, InPools
<1>16. NoForeignAccess' /\ ThreadSafeStays'
  BY <1>1 DEF NoForeignAccess, ThreadSafeStays, Inv
<1> QED
  BY <1>4, <1>9, <1>11, <1>12, <1>13, <1>14, <1>15, <1>16 DEF Inv

LEMMA SetThreadSafeKeepsInv ==
  ASSUME Inv, NEW t \in Thread, NEW o \in Obj, NEW flag \in BOOLEAN, SetThreadSafe(t, o, flag)
  PROVE  Inv'
<1>1. /\ TypeOK /\ ~Bypass(o) /\ ivars[o] = {} /\ MayMessage(t, o)
      /\ \A u \in Thread \ {t} : ~InPools(u, o)
      /\ \A h \in Holders(o) : thread_id[h] = t
      /\ retainCount[o] = References(o)
      /\ thread_id' = [thread_id EXCEPT ![o] = IF flag THEN IsThreadSafe ELSE t]
      /\ ~Walking(t) /\ raised = "no" /\ raised' = raised
      /\ UNCHANGED <<strategy, retainCount, ivars, pools, available, call>>
  BY DEF SetThreadSafe, MayMessage, Running, Inv, Walking
<1>2. /\ thread_id' \in [Obj -> Thread \cup {HasNoThread, IsThreadSafe}]
      /\ thread_id'[o] \in {t, IsThreadSafe} /\ thread_id'[o] # HasNoThread
      /\ \A x \in Obj : x # o => thread_id'[x] = thread_id[x]
  BY <1>1, AffinityAssumption DEF TypeOK
<1>3. TypeOK'
  BY <1>1, <1>2 DEF TypeOK
<1>4. thread_id[o] \in {t, IsThreadSafe}
  BY <1>1 DEF MayMessage, Bypass
<1>5. ASSUME NEW p \in Carrier, o \in Cargo(p) PROVE FALSE
  <2>1. o \notin Package(p)
    BY <1>1, Alive DEF Inv, Balanced
  <2>2. p \in Thread /\ BackedAt(p, o)
    BY <1>1, <1>5, <2>1, CarriedIsReferred DEF Inv
  <2>3. p # t
    BY <1>1, <1>5, NoCargo
  <2>4. PICK h \in Cargo(p) : o \in Walked(h)
    BY <1>1, <2>2, <2>3 DEF BackedAt
  <2>5. h \in Obj
    BY CargoType DEF Inv
  <2>6. h \in Holders(o) /\ ~Bypass(h)
    BY <1>1, <2>4, <2>5, WalkedHolds DEF Inv
  <2>7. thread_id[h] = t
    BY <1>1, <2>6
  <2> QED
    BY <1>1, <2>4, <2>6, <2>7, OwnNotCarried DEF Inv
<1>6. WalksStay(Carrier) /\ ThreadsStay /\ HoldersStay /\ PoolsStay
  <2>1. WalksStay(Carrier) /\ HoldersStay /\ PoolsStay
    BY <1>1, BypassStays DEF WalksStay, Walked, HoldersStay, Holders, PoolsStay, InPools
  <2>2. ASSUME NEW p \in Carrier, NEW x \in Cargo(p) PROVE thread_id'[x] = thread_id[x]
    <3>1. x \in Obj
      BY CargoType DEF Inv
    <3> QED
      BY <1>2, <1>5, <3>1
  <2> QED
    BY <2>1, <2>2 DEF ThreadsStay
<1>7. /\ CargosStay(Carrier) /\ CallsFit' /\ Homes' /\ Apart' /\ Backed'
      /\ \A x : Packed(x)' = Packed(x)
  BY <1>1, <1>3, <1>6, ClientKeeps
<1>8. Limbo'
  <2>1. \A x \in Obj : retainCount'[x] > 0 /\ thread_id'[x] = HasNoThread
                         => retainCount[x] > 0 /\ thread_id[x] = HasNoThread
    BY <1>1, <1>2
  <2> QED
    BY <1>7, <2>1, LimboStays DEF Inv
<1>9. Held'
  <2>1. ASSUME NEW h \in Obj, NEW c \in ivars'[h] PROVE HeldAt(h, c)'
    <3>1. HeldAt(h, c) /\ c \in ivars[h]
      BY <1>1 DEF Inv, Held
    <3>2. thread_id'[h] = thread_id[h]
      BY <1>1, <1>2, <3>1
    <3>3. Holders(c)' = Holders(c) /\ Walks(h)' = Walks(h)
          /\ LeavesPools(h)' = LeavesPools(h) /\ LeavesPools(c)' = LeavesPools(c)
      BY <1>1, BypassStays DEF Holders
    <3> QED
      BY <1>1, <3>1, <3>2, <3>3 DEF HeldAt
  <2> QED
    BY <2>1 DEF Held
<1>10. Follows'
  <2>1. ASSUME NEW u \in Thread, NEW h \in Obj, NEW c \in ivars'[h] PROVE FollowsAt(u, h, c)'
    <3>1. FollowsAt(u, h, c) /\ c \in ivars[h] /\ c \in Obj /\ h \in Holders(c)
      BY <1>1 DEF Inv, Follows, TypeOK, Holders
    <3>2. thread_id'[h] = thread_id[h]
      BY <1>1, <1>2, <3>1
    <3>3. Cargo(u)' = Cargo(u) /\ Bypass(c)' = Bypass(c)
      BY <1>1, <1>7, BypassStays DEF CargosStay, Carrier
    <3>4. CASE c # o
      BY <1>2, <3>1, <3>2, <3>3, <3>4 DEF FollowsAt
    <3>5. CASE c = o
      BY <1>1, <1>2, <3>1, <3>2, <3>5 DEF FollowsAt
    <3> QED
      BY <3>4, <3>5
  <2> QED
    BY <2>1 DEF Follows
<1>11. Balanced'
  <2>1. ASSUME NEW x \in Obj PROVE BalancedAt(x)'
    <3>1. Holders(x)' = Holders(x) /\ Packed(x)' = Packed(x) /\ BalancedAt(x)
      BY <1>1, <1>7 DEF Holders, Inv, Balanced
    <3>2. References(x)' = References(x)
      BY <1>1, <1>3, <3>1, Counted, CountedNext
    <3> QED
      BY <1>1, <3>1, <3>2 DEF BalancedAt
  <2> QED
    BY <2>1 DEF Balanced
<1>12. PoolsAreAffine'
  <2>1. ASSUME NEW u \in Thread, NEW x \in Obj, LeavesPools(x)', InPools(u, x)'
        PROVE  thread_id'[x] \in {u, IsThreadSafe}
    <3>1. LeavesPools(x) /\ InPools(u, x)
      BY <1>1, <2>1, BypassStays DEF InPools
    <3>2. CASE x = o
      BY <1>1, <1>2, <3>1, <3>2
    <3>3. CASE x # o
      BY <1>1, <1>2, <3>1, <3>3 DEF Inv, PoolsAreAffine
    <3> QED
      BY <3>2, <3>3
  <2> QED
    BY <2>1 DEF PoolsAreAffine
<1>13. NoForeignAccess' /\ ThreadSafeStays'
  <2>1. \A x \in Obj : strategy[x] = "KnownThreadSafe" => thread_id'[x] \in {IsThreadSafe, HasNoThread}
    BY <1>1, <1>2 DEF Inv, ThreadSafeStays, Bypass
  <2> QED
    BY <1>1, <2>1 DEF NoForeignAccess, ThreadSafeStays, Inv
<1> QED
  BY <1>3, <1>7, <1>8, <1>9, <1>10, <1>11, <1>12, <1>13 DEF Inv

(* What a tail pool gets is what the totals get.                           *)
TailBecomes(t, v, w) ==
  v = pools[t][Top(t)] /\ pools' = [pools EXCEPT ![t][Top(t)] = w]

TailTells(t, v, w) ==
  /\ pools' \in [Thread -> Seq([Obj -> Nat])] /\ v \in [Obj -> Nat]
  /\ \A u \in Thread : Len(pools'[u]) \in 1 .. MaxPools
  /\ \A u \in Thread \ {t} : pools'[u] = pools[u]
  /\ \A x \in Obj : PoolTotal(pools', x) = PoolTotal(pools, x) + w[x] - v[x]
  /\ \A x \in Obj : InPools(t, x)' => InPools(t, x) \/ w[x] > v[x]

LEMMA TailAdds ==
  ASSUME TypeOK, NEW t \in Thread, NEW w \in [Obj -> Nat], NEW v, TailBecomes(t, v, w)
  PROVE  TailTells(t, v, w)
<1>0. v = pools[t][Top(t)] /\ pools' = [pools EXCEPT ![t][Top(t)] = w]
  BY DEF TailBecomes
<1>1. pools \in [Thread -> Pools] /\ \A u \in Thread : pools[u] \in Pools
  BY DEF TypeOK, Pools
<1>2. PICK n \in Nat : n = Len(pools[t]) /\ n > 0 /\ n = Top(t)
  BY <1>1 DEF TypeOK, Top
<1>3. PICK R : R = pools'
  OBVIOUS
<1>4. TailSet(pools, t, n, w, R)
  BY <1>0, <1>2, <1>3 DEF TailSet
<1>5. TailCounts(pools, t, n, w, R)
  BY <1>1, <1>4, TailChange
<1>6. v = pools[t][n]
  BY <1>0, <1>2
<1>7. /\ R \in [Thread -> Pools] /\ \A u \in Thread : Len(R[u]) = Len(pools[u])
      /\ \A u \in Thread \ {t} : R[u] = pools[u]
      /\ v \in [Obj -> Nat]
      /\ \A x \in Obj : PoolTotal(R, x) = PoolTotal(pools, x) + w[x] - v[x]
      /\ \A x \in Obj : InPool(R[t], x) = InPool(pools[t], x) + w[x] - v[x]
  BY <1>5, <1>6 DEF TailCounts
<1>8. ASSUME NEW x \in Obj, InPools(t, x)' PROVE InPools(t, x) \/ w[x] > v[x]
  <2>1. R[t] \in Pools
    BY <1>7
  <2>2. InPool(R[t], x) > 0
    BY <1>3, <1>8, <2>1, InPoolType DEF InPools
  <2>3. PICK a \in Nat, b \in Nat, c \in Nat : a = InPool(pools[t], x) /\ b = w[x] /\ c = v[x]
    BY <1>1, <1>7, InPoolType
  <2>4. a + b - c > 0
    BY <1>7, <2>2, <2>3
  <2>5. a > 0 \/ b > c
    BY <2>4
  <2> QED
    BY <2>3, <2>5, Counted
<1>9. R \in [Thread -> Seq([Obj -> Nat])] /\ \A u \in Thread : Len(R[u]) \in 1 .. MaxPools
  BY <1>7 DEF Pools, TypeOK
<1> QED
  BY <1>3, <1>7, <1>8, <1>9 DEF TailTells

(* Objects without a reference, or with all of them in one pool, are       *)
(* nobody else's.                                                          *)
LEMMA LastReference ==
  ASSUME Inv, NEW t \in Thread, NEW o \in Obj, InPools(t, o), retainCount[o] <= 1
  PROVE  /\ retainCount[o] = 1 /\ Holders(o) = {}
         /\ \A u \in Thread \ {t} : ~InPools(u, o)
         /\ \A p \in Carrier : o \notin Package(p)
<1>1. TypeOK /\ BalancedAt(o)
  BY DEF Inv, Balanced
<1>2. References(o) >= 1
  BY <1>1, Referred
<1>3. PICK r \in Nat, k \in Nat : r = References(o) /\ k = retainCount[o] /\ k >= r
  BY <1>1, Alive
<1>4. r = 1 /\ k = 1
  BY <1>2, <1>3
<1>5. ~(References(o) >= 2)
  BY <1>3, <1>4
<1>6. \A p \in Carrier : o \notin Package(p)
  BY <1>1, <1>3, <1>4, Alive
<1>7. Holders(o) = {} /\ \A u \in Thread \ {t} : ~InPools(u, o)
  BY <1>1, <1>5, Referred
<1> QED
  BY <1>3, <1>4, <1>6, <1>7

(* The objects that a finalized one held have one holder less.             *)
LEMMA HoldersDrop ==
  ASSUME TypeOK, NEW o \in Obj, ivars' = [ivars EXCEPT ![o] = {}], NEW x \in Obj
  PROVE  /\ Holders(x)' = Holders(x) \ {o}
         /\ Cardinality(Holders(x)') = Cardinality(Holders(x)) - IF x \in ivars[o] THEN 1 ELSE 0
<1>1. ivars'[o] = {} /\ \A h \in Obj \ {o} : ivars'[h] = ivars[h]
  BY DEF TypeOK
<1>2. Holders(x)' = Holders(x) \ {o} /\ (o \in Holders(x) <=> x \in ivars[o])
  BY <1>1 DEF Holders
<1>3. CASE x \in ivars[o]
  BY <1>2, <1>3, Counted, FS_RemoveElement
<1>4. CASE x \notin ivars[o]
  <2>1. Holders(x)' = Holders(x)
    BY <1>2, <1>4
  <2>2. Cardinality(Holders(x)) \in Nat
    BY Counted
  <2> QED
    BY <1>2, <1>4, <2>1, <2>2
<1> QED
  BY <1>2, <1>3, <1>4

LEMMA PopReleasesKeepsInv ==
  ASSUME Inv, NEW t \in Thread, NEW o \in Obj, PopReleases(t, o)
  PROVE  Inv'
<1>1. /\ TypeOK /\ pools[t][Top(t)][o] > 0
      /\ retainCount' = [retainCount EXCEPT ![o] = @ - 1]
      /\ pools' = Drained(t, o)
      /\ ivars' = IF retainCount[o] > 1 THEN ivars ELSE [ivars EXCEPT ![o] = {}]
      /\ ~Walking(t) /\ raised = "no" /\ raised' = raised
      /\ UNCHANGED <<strategy, thread_id, available, call>>
  BY DEF PopReleases, Running, Inv, Walking, Release
<1>2. PICK fin \in BOOLEAN : fin = ~(retainCount[o] > 1)
  OBVIOUS
<1>3. PICK v : v = pools[t][Top(t)]
  OBVIOUS
<1>4. v \in [Obj -> Nat] /\ v[o] > 0 /\ InPools(t, o)
  <2>1. PICK n \in Nat : n = Len(pools[t]) /\ n > 0 /\ n = Top(t)
    BY <1>1 DEF TypeOK, Top
  <2>2. n \in 1 .. Len(pools[t]) /\ pools[t] \in Seq([Obj -> Nat])
    BY <1>1, <2>1 DEF TypeOK
  <2>3. pools[t][n] \in [Obj -> Nat]
    BY <2>2
  <2> QED
    BY <1>1, <1>3, <2>1, <2>2, <2>3 DEF InPools
<1>5. PICK w \in [Obj -> Nat] :
        /\ pools' = [pools EXCEPT ![t][Top(t)] = w]
        /\ \A x \in Obj : w[x] = v[x] - (IF x = o THEN 1 ELSE 0)
                                      + (IF fin /\ x \in ivars[o] THEN 1 ELSE 0)
  <2>1. PICK r : r = [v EXCEPT ![o] = @ - 1]
    OBVIOUS
  <2>2. r \in [Obj -> Nat] /\ \A x \in Obj : r[x] = v[x] - IF x = o THEN 1 ELSE 0
    BY <1>4, <2>1
  <2>3. PICK f : f = [c \in Obj |-> r[c] + IF c \in ivars[o] THEN 1 ELSE 0]
    OBVIOUS
  <2>4. f \in [Obj -> Nat] /\ \A x \in Obj : f[x] = r[x] + IF x \in ivars[o] THEN 1 ELSE 0
    BY <2>2, <2>3
  <2>5. Drained(t, o) = [pools EXCEPT ![t][Top(t)] = IF retainCount[o] > 1 THEN r ELSE f]
    BY <1>3, <2>1, <2>3 DEF Drained
  <2>6. CASE fin
    <3>1. \A x \in Obj : f[x] = v[x] - (IF x = o THEN 1 ELSE 0)
                                     + (IF fin /\ x \in ivars[o] THEN 1 ELSE 0)
      BY <2>2, <2>4, <2>6
    <3>2. pools' = [pools EXCEPT ![t][Top(t)] = f]
      BY <1>1, <1>2, <2>5, <2>6
    <3> QED
      BY <2>4, <3>1, <3>2
  <2>7. CASE ~fin
    <3>1. \A x \in Obj : r[x] = v[x] - (IF x = o THEN 1 ELSE 0)
                                     + (IF fin /\ x \in ivars[o] THEN 1 ELSE 0)
      BY <1>4, <2>2, <2>7
    <3>2. pools' = [pools EXCEPT ![t][Top(t)] = r]
      BY <1>1, <1>2, <2>5, <2>7
    <3> QED
      BY <2>2, <3>1, <3>2
  <2> QED
    BY <2>6, <2>7
<1>6. /\ pools' \in [Thread -> Seq([Obj -> Nat])]
      /\ \A u \in Thread : Len(pools'[u]) \in 1 .. MaxPools
      /\ \A u \in Thread \ {t} : pools'[u] = pools[u]
      /\ \A x \in Obj : PoolTotal(pools', x) = PoolTotal(pools, x) + w[x] - v[x]
      /\ \A x \in Obj : InPools(t, x)' => InPools(t, x) \/ w[x] > v[x]
  <2>1. TailBecomes(t, v, w)
    BY <1>3, <1>5 DEF TailBecomes
  <2>2. TailTells(t, v, w)
    BY <1>1, <2>1, TailAdds
  <2> QED
    BY <2>2 DEF TailTells
<1>7. retainCount[o] \in Nat /\ retainCount[o] > 0
  <2>1. References(o) >= 1
    BY <1>1, <1>4, Referred
  <2>2. PICK r \in Nat, k \in Nat : r = References(o) /\ k = retainCount[o] /\ k >= r
    BY <1>1, Alive DEF Inv, Balanced
  <2> QED
    BY <2>1, <2>2
<1>8. /\ retainCount' \in [Obj -> Nat]
      /\ \A x \in Obj : retainCount[x] \in Nat /\ retainCount'[x] = retainCount[x] - IF x = o THEN 1 ELSE 0
  <2>1. retainCount[o] - 1 \in Nat
    BY <1>7
  <2>2. retainCount \in [Obj -> Nat] /\ retainCount' = [retainCount EXCEPT ![o] = @ - 1]
    BY <1>1 DEF TypeOK
  <2> QED
    BY <2>1, <2>2
<1>9. /\ ivars' \in [Obj -> SUBSET Obj] /\ \A x \in Obj : ivars'[x] \subseteq ivars[x]
      /\ \A x \in Obj : ivars'[x] # ivars[x] => fin /\ x = o
      /\ fin => ivars' = [ivars EXCEPT ![o] = {}] /\ ivars'[o] = {}
      /\ ~fin => ivars' = ivars
  BY <1>1, <1>2 DEF TypeOK
<1>10. TypeOK'
  BY <1>1, <1>6, <1>8, <1>9 DEF TypeOK
<1>11. fin => /\ retainCount[o] = 1 /\ Holders(o) = {}
              /\ \A u \in Thread \ {t} : ~InPools(u, o)
              /\ \A p \in Carrier : o \notin Package(p)
  <2>1. fin => retainCount[o] <= 1
    <3>1. retainCount[o] > 1 \/ retainCount[o] <= 1
      BY <1>7
    <3> QED
      BY <1>2, <3>1
  <2> QED
    BY <1>4, <2>1, LastReference
<1>12. WalksStay(Carrier)
  <2>1. ASSUME NEW p \in Carrier, NEW x \in Cargo(p) PROVE Walked(x)' = Walked(x)
    <3>1. x \in Obj /\ Walks(x)' = Walks(x)
      BY <1>1, CargoType, BypassStays DEF Inv
    <3>2. CASE ivars'[x] = ivars[x]
      BY <3>1, <3>2 DEF Walked
    <3>3. CASE ivars'[x] # ivars[x]
      <4>1. fin /\ x = o
        BY <1>9, <3>1, <3>3
      <4>2. ASSUME NEW c \in Walked(o) PROVE FALSE
        <5>1. ~Bypass(o)
          BY <1>1, BypassStops, <4>2
        <5>2. p \in Thread /\ BackedAt(p, o)
          BY <1>11, <2>1, <4>1, <5>1, CarriedIsReferred DEF Inv
        <5>3. p # t
          BY <1>1, <2>1, NoCargo
        <5>4. PICK h \in Cargo(p) : o \in Walked(h)
          BY <1>11, <4>1, <5>2, <5>3 DEF BackedAt
        <5>5. h \in Holders(o)
          BY <1>1, <5>2, <5>4, CargoType, WalkedHolds DEF Inv
        <5> QED
          BY <1>11, <4>1, <5>5
      <4>3. Walked(o) = {}
        BY <4>2
      <4>4. Walked(o)' = {}
        BY <1>9, <4>1 DEF Walked
      <4> QED
        BY <4>1, <4>3, <4>4
    <3> QED
      BY <3>2, <3>3
  <2> QED
    BY <2>1 DEF WalksStay
<1>13. \A x \in Obj : Holders(x)' \subseteq Holders(x)
  BY <1>9 DEF Holders
<1>14. ThreadsStay /\ HoldersStay /\ PoolsStay
  <2>1. \A p \in Carrier : Cargo(p) \subseteq Obj
    BY CargoType DEF Inv
  <2>2. PoolsStay
    BY <1>1, <1>6 DEF PoolsStay, InPools
  <2> QED
    BY <1>1, <1>13, <2>1, <2>2 DEF ThreadsStay, HoldersStay
<1>15. /\ CargosStay(Carrier) /\ CallsFit' /\ Homes' /\ Apart' /\ Backed'
       /\ \A x : Packed(x)' = Packed(x)
  BY <1>1, <1>10, <1>12, <1>14, ClientKeeps
<1>16. Limbo'
  <2>1. \A x \in Obj : retainCount'[x] > 0 => retainCount[x] > 0
    BY <1>8
  <2> QED
    BY <1>1, <1>15, <2>1, LimboStays DEF Inv
<1>17. Held'
  <2>1. ASSUME NEW x \in Obj, retainCount[x] > 0, ivars'[x] # {} PROVE retainCount'[x] > 0
    <3>1. CASE x # o
      BY <1>8, <2>1, <3>1
    <3>2. CASE x = o
      <4>1. ~fin
        BY <1>9, <2>1, <3>2
      <4>2. retainCount[o] > 1
        BY <1>2, <4>1
      <4> QED
        BY <1>7, <1>8, <3>2, <4>2
    <3> QED
      BY <3>1, <3>2
  <2> QED
    BY <1>1, <1>9, <2>1, HeldStays DEF Inv
<1>18. Follows'
  BY <1>1, <1>9, <1>15, FollowsStays DEF Inv
<1>19. Balanced'
  <2>1. ASSUME NEW x \in Obj PROVE BalancedAt(x)'
    <3>1. PICK d \in 0 .. 1, e \in 0 .. 1 :
            d = (IF x = o THEN 1 ELSE 0) /\ e = (IF fin /\ x \in ivars[o] THEN 1 ELSE 0)
      OBVIOUS
    <3>2. Packed(x)' = Packed(x) /\ BalancedAt(x)
      BY <1>15 DEF Inv, Balanced
    <3>3. PICK k \in Nat, r \in Nat, p \in Nat, q \in Nat :
            /\ k = Cardinality(Holders(x)) /\ r = retainCount[x]
            /\ p = PoolTotal(pools, x) /\ q = v[x]
      BY <1>1, <1>4, Counted DEF TypeOK
    <3>4. Cardinality(Holders(x)') = k - e
      <4>1. CASE fin
        BY <1>1, <1>9, <3>1, <3>3, <4>1, HoldersDrop
      <4>2. CASE ~fin
        BY <1>9, <3>1, <3>3, <4>2 DEF Holders
      <4> QED
        BY <4>1, <4>2
    <3>5. PICK a \in Int, b \in Int, z \in Int : a = e - d /\ b = 0 - e /\ z = 0
      OBVIOUS
    <3>6. Cardinality(Packed(x)) \in Nat
      BY <1>1, Counted
    <3>7. Changes(x, a, b, z)
      <4>1. w[x] = q - d + e
        BY <1>5, <3>1, <3>3
      <4>2. PoolTotal(pools', x) = p + w[x] - q
        BY <1>6, <3>3
      <4>3. PoolTotal(pools', x) = p + a
        BY <3>5, <4>1, <4>2
      <4>4. k - e = k + b
        BY <3>5
      <4>5. retainCount'[x] = r - d
        BY <1>8, <3>1, <3>3
      <4>6. r - d = r + a + b + z
        BY <3>5
      <4>7. Cardinality(Packed(x)') = Cardinality(Packed(x)) + z
        BY <3>2, <3>5, <3>6
      <4> QED
        BY <3>3, <3>4, <3>5, <4>3, <4>4, <4>5, <4>6, <4>7 DEF Changes
    <3> QED
      BY <1>1, <1>10, <3>2, <3>7, BalanceStep
  <2> QED
    BY <2>1 DEF Balanced
<1>20. PoolsAreAffine'
  <2>1. ASSUME NEW u \in Thread, NEW x \in Obj, LeavesPools(x)', InPools(u, x)'
        PROVE  thread_id'[x] \in {u, IsThreadSafe}
    <3>1. LeavesPools(x)
      BY <1>1, <2>1, BypassStays
    <3>2. CASE InPools(u, x)
      BY <1>1, <3>1, <3>2 DEF Inv, PoolsAreAffine
    <3>3. CASE ~InPools(u, x)
      <4>1. u = t /\ w[x] > v[x]
        BY <1>6, <2>1, <3>3 DEF InPools
      <4>2. fin /\ x \in ivars[o]
        <5>1. PICK a \in Nat : a = v[x]
          BY <1>4
        <5> QED
          BY <1>5, <4>1, <5>1
      <4>3. HeldAt(o, x) /\ FollowsAt(t, o, x)
        BY <4>2 DEF Inv, Held, Follows
      <4>4. strategy[x] # "KnownThreadSafe" /\ ~Bypass(x)
        BY <1>1, <3>1, BypassStops DEF Bypass
      <4>5. LeavesPools(o) /\ thread_id[o] # IsThreadSafe
        BY <3>1, <4>3, <4>4 DEF HeldAt
      <4>6. thread_id[o] = t
        BY <1>1, <1>4, <4>5 DEF Inv, PoolsAreAffine
      <4>7. o \notin Cargo(t)
        BY <1>1, NoCargo
      <4> QED
        BY <1>1, <4>1, <4>3, <4>4, <4>6, <4>7 DEF FollowsAt
    <3> QED
      BY <3>2, <3>3
  <2> QED
    BY <2>1 DEF PoolsAreAffine
<1>21. NoForeignAccess' /\ ThreadSafeStays'
  BY <1>1 DEF NoForeignAccess, ThreadSafeStays, Inv
<1> QED
  BY <1>10, <1>15, <1>16, <1>17, <1>18, <1>19, <1>20, <1>21 DEF Inv

(* What holds nothing is alone on its walk.                                *)
LEMMA ReachAlone ==
  ASSUME TypeOK, NEW o \in Obj, Walked(o) = {}
  PROVE  Reach(o) = {o}
<1>1. \A x \in Obj : Walked(x) \subseteq Obj
  BY WalkedType
<1>2. Closed({o}) /\ {o} \in SUBSET Obj
  BY DEF Closed
<1>3. o \in Reach(o) /\ Reach(o) \subseteq {o}
  BY <1>1, <1>2, ReachIsLeast
<1> QED
  BY <1>3

LEMMA DiscardKeepsInv ==
  ASSUME Inv, NEW t \in Thread, Discard(t)
  PROVE  Inv'
<1>0. PICK o \in Obj : o = available
  BY DEF Discard, Inv, TypeOK
<1>1. /\ TypeOK /\ MayDiscard(o) /\ retainCount' = [retainCount EXCEPT ![o] = @ - 1]
      /\ available = o /\ available' = None
      /\ ~Walking(t) /\ raised = "no" /\ raised' = raised
      /\ UNCHANGED <<strategy, thread_id, call>>
      /\ retainCount[o] > 1 => ivars' = ivars /\ pools' = pools
      /\ ~(retainCount[o] > 1) =>
           /\ ivars' = [ivars EXCEPT ![o] = {}]
           /\ pools' = [pools EXCEPT ![t][Top(t)] =
                          [c \in Obj |-> @[c] + IF c \in ivars[o] THEN 1 ELSE 0]]
  BY <1>0 DEF Discard, Running, Inv, Walking, Release
<1>2. PICK fin \in BOOLEAN : fin = ~(retainCount[o] > 1)
  OBVIOUS
<1>3. PICK v : v = pools[t][Top(t)]
  OBVIOUS
<1>4. v \in [Obj -> Nat]
  <2>1. PICK n \in Nat : n = Len(pools[t]) /\ n > 0 /\ n = Top(t)
    BY <1>1 DEF TypeOK, Top
  <2>2. n \in 1 .. Len(pools[t]) /\ pools[t] \in Seq([Obj -> Nat])
    BY <1>1, <2>1 DEF TypeOK
  <2>3. pools[t][n] \in [Obj -> Nat]
    BY <2>2
  <2> QED
    BY <1>3, <2>1, <2>3
<1>5. /\ pools' \in [Thread -> Seq([Obj -> Nat])]
      /\ \A u \in Thread : Len(pools'[u]) \in 1 .. MaxPools
      /\ \A u \in Thread \ {t} : pools'[u] = pools[u]
      /\ \A x \in Obj :
           PoolTotal(pools', x) = PoolTotal(pools, x) + IF fin /\ x \in ivars[o] THEN 1 ELSE 0
      /\ \A x \in Obj : InPools(t, x)' => InPools(t, x) \/ (fin /\ x \in ivars[o])
  <2>1. CASE fin
    <3>1. PICK w : w = [c \in Obj |-> v[c] + IF c \in ivars[o] THEN 1 ELSE 0]
      OBVIOUS
    <3>2. w \in [Obj -> Nat] /\ \A x \in Obj : w[x] = v[x] + IF x \in ivars[o] THEN 1 ELSE 0
      BY <1>4, <3>1
    <3>3. ~(retainCount[o] > 1)
      BY <1>2, <2>1
    <3>4. TailBecomes(t, v, w)
      BY <1>1, <1>3, <3>1, <3>3 DEF TailBecomes
    <3>5. TailTells(t, v, w)
      BY <1>1, <3>2, <3>4, TailAdds
    <3>6. ASSUME NEW x \in Obj
          PROVE  /\ PoolTotal(pools', x) = PoolTotal(pools, x) + IF fin /\ x \in ivars[o] THEN 1 ELSE 0
                 /\ InPools(t, x)' => InPools(t, x) \/ (fin /\ x \in ivars[o])
      <4>1. PICK a \in Nat, b \in Nat, d \in 0 .. 1 :
              /\ a = v[x] /\ b = PoolTotal(pools, x)
              /\ d = IF x \in ivars[o] THEN 1 ELSE 0
        BY <1>1, <1>4, Counted
      <4>2. w[x] = a + d
        BY <3>2, <4>1
      <4>3. PoolTotal(pools', x) = b + (a + d) - a
        BY <3>5, <4>1, <4>2 DEF TailTells
      <4>4. PoolTotal(pools', x) = b + d
        BY <4>3
      <4>5. InPools(t, x)' => InPools(t, x) \/ a + d > a
        BY <3>5, <4>1, <4>2 DEF TailTells
      <4>6. a + d > a => d = 1
        OBVIOUS
      <4> QED
        BY <2>1, <4>1, <4>4, <4>5, <4>6
    <3> QED
      BY <3>5, <3>6 DEF TailTells
  <2>2. CASE ~fin
    <3>1. pools' = pools
      BY <1>1, <1>2, <2>2
    <3>2. \A x \in Obj : PoolTotal(pools, x) \in Nat
      BY <1>1, Counted
    <3> QED
      BY <1>1, <2>2, <3>1, <3>2 DEF TypeOK, InPools
  <2> QED
    BY <2>1, <2>2
<1>6. Walked(o) = {} /\ Cargo(HasNoThread) = {o} /\ Package(HasNoThread) = {o}
  <2>1. Walked(o) = {} /\ o # None
    BY <1>1, AffinityAssumption DEF MayDiscard
  <2>2. Reach(o) = {o}
    BY <1>1, <2>1, ReachAlone
  <2> QED
    BY <1>1, <2>1, <2>2 DEF Cargo, Package
<1>7. HasNoThread \in Carrier /\ HasNoThread \notin Thread /\ Carrier \ Thread = {HasNoThread}
  BY AffinityAssumption DEF Carrier
<1>8. retainCount[o] \in Nat /\ retainCount[o] > 0
  <2>1. /\ retainCount[o] \in Nat /\ References(o) \in Nat
        /\ retainCount[o] >= References(o) + 1
    BY <1>1, <1>6, <1>7, Alive DEF Inv, Balanced
  <2> QED
    BY <2>1
<1>9. /\ retainCount' \in [Obj -> Nat]
      /\ \A x \in Obj : retainCount[x] \in Nat /\ retainCount'[x] = retainCount[x] - IF x = o THEN 1 ELSE 0
  <2>1. retainCount[o] - 1 \in Nat
    BY <1>8
  <2> QED
    BY <1>1, <2>1 DEF TypeOK
<1>10. /\ ivars' \in [Obj -> SUBSET Obj] /\ \A x \in Obj : ivars'[x] \subseteq ivars[x]
       /\ \A x \in Obj : ivars'[x] # ivars[x] => fin /\ x = o
       /\ fin => ivars' = [ivars EXCEPT ![o] = {}] /\ ivars'[o] = {}
       /\ ~fin => ivars' = ivars
  BY <1>1, <1>2 DEF TypeOK
<1>11. TypeOK'
  BY <1>1, <1>5, <1>9, <1>10 DEF TypeOK
<1>12. WalksStay(Thread)
  <2>1. ASSUME NEW p \in Thread, NEW x \in Cargo(p) PROVE Walked(x)' = Walked(x)
    <3>1. x \in Obj /\ Walks(x)' = Walks(x)
      BY <1>1, CargoType, BypassStays DEF Inv, Carrier
    <3>2. CASE x = o
      BY <1>6, <1>10, <3>1, <3>2 DEF Walked
    <3>3. CASE x # o
      BY <1>10, <3>1, <3>3 DEF Walked
    <3> QED
      BY <3>2, <3>3
  <2> QED
    BY <2>1 DEF WalksStay
<1>13. ThreadsStay /\ HoldersStay /\ PoolsStay
  <2>1. \A p \in Carrier : Cargo(p) \subseteq Obj
    BY CargoType DEF Inv
  <2>2. PoolsStay
    BY <1>1, <1>5 DEF PoolsStay, InPools
  <2>3. \A x \in Obj : Holders(x)' \subseteq Holders(x)
    BY <1>10 DEF Holders
  <2> QED
    BY <1>1, <2>1, <2>2, <2>3 DEF ThreadsStay, HoldersStay
<1>14. CargosStay(Thread) /\ CallsFit'
  <2>1. ~Walking(t)' /\ CallFits(t)' /\ OthersWalk(t)
    BY <1>1 DEF Walking, CallsFit, CallFits, OthersWalk, Inv, TypeOK
  <2>2. Thread # Carrier /\ Thread \in {Carrier, Thread}
    BY <1>7
  <2> QED
    BY <1>1, <1>11, <1>12, <2>1, <2>2, ClientCargos DEF Inv
<1>15. Homes' /\ Apart' /\ Backed'
  <2>1. Thread \in SUBSET Carrier
    BY DEF Carrier
  <2> QED
    BY <1>13, <1>14, <2>1, HomesStay, ApartStays, BackedStays DEF Inv
<1>16. /\ \A p \in Thread : Package(p)' = Package(p) /\ Cargo(p)' = Cargo(p)
       /\ Package(HasNoThread)' = {}
  BY <1>7, <1>14 DEF CargosStay
<1>17. Limbo'
  <2>1. ASSUME NEW x \in Obj, retainCount'[x] > 0, thread_id'[x] = HasNoThread
        PROVE  ~Bypass(x)' /\ \E p \in Carrier : x \in Package(p)'
    <3>1. retainCount[x] > 0
      BY <1>9, <2>1
    <3>2. LimboAt(x) /\ thread_id[x] = HasNoThread /\ Bypass(x)' = Bypass(x)
      BY <1>1, <2>1, BypassStays DEF Inv, Limbo
    <3>3. PICK p \in Carrier : x \in Package(p)
      BY <3>1, <3>2 DEF LimboAt
    <3>4. p # HasNoThread
      <4>1. ASSUME p = HasNoThread PROVE FALSE
        <5>1. x = o
          BY <1>6, <3>3, <4>1
        <5>2. retainCount[o] = 1
          BY <1>1, <3>2, <5>1 DEF MayDiscard
        <5>3. retainCount'[o] = 1 - 1
          BY <1>9, <5>2
        <5> QED
          BY <2>1, <5>1, <5>3
      <4> QED
        BY <4>1
    <3>5. p \in Thread
      BY <3>4 DEF Carrier
    <3> QED
      BY <1>16, <3>1, <3>2, <3>3, <3>5 DEF LimboAt
  <2> QED
    BY <2>1 DEF Limbo, LimboAt
<1>18. Held'
  <2>1. ASSUME NEW x \in Obj, retainCount[x] > 0, ivars'[x] # {} PROVE retainCount'[x] > 0
    <3>1. CASE x # o
      BY <1>9, <2>1, <3>1
    <3>2. CASE x = o
      <4>1. ~fin
        BY <1>10, <2>1, <3>2
      <4>2. retainCount[o] > 1
        BY <1>2, <4>1
      <4> QED
        BY <1>8, <1>9, <3>2, <4>2
    <3> QED
      BY <3>1, <3>2
  <2> QED
    BY <1>1, <1>10, <2>1, HeldStays DEF Inv
<1>19. Follows'
  <2>1. ASSUME NEW u \in Thread, NEW h \in Obj, NEW c \in ivars'[h] PROVE FollowsAt(u, h, c)'
    <3>1. FollowsAt(u, h, c) /\ Bypass(c)' = Bypass(c)
      BY <1>1, <1>10, BypassStays DEF Inv, Follows
    <3> QED
      BY <1>1, <1>16, <3>1 DEF FollowsAt
  <2> QED
    BY <2>1 DEF Follows
<1>20. Balanced'
  <2>1. ASSUME NEW x \in Obj PROVE BalancedAt(x)'
    <3>1. PICK d \in 0 .. 1, e \in 0 .. 1 :
            d = (IF x = o THEN 1 ELSE 0) /\ e = (IF fin /\ x \in ivars[o] THEN 1 ELSE 0)
      OBVIOUS
    <3>2. BalancedAt(x) /\ Packed(x)' = Packed(x) \ {HasNoThread}
                        /\ (HasNoThread \in Packed(x) <=> x = o)
      BY <1>6, <1>7, <1>16 DEF Inv, Balanced, Packed, Carrier
    <3>3. PICK k \in Nat, r \in Nat, l \in Nat :
            k = Cardinality(Holders(x)) /\ r = retainCount[x] /\ l = Cardinality(Packed(x))
      BY <1>1, Counted DEF TypeOK
    <3>4. Cardinality(Holders(x)') = k - e
      <4>1. CASE fin
        BY <1>1, <1>10, <3>1, <3>3, <4>1, HoldersDrop
      <4>2. CASE ~fin
        BY <1>10, <3>1, <3>3, <4>2 DEF Holders
      <4> QED
        BY <4>1, <4>2
    <3>5. Cardinality(Packed(x)') = l - d
      <4>1. CASE x = o
        <5>1. Cardinality(Packed(x) \ {HasNoThread}) = Cardinality(Packed(x)) - 1
          BY <1>1, <3>2, <4>1, Counted, FS_RemoveElement
        <5> QED
          BY <3>1, <3>2, <3>3, <4>1, <5>1
      <4>2. CASE x # o
        <5>1. Packed(x)' = Packed(x)
          BY <3>2, <4>2
        <5> QED
          BY <3>1, <3>3, <4>2, <5>1
      <4> QED
        BY <4>1, <4>2
    <3>6. PICK b \in Int, c \in Int : b = 0 - e /\ c = 0 - d
      OBVIOUS
    <3>7. Changes(x, e, b, c)
      <4>1. k - e = k + b /\ l - d = l + c /\ r - d = r + e + b + c
        BY <3>6
      <4>2. retainCount'[x] = r - d
        BY <1>9, <3>1, <3>3
      <4>3. PoolTotal(pools', x) = PoolTotal(pools, x) + e
        BY <1>5, <3>1
      <4> QED
        BY <3>1, <3>3, <3>4, <3>5, <3>6, <4>1, <4>2, <4>3 DEF Changes
    <3> QED
      BY <1>1, <1>11, <3>2, <3>7, BalanceStep
  <2> QED
    BY <2>1 DEF Balanced
<1>21. PoolsAreAffine'
  <2>1. ASSUME NEW u \in Thread, NEW x \in Obj, LeavesPools(x)', InPools(u, x)'
        PROVE  thread_id'[x] \in {u, IsThreadSafe}
    <3>1. LeavesPools(x)
      BY <1>1, <2>1, BypassStays
    <3>2. InPools(u, x)
      <4>1. ASSUME x \in ivars[o] PROVE FALSE
        <5>1. HeldAt(o, x)
          BY <4>1 DEF Inv, Held
        <5>2. strategy[x] # "KnownThreadSafe"
          BY <1>1, <3>1, BypassStops DEF Bypass
        <5> QED
          BY <1>6, <4>1, <5>1, <5>2 DEF HeldAt, Walked
      <4> QED
        BY <1>5, <2>1, <4>1 DEF InPools
    <3> QED
      BY <1>1, <3>1, <3>2 DEF Inv, PoolsAreAffine
  <2> QED
    BY <2>1 DEF PoolsAreAffine
<1>22. NoForeignAccess' /\ ThreadSafeStays'
  BY <1>1 DEF NoForeignAccess, ThreadSafeStays, Inv
<1> QED
  BY <1>11, <1>14, <1>15, <1>17, <1>18, <1>19, <1>20, <1>21, <1>22 DEF Inv

-----------------------------------------------------------------------------
(* The stacks of walks.                                                    *)

Frames == Seq([obj : Obj \cup {None}, left : SUBSET Obj])

(* The last frame has one object less to visit.                            *)
Marks(s, c, r) ==
  /\ r \in Frames /\ Len(r) = Len(s)
  /\ \A i \in 1 .. Len(s) : /\ r[i].obj = s[i].obj
                            /\ r[i].left = IF i = Len(s) THEN s[i].left \ {c} ELSE s[i].left

FrameSet(F, s, n, f, r) ==
  r \in Seq(F) /\ Len(r) = Len(s) /\ \A i \in 1 .. Len(s) : r[i] = IF i = n THEN f ELSE s[i]

LEMMA FrameSets ==
  ASSUME NEW F, NEW s \in Seq(F), NEW n \in 1 .. Len(s), NEW f \in F, NEW r,
         r = [s EXCEPT ![n] = f]
  PROVE  FrameSet(F, s, n, f, r)
<1>1. DOMAIN s = 1 .. Len(s) /\ Len(s) \in Nat
  BY LenProperties
<1>2. r \in Seq(F) /\ Len(r) = Len(s)
  BY ExceptSeq
<1>3. \A i \in 1 .. Len(s) : r[i] = IF i = n THEN f ELSE s[i]
  BY <1>1
<1> QED
  BY <1>2, <1>3 DEF FrameSet

LEMMA FrameMarks ==
  ASSUME NEW s \in Frames, NEW n \in 1 .. Len(s), NEW c, NEW f, NEW r,
         f.obj = s[n].obj, f.left = s[n].left \ {c}, n = Len(s),
         FrameSet([obj : Obj \cup {None}, left : SUBSET Obj], s, n, f, r)
  PROVE  Marks(s, c, r)
<1>1. \A i \in 1 .. Len(s) : r[i] = IF i = n THEN f ELSE s[i]
  BY DEF FrameSet
<1>2. ASSUME NEW i \in 1 .. Len(s)
      PROVE  /\ r[i].obj = s[i].obj
             /\ r[i].left = IF i = Len(s) THEN s[i].left \ {c} ELSE s[i].left
  BY <1>1
<1> QED
  BY <1>2 DEF Marks, FrameSet, Frames

LEMMA MarkSets ==
  ASSUME NEW s \in Frames, Len(s) >= 1, NEW c, NEW r,
         r = [s EXCEPT ![Len(s)].left = @ \ {c}]
  PROVE  Marks(s, c, r)
<1>1. PICK n \in Nat : n = Len(s) /\ n >= 1
  BY LenProperties DEF Frames
<1>2. DOMAIN s = 1 .. n /\ \A i \in 1 .. n : s[i] \in [obj : Obj \cup {None}, left : SUBSET Obj]
  BY <1>1, LenProperties DEF Frames
<1>3. PICK f : f = [s[n] EXCEPT !.left = @ \ {c}]
  OBVIOUS
<1>4. f \in [obj : Obj \cup {None}, left : SUBSET Obj] /\ f.obj = s[n].obj /\ f.left = s[n].left \ {c}
  BY <1>1, <1>2, <1>3
<1>5. r = [s EXCEPT ![n] = f]
  BY <1>1, <1>3
<1>6. PICK F : F = [obj : Obj \cup {None}, left : SUBSET Obj]
  OBVIOUS
<1>7. s \in Seq(F) /\ f \in F /\ n \in 1 .. Len(s)
  BY <1>1, <1>4, <1>6 DEF Frames
<1>8. FrameSet(F, s, n, f, r)
  BY <1>5, <1>7, FrameSets
<1> QED
  BY <1>1, <1>4, <1>6, <1>7, <1>8, FrameMarks

(* What a walk visits is on the way from its first object, and the object  *)
(* that it comes from is walked.                                           *)
LEMMA VisitedIsReached ==
  ASSUME \A x \in Obj : Walked(x) \subseteq Obj,
         NEW s \in Frames, NEW o \in Obj, NEW U \in SUBSET Obj, StackFits(s, o, U),
         NEW c \in s[Len(s)].left
  PROVE  /\ c \in Reach(o) /\ c \in Obj
         /\ Len(s) >= 2 => Walked(s[Len(s)].obj) # {}
<1>1. PICK n \in Nat : n = Len(s) /\ n >= 1
  BY LenProperties DEF Frames, StackFits
<1>2. o \in Reach(o) /\ Reach(o) \in SUBSET Obj /\ Closed(Reach(o))
  BY ReachIsLeast
<1>3. CASE n = 1
  BY <1>1, <1>2, <1>3 DEF StackFits
<1>4. CASE n >= 2
  <2>1. n \in 2 .. Len(s)
    BY <1>1, <1>4
  <2>2. s[n].obj \in U /\ c \in Walked(s[n].obj)
    BY <1>1, <2>1 DEF StackFits
  <2>3. s[n].obj \in Reach(o)
    BY <2>2 DEF StackFits
  <2> QED
    BY <1>1, <1>2, <2>2, <2>3 DEF Closed
<1> QED
  BY <1>1, <1>3, <1>4

(* A visit of what was visited before.                                     *)
LEMMA VisitSeen ==
  ASSUME NEW s \in Frames, NEW o \in Obj, NEW U \in SUBSET Obj, StackFits(s, o, U),
         NEW c \in U, NEW r, Marks(s, c, r)
  PROVE  StackFits(r, o, U)
<1>1. PICK n \in Nat : n = Len(s) /\ n >= 1 /\ n = Len(r)
  BY LenProperties DEF Frames, StackFits, Marks
<1>2. \A i \in 1 .. n : /\ r[i].obj = s[i].obj
                        /\ r[i].left = IF i = n THEN s[i].left \ {c} ELSE s[i].left
  BY <1>1 DEF Marks
<1>3. 1 \in 1 .. n /\ \A i \in 2 .. n : i \in 1 .. n
  BY <1>1
<1>4. Len(r) >= 1 /\ r[1].obj = None /\ r[1].left \subseteq {o} /\ o \in U \cup r[1].left
  BY <1>1, <1>2, <1>3 DEF StackFits
<1>5. U \subseteq Reach(o)
  BY DEF StackFits
<1>6. \A i \in 2 .. n : r[i].obj \in U /\ r[i].left \subseteq Walked(r[i].obj)
  BY <1>1, <1>2, <1>3 DEF StackFits
<1>7. ASSUME NEW i \in 2 .. n, NEW j \in 2 .. n, i # j PROVE r[i].obj # r[j].obj
  <2>1. s[i].obj # s[j].obj
    BY <1>1, <1>7 DEF StackFits
  <2>2. r[i].obj = s[i].obj /\ r[j].obj = s[j].obj
    BY <1>2, <1>3
  <2> QED
    BY <2>1, <2>2
<1>8. \A i \in 2 .. n - 1 : Walked(r[i].obj) # {}
  <2>1. \A i \in 2 .. n - 1 : i \in 1 .. n
    BY <1>1
  <2> QED
    BY <1>1, <1>2, <2>1 DEF StackFits
<1>9. ASSUME NEW x \in U, NEW d \in Walked(x)
      PROVE  d \in U \/ \E i \in 2 .. n : r[i].obj = x /\ d \in r[i].left
  <2>1. CASE d \in U
    BY <2>1
  <2>2. CASE d \notin U
    <3>1. PICK i \in 2 .. n : s[i].obj = x /\ d \in s[i].left
      BY <1>1, <2>2 DEF StackFits
    <3>2. d # c
      BY <2>2
    <3> QED
      BY <1>2, <1>3, <3>1, <3>2
  <2> QED
    BY <2>1, <2>2
<1> QED
  BY <1>1, <1>4, <1>5, <1>6, <1>7, <1>8, <1>9 DEF StackFits

(* A visit of something new, which gets a frame.                           *)
NewFrame(c) == [obj |-> c, left |-> Walked(c)]

VisitAdds(s, o, U, c, q) ==
  /\ q \in Frames /\ Len(q) = Len(s) + 1 /\ q[Len(q)].obj = c
  /\ \A i \in 1 .. Len(s) : q[i].obj = s[i].obj
  /\ StackFits(q, o, U \cup {c})

LEMMA VisitNew ==
  ASSUME TypeOK,
         NEW s \in Frames, NEW o \in Obj, NEW U \in SUBSET Obj, StackFits(s, o, U),
         NEW c \in s[Len(s)].left, c \notin U, NEW r, Marks(s, c, r),
         NEW q, q = Append(r, NewFrame(c))
  PROVE  VisitAdds(s, o, U, c, q)
<1>1. PICK n \in Nat : n = Len(s) /\ n >= 1 /\ n = Len(r)
  BY LenProperties DEF Frames, StackFits, Marks
<1>2. \A i \in 1 .. n : /\ r[i].obj = s[i].obj
                        /\ r[i].left = IF i = n THEN s[i].left \ {c} ELSE s[i].left
  BY <1>1 DEF Marks
<1>3. c \in Reach(o) /\ c \in Obj /\ (n >= 2 => Walked(s[n].obj) # {})
  <2>1. \A x \in Obj : Walked(x) \subseteq Obj
    BY WalkedType
  <2> QED
    BY <1>1, <2>1, VisitedIsReached
<1>4. NewFrame(c) \in [obj : Obj \cup {None}, left : SUBSET Obj]
  BY <1>3, WalkedType DEF NewFrame
<1>5. q \in Frames /\ Len(q) = n + 1 /\ (\A i \in 1 .. n : q[i] = r[i]) /\ q[n + 1] = NewFrame(c)
  <2>1. r \in Frames
    BY DEF Marks
  <2> QED
    BY <1>1, <1>4, <2>1, AppendProperties DEF Frames
<1>6. q[n + 1].obj = c /\ q[n + 1].left = Walked(c)
  BY <1>5 DEF NewFrame
<1>7. /\ 1 \in 1 .. n /\ (\A i \in 2 .. n : i \in 1 .. n) /\ n + 1 \in 2 .. n + 1
      /\ \A i \in 2 .. n + 1 : i \in 2 .. n \/ i = n + 1
      /\ \A i \in 2 .. n : i \in 2 .. n + 1
  BY <1>1
<1>8. \A i \in 1 .. n : /\ q[i].obj = s[i].obj
                        /\ q[i].left = IF i = n THEN s[i].left \ {c} ELSE s[i].left
  BY <1>2, <1>5
<1>9. q[1].obj = None /\ q[1].left \subseteq {o} /\ o \in (U \cup {c}) \cup q[1].left
  BY <1>1, <1>7, <1>8 DEF StackFits
<1>10. U \cup {c} \subseteq Reach(o)
  BY <1>3 DEF StackFits
<1>11. \A i \in 2 .. n : q[i].obj \in U /\ q[i].left \subseteq Walked(q[i].obj)
  BY <1>1, <1>7, <1>8 DEF StackFits
<1>12. \A i \in 2 .. n + 1 : q[i].obj \in U \cup {c} /\ q[i].left \subseteq Walked(q[i].obj)
  BY <1>6, <1>7, <1>11
<1>13. \A i \in 2 .. n + 1, j \in 2 .. n + 1 : i # j => q[i].obj # q[j].obj
  <2>1. ASSUME NEW i \in 2 .. n, NEW j \in 2 .. n, i # j PROVE q[i].obj # q[j].obj
    <3>1. s[i].obj # s[j].obj
      BY <1>1, <2>1 DEF StackFits
    <3>2. q[i].obj = s[i].obj /\ q[j].obj = s[j].obj
      BY <1>7, <1>8
    <3> QED
      BY <3>1, <3>2
  <2>2. \A i \in 2 .. n : q[i].obj # c
    BY <1>11
  <2> QED
    BY <1>6, <1>7, <2>1, <2>2
<1>14. \A i \in 2 .. (n + 1) - 1 : Walked(q[i].obj) # {}
  <2>1. \A i \in 2 .. n : i \in 2 .. n - 1 \/ i = n
    BY <1>1
  <2>2. \A i \in 2 .. n - 1 : Walked(s[i].obj) # {}
    BY <1>1 DEF StackFits
  <2>3. \A i \in 2 .. n : i = n => n >= 2
    OBVIOUS
  <2>4. \A i \in 2 .. n : Walked(q[i].obj) # {}
    BY <1>3, <1>7, <1>8, <2>1, <2>2, <2>3
  <2>5. (n + 1) - 1 = n
    BY <1>1
  <2> QED
    BY <2>4, <2>5
<1>15. ASSUME NEW x \in U \cup {c}, NEW d \in Walked(x)
       PROVE  d \in U \cup {c} \/ \E i \in 2 .. n + 1 : q[i].obj = x /\ d \in q[i].left
  <2>1. CASE x = c
    BY <1>6, <1>7, <2>1
  <2>2. CASE d \in U \cup {c}
    BY <2>2
  <2>3. CASE x \in U /\ d \notin U \cup {c}
    <3>1. PICK i \in 2 .. n : s[i].obj = x /\ d \in s[i].left
      BY <1>1, <2>3 DEF StackFits
    <3> QED
      BY <1>7, <1>8, <2>3, <3>1
  <2> QED
    BY <2>1, <2>2, <2>3
<1>16. StackFits(q, o, U \cup {c})
  <2>1. Len(q) >= 1
    BY <1>1, <1>5
  <2>2. PICK m \in Nat : m = n + 1 /\ Len(q) = m
    BY <1>1, <1>5
  <2>3. PICK V : V = U \cup {c}
    OBVIOUS
  <2>4. q[1].obj = None /\ q[1].left \subseteq {o} /\ o \in V \cup q[1].left /\ V \subseteq Reach(o)
    BY <1>9, <1>10, <2>3
  <2>5. \A i \in 2 .. m : q[i].obj \in V /\ q[i].left \subseteq Walked(q[i].obj)
    BY <1>12, <2>2, <2>3
  <2>6. \A i \in 2 .. m, j \in 2 .. m : i # j => q[i].obj # q[j].obj
    BY <1>13, <2>2
  <2>7. \A i \in 2 .. m - 1 : Walked(q[i].obj) # {}
    BY <1>14, <2>2
  <2>8. \A x \in V : \A d \in Walked(x) :
          d \in V \/ \E i \in 2 .. m : q[i].obj = x /\ d \in q[i].left
    BY <1>15, <2>2, <2>3
  <2>9. StackFits(q, o, V)
    BY <2>1, <2>2, <2>4, <2>5, <2>6, <2>7, <2>8, ZenonT(60) DEF StackFits
  <2> QED
    BY <2>3, <2>9
<1> QED
  BY <1>1, <1>5, <1>6, <1>8, <1>16 DEF VisitAdds

(* A return from an object whose frame has nothing left.                   *)
ReturnLeaves(s, o, U, q) ==
  /\ q \in Frames /\ Len(q) = Len(s) - 1 /\ Len(s) >= 2
  /\ \A i \in 1 .. Len(q) : q[i].obj = s[i].obj
  /\ s[Len(s)].obj \in U /\ Walked(s[Len(s)].obj) \subseteq U
  /\ StackFits(q, o, U)

LEMMA ReturnFits ==
  ASSUME NEW s \in Frames, NEW o \in Obj, NEW U \in SUBSET Obj, StackFits(s, o, U),
         s[Len(s)].left = {}, s[Len(s)].obj # None,
         NEW q, q = SubSeq(s, 1, Len(s) - 1)
  PROVE  ReturnLeaves(s, o, U, q)
<1>1. PICK n \in Nat : n = Len(s) /\ n >= 1
  BY LenProperties DEF Frames, StackFits
<1>2. n >= 2
  BY <1>1 DEF StackFits
<1>3. PICK m \in Nat : m = n - 1 /\ m >= 1 /\ n = m + 1 /\ m \in 0 .. Len(s)
  <2>1. PICK m \in Nat : m = n - 1 /\ m >= 1 /\ n = m + 1 /\ m \in 0 .. n
    BY <1>2
  <2> QED
    BY <1>1, <2>1
<1>4. q \in Frames /\ Len(q) = m /\ \A i \in 1 .. m : q[i] = s[i]
  <2>1. q = SubSeq(s, 1, m)
    BY <1>1, <1>3
  <2>2. PICK S : Frames = Seq(S)
    BY DEF Frames
  <2>3. SubSeq(s, 1, m) \in Seq(S) /\ Len(SubSeq(s, 1, m)) = m /\ \A i \in 1 .. m : SubSeq(s, 1, m)[i] = s[i]
    BY <1>3, <2>2, PrefixOfSeq
  <2> QED
    BY <2>1, <2>2, <2>3
<1>5. /\ 1 \in 1 .. m /\ (\A i \in 2 .. m : i \in 1 .. m /\ i \in 2 .. n /\ i \in 2 .. n - 1)
      /\ (\A i \in 2 .. n : i \in 2 .. m \/ i = n)
      /\ (\A i \in 2 .. m - 1 : i \in 1 .. m /\ i \in 2 .. n - 1) /\ n \in 2 .. n
  BY <1>2, <1>3
<1>6. q[1].obj = None /\ q[1].left \subseteq {o} /\ o \in U \cup q[1].left
  BY <1>4, <1>5 DEF StackFits
<1>7. \A i \in 2 .. m : q[i].obj \in U /\ q[i].left \subseteq Walked(q[i].obj)
  BY <1>1, <1>4, <1>5 DEF StackFits
<1>8. \A i \in 2 .. m, j \in 2 .. m : i # j => q[i].obj # q[j].obj
  BY <1>1, <1>4, <1>5 DEF StackFits
<1>9. \A i \in 2 .. m - 1 : Walked(q[i].obj) # {}
  <2>1. \A i \in 2 .. n - 1 : Walked(s[i].obj) # {}
    BY <1>1 DEF StackFits
  <2> QED
    BY <1>4, <1>5, <2>1
<1>10. ASSUME NEW x \in U, NEW d \in Walked(x)
       PROVE  d \in U \/ \E i \in 2 .. m : q[i].obj = x /\ d \in q[i].left
  <2>1. CASE d \notin U
    <3>1. PICK i \in 2 .. n : s[i].obj = x /\ d \in s[i].left
      BY <1>1, <2>1 DEF StackFits
    <3>2. i # n
      BY <1>1, <3>1
    <3> QED
      BY <1>4, <1>5, <3>1, <3>2
  <2> QED
    BY <2>1
<1>11. StackFits(q, o, U)
  <2>1. Len(q) >= 1 /\ U \subseteq Reach(o)
    BY <1>3, <1>4 DEF StackFits
  <2> QED
    BY <1>4, <1>6, <1>7, <1>8, <1>9, <1>10, <2>1 DEF StackFits
<1>12. s[n].obj \in U /\ Walked(s[n].obj) \subseteq U
  <2>1. s[n].obj \in U
    BY <1>1, <1>5 DEF StackFits
  <2>2. ASSUME NEW d \in Walked(s[n].obj), d \notin U PROVE FALSE
    <3>1. PICK i \in 2 .. n : s[i].obj = s[n].obj /\ d \in s[i].left
      BY <1>1, <2>1, <2>2 DEF StackFits
    <3>2. i = n
      BY <1>1, <1>5, <3>1 DEF StackFits
    <3> QED
      BY <1>1, <3>1, <3>2
  <2> QED
    BY <2>1, <2>2
<1> QED
  BY <1>1, <1>2, <1>3, <1>4, <1>5, <1>11, <1>12 DEF ReturnLeaves

(* A walk that has returned from all objects has visited its cargo.        *)
LEMMA WalkEnds ==
  ASSUME \A x \in Obj : Walked(x) \subseteq Obj,
         NEW s \in Frames, NEW o \in Obj, NEW U \in SUBSET Obj, StackFits(s, o, U),
         s[Len(s)].left = {}, s[Len(s)].obj = None
  PROVE  Len(s) = 1 /\ U = Reach(o)
<1>1. PICK n \in Nat : n = Len(s) /\ n >= 1
  BY LenProperties DEF Frames, StackFits
<1>2. n = 1
  <2>1. ASSUME n >= 2 PROVE FALSE
    <3>1. n \in 2 .. Len(s)
      BY <1>1, <2>1
    <3>2. s[n].obj \in U
      BY <3>1 DEF StackFits
    <3> QED
      BY <1>1, <3>2, AffinityAssumption
  <2> QED
    BY <1>1, <2>1
<1>3. o \in U /\ U \subseteq Reach(o)
  BY <1>1, <1>2 DEF StackFits
<1>4. Closed(U)
  <2>1. 2 .. Len(s) = {}
    BY <1>1, <1>2
  <2> QED
    BY <2>1 DEF StackFits, Closed
<1>5. Reach(o) \subseteq U
  BY <1>3, <1>4, ReachIsLeast
<1> QED
  BY <1>1, <1>2, <1>3, <1>5

-----------------------------------------------------------------------------
(* Steps of walks.                                                         *)

CallRecord ==
  [op : {"none", "pop", "relinquish", "gain", "acquire"}, obj : Obj \cup {None},
   stack : Frames, uniquing : SUBSET Obj]

(* The walk of t goes on with the stack q and the uniquing set V.          *)
Goes(t, q, V) ==
  /\ call' \in [Thread -> CallRecord] /\ OthersWalk(t)
  /\ call'[t].op = call[t].op /\ call'[t].obj = call[t].obj
  /\ call'[t].stack = q /\ call'[t].uniquing = V

Walkers(q) == {q[i].obj : i \in 2 .. Len(q)}

LEMMA GoesOn ==
  ASSUME TypeOK, NEW t \in Thread, NEW q \in Frames, NEW V \in SUBSET Obj,
         call' = [call EXCEPT ![t] = [call[t] EXCEPT !.stack = q, !.uniquing = V]]
  PROVE  Goes(t, q, V)
<1>1. call \in [Thread -> CallRecord]
  BY DEF TypeOK, CallRecord, Frames
<1>2. PICK k \in CallRecord : k = call[t]
  BY <1>1
<1>3. PICK l : l = [k EXCEPT !.stack = q, !.uniquing = V]
  OBVIOUS
<1>4. /\ l \in CallRecord /\ l.op = k.op /\ l.obj = k.obj /\ l.stack = q /\ l.uniquing = V
  BY <1>2, <1>3 DEF CallRecord
<1>5. call' = [call EXCEPT ![t] = l]
  BY <1>2, <1>3
<1>6. call'[t] = l /\ \A u \in Thread \ {t} : call'[u] = call[u]
  BY <1>1, <1>5
<1>7. call' \in [Thread -> CallRecord]
  BY <1>1, <1>4, <1>5
<1> QED
  BY <1>2, <1>4, <1>6, <1>7 DEF Goes, OthersWalk

(* The stack and the uniquing set of a walk.                               *)
LEMMA WalkFits ==
  ASSUME TypeOK, CallsFit, NEW t \in Thread, Walking(t)
  PROVE  /\ call[t].stack \in Frames /\ call[t].obj \in Obj /\ call[t].uniquing \in SUBSET Obj
         /\ StackFits(call[t].stack, call[t].obj, call[t].uniquing)
         /\ Len(call[t].stack) >= 1 /\ Cargo(t) = Reach(call[t].obj)
<1>1. call[t] \in CallRecord
  BY DEF TypeOK, CallRecord, Frames
<1>2. CallFits(t)
  BY DEF CallsFit
<1>3. call[t].obj \in Obj /\ StackFits(call[t].stack, call[t].obj, call[t].uniquing)
  BY <1>2 DEF CallFits, Walking
<1>4. Cargo(t) = Reach(call[t].obj)
  BY AffinityAssumption DEF Cargo
<1> QED
  BY <1>1, <1>3, <1>4 DEF CallRecord, StackFits

(* A visit inserts into the uniquing set, and is a frame if it is new.     *)
VisitTells(t, c) ==
  /\ c \in Obj /\ c \in Cargo(t)
  /\ \E q \in Frames :
       /\ Goes(t, q, call[t].uniquing \cup {c})
       /\ StackFits(q, call[t].obj, call[t].uniquing \cup {c})
       /\ Walkers(q) = OnStack(t) \cup (IF c \in call[t].uniquing THEN {} ELSE {c})

LEMMA VisitGoes ==
  ASSUME TypeOK, CallsFit, NEW t \in Thread, Walking(t), NEW c \in Frame(t).left,
         call' = [call EXCEPT ![t] = Visited(t, c)]
  PROVE  VisitTells(t, c)
<1>1. PICK s \in Frames, o \in Obj, U \in SUBSET Obj :
        /\ s = call[t].stack /\ o = call[t].obj /\ U = call[t].uniquing
        /\ StackFits(s, o, U) /\ Len(s) >= 1 /\ Cargo(t) = Reach(o)
  BY WalkFits
<1>2. PICK n \in Nat : n = Len(s) /\ n >= 1
  BY <1>1, LenProperties DEF Frames
<1>3. c \in s[Len(s)].left
  BY <1>1 DEF Frame
<1>4. c \in Obj /\ c \in Cargo(t)
  <2>1. \A x \in Obj : Walked(x) \subseteq Obj
    BY WalkedType
  <2> QED
    BY <1>1, <1>3, <2>1, VisitedIsReached
<1>5. PICK r : r = [s EXCEPT ![Len(s)].left = @ \ {c}]
  OBVIOUS
<1>6. Marks(s, c, r)
  BY <1>1, <1>5, MarkSets
<1>7. PICK k \in CallRecord : k = call[t]
  BY DEF TypeOK, CallRecord, Frames
<1>8. [call[t] EXCEPT !.stack[Len(call[t].stack)].left = @ \ {c}] = [k EXCEPT !.stack = r]
  BY <1>1, <1>5, <1>7 DEF CallRecord
<1>9. OnStack(t) = {s[i].obj : i \in 2 .. n}
  BY <1>1, <1>2 DEF OnStack
<1>10. r \in Frames /\ Len(r) = n /\ \A i \in 1 .. n : r[i].obj = s[i].obj
  BY <1>2, <1>6 DEF Marks
<1>11. \A i \in 2 .. n : i \in 1 .. n /\ i \in 2 .. n + 1
  BY <1>2
<1>12. CASE c \in U
  <2>1. StackFits(r, o, U)
    BY <1>1, <1>6, <1>12, VisitSeen
  <2>2. U \cup {c} = U
    BY <1>12
  <2>3. Visited(t, c) = [k EXCEPT !.stack = r]
    BY <1>1, <1>8, <1>12 DEF Visited
  <2>4. [k EXCEPT !.stack = r] = [k EXCEPT !.stack = r, !.uniquing = U]
    BY <1>1, <1>7 DEF CallRecord
  <2>5. call' = [call EXCEPT ![t] = [call[t] EXCEPT !.stack = r, !.uniquing = U]]
    BY <1>7, <2>3, <2>4
  <2>6. Goes(t, r, U)
    BY <1>1, <1>10, <2>5, GoesOn
  <2>7. Walkers(r) = OnStack(t)
    <3>1. Walkers(r) = {r[i].obj : i \in 2 .. n}
      BY <1>10 DEF Walkers
    <3>2. \A i \in 2 .. n : r[i].obj = s[i].obj
      BY <1>10, <1>11
    <3> QED
      BY <1>9, <3>1, <3>2
  <2> QED
    BY <1>1, <1>4, <1>10, <1>12, <2>1, <2>2, <2>6, <2>7 DEF VisitTells
<1>13. CASE c \notin U
  <2>1. PICK q : q = Append(r, NewFrame(c))
    OBVIOUS
  <2>2. /\ q \in Frames /\ Len(q) = n + 1 /\ q[n + 1].obj = c
        /\ \A i \in 1 .. n : q[i].obj = s[i].obj
        /\ StackFits(q, o, U \cup {c})
    <3>1. VisitAdds(s, o, U, c, q)
      BY <1>1, <1>3, <1>6, <1>13, <2>1, VisitNew
    <3> QED
      BY <1>2, <3>1 DEF VisitAdds
  <2>3. Visited(t, c) = [k EXCEPT !.stack = q, !.uniquing = U \cup {c}]
    <3>1. Visited(t, c) = [[k EXCEPT !.stack = r] EXCEPT !.stack = Append(@, [obj |-> c, left |-> Walked(c)]),
                                                        !.uniquing = @ \cup {c}]
      BY <1>1, <1>8, <1>13 DEF Visited
    <3>2. PICK f : f = NewFrame(c)
      OBVIOUS
    <3>3. PICK a : a = [k EXCEPT !.stack = r]
      OBVIOUS
    <3>4. a.stack = r /\ a.uniquing = U /\ DOMAIN a = DOMAIN k
      BY <1>1, <1>7, <3>3 DEF CallRecord
    <3>5. Visited(t, c) = [a EXCEPT !.stack = q, !.uniquing = U \cup {c}]
      BY <2>1, <3>1, <3>3, <3>4 DEF NewFrame
    <3> QED
      BY <1>7, <3>3, <3>5 DEF CallRecord
  <2>4. call' = [call EXCEPT ![t] = [call[t] EXCEPT !.stack = q, !.uniquing = U \cup {c}]]
    BY <1>7, <2>3
  <2>5. Goes(t, q, U \cup {c})
    <3>1. U \cup {c} \in SUBSET Obj
      BY <1>4
    <3> QED
      BY <2>2, <2>4, <3>1, GoesOn
  <2>6. Walkers(q) = OnStack(t) \cup {c}
    <3>1. Walkers(q) = {q[i].obj : i \in 2 .. n + 1}
      BY <2>2 DEF Walkers
    <3>2. \A i \in 2 .. n : q[i].obj = s[i].obj
      BY <1>11, <2>2
    <3>3. n + 1 \in 2 .. n + 1 /\ \A i \in 2 .. n + 1 : i \in 2 .. n \/ i = n + 1
      BY <1>2
    <3> QED
      BY <1>9, <1>11, <2>2, <3>1, <3>2, <3>3
  <2> QED
    BY <1>1, <1>4, <1>13, <2>2, <2>5, <2>6 DEF VisitTells
<1> QED
  BY <1>12, <1>13

(* A walk that goes on keeps the cargos, and the packages of the others.   *)
WalkKeeps(t, q, V) ==
  /\ CallsFit' /\ WalksStay(Carrier)
  /\ \A p \in Carrier : Cargo(p)' = Cargo(p)
  /\ \A p \in Carrier \ {t} : Package(p)' = Package(p)
  /\ \A u \in Thread : call'[u].op = call[u].op
  /\ call[t].op = "relinquish" => Package(t)' = V \ Walkers(q)
  /\ call[t].op = "gain" => Package(t)' = Cargo(t) \ V

LEMMA GoesKeeps ==
  ASSUME TypeOK, TypeOK', CallsFit, NEW t \in Thread, Walking(t), strategy' = strategy,
         ivars' = ivars, available' = available, NEW q \in Frames, NEW V \in SUBSET Obj,
         Goes(t, q, V), StackFits(q, call[t].obj, V)
  PROVE  WalkKeeps(t, q, V)
<1>1. \A x : Walked(x)' = Walked(x)
  BY BypassStays DEF Walked
<1>2. \A p : WalksStay(p)
  BY <1>1 DEF WalksStay
<1>3. t \in Carrier /\ t # HasNoThread /\ HasNoThread \notin Thread
  BY AffinityAssumption DEF Carrier
<1>4. PICK o \in Obj : o = call[t].obj /\ Cargo(t) = Reach(o)
  BY WalkFits
<1>5. /\ OthersWalk(t) /\ call'[t].op = call[t].op /\ call'[t].obj = o
      /\ call'[t].stack = q /\ call'[t].uniquing = V
  BY <1>4 DEF Goes
<1>6. Reach(o)' = Reach(o)
  <2>1. (\A x \in Obj : Walked(x) \subseteq Obj) /\ (\A x \in Obj : (Walked(x) \subseteq Obj)')
    BY WalkedType, WalkedTypeNext
  <2>2. \A x \in Reach(o) : Walked(x)' = Walked(x)
    BY <1>1
  <2> QED
    BY <2>1, <2>2, ReachStays
<1>7. Walking(t)' /\ Cargo(t)' = Cargo(t)
  <2>1. Walking(t)'
    BY <1>5 DEF Walking
  <2> QED
    BY <1>3, <1>4, <1>5, <1>6, <2>1 DEF Cargo
<1>8. ASSUME NEW p \in Carrier \ {t} PROVE Cargo(p)' = Cargo(p) /\ Package(p)' = Package(p)
  <2>1. IF p = HasNoThread THEN available' = available ELSE call'[p] = call[p]
    BY <1>5 DEF OthersWalk, Carrier
  <2> QED
    BY <1>2, <2>1, CargoStays
<1>9. CallFits(t)'
  <2>1. StackFits(q, o, V)
    BY <1>4
  <2>2. StackFits(q, o, V)'
    <3>1. V \subseteq Reach(o)'
      BY <1>6, <2>1 DEF StackFits
    <3>2. \A i \in 2 .. Len(q) : q[i].obj \in V /\ q[i].left \subseteq Walked(q[i].obj)'
      BY <1>1, <2>1 DEF StackFits
    <3>3. \A i \in 2 .. Len(q) - 1 : Walked(q[i].obj)' # {}
      BY <1>1, <2>1 DEF StackFits
    <3>4. \A x \in V : \A c \in Walked(x)' :
            c \in V \/ \E i \in 2 .. Len(q) : q[i].obj = x /\ c \in q[i].left
      BY <1>1, <2>1 DEF StackFits
    <3> QED
      BY <2>1, <3>1, <3>2, <3>3, <3>4 DEF StackFits
  <2> QED
    BY <1>5, <2>2 DEF CallFits
<1>10. ASSUME NEW u \in Thread PROVE CallFits(u)'
  <2>1. CASE u = t
    BY <1>9, <2>1
  <2>2. CASE u # t
    BY <1>2, <1>5, <2>2, FitsStay DEF OthersWalk
  <2> QED
    BY <2>1, <2>2
<1>11. \A u \in Thread : call'[u].op = call[u].op
  BY <1>5 DEF OthersWalk
<1>12. call[t].op = "relinquish" => Package(t)' = V \ Walkers(q)
  BY <1>3, <1>5 DEF Package, OnStack, Walkers
<1>13. call[t].op = "gain" => Package(t)' = Cargo(t) \ V
  BY <1>3, <1>5, <1>7 DEF Package
<1> QED
  BY <1>2, <1>7, <1>8, <1>10, <1>11, <1>12, <1>13 DEF WalkKeeps, CallsFit

(* Packages that stay the same too leave nothing to show.                  *)
LEMMA WalkGoesOn ==
  ASSUME Inv, NEW t \in Thread, Walking(t), NEW q \in Frames, NEW V \in SUBSET Obj,
         Goes(t, q, V), StackFits(q, call[t].obj, V),
         UNCHANGED <<strategy, objects, available, raised>>,
         IF call[t].op = "relinquish" THEN V \ Walkers(q) = Package(t)
                                      ELSE Cargo(t) \ V = Package(t)
  PROVE  Inv'
<1>1. /\ TypeOK /\ CallsFit
      /\ UNCHANGED <<strategy, thread_id, retainCount, ivars, pools, available, raised>>
  BY DEF Inv, objects
<1>2. TypeOK'
  BY <1>1 DEF Goes, TypeOK, CallRecord, Frames
<1>3. WalkKeeps(t, q, V)
  BY <1>1, <1>2, GoesKeeps
<1>4. Package(t)' = Package(t)
  BY <1>3 DEF WalkKeeps, Walking
<1>5. CargosStay(Carrier)
  BY <1>1, <1>3, <1>4 DEF CargosStay, WalkKeeps, WalksStay
<1>6. SameCounts
  BY <1>1 DEF SameCounts, InPools
<1>7. CallsFit'
  BY <1>3 DEF WalkKeeps
<1> QED
  BY <1>1, <1>2, <1>5, <1>6, <1>7, ObjectsStay

(* A walk to another object only takes it onto the stack.                  *)
LEMMA RelinquishVisitsKeepsInv ==
  ASSUME Inv, NEW t \in Thread, NEW c, RelinquishVisits(t, c)
  PROVE  Inv'
<1>1. /\ TypeOK /\ CallsFit /\ Walking(t) /\ call[t].op = "relinquish" /\ c \in Frame(t).left
      /\ call' = [call EXCEPT ![t] = Visited(t, c)]
      /\ UNCHANGED <<strategy, objects, available, raised>>
  BY DEF RelinquishVisits, Running, Inv, Walking
<1>2. VisitTells(t, c)
  BY <1>1, VisitGoes
<1>3. PICK V \in SUBSET Obj : V = call[t].uniquing \cup {c}
  <2>1. call[t].uniquing \in SUBSET Obj
    BY <1>1, WalkFits
  <2> QED
    BY <1>2, <2>1 DEF VisitTells
<1>4. PICK q \in Frames :
        /\ Goes(t, q, V) /\ StackFits(q, call[t].obj, V)
        /\ Walkers(q) = OnStack(t) \cup (IF c \in call[t].uniquing THEN {} ELSE {c})
  BY <1>2, <1>3 DEF VisitTells
<1>5. V \ Walkers(q) = Package(t)
  <2>1. Package(t) = call[t].uniquing \ OnStack(t)
    BY <1>1, AffinityAssumption DEF Package
  <2> QED
    BY <1>3, <1>4, <2>1
<1> QED
  BY <1>1, <1>3, <1>4, <1>5, WalkGoesOn

(* A gain that returns takes its frame away, or ends.                      *)
ReturnTells(t) ==
  \E q \in Frames :
    /\ Goes(t, q, call[t].uniquing)
    /\ StackFits(q, call[t].obj, call[t].uniquing)
    /\ Walkers(q) = OnStack(t) \ {Frame(t).obj}
    /\ Frame(t).obj \in call[t].uniquing /\ Frame(t).obj \in Obj
    /\ Frame(t).obj \in OnStack(t) /\ Frame(t).obj \in Cargo(t)
    /\ Walked(Frame(t).obj) \subseteq call[t].uniquing
    /\ \A x \in Walkers(q) : Walked(x) # {}

LEMMA ReturnGoes ==
  ASSUME TypeOK, CallsFit, NEW t \in Thread, Walking(t), Frame(t).left = {}, Frame(t).obj # None,
         call' = [call EXCEPT ![t] = Returned(t)]
  PROVE  ReturnTells(t)
<1>1. PICK s \in Frames, o \in Obj, U \in SUBSET Obj :
        /\ s = call[t].stack /\ o = call[t].obj /\ U = call[t].uniquing
        /\ StackFits(s, o, U) /\ Len(s) >= 1 /\ Cargo(t) = Reach(o)
  BY WalkFits
<1>2. PICK n \in Nat : n = Len(s) /\ n >= 1
  BY <1>1, LenProperties DEF Frames
<1>3. PICK q : q = SubSeq(s, 1, Len(s) - 1)
  OBVIOUS
<1>4. PICK y : y = s[n].obj /\ y = Frame(t).obj
  BY <1>1, <1>2 DEF Frame
<1>5. s[Len(s)].left = {} /\ s[Len(s)].obj # None
  BY <1>1 DEF Frame
<1>6. /\ q \in Frames /\ Len(q) = Len(s) - 1 /\ Len(s) >= 2
      /\ \A i \in 1 .. Len(q) : q[i].obj = s[i].obj
      /\ s[Len(s)].obj \in U /\ Walked(s[Len(s)].obj) \subseteq U
      /\ StackFits(q, o, U)
  <2>1. ReturnLeaves(s, o, U, q)
    BY <1>1, <1>3, <1>5, ReturnFits
  <2> QED
    BY <2>1 DEF ReturnLeaves
<1>7. PICK m \in Nat : m = n - 1 /\ Len(q) = m /\ m >= 1
  BY <1>2, <1>6
<1>8. OnStack(t) = {s[i].obj : i \in 2 .. n} /\ Walkers(q) = {q[i].obj : i \in 2 .. m}
  BY <1>1, <1>2, <1>7 DEF OnStack, Walkers
<1>9. /\ n \in 2 .. n /\ \A i \in 2 .. n : i \in 2 .. m \/ i = n
      /\ \A i \in 2 .. m : i \in 2 .. n /\ i # n /\ i \in 1 .. m /\ i \in 2 .. n - 1
  BY <1>2, <1>7
<1>10. \A i \in 2 .. m : q[i].obj = s[i].obj /\ s[i].obj # y /\ Walked(s[i].obj) # {}
  <2>1. \A i \in 2 .. m : q[i].obj = s[i].obj
    BY <1>6, <1>7, <1>9
  <2>2. \A i \in 2 .. n, j \in 2 .. n : i # j => s[i].obj # s[j].obj
    BY <1>1, <1>2 DEF StackFits
  <2>3. \A i \in 2 .. n - 1 : Walked(s[i].obj) # {}
    BY <1>1, <1>2 DEF StackFits
  <2> QED
    BY <1>4, <1>9, <2>1, <2>2, <2>3
<1>11. Walkers(q) = OnStack(t) \ {y} /\ y \in OnStack(t) /\ \A x \in Walkers(q) : Walked(x) # {}
  BY <1>4, <1>8, <1>9, <1>10
<1>12. y \in U /\ Walked(y) \subseteq U /\ y \in Obj /\ y \in Cargo(t)
  <2>1. y \in U /\ Walked(y) \subseteq U
    BY <1>2, <1>4, <1>6
  <2> QED
    BY <1>1, <2>1 DEF StackFits
<1>13. PICK k \in CallRecord : k = call[t]
  BY DEF TypeOK, CallRecord, Frames
<1>14. Returned(t) = [k EXCEPT !.stack = q, !.uniquing = U]
  <2>1. Returned(t) = [k EXCEPT !.stack = q]
    BY <1>1, <1>3, <1>13 DEF Returned, CallRecord
  <2>2. [k EXCEPT !.stack = q] = [k EXCEPT !.stack = q, !.uniquing = U]
    BY <1>1, <1>13 DEF CallRecord
  <2> QED
    BY <2>1, <2>2
<1>15. Goes(t, q, U)
  <2>1. call' = [call EXCEPT ![t] = [call[t] EXCEPT !.stack = q, !.uniquing = U]]
    BY <1>13, <1>14
  <2> QED
    BY <1>6, <2>1, GoesOn
<1> QED
  BY <1>1, <1>4, <1>6, <1>11, <1>12, <1>15 DEF ReturnTells

(* What one step of a thread leaves alone when no object changes.          *)
SamePacked == \A x \in Obj : Cardinality(Packed(x)') = Cardinality(Packed(x))

LEMMA ObjectsKeep ==
  ASSUME Inv, TypeOK', UNCHANGED <<strategy, thread_id, retainCount, ivars, pools, raised>>,
         SamePacked
  PROVE  Held' /\ ThreadSafeStays' /\ NoForeignAccess' /\ PoolsAreAffine' /\ Balanced'
<1>1. \A x : Holders(x)' = Holders(x)
  BY DEF Holders
<1>2. Held'
  BY <1>1, BypassStays DEF Inv, Held, HeldAt
<1>3. ThreadSafeStays' /\ NoForeignAccess'
  BY DEF Inv, ThreadSafeStays, NoForeignAccess
<1>4. PoolsAreAffine'
  BY BypassStays DEF Inv, PoolsAreAffine, InPools
<1>5. ASSUME NEW x \in Obj PROVE BalancedAt(x)'
  <2>1. References(x)' = References(x)
    <3>1. TypeOK
      BY DEF Inv
    <3>2. Holders(x)' = Holders(x) /\ PoolTotal(pools', x) = PoolTotal(pools, x)
      BY <1>1
    <3> QED
      BY <3>1, <3>2, Counted, CountedNext
  <2> QED
    BY <2>1 DEF Inv, Balanced, BalancedAt, SamePacked
<1>6. Balanced'
  BY <1>5 DEF Balanced
<1> QED
  BY <1>2, <1>3, <1>4, <1>6

LEMMA OthersKeep ==
  ASSUME TypeOK, TypeOK', CallsFit, strategy' = strategy, ivars' = ivars,
         NEW t \in Thread, OthersWalk(t), CallFits(t)'
  PROVE  /\ CallsFit' /\ WalksStay(Carrier)
         /\ \A p \in Thread \ {t} : Cargo(p)' = Cargo(p) /\ Package(p)' = Package(p)
         /\ available' = available =>
              /\ Cargo(HasNoThread)' = Cargo(HasNoThread)
              /\ Package(HasNoThread)' = Package(HasNoThread)
<1>1. \A p : WalksStay(p)
  BY BypassStays DEF WalksStay, Walked
<1>2. \A p \in Thread \ {t} : p # HasNoThread /\ p \in Carrier /\ call'[p] = call[p]
  BY AffinityAssumption DEF Carrier, OthersWalk
<1>3. \A p \in Thread \ {t} : Cargo(p)' = Cargo(p) /\ Package(p)' = Package(p)
  BY <1>1, <1>2, CargoStays
<1>4. ASSUME available' = available
      PROVE  /\ Cargo(HasNoThread)' = Cargo(HasNoThread)
             /\ Package(HasNoThread)' = Package(HasNoThread)
  <2>1. HasNoThread \in Carrier
    BY DEF Carrier
  <2> QED
    BY <1>1, <1>4, <2>1, CargoStays
<1>5. ASSUME NEW u \in Thread PROVE CallFits(u)'
  <2>1. CASE u = t
    BY <2>1
  <2>2. CASE u # t
    BY <1>1, <1>2, <2>2, FitsStay
  <2> QED
    BY <2>1, <2>2
<1> QED
  BY <1>1, <1>3, <1>4, <1>5 DEF CallsFit

(* The caller's frame is the last when a walk is through.                  *)
LEMMA WalkThrough ==
  ASSUME TypeOK, CallsFit, NEW t \in Thread, Walking(t), Frame(t).left = {}, Frame(t).obj = None
  PROVE  /\ call[t].obj \in Obj /\ call[t].uniquing = Cargo(t) /\ Cargo(t) = Reach(call[t].obj)
         /\ Package(t) = IF call[t].op = "gain" THEN {} ELSE Cargo(t)
<1>1. PICK s \in Frames, o \in Obj, U \in SUBSET Obj :
        /\ s = call[t].stack /\ o = call[t].obj /\ U = call[t].uniquing
        /\ StackFits(s, o, U) /\ Len(s) >= 1 /\ Cargo(t) = Reach(o)
  BY WalkFits
<1>2. s[Len(s)].left = {} /\ s[Len(s)].obj = None
  BY <1>1 DEF Frame
<1>3. Len(s) = 1 /\ U = Reach(o)
  BY <1>1, <1>2, WalkedType, WalkEnds
<1>4. OnStack(t) = {}
  <2>1. 2 .. Len(s) = {}
    BY <1>3
  <2> QED
    BY <1>1, <2>1 DEF OnStack
<1> QED
  BY <1>1, <1>3, <1>4, AffinityAssumption DEF Package, Walking

LEMMA GainReturnsKeepsInv ==
  ASSUME Inv, NEW t \in Thread, GainReturns(t)
  PROVE  Inv'
<1>1. /\ TypeOK /\ CallsFit /\ Walking(t) /\ call[t].op = "gain" /\ Frame(t).left = {}
      /\ call' = [call EXCEPT ![t] = IF Frame(t).obj = None THEN NoCall ELSE Returned(t)]
      /\ UNCHANGED <<strategy, objects, available, raised>>
      /\ UNCHANGED <<strategy, thread_id, retainCount, ivars, pools, available, raised>>
  BY DEF GainReturns, Running, Inv, Walking, objects
<1>2. CASE Frame(t).obj # None
  <2>1. ReturnTells(t)
    BY <1>1, <1>2, ReturnGoes
  <2>2. PICK V \in SUBSET Obj : V = call[t].uniquing
    BY <1>1, WalkFits
  <2>3. PICK q \in Frames : Goes(t, q, V) /\ StackFits(q, call[t].obj, V)
    BY <2>1, <2>2 DEF ReturnTells
  <2>4. Cargo(t) \ V = Package(t)
    BY <1>1, <2>2, AffinityAssumption DEF Package
  <2> QED
    BY <1>1, <2>3, <2>4, WalkGoesOn
<1>3. CASE Frame(t).obj = None
  <2>1. Package(t) = {} /\ Cargo(t) = Reach(call[t].obj)
    BY <1>1, <1>3, WalkThrough
  <2>2. call'[t] = NoCall /\ OthersWalk(t)
    BY <1>1, <1>3 DEF TypeOK, OthersWalk
  <2>3. TypeOK'
    BY <1>1, <1>3, NoCallType DEF TypeOK
  <2>4. ~Walking(t)' /\ CallFits(t)'
    BY <2>2 DEF Walking, CallFits, NoCall
  <2>5. t # HasNoThread /\ t \in Carrier /\ Carrier = Thread \cup {HasNoThread}
    BY AffinityAssumption DEF Carrier
  <2>6. Cargo(t)' = {} /\ Package(t)' = {}
    BY <2>4, <2>5 DEF Cargo, Package, Walking
  <2>7. /\ CallsFit' /\ WalksStay(Carrier)
        /\ \A p \in Carrier \ {t} : Cargo(p)' = Cargo(p) /\ Package(p)' = Package(p)
    BY <1>1, <2>2, <2>3, <2>4, <2>5, OthersKeep
  <2>8. PICK C \in SUBSET Carrier : C = Carrier \ {t}
    OBVIOUS
  <2>9. CargosStay(C)
    <3>1. \A u \in C : u \in Thread => (call'[u].op = "relinquish" <=> call[u].op = "relinquish")
      BY <2>2, <2>8 DEF OthersWalk
    <3>2. Carrier \ C = {t}
      BY <2>5, <2>8
    <3> QED
      BY <1>1, <2>6, <2>7, <2>8, <3>1, <3>2 DEF CargosStay, WalksStay
  <2>10. ThreadsStay /\ HoldersStay /\ PoolsStay
    BY <1>1 DEF ThreadsStay, HoldersStay, PoolsStay, InPools, Holders
  <2>11. Homes' /\ Apart' /\ Backed'
    BY <1>1, <2>9, <2>10, HomesStay, ApartStays, BackedStays DEF Inv
  <2>12. \A p \in Carrier : Package(p)' = Package(p)
    BY <2>1, <2>6, <2>7
  <2>13. Limbo'
    BY <1>1, <2>12, BypassStays DEF Inv, Limbo, LimboAt
  <2>14. SamePacked
    BY <2>12 DEF SamePacked, Packed
  <2>15. Held' /\ ThreadSafeStays' /\ NoForeignAccess' /\ PoolsAreAffine' /\ Balanced'
    BY <1>1, <2>3, <2>14, ObjectsKeep
  <2>16. Follows'
    <3>1. ASSUME NEW u \in Thread, NEW o \in Obj, NEW c \in ivars[o], ~Bypass(c),
                 thread_id[o] = u, o \notin Cargo(u)'
          PROVE  thread_id[c] \in {u, IsThreadSafe}
      <4>1. FollowsAt(u, o, c)
        BY DEF Inv, Follows
      <4>2. CASE o \notin Cargo(u)
        BY <3>1, <4>1, <4>2 DEF FollowsAt
      <4>3. CASE o \in Cargo(u)
        <5>1. u = t
          BY <2>5, <2>7, <3>1, <4>3
        <5>2. HeldAt(o, c)
          BY DEF Inv, Held
        <5>3. c \in Walked(o)
          BY <3>1, <5>2 DEF HeldAt, Walked, Bypass
        <5>4. c \in Cargo(t)
          BY <1>1, <2>5, <4>3, <5>1, <5>3, CargoType DEF Closed
        <5>5. HomeAt(t, c)
          BY <2>5, <5>4 DEF Inv, Homes
        <5> QED
          BY <2>1, <3>1, <5>1, <5>5 DEF HomeAt
      <4> QED
        BY <4>2, <4>3
    <3> QED
      BY <1>1, <3>1, BypassStays DEF Follows, FollowsAt
  <2> QED
    BY <2>3, <2>7, <2>11, <2>13, <2>15, <2>16 DEF Inv
<1> QED
  BY <1>2, <1>3

(* A carrier hands its cargo over to one that has none.                    *)
HandsOver(a, b) ==
  /\ a \in Carrier /\ b \in Carrier /\ a # b
  /\ Cargo(a)' = {} /\ Package(a)' = {} /\ Cargo(b) = {} /\ Package(b) = {}
  /\ Package(a) = Cargo(a) /\ Cargo(b)' = Cargo(a) /\ Package(b)' = Cargo(a)
  /\ \A p \in Carrier \ {a, b} : Cargo(p)' = Cargo(p) /\ Package(p)' = Package(p)
  /\ \A u \in Thread \ {a, b} : call'[u].op = "relinquish" <=> call[u].op = "relinquish"

LEMMA HandOver ==
  ASSUME Inv, TypeOK', CallsFit', WalksStay(Carrier), NEW a, NEW b, HandsOver(a, b),
         UNCHANGED <<strategy, thread_id, retainCount, ivars, pools, raised>>
  PROVE  Inv'
<1>1. /\ a \in Carrier /\ b \in Carrier /\ a # b
      /\ Cargo(a)' = {} /\ Package(a)' = {} /\ Cargo(b) = {} /\ Package(b) = {}
      /\ Package(a) = Cargo(a) /\ Cargo(b)' = Cargo(a) /\ Package(b)' = Cargo(a)
      /\ \A p \in Carrier \ {a, b} : Cargo(p)' = Cargo(p) /\ Package(p)' = Package(p)
  BY DEF HandsOver
<1>2. /\ \A x : Bypass(x)' = Bypass(x) /\ Walked(x)' = Walked(x) /\ Holders(x)' = Holders(x)
      /\ \A u, x : InPools(u, x)' = InPools(u, x)
  BY BypassStays DEF Walked, Holders, InPools
<1>3. Homes'
  <2>1. ASSUME NEW p \in Carrier, NEW x \in Cargo(p)' PROVE HomeAt(p, x)'
    <3>1. CASE p = b
      <4>1. HomeAt(a, x) /\ x \in Package(a) /\ x \in Package(b)'
        BY <1>1, <2>1, <3>1 DEF Inv, Homes
      <4> QED
        BY <1>2, <3>1, <4>1 DEF HomeAt
    <3>2. CASE p # b /\ p # a
      <4>1. HomeAt(p, x) /\ Package(p)' = Package(p)
        BY <1>1, <2>1, <3>2 DEF Inv, Homes
      <4> QED
        BY <1>2, <4>1 DEF HomeAt
    <3> QED
      BY <1>1, <2>1, <3>1, <3>2
  <2> QED
    BY <2>1 DEF Homes
<1>4. Apart'
  <2>1. ASSUME NEW p \in Carrier, NEW x \in Cargo(p)', Affine(x)
        PROVE  Holders(x) \subseteq Cargo(p)' /\ \A q \in Carrier \ {p} : x \notin Cargo(q)'
    <3>1. CASE p = b
      <4>1. ApartAt(a, x)
        BY <1>1, <2>1, <3>1 DEF Inv, Apart
      <4> QED
        BY <1>1, <2>1, <3>1, <4>1 DEF ApartAt
    <3>2. CASE p # b /\ p # a
      <4>1. ApartAt(p, x) /\ Cargo(p)' = Cargo(p)
        BY <1>1, <2>1, <3>2 DEF Inv, Apart
      <4> QED
        BY <1>1, <2>1, <3>2, <4>1 DEF ApartAt
    <3> QED
      BY <1>1, <2>1, <3>1, <3>2
  <2> QED
    BY <1>2, <2>1 DEF Apart, ApartAt, Affine
<1>5. Backed'
  <2>1. ASSUME NEW u \in Thread, NEW x \in (Cargo(u) \ Package(u))', ~Bypass(x) PROVE BackedAt(u, x)'
    <3>1. u # a /\ u # b /\ u \in Carrier
      BY <1>1, <2>1 DEF Carrier
    <3>2. /\ Cargo(u)' = Cargo(u) /\ Package(u)' = Package(u)
          /\ call'[u].op = "relinquish" <=> call[u].op = "relinquish"
      BY <3>1, <2>1 DEF HandsOver
    <3>3. BackedAt(u, x)
      BY <2>1, <3>2 DEF Inv, Backed
    <3> QED
      BY <1>2, <3>2, <3>3 DEF BackedAt
  <2> QED
    BY <1>2, <2>1 DEF Backed
<1>6. Limbo'
  <2>1. ASSUME NEW x \in Obj, NEW p \in Carrier, x \in Package(p) PROVE \E q \in Carrier : x \in Package(q)'
    <3>1. CASE p = a
      BY <1>1, <2>1, <3>1
    <3>2. CASE p # a
      BY <1>1, <2>1, <3>2
    <3> QED
      BY <3>1, <3>2
  <2>2. ASSUME NEW x \in Obj PROVE LimboAt(x)'
    <3>1. LimboAt(x)
      BY DEF Inv, Limbo
    <3> QED
      BY <1>2, <2>1, <3>1 DEF LimboAt
  <2> QED
    BY <2>2 DEF Limbo
<1>7. SamePacked
  <2>1. ASSUME NEW x \in Obj PROVE Cardinality(Packed(x)') = Cardinality(Packed(x))
    <3>1. b \notin Packed(x) /\ Packed(x) \subseteq Carrier
      BY <1>1 DEF Packed
    <3>2. IsFiniteSet(Packed(x)) /\ Cardinality(Packed(x)) \in Nat
      BY Counted DEF Inv
    <3>3. CASE x \in Package(a)
      <4>1. Packed(x)' = (Packed(x) \ {a}) \cup {b} /\ a \in Packed(x)
        BY <1>1, <3>3 DEF Packed
      <4>2. PICK A : A = Packed(x) \ {a}
        OBVIOUS
      <4>3. IsFiniteSet(A) /\ Cardinality(A) = Cardinality(Packed(x)) - 1
        BY <3>2, <4>1, <4>2, FS_RemoveElement
      <4>4. Cardinality(A \cup {b}) = Cardinality(A) + 1
        BY <3>1, <4>2, <4>3, FS_AddElement
      <4> QED
        BY <3>2, <4>1, <4>2, <4>3, <4>4
    <3>4. CASE x \notin Package(a)
      <4>1. Packed(x)' = Packed(x)
        BY <1>1, <3>4 DEF Packed
      <4> QED
        BY <4>1
    <3> QED
      BY <3>3, <3>4
  <2> QED
    BY <2>1 DEF SamePacked
<1>8. Held' /\ ThreadSafeStays' /\ NoForeignAccess' /\ PoolsAreAffine' /\ Balanced'
  BY <1>7, ObjectsKeep
<1>9. Follows'
  <2>1. ASSUME NEW u \in Thread, NEW o \in Obj, NEW c \in ivars[o], ~Bypass(c), thread_id[o] = u,
               o \notin Cargo(u)'
        PROVE  thread_id[c] \in {u, IsThreadSafe}
    <3>1. FollowsAt(u, o, c) /\ u \in Carrier
      BY DEF Inv, Follows, Carrier
    <3>2. CASE o \notin Cargo(u)
      BY <2>1, <3>1, <3>2 DEF FollowsAt
    <3>3. CASE o \in Cargo(u)
      <4>1. u = a /\ o \in Package(a)
        BY <1>1, <2>1, <3>1, <3>3
      <4>2. HeldAt(o, c) /\ HomeAt(a, o)
        BY <1>1, <3>3, <4>1 DEF Inv, Held, Homes
      <4>3. Walks(o)
        BY <2>1, <4>2 DEF HeldAt, Bypass
      <4>4. ~Bypass(o)
        BY <4>3, BypassStops DEF Inv
      <4> QED
        BY <2>1, <4>1, <4>2, <4>4, AffinityAssumption DEF HomeAt
    <3> QED
      BY <3>2, <3>3
  <2> QED
    BY <1>2, <2>1 DEF Follows, FollowsAt
<1> QED
  BY <1>3, <1>4, <1>5, <1>6, <1>8, <1>9 DEF Inv

(* A walk starts with the caller's frame and nothing visited.              *)
Starts(t, op, o) ==
  /\ call' \in [Thread -> CallRecord] /\ OthersWalk(t) /\ CallFits(t)'
  /\ call'[t].op = op /\ call'[t].obj = o
  /\ Cargo(t)' = Reach(o) /\ Package(t)' = IF op = "gain" THEN Reach(o) ELSE {}

LEMMA WalkStarts ==
  ASSUME TypeOK, strategy' = strategy, ivars' = ivars, NEW t \in Thread, NEW o \in Obj,
         NEW op \in {"relinquish", "gain"}, call' = [call EXCEPT ![t] = Walk(op, o)]
  PROVE  Starts(t, op, o)
<1>1. call \in [Thread -> CallRecord]
  BY DEF TypeOK, CallRecord, Frames
<1>2. PICK f : f = [obj |-> None, left |-> {o}]
  OBVIOUS
<1>3. PICK s : s = <<f>>
  OBVIOUS
<1>4. s \in Frames /\ Len(s) = 1 /\ s[1].obj = None /\ s[1].left = {o}
  <2>1. f \in [obj : Obj \cup {None}, left : SUBSET Obj]
    BY <1>2
  <2> QED
    BY <1>2, <1>3, <2>1 DEF Frames
<1>5. Walk(op, o) = [op |-> op, obj |-> o, stack |-> s, uniquing |-> {}]
  BY <1>2, <1>3 DEF Walk
<1>6. Walk(op, o) \in CallRecord
  BY <1>4, <1>5 DEF CallRecord
<1>7. call' \in [Thread -> CallRecord] /\ call'[t] = Walk(op, o) /\ OthersWalk(t)
  BY <1>1, <1>6 DEF OthersWalk
<1>8. /\ call'[t].op = op /\ call'[t].obj = o /\ call'[t].stack = s /\ call'[t].uniquing = {}
  BY <1>5, <1>7
<1>9. \A x : Walked(x)' = Walked(x)
  BY BypassStays DEF Walked
<1>10. Reach(o)' = Reach(o)
  BY <1>9 DEF Reach, Closed
<1>11. t # HasNoThread
  BY AffinityAssumption
<1>12. Cargo(t)' = Reach(o)
  BY <1>8, <1>10, <1>11 DEF Cargo, Walking
<1>13. 2 .. Len(s) = {} /\ 2 .. Len(s) - 1 = {}
  BY <1>4
<1>14. Package(t)' = IF op = "gain" THEN Reach(o) ELSE {}
  BY <1>8, <1>11, <1>12 DEF Package
<1>15. CallFits(t)'
  <2>1. StackFits(s, o, {})'
    BY <1>4, <1>13 DEF StackFits
  <2> QED
    BY <1>8, <2>1 DEF CallFits
<1> QED
  BY <1>7, <1>8, <1>12, <1>14, <1>15 DEF Starts

LEMMA RecycleSwapsKeepsInv ==
  ASSUME Inv, NEW t \in Thread, RecycleSwaps(t)
  PROVE  Inv'
<1>1. /\ TypeOK /\ CallsFit /\ Walking(t) /\ call[t].op = "relinquish"
      /\ Frame(t).left = {} /\ Frame(t).obj = None
      /\ UNCHANGED <<strategy, objects, raised>>
      /\ UNCHANGED <<strategy, thread_id, retainCount, ivars, pools, raised>>
      /\ available = None =>
           available' = call[t].obj /\ call' = [call EXCEPT ![t] = NoCall]
      /\ available # None =>
           available' = available /\ call' = [call EXCEPT ![t] = Walk("gain", call[t].obj)]
  BY DEF RecycleSwaps, Running, Inv, Walking, objects, TypeOK
<1>2. PICK o \in Obj : /\ o = call[t].obj /\ Cargo(t) = Reach(o) /\ Package(t) = Cargo(t)
  BY <1>1, WalkThrough
<1>3. /\ t # HasNoThread /\ t \in Carrier /\ HasNoThread \in Carrier
      /\ Carrier = Thread \cup {HasNoThread} /\ o # None
  BY AffinityAssumption DEF Carrier
<1>4. \A x : Walked(x)' = Walked(x)
  BY <1>1, BypassStays DEF Walked
<1>5. Reach(o)' = Reach(o)
  BY <1>4 DEF Reach, Closed
<1>6. CASE available = None
  <2>1. available' = o /\ call' = [call EXCEPT ![t] = NoCall]
    BY <1>1, <1>2, <1>6
  <2>2. call'[t] = NoCall /\ OthersWalk(t)
    BY <1>1, <2>1 DEF TypeOK, OthersWalk
  <2>3. TypeOK'
    BY <1>1, <2>1, NoCallType DEF TypeOK
  <2>4. ~Walking(t)' /\ CallFits(t)'
    BY <2>2 DEF Walking, CallFits, NoCall
  <2>5. /\ CallsFit' /\ WalksStay(Carrier)
        /\ \A p \in Thread \ {t} : Cargo(p)' = Cargo(p) /\ Package(p)' = Package(p)
    BY <1>1, <2>2, <2>3, <2>4, OthersKeep
  <2>6. Cargo(t)' = {} /\ Package(t)' = {}
    BY <1>3, <2>4 DEF Cargo, Package, Walking
  <2>7. Cargo(HasNoThread) = {} /\ Package(HasNoThread) = {}
    BY <1>6 DEF Cargo, Package
  <2>8. Cargo(HasNoThread)' = Cargo(t) /\ Package(HasNoThread)' = Cargo(t)
    BY <1>2, <1>3, <1>5, <2>1 DEF Cargo, Package
  <2>9. HandsOver(t, HasNoThread)
    BY <1>2, <1>3, <2>2, <2>5, <2>6, <2>7, <2>8 DEF HandsOver, OthersWalk
  <2> QED
    BY <1>1, <2>3, <2>5, <2>9, HandOver
<1>7. CASE available # None
  <2>1. available' = available /\ call' = [call EXCEPT ![t] = Walk("gain", o)]
    BY <1>1, <1>2, <1>7
  <2>2. Starts(t, "gain", o)
    BY <1>1, <2>1, WalkStarts
  <2>3. TypeOK'
    BY <1>1, <2>1, <2>2 DEF TypeOK, Starts, CallRecord, Frames
  <2>4. /\ CallsFit' /\ WalksStay(Carrier)
        /\ \A p \in Thread \ {t} : Cargo(p)' = Cargo(p) /\ Package(p)' = Package(p)
        /\ Cargo(HasNoThread)' = Cargo(HasNoThread)
        /\ Package(HasNoThread)' = Package(HasNoThread)
    BY <1>1, <2>1, <2>2, <2>3, OthersKeep DEF Starts
  <2>5. Cargo(t)' = Cargo(t) /\ Package(t)' = Package(t)
    BY <1>2, <2>2 DEF Starts
  <2>6. \A p \in Carrier : Cargo(p)' = Cargo(p) /\ Package(p)' = Package(p)
    BY <1>3, <2>4, <2>5
  <2>7. \A u \in Thread : Cargo(u) # Package(u) =>
          (call'[u].op = "relinquish" <=> call[u].op = "relinquish")
    BY <1>2, <2>2 DEF Starts, OthersWalk
  <2>8. CargosStay(Carrier)
    BY <1>1, <2>4, <2>6, <2>7 DEF CargosStay, WalksStay
  <2>9. SameCounts
    BY <1>1 DEF SameCounts, InPools
  <2> QED
    BY <1>1, <2>3, <2>4, <2>8, <2>9, ObjectsStay
<1> QED
  BY <1>6, <1>7

(* An acquire that finds the object that it read is the one to gain it.    *)
LEMMA AcquireSwapsKeepsInv ==
  ASSUME Inv, NEW t \in Thread, AcquireSwaps(t)
  PROVE  Inv'
<1>1. /\ TypeOK /\ CallsFit /\ ~Walking(t) /\ call[t].op = "acquire"
      /\ UNCHANGED <<strategy, objects, raised>>
      /\ UNCHANGED <<strategy, thread_id, retainCount, ivars, pools, raised>>
      /\ available = call[t].obj =>
           available' = None /\ call' = [call EXCEPT ![t] = Walk("gain", available)]
      /\ available # call[t].obj /\ available = None =>
           available' = available /\ call' = [call EXCEPT ![t] = NoCall]
      /\ available # call[t].obj /\ available # None =>
           available' = available /\ call' = [call EXCEPT ![t].obj = available]
  <2>1. /\ TypeOK /\ CallsFit /\ ~Walking(t) /\ call[t].op = "acquire"
        /\ UNCHANGED <<strategy, objects, raised>>
    BY DEF AcquireSwaps, Running, Inv, Walking
  <2>2. UNCHANGED <<strategy, thread_id, retainCount, ivars, pools, raised>>
    BY <2>1 DEF objects
  <2>3. available = call[t].obj =>
          available' = None /\ call' = [call EXCEPT ![t] = Walk("gain", available)]
    <3>1. call[t].obj # None
      BY <2>1, AffinityAssumption DEF CallsFit, CallFits
    <3> QED
      BY <3>1 DEF AcquireSwaps
  <2>4. available # call[t].obj /\ available = None =>
          available' = available /\ call' = [call EXCEPT ![t] = NoCall]
    BY DEF AcquireSwaps
  <2>5. available # call[t].obj /\ available # None =>
          available' = available /\ call' = [call EXCEPT ![t].obj = available]
    BY DEF AcquireSwaps
  <2> QED
    BY <2>1, <2>2, <2>3, <2>4, <2>5
<1>2. call[t].obj \in Obj /\ Cargo(t) = {} /\ Package(t) = {}
  <2>1. CallFits(t)
    BY <1>1 DEF CallsFit
  <2> QED
    BY <1>1, <2>1, NoCargo DEF CallFits
<1>3. /\ t # HasNoThread /\ t \in Carrier /\ HasNoThread \in Carrier
      /\ Carrier = Thread \cup {HasNoThread} /\ None \notin Obj
  BY AffinityAssumption DEF Carrier
<1>4. SameCounts
  BY <1>1 DEF SameCounts, InPools
<1>5. CASE available = call[t].obj
  <2>1. PICK o \in Obj : o = available
    BY <1>2, <1>5
  <2>2. available' = None /\ call' = [call EXCEPT ![t] = Walk("gain", o)]
    BY <1>1, <1>5, <2>1
  <2>3. Starts(t, "gain", o)
    BY <1>1, <2>2, WalkStarts
  <2>4. TypeOK'
    BY <1>1, <2>2, <2>3 DEF TypeOK, Starts, CallRecord, Frames
  <2>5. /\ CallsFit' /\ WalksStay(Carrier)
        /\ \A p \in Thread \ {t} : Cargo(p)' = Cargo(p) /\ Package(p)' = Package(p)
    BY <1>1, <2>3, <2>4, OthersKeep DEF Starts
  <2>6. Cargo(HasNoThread) = Reach(o) /\ Package(HasNoThread) = Reach(o)
    BY <1>3, <2>1 DEF Cargo, Package
  <2>7. Cargo(HasNoThread)' = {} /\ Package(HasNoThread)' = {}
    BY <2>2 DEF Cargo, Package
  <2>8. Cargo(t)' = Reach(o) /\ Package(t)' = Reach(o)
    BY <2>3 DEF Starts
  <2>9. HandsOver(HasNoThread, t)
    BY <1>2, <1>3, <2>3, <2>5, <2>6, <2>7, <2>8 DEF HandsOver, OthersWalk, Starts
  <2> QED
    BY <1>1, <2>4, <2>5, <2>9, HandOver
<1>6. CASE available # call[t].obj /\ available = None
  <2>1. available' = available /\ call' = [call EXCEPT ![t] = NoCall]
    BY <1>1, <1>6
  <2>2. call'[t] = NoCall /\ OthersWalk(t)
    BY <1>1, <2>1 DEF TypeOK, OthersWalk
  <2>3. TypeOK'
    BY <1>1, <2>1, NoCallType DEF TypeOK
  <2>4. ~Walking(t)' /\ CallFits(t)'
    BY <2>2 DEF Walking, CallFits, NoCall
  <2> QED
    BY <1>1, <1>4, <2>1, <2>2, <2>3, <2>4, StillStep
<1>7. CASE available # call[t].obj /\ available # None
  <2>1. available' = available /\ call' = [call EXCEPT ![t].obj = available] /\ available \in Obj
    BY <1>1, <1>7 DEF TypeOK
  <2>2. call'[t].op = "acquire" /\ call'[t].obj = available /\ OthersWalk(t)
    BY <1>1, <2>1 DEF TypeOK, OthersWalk
  <2>3. TypeOK'
    BY <1>1, <2>1, ZenonT(60) DEF TypeOK
  <2>4. ~Walking(t)' /\ CallFits(t)'
    BY <2>1, <2>2 DEF Walking, CallFits
  <2> QED
    BY <1>1, <1>4, <2>1, <2>2, <2>3, <2>4, StillStep
<1> QED
  BY <1>5, <1>6, <1>7

(* A walk starts from an object that the thread may message: whatever it   *)
(* will come across is the thread's own, and on no other way.              *)
LEMMA RecycleKeepsInv ==
  ASSUME Inv, NEW t \in Thread, NEW o \in Obj, Recycle(t, o)
  PROVE  Inv'
<1>1. /\ TypeOK /\ CallsFit /\ Held /\ Homes /\ Balanced /\ ~Walking(t) /\ Known(t, o)
      /\ thread_id[o] \in {t, IsThreadSafe} \/ strategy[o] = "KnownThreadSafeMethods"
      /\ Holders(o) \subseteq Walked(o) \/ strategy[o] = "KnownThreadSafe"
      /\ call' = [call EXCEPT ![t] = Walk("relinquish", o)]
      /\ UNCHANGED <<strategy, thread_id, retainCount, ivars, pools, available, raised>>
  BY DEF Recycle, MayMessage, Running, Inv, Walking, objects
<1>2. /\ t # HasNoThread /\ t \in Carrier /\ HasNoThread \in Carrier
      /\ Carrier = Thread \cup {HasNoThread}
  BY AffinityAssumption DEF Carrier
<1>3. Cargo(t) = {} /\ Package(t) = {}
  BY <1>1, NoCargo
<1>4. Starts(t, "relinquish", o)
  BY <1>1, WalkStarts
<1>5. PICK R \in SUBSET Obj :
        /\ R = Reach(o) /\ o \in R /\ Closed(R)
        /\ \A S \in SUBSET Obj : o \in S /\ Closed(S) => R \subseteq S
        /\ \A x \in R \ {o} : \E h \in R : x \in Walked(h)
  <2>1. \A x \in Obj : Walked(x) \subseteq Obj
    BY <1>1, WalkedType
  <2>2. /\ o \in Reach(o) /\ Reach(o) \in SUBSET Obj /\ Closed(Reach(o))
        /\ \A S \in SUBSET Obj : o \in S /\ Closed(S) => Reach(o) \subseteq S
    BY <2>1, ReachIsLeast
  <2>3. \A x \in Reach(o) \ {o} : \E h \in Reach(o) : x \in Walked(h)
    BY <2>1, ReachHasHolder
  <2> QED
    BY <2>2, <2>3
<1>6. Cargo(t)' = R /\ Package(t)' = {} /\ call'[t].op = "relinquish" /\ OthersWalk(t)
  BY <1>4, <1>5 DEF Starts
<1>7. \A x \in R : ~Bypass(x) => thread_id[x] \in {t, IsThreadSafe}
  <2>1. PICK S \in SUBSET Obj : S = {x \in R : ~Bypass(x) => thread_id[x] \in {t, IsThreadSafe}}
    OBVIOUS
  <2>2. o \in S
    BY <1>1, <1>5, <2>1 DEF Bypass
  <2>3. ASSUME NEW x \in S, NEW c \in Walked(x) PROVE c \in S
    <3>1. c \in R
      BY <1>5, <2>1, <2>3 DEF Closed
    <3>2. c \in ivars[x] /\ ~Bypass(x) /\ thread_id[x] # IsThreadSafe
      BY <1>1, WalkedHolds
    <3>3. thread_id[x] = t
      BY <2>1, <3>2
    <3>4. FollowsAt(t, x, c)
      BY <3>2 DEF Inv, Follows
    <3> QED
      BY <1>3, <2>1, <3>1, <3>3, <3>4 DEF FollowsAt
  <2>4. R \subseteq S
    BY <1>5, <2>2, <2>3 DEF Closed
  <2> QED
    BY <2>1, <2>4
<1>8. \A x \in R \ {o} : \E h \in R : x \in Walked(h) /\ h \in Holders(x)
  BY <1>1, <1>5, WalkedHolds
<1>9. ASSUME NEW x \in R PROVE retainCount[x] > 0
  <2>1. CASE x = o
    BY <1>1, <2>1, KnownLives
  <2>2. CASE x # o
    <3>1. PICK h \in R : h \in Holders(x)
      BY <1>8, <2>2
    <3>2. References(x) >= 1
      BY <1>1, <3>1, Referred
    <3>3. PICK r \in Nat, k \in Nat : r = References(x) /\ k = retainCount[x] /\ k >= r
      BY <1>1, Alive DEF Balanced
    <3> QED
      BY <3>2, <3>3
  <2> QED
    BY <2>1, <2>2
<1>10. \A x \in R : Bypass(x) => thread_id[x] # HasNoThread
  BY <1>9 DEF Inv, Limbo, LimboAt
<1>11. ASSUME NEW x \in R, Affine(x)
       PROVE  Holders(x) \subseteq R /\ \A p \in Carrier : x \notin Cargo(p)
  <2>1. ~Bypass(x) /\ thread_id[x] = t /\ strategy[x] # "KnownThreadSafe"
    BY <1>7, <1>11 DEF Affine, Bypass
  <2>2. \A p \in Carrier : x \notin Cargo(p)
    BY <1>1, <2>1, OwnNotCarried
  <2>3. ASSUME NEW h \in Holders(x) PROVE h \in R
    <3>1. Holders(x) = {h}
      BY <1>1, <2>1, HolderWalks
    <3>2. CASE x = o
      BY <1>1, <1>5, <2>1, <3>2 DEF Closed
    <3>3. CASE x # o
      BY <1>8, <3>1, <3>3
    <3> QED
      BY <3>2, <3>3
  <2> QED
    BY <2>2, <2>3
<1>12. TypeOK'
  BY <1>1, <1>4 DEF TypeOK, Starts, CallRecord, Frames
<1>13. /\ CallsFit' /\ WalksStay(Carrier)
       /\ \A p \in Carrier \ {t} : Cargo(p)' = Cargo(p) /\ Package(p)' = Package(p)
  BY <1>1, <1>2, <1>4, <1>12, OthersKeep DEF Starts
<1>14. \A p \in Carrier : Package(p)' = Package(p)
  BY <1>3, <1>6, <1>13
<1>15. /\ \A x : Bypass(x)' = Bypass(x) /\ Walked(x)' = Walked(x) /\ Holders(x)' = Holders(x)
       /\ \A u, x : InPools(u, x)' = InPools(u, x)
  BY <1>1, BypassStays DEF Walked, Holders, InPools
<1>16. Homes'
  <2>1. ASSUME NEW p \in Carrier, NEW x \in Cargo(p)' PROVE HomeAt(p, x)'
    <3>1. CASE p = t
      BY <1>1, <1>6, <1>7, <1>10, <1>15, <2>1, <3>1 DEF HomeAt
    <3>2. CASE p # t
      <4>1. HomeAt(p, x)
        BY <1>13, <2>1, <3>2 DEF Inv, Homes
      <4> QED
        BY <1>1, <1>14, <1>15, <4>1 DEF HomeAt
    <3> QED
      BY <3>1, <3>2
  <2> QED
    BY <2>1 DEF Homes
<1>17. Apart'
  <2>1. ASSUME NEW p \in Carrier, NEW x \in Cargo(p)', Affine(x)
        PROVE  Holders(x) \subseteq Cargo(p)' /\ \A q \in Carrier \ {p} : x \notin Cargo(q)'
    <3>1. CASE p = t
      BY <1>6, <1>11, <1>13, <2>1, <3>1
    <3>2. CASE p # t
      <4>1. ApartAt(p, x) /\ x \in Cargo(p)
        BY <1>13, <2>1, <3>2 DEF Inv, Apart
      <4>2. x \notin R
        BY <1>11, <2>1, <4>1
      <4> QED
        BY <1>6, <1>13, <2>1, <3>2, <4>1, <4>2 DEF ApartAt
    <3> QED
      BY <3>1, <3>2
  <2> QED
    BY <1>1, <1>15, <2>1 DEF Apart, ApartAt, Affine
<1>18. Backed'
  <2>1. ASSUME NEW u \in Thread, NEW x \in (Cargo(u) \ Package(u))', ~Bypass(x) PROVE BackedAt(u, x)'
    <3>1. CASE u # t
      <4>1. /\ Cargo(u)' = Cargo(u) /\ Package(u)' = Package(u)
            /\ call'[u].op = call[u].op
        BY <1>2, <1>6, <1>13, <3>1 DEF OthersWalk
      <4>2. BackedAt(u, x)
        BY <2>1, <4>1 DEF Inv, Backed
      <4> QED
        BY <1>1, <1>15, <4>1, <4>2 DEF BackedAt
    <3>2. CASE u = t /\ x # o
      <4>1. PICK h \in R : x \in Walked(h)
        BY <1>6, <1>8, <2>1, <3>2
      <4> QED
        BY <1>6, <1>15, <3>2, <4>1 DEF BackedAt
    <3>3. CASE u = t /\ x = o /\ ~InPools(t, o)
      <4>1. PICK h \in Holders(o) : thread_id[h] = t
        BY <1>1, <3>3 DEF Known
      <4>2. strategy[o] # "KnownThreadSafe"
        BY <2>1, <3>3 DEF Bypass
      <4>3. o \in Walked(h) /\ h \in R
        BY <1>1, <1>5, <4>1, <4>2, HolderWalks DEF Closed
      <4> QED
        BY <1>6, <1>15, <3>3, <4>3 DEF BackedAt
    <3>4. CASE u = t /\ x = o /\ InPools(t, o)
      BY <1>15, <3>4 DEF BackedAt
    <3> QED
      BY <3>1, <3>2, <3>3, <3>4
  <2> QED
    BY <1>15, <2>1 DEF Backed
<1>19. Limbo' /\ SamePacked
  <2>1. Limbo'
    BY <1>1, <1>14, <1>15 DEF Inv, Limbo, LimboAt
  <2> QED
    BY <1>14, <2>1 DEF SamePacked, Packed
<1>20. Held' /\ ThreadSafeStays' /\ NoForeignAccess' /\ PoolsAreAffine' /\ Balanced'
  BY <1>1, <1>12, <1>19, ObjectsKeep
<1>21. Follows'
  <2>1. ASSUME NEW u \in Thread, NEW h \in Obj, NEW c \in ivars[h], h \notin Cargo(u)'
        PROVE  h \notin Cargo(u) /\ FollowsAt(u, h, c)
    <3>1. FollowsAt(u, h, c)
      BY DEF Inv, Follows
    <3>2. h \notin Cargo(u)
      BY <1>2, <1>3, <1>13, <2>1
    <3> QED
      BY <3>1, <3>2
  <2> QED
    BY <1>1, <1>15, <2>1 DEF Follows, FollowsAt
<1> QED
  BY <1>12, <1>13, <1>16, <1>17, <1>18, <1>19, <1>20, <1>21 DEF Inv

(* A gain takes an object out of its package, autoreleases it, and makes   *)
(* it the thread's own if it is in limbo.                                  *)
LEMMA GainVisitsKeepsInv ==
  ASSUME Inv, NEW t \in Thread, NEW c, GainVisits(t, c)
  PROVE  Inv'
<1>1. /\ TypeOK /\ CallsFit /\ Homes /\ Apart /\ Backed /\ Limbo /\ Held /\ Follows /\ Balanced
      /\ Walking(t) /\ call[t].op = "gain" /\ c \in Frame(t).left /\ raised = "no"
      /\ call' = [call EXCEPT ![t] = Visited(t, c)]
      /\ UNCHANGED <<strategy, retainCount, ivars, available>>
  BY DEF GainVisits, Running, Inv, Walking
<1>2. VisitTells(t, c)
  BY <1>1, VisitGoes
<1>3. c \in Obj /\ c \in Cargo(t)
  BY <1>2 DEF VisitTells
<1>4. PICK V \in SUBSET Obj : V = call[t].uniquing \cup {c}
  <2>1. call[t].uniquing \in SUBSET Obj
    BY <1>1, WalkFits
  <2> QED
    BY <1>3, <2>1
<1>5. PICK q \in Frames : Goes(t, q, V) /\ StackFits(q, call[t].obj, V)
  BY <1>2, <1>4 DEF VisitTells
<1>6. t # HasNoThread /\ t \in Carrier /\ Package(t) = Cargo(t) \ call[t].uniquing
  BY <1>1, AffinityAssumption DEF Package, Carrier
<1>7. CASE c \in call[t].uniquing
  <2>1. UNCHANGED <<strategy, objects, available, raised>>
    BY <1>1, <1>7 DEF GainVisits, objects
  <2>2. Cargo(t) \ V = Package(t)
    BY <1>4, <1>6, <1>7
  <2> QED
    BY <1>1, <1>5, <2>1, <2>2, WalkGoesOn
<1>8. CASE c \notin call[t].uniquing
  <2>1. c \in Package(t) /\ HomeAt(t, c) /\ ApartAt(t, c)
    BY <1>1, <1>3, <1>6, <1>8 DEF Homes, Apart
  <2>2. PICK aff \in BOOLEAN : aff = Affine(c)
    BY DEF Affine
  <2>3. /\ Bypass(c) => thread_id[c] # HasNoThread
        /\ ~Bypass(c) => thread_id[c] \in {IsThreadSafe, HasNoThread}
        /\ aff => thread_id[c] = HasNoThread
    BY <2>1, <2>2 DEF HomeAt, Affine
  <2>4. /\ pools' = Autoreleased(t, c) /\ raised' = raised
        /\ thread_id' = [thread_id EXCEPT ![c] = IF Bypass(c) \/ @ = IsThreadSafe THEN @ ELSE t]
    BY <1>8, <2>3 DEF GainVisits, GainAccess
  <2>5. /\ thread_id' \in [Obj -> Thread \cup {HasNoThread, IsThreadSafe}]
        /\ \A x \in Obj : x # c \/ ~aff => thread_id'[x] = thread_id[x]
        /\ aff => thread_id'[c] = t
    <3>1. thread_id \in [Obj -> Thread \cup {HasNoThread, IsThreadSafe}]
      BY <1>1 DEF TypeOK
    <3> QED
      BY <1>3, <2>2, <2>4, <3>1 DEF Affine
  <2>6. /\ pools' \in [Thread -> Seq([Obj -> Nat])]
        /\ \A u \in Thread : Len(pools'[u]) \in 1 .. MaxPools
        /\ \A x \in Obj : PoolTotal(pools', x) = PoolTotal(pools, x) + IF x = c THEN 1 ELSE 0
        /\ \A u \in Thread, x \in Obj : InPools(u, x)' <=> InPools(u, x) \/ (u = t /\ x = c)
    BY <1>1, <1>3, <2>4, AutoreleaseAdds
  <2>7. TypeOK'
    BY <1>1, <1>5, <2>4, <2>5, <2>6 DEF TypeOK, Goes, CallRecord, Frames
  <2>8. WalkKeeps(t, q, V)
    BY <1>1, <1>5, <2>7, GoesKeeps
  <2>9. /\ CallsFit' /\ \A p \in Carrier : Cargo(p)' = Cargo(p) /\ Cargo(p) \subseteq Obj
        /\ \A p \in Carrier \ {t} : Package(p)' = Package(p)
        /\ Package(t)' = Package(t) \ {c}
        /\ \A u \in Thread : call'[u].op = call[u].op
    BY <1>1, <1>4, <1>6, <2>8, CargoType DEF WalkKeeps
  <2>10. \A x : /\ Bypass(x)' = Bypass(x) /\ Walks(x)' = Walks(x) /\ Walked(x)' = Walked(x)
                /\ Holders(x)' = Holders(x) /\ LeavesPools(x)' = LeavesPools(x)
    BY <1>1, BypassStays DEF Walked, Holders
  <2>11. \A x \in Obj : thread_id'[x] = IsThreadSafe <=> thread_id[x] = IsThreadSafe
    BY <2>3, <2>5, AffinityAssumption
  <2>12. \A x \in Obj : Affine(x)' <=> Affine(x)
    BY <2>10, <2>11 DEF Affine
  <2>13. \A p \in Carrier \ {t} : \A x \in Cargo(p) : thread_id'[x] = thread_id[x]
    BY <2>1, <2>2, <2>5, <2>9 DEF ApartAt
  <2>14. Homes'
    <3>1. ASSUME NEW p \in Carrier, NEW x \in Cargo(p)' PROVE HomeAt(p, x)'
      <4>1. HomeAt(p, x) /\ x \in Cargo(p) /\ x \in Obj
        BY <1>1, <2>9, <3>1 DEF Homes
      <4>2. CASE p # t
        BY <2>9, <2>10, <2>13, <4>1, <4>2 DEF HomeAt
      <4>3. CASE p = t /\ x # c
        BY <2>5, <2>9, <2>10, <4>1, <4>3 DEF HomeAt
      <4>4. CASE p = t /\ x = c
        <5>1. Bypass(c) => thread_id'[c] # HasNoThread
          BY <1>3, <2>2, <2>3, <2>5 DEF Affine
        <5>2. ~Bypass(c) => thread_id'[c] \in {IsThreadSafe, t}
          BY <1>3, <2>2, <2>5 DEF Affine
        <5>3. x \notin Package(t)'
          BY <2>9, <4>4
        <5> QED
          BY <2>10, <4>4, <5>1, <5>2, <5>3 DEF HomeAt
      <4> QED
        BY <4>2, <4>3, <4>4
    <3> QED
      BY <3>1 DEF Homes
  <2>15. Apart'
    <3>1. ASSUME NEW p \in Carrier, NEW x \in Cargo(p)' PROVE ApartAt(p, x)'
      <4>1. ApartAt(p, x) /\ x \in Obj
        BY <1>1, <2>9, <3>1 DEF Apart
      <4> QED
        BY <2>9, <2>10, <2>12, <4>1 DEF ApartAt
    <3> QED
      BY <3>1 DEF Apart
  <2>16. Backed'
    <3>1. ASSUME NEW u \in Thread, NEW x \in (Cargo(u) \ Package(u))', ~Bypass(x)
          PROVE  BackedAt(u, x)'
      <4>1. u \in Carrier
        BY DEF Carrier
      <4>2. x \in Obj /\ x \in Cargo(u)
        BY <2>9, <3>1, <4>1
      <4>3. CASE u = t /\ x = c
        BY <2>6, <4>2, <4>3 DEF BackedAt
      <4>4. CASE u = t /\ x # c
        <5>1. BackedAt(t, x)
          BY <1>1, <2>9, <3>1, <4>2, <4>4 DEF Backed
        <5>2. InPools(t, x)
          BY <1>1, <5>1 DEF BackedAt
        <5> QED
          BY <2>6, <4>2, <4>4, <5>2 DEF BackedAt
      <4>5. CASE u # t
        <5>1. BackedAt(u, x) /\ Package(u)' = Package(u) /\ Cargo(u)' = Cargo(u)
          BY <1>1, <2>9, <3>1, <4>1, <4>5 DEF Backed
        <5>2. thread_id'[x] = thread_id[x] /\ call'[u].op = call[u].op
          BY <2>9, <2>13, <4>1, <4>2, <4>5
        <5> QED
          BY <2>6, <2>10, <4>2, <5>1, <5>2 DEF BackedAt
      <4> QED
        BY <4>3, <4>4, <4>5
    <3> QED
      BY <2>10, <3>1 DEF Backed
  <2>17. Limbo'
    <3>1. ASSUME NEW x \in Obj, retainCount'[x] > 0, thread_id'[x] = HasNoThread
          PROVE  ~Bypass(x)' /\ \E p \in Carrier : x \in Package(p)'
      <4>1. thread_id[x] = HasNoThread /\ x # c
        BY <1>6, <2>2, <2>3, <2>5, <3>1, AffinityAssumption DEF Affine
      <4>2. retainCount[x] > 0 /\ LimboAt(x)
        BY <1>1, <3>1 DEF Limbo
      <4>3. ~Bypass(x) /\ \E p \in Carrier : x \in Package(p)
        BY <4>1, <4>2 DEF LimboAt
      <4> QED
        BY <2>9, <2>10, <4>1, <4>3
    <3> QED
      BY <3>1 DEF Limbo, LimboAt
  <2>18. ThreadSafeStays'
    <3>1. \A x \in Obj : strategy[x] = "KnownThreadSafe" => thread_id'[x] = thread_id[x]
      BY <2>2, <2>5 DEF Affine, Bypass
    <3> QED
      BY <1>1, <3>1 DEF Inv, ThreadSafeStays
  <2>19. Held'
    BY <1>1, <2>10, <2>11 DEF Held, HeldAt
  <2>20. Follows'
    <3>1. ASSUME NEW u \in Thread, NEW o \in Obj, NEW d \in ivars[o], thread_id'[o] = u,
                 o \notin Cargo(u), ~Bypass(d)
          PROVE  thread_id'[d] \in {u, IsThreadSafe}
      <4>1. d \in Obj
        BY <1>1 DEF TypeOK
      <4>2. thread_id[o] = u
        BY <1>3, <2>5, <3>1
      <4>3. FollowsAt(u, o, d)
        BY <1>1 DEF Follows
      <4>4. thread_id[d] \in {u, IsThreadSafe}
        BY <3>1, <4>2, <4>3 DEF FollowsAt
      <4>5. thread_id'[d] = thread_id[d]
        BY <2>3, <2>5, <4>1, <4>4, AffinityAssumption
      <4> QED
        BY <4>4, <4>5
    <3>2. \A u \in Thread : Cargo(u)' = Cargo(u)
      BY <2>9 DEF Carrier
    <3> QED
      BY <1>1, <2>10, <3>1, <3>2 DEF Follows, FollowsAt
  <2>21. Balanced'
    <3>1. ASSUME NEW x \in Obj PROVE BalancedAt(x)'
      <4>1. BalancedAt(x) /\ Packed(x)' = Packed(x) \ (IF x = c THEN {t} ELSE {})
        BY <1>1, <1>6, <2>9 DEF Balanced, Packed
      <4>2. PICK k \in Nat, r \in Nat, l \in Nat :
              k = Cardinality(Holders(x)) /\ r = retainCount[x] /\ l = Cardinality(Packed(x))
        BY <1>1, Counted DEF TypeOK
      <4>3. CASE x = c
        <5>1. t \in Packed(x)
          BY <1>6, <2>1, <4>3 DEF Packed
        <5>2. Cardinality(Packed(x) \ {t}) = Cardinality(Packed(x)) - 1
          BY <1>1, <5>1, Counted, FS_RemoveElement
        <5>3. PICK z \in Int, m \in Int : z = 0 /\ m = 0 - 1
          OBVIOUS
        <5>4. Changes(x, 1, z, m)
          <6>1. r = r + 1 + z + m /\ l - 1 = l + m /\ k = k + z
            BY <5>3
          <6> QED
            BY <1>1, <2>6, <2>10, <4>1, <4>2, <4>3, <5>2, <5>3, <6>1 DEF Changes
        <5> QED
          BY <1>1, <2>7, <4>1, <5>4, BalanceStep
      <4>4. CASE x # c
        <5>1. PoolTotal(pools, x) \in Nat
          BY <1>1, Counted
        <5>2. PICK z \in Int : z = 0
          OBVIOUS
        <5>3. Changes(x, z, z, z)
          <6>1. r = r + z + z + z /\ l = l + z /\ k = k + z
            BY <5>2
          <6>2. Packed(x)' = Packed(x)
            BY <4>1, <4>4
          <6>3. PoolTotal(pools', x) = PoolTotal(pools, x) + z
            BY <2>6, <4>4, <5>2
          <6> QED
            BY <1>1, <2>10, <4>2, <5>2, <6>1, <6>2, <6>3 DEF Changes
        <5> QED
          BY <1>1, <2>7, <4>1, <5>3, BalanceStep
      <4> QED
        BY <4>3, <4>4
    <3> QED
      BY <3>1 DEF Balanced
  <2>22. PoolsAreAffine'
    <3>1. ASSUME NEW u \in Thread, NEW x \in Obj, LeavesPools(x), InPools(u, x)'
          PROVE  thread_id'[x] \in {u, IsThreadSafe}
      <4>1. CASE InPools(u, x)
        <5>1. thread_id[x] \in {u, IsThreadSafe}
          BY <1>1, <3>1, <4>1 DEF Inv, PoolsAreAffine
        <5>2. thread_id'[x] = thread_id[x]
          BY <2>3, <2>5, <5>1, AffinityAssumption
        <5> QED
          BY <5>1, <5>2
      <4>2. CASE ~InPools(u, x)
        <5>1. u = t /\ x = c
          BY <2>6, <3>1, <4>2
        <5>2. ~Bypass(c)
          BY <1>1, <3>1, <5>1, BypassStops
        <5> QED
          BY <1>3, <2>2, <2>5, <5>1, <5>2 DEF Affine
      <4> QED
        BY <4>1, <4>2
    <3> QED
      BY <2>10, <3>1 DEF PoolsAreAffine
  <2>23. NoForeignAccess'
    BY <1>1, <2>4 DEF NoForeignAccess
  <2> QED
    BY <2>7, <2>9, <2>14, <2>15, <2>16, <2>17, <2>18, <2>19, <2>20, <2>21, <2>22, <2>23 DEF Inv
<1> QED
  BY <1>7, <1>8

(* Some of the pools of a thread lose their references to an object: none, *)
(* the tail, or all.                                                       *)
Emptied(q, y, lv, r) ==
  r = [i \in 1 .. Len(q) |-> IF i \in lv THEN [q[i] EXCEPT ![y] = 0] ELSE q[i]]

RefsAt(q, y, lv) == SumFunction([i \in lv |-> q[i][y]])

InPoolsLeft(q, y, lv, r) ==
  /\ r \in Pools /\ Len(r) = Len(q) /\ RefsAt(q, y, lv) \in Nat
  /\ \A i \in 1 .. Len(q) : \A x \in Obj : r[i][x] = IF x = y /\ i \in lv THEN 0 ELSE q[i][x]
  /\ InPool(r, y) = InPool(q, y) - RefsAt(q, y, lv)
  /\ \A x \in Obj \ {y} : InPool(r, x) = InPool(q, x)

LEMMA InPoolLeft ==
  ASSUME NEW q \in Pools, Len(q) >= 1, NEW y \in Obj, NEW lv \in {{}, {Len(q)}, 1 .. Len(q)},
         NEW r, Emptied(q, y, lv, r)
  PROVE  InPoolsLeft(q, y, lv, r)
<1>1. PICK n \in Nat : n = Len(q) /\ n >= 1 /\ n \in 1 .. n
  BY LenProperties DEF Pools
<1>2. DOMAIN q = 1 .. n /\ \A i \in 1 .. n : q[i] \in [Obj -> Nat]
  BY <1>1, LenProperties DEF Pools
<1>3. \A i \in 1 .. n : [q[i] EXCEPT ![y] = 0] \in [Obj -> Nat]
  BY <1>2
<1>4. r = [i \in 1 .. n |-> IF i \in lv THEN [q[i] EXCEPT ![y] = 0] ELSE q[i]]
  BY <1>1 DEF Emptied
<1>5. r \in Pools /\ Len(r) = n /\ DOMAIN r = 1 .. n
  <2>1. r \in [1 .. n -> [Obj -> Nat]]
    BY <1>2, <1>3, <1>4
  <2>2. \A m \in Nat : [1 .. m -> [Obj -> Nat]] \subseteq Pools
    BY SeqDef DEF Pools
  <2>3. r \in Pools /\ DOMAIN r = 1 .. n
    BY <2>1, <2>2
  <2>4. DOMAIN r = 1 .. Len(r) /\ Len(r) \in Nat
    BY <2>3, LenProperties DEF Pools
  <2> QED
    BY <2>3, <2>4
<1>6. \A i \in 1 .. n : \A x \in Obj : r[i][x] = IF x = y /\ i \in lv THEN 0 ELSE q[i][x]
  <2>1. ASSUME NEW i \in 1 .. n, NEW x \in Obj
        PROVE  r[i][x] = IF x = y /\ i \in lv THEN 0 ELSE q[i][x]
    BY <1>2, <1>4
  <2> QED
    BY <2>1
<1>7. ASSUME NEW x \in Obj \ {y} PROVE InPool(r, x) = InPool(q, x)
  <2>1. \A i \in 1 .. n : r[i][x] = q[i][x]
    BY <1>6
  <2> QED
    BY <1>2, <1>5, <2>1 DEF InPool
<1>8. PICK k \in Nat : k = InPool(q, y)
  BY InPoolType
<1>9. PICK l \in Nat : l = InPool(r, y)
  BY <1>5, InPoolType
<1>10. RefsAt(q, y, lv) \in Nat /\ l = k - RefsAt(q, y, lv)
  <2>1. CASE lv = {}
    <3>1. RefsAt(q, y, lv) = 0
      <4>1. RefsAt(q, y, {}) = 0
        BY <1>1, InPoolParts DEF RefsAt
      <4> QED
        BY <2>1, <4>1
    <3>2. \A i \in 1 .. n : r[i][y] = q[i][y]
      BY <1>6, <2>1
    <3>3. InPool(r, y) = InPool(q, y)
      BY <1>2, <1>5, <3>2 DEF InPool
    <3> QED
      BY <1>8, <1>9, <3>1, <3>3
  <2>2. CASE lv = {n}
    <3>1. RefsAt(q, y, lv) = q[n][y]
      <4>1. RefsAt(q, y, {n}) = q[n][y]
        BY <1>1, InPoolParts DEF RefsAt
      <4> QED
        BY <2>2, <4>1
    <3>2. q[n][y] \in Nat /\ r[n][y] = 0
      BY <1>1, <1>2, <1>6, <2>2
    <3>3. \A i \in (1 .. Len(q)) \ {n} : r[i][y] = q[i][y]
      BY <1>1, <1>6, <2>2
    <3>4. InPool(r, y) = InPool(q, y) + r[n][y] - q[n][y]
      BY <1>1, <1>5, <3>3, InPoolChange
    <3> QED
      BY <1>8, <1>9, <3>1, <3>2, <3>4
  <2>3. CASE lv = 1 .. n
    <3>1. RefsAt(q, y, lv) = k
      <4>1. RefsAt(q, y, 1 .. Len(q)) = InPool(q, y)
        BY <1>1, InPoolParts DEF RefsAt
      <4> QED
        BY <1>1, <1>8, <2>3, <4>1
    <3>2. \A i \in 1 .. n : ~(r[i][y] > 0)
      BY <1>6, <2>3
    <3>3. ~(InPool(r, y) > 0)
      BY <1>5, <3>2, InPoolType
    <3> QED
      BY <1>8, <1>9, <3>1, <3>3
  <2> QED
    BY <1>1, <2>1, <2>2, <2>3
<1> QED
  BY <1>1, <1>5, <1>6, <1>7, <1>8, <1>9, <1>10 DEF InPoolsLeft

(* The same for the pools of all threads.                                  *)
PoolsLeft(t, y, lv) ==
  /\ pools' \in [Thread -> Seq([Obj -> Nat])]
  /\ \A u \in Thread : Len(pools'[u]) \in 1 .. MaxPools
  /\ PoolRefs(t, y, lv) \in Nat
  /\ PoolTotal(pools', y) = PoolTotal(pools, y) - PoolRefs(t, y, lv)
  /\ PoolRefs(t, y, lv) <= PoolTotal(pools, y)
  /\ \A x \in Obj \ {y} : PoolTotal(pools', x) = PoolTotal(pools, x)
  /\ \A u \in Thread, x \in Obj : u # t \/ x # y => (InPools(u, x)' <=> InPools(u, x))
  /\ InPools(t, y)' => \E i \in (1 .. Len(pools[t])) \ lv : pools[t][i][y] > 0

LEMMA PoolsLose ==
  ASSUME TypeOK, NEW t \in Thread, NEW y \in Obj,
         NEW lv \in {{}, {Len(pools[t])}, 1 .. Len(pools[t])}, NEW r,
         Emptied(pools[t], y, lv, r), pools' = [pools EXCEPT ![t] = r]
  PROVE  PoolsLeft(t, y, lv)
<1>1. pools \in [Thread -> Pools] /\ \A u \in Thread : pools[u] \in Pools
  BY DEF TypeOK, Pools
<1>2. PICK q \in Pools : q = pools[t] /\ Len(q) >= 1
  BY <1>1 DEF TypeOK
<1>3. InPoolsLeft(q, y, lv, r)
  <2>1. lv \in {{}, {Len(q)}, 1 .. Len(q)} /\ Emptied(q, y, lv, r)
    BY <1>2
  <2> QED
    BY <1>2, <2>1, InPoolLeft
<1>4. /\ r \in Pools /\ Len(r) = Len(q) /\ RefsAt(q, y, lv) \in Nat
      /\ \A i \in 1 .. Len(q) : \A x \in Obj : r[i][x] = IF x = y /\ i \in lv THEN 0 ELSE q[i][x]
      /\ InPool(r, y) = InPool(q, y) - RefsAt(q, y, lv)
      /\ \A x \in Obj \ {y} : InPool(r, x) = InPool(q, x)
  BY <1>3 DEF InPoolsLeft
<1>5. PICK R : R = pools'
  OBVIOUS
<1>6. R \in [Thread -> Pools] /\ R[t] = r /\ \A u \in Thread \ {t} : R[u] = pools[u]
  BY <1>1, <1>4, <1>5
<1>7. \A u \in Thread : R[u] \in Pools
  BY <1>6
<1>8. PoolRefs(t, y, lv) = RefsAt(q, y, lv)
  BY <1>2 DEF PoolRefs, RefsAt
<1>9. \A x \in Obj : PoolTotal(R, x) = PoolTotal(pools, x) + InPool(r, x) - InPool(q, x)
  BY <1>1, <1>2, <1>6, PoolTotalChange
<1>10. PICK g \in Nat, k \in Nat, l \in Nat, p \in Nat :
         g = RefsAt(q, y, lv) /\ k = InPool(q, y) /\ l = InPool(r, y) /\ p = PoolTotal(pools, y)
  BY <1>1, <1>2, <1>4, InPoolType, PoolTotalType
<1>11. PoolTotal(R, y) = p - g /\ g <= p
  <2>1. l = k - g /\ k <= p
    BY <1>1, <1>2, <1>4, <1>10, PoolTotalType
  <2>2. PoolTotal(R, y) = p + l - k
    BY <1>9, <1>10
  <2> QED
    BY <2>1, <2>2
<1>12. ASSUME NEW x \in Obj \ {y} PROVE PoolTotal(R, x) = PoolTotal(pools, x)
  <2>1. PICK a \in Nat, b \in Nat : a = PoolTotal(pools, x) /\ b = InPool(q, x)
    BY <1>1, <1>2, InPoolType, PoolTotalType
  <2>2. PoolTotal(R, x) = a + b - b
    BY <1>4, <1>9, <2>1
  <2> QED
    BY <2>1, <2>2
<1>13. ASSUME NEW u \in Thread, NEW x \in Obj, u # t \/ x # y
       PROVE  InPools(u, x)' <=> InPools(u, x)
  <2>1. InPools(u, x)' <=> InPool(R[u], x) > 0
    BY <1>5, <1>7, InPoolType DEF InPools
  <2>2. InPools(u, x) <=> InPool(pools[u], x) > 0
    BY Counted
  <2>3. InPool(R[u], x) = InPool(pools[u], x)
    BY <1>2, <1>4, <1>6, <1>13
  <2> QED
    BY <2>1, <2>2, <2>3
<1>14. ASSUME InPools(t, y)' PROVE \E i \in (1 .. Len(pools[t])) \ lv : pools[t][i][y] > 0
  <2>1. PICK i \in 1 .. Len(r) : r[i][y] > 0
    BY <1>5, <1>6, <1>14 DEF InPools
  <2>2. i \in 1 .. Len(q) /\ r[i][y] = IF i \in lv THEN 0 ELSE q[i][y]
    BY <1>4, <2>1
  <2>3. i \notin lv
    BY <2>1, <2>2
  <2> QED
    BY <1>2, <2>1, <2>2, <2>3
<1>15. /\ R \in [Thread -> Seq([Obj -> Nat])]
       /\ \A u \in Thread : Len(R[u]) \in 1 .. MaxPools
  BY <1>2, <1>4, <1>6 DEF Pools, TypeOK
<1> QED
  BY <1>5, <1>8, <1>10, <1>11, <1>12, <1>13, <1>14, <1>15 DEF PoolsLeft

(* What -mulleRelinquishAccessWithTAOStrategy: does to an object that is   *)
(* the thread's own, or has no affinity: it never raises for the owner.    *)
Given(t, y) == IF Affine(y) THEN PoolRefs(t, y, RemovedFrom(t, y)) ELSE 0

Relinquished(t, y) ==
  /\ thread_id' \in [Obj -> Thread \cup {HasNoThread, IsThreadSafe}]
  /\ \A x \in Obj : x # y \/ ~Affine(y) => thread_id'[x] = thread_id[x]
  /\ Affine(y) => thread_id'[y] = HasNoThread
  /\ retainCount' \in [Obj -> Nat] /\ retainCount'[y] > 0 /\ Given(t, y) \in Nat
  /\ retainCount'[y] = retainCount[y] + 1 - Given(t, y)
  /\ \A x \in Obj \ {y} : retainCount'[x] = retainCount[x]
  /\ pools' \in [Thread -> Seq([Obj -> Nat])]
  /\ \A u \in Thread : Len(pools'[u]) \in 1 .. MaxPools
  /\ PoolTotal(pools', y) = PoolTotal(pools, y) - Given(t, y)
  /\ \A x \in Obj \ {y} : PoolTotal(pools', x) = PoolTotal(pools, x)
  /\ \A u \in Thread, x \in Obj : u # t \/ x # y => (InPools(u, x)' <=> InPools(u, x))
  /\ ~Affine(y) => (InPools(t, y)' <=> InPools(t, y))
  /\ Affine(y) /\ LeavesPools(y) /\ InPools(t, y)' => raised' # "no"
  /\ raised' \in {"no", "pool"}

LEMMA RelinquishGives ==
  ASSUME TypeOK, raised = "no", NEW t \in Thread, NEW y \in Obj, BalancedAt(y),
         Bypass(y) => thread_id[y] # HasNoThread,
         ~Bypass(y) => thread_id[y] \in {t, IsThreadSafe}, RelinquishAccess(t, y)
  PROVE  Relinquished(t, y)
<1>1. t # IsThreadSafe /\ t # HasNoThread
  BY AffinityAssumption
<1>2. PICK p \in Nat, k \in Nat :
        /\ p = PoolTotal(pools, y) /\ k = retainCount[y] /\ k >= p
  <2>1. PICK p \in Nat, h \in Nat, r \in Nat :
          /\ p = PoolTotal(pools, y) /\ h = Cardinality(Holders(y)) /\ r = References(y) /\ r = p + h
    BY Counted
  <2>2. PICK k \in Nat : k = retainCount[y] /\ k >= r
    BY <2>1, Alive
  <2> QED
    BY <2>1, <2>2
<1>3. CASE ~Affine(y)
  <2>1. /\ retainCount' = [retainCount EXCEPT ![y] = @ + 1]
        /\ UNCHANGED <<thread_id, pools, raised>>
    BY <1>3 DEF RelinquishAccess, Affine
  <2>2. /\ retainCount' \in [Obj -> Nat] /\ retainCount'[y] = k + 1
        /\ \A x \in Obj \ {y} : retainCount'[x] = retainCount[x]
    BY <1>2, <2>1, SMTT(30) DEF TypeOK
  <2>3. Given(t, y) = 0
    BY <1>3 DEF Given
  <2>4. k + 1 > 0 /\ k + 1 = k + 1 - 0 /\ p = p - 0
    OBVIOUS
  <2>5. \A u, x : InPools(u, x)' <=> InPools(u, x)
    BY <2>1 DEF InPools
  <2>6. /\ \A x \in Obj : PoolTotal(pools', x) = PoolTotal(pools, x)
        /\ pools' \in [Thread -> Seq([Obj -> Nat])]
        /\ \A u \in Thread : Len(pools'[u]) \in 1 .. MaxPools
        /\ thread_id' \in [Obj -> Thread \cup {HasNoThread, IsThreadSafe}]
    BY <2>1 DEF TypeOK
  <2> QED
    BY <1>2, <1>3, <2>1, <2>2, <2>3, <2>4, <2>5, <2>6 DEF Relinquished
<1>4. CASE Affine(y)
  <2>1. ~Bypass(y) /\ thread_id[y] = t
    BY <1>4 DEF Affine
  <2>2. PICK lv : lv = RemovedFrom(t, y)
    OBVIOUS
  <2>3. PICK r : r = [i \in 1 .. Len(pools[t]) |->
                        IF i \in lv THEN [pools[t][i] EXCEPT ![y] = 0] ELSE pools[t][i]]
    OBVIOUS
  <2>4. /\ retainCount' = [retainCount EXCEPT ![y] = @ + 1 - PoolRefs(t, y, lv)]
        /\ pools' = [pools EXCEPT ![t] = r]
        /\ thread_id' = [thread_id EXCEPT ![y] = HasNoThread]
        /\ raised' = IF FromCurrentPool(y) /\ InParents(t, y) THEN "pool" ELSE raised
    BY <1>1, <2>1, <2>2, <2>3 DEF RelinquishAccess
  <2>5. lv \in {{}, {Len(pools[t])}, 1 .. Len(pools[t])}
    BY <2>2 DEF RemovedFrom, Top
  <2>6. PoolsLeft(t, y, lv)
    BY <2>3, <2>4, <2>5, PoolsLose DEF Emptied
  <2>7. PICK g \in Nat : g = PoolRefs(t, y, lv) /\ g = Given(t, y) /\ g <= p
    BY <1>2, <1>4, <2>2, <2>6 DEF Given, PoolsLeft
  <2>8. k + 1 - g \in Nat /\ k + 1 - g > 0
    BY <1>2, <2>7
  <2>9. /\ retainCount' \in [Obj -> Nat] /\ retainCount'[y] = k + 1 - g
        /\ \A x \in Obj \ {y} : retainCount'[x] = retainCount[x]
    BY <1>2, <2>4, <2>7, <2>8 DEF TypeOK
  <2>10. /\ thread_id' \in [Obj -> Thread \cup {HasNoThread, IsThreadSafe}]
         /\ thread_id'[y] = HasNoThread /\ \A x \in Obj \ {y} : thread_id'[x] = thread_id[x]
    BY <2>4 DEF TypeOK
  <2>11. raised' \in {"no", "pool"}
    BY <2>4
  <2>12. ASSUME LeavesPools(y), InPools(t, y)' PROVE raised' # "no"
    <3>1. PICK i \in (1 .. Len(pools[t])) \ lv : pools[t][i][y] > 0
      BY <2>6, <2>12 DEF PoolsLeft
    <3>2. FromCurrentPool(y) /\ lv = {Len(pools[t])}
      BY <2>2, <2>12, <3>1 DEF LeavesPools, RemovedFrom, Top
    <3>3. i \in 1 .. Len(pools[t]) - 1
      <4>1. Len(pools[t]) \in Nat
        BY DEF TypeOK
      <4> QED
        BY <3>1, <3>2, <4>1
    <3>4. InParents(t, y)
      BY <3>1, <3>3 DEF InParents
    <3> QED
      BY <2>4, <3>2, <3>4
  <2> QED
    BY <1>2, <1>4, <2>6, <2>7, <2>8, <2>9, <2>10, <2>11, <2>12 DEF Relinquished, PoolsLeft
<1> QED
  BY <1>3, <1>4

(* A relinquish that returns from an object puts it into the package: it   *)
(* is in limbo, without the references of the pools that it has left.      *)
LEMMA RelinquishReturnsKeepsInv ==
  ASSUME Inv, NEW t \in Thread, RelinquishReturns(t)
  PROVE  Inv'
<1>1. /\ TypeOK /\ CallsFit /\ Homes /\ Apart /\ Backed /\ Limbo /\ Held /\ Follows /\ Balanced
      /\ Walking(t) /\ call[t].op = "relinquish" /\ raised = "no"
      /\ Frame(t).left = {} /\ Frame(t).obj # None
      /\ RelinquishAccess(t, Frame(t).obj)
      /\ call' = [call EXCEPT ![t] = Returned(t)]
      /\ UNCHANGED <<strategy, ivars, available>>
  BY DEF RelinquishReturns, Running, Inv, Walking
<1>2. ReturnTells(t)
  BY <1>1, ReturnGoes
<1>3. PICK y : y = Frame(t).obj
  OBVIOUS
<1>4. PICK V \in SUBSET Obj : V = call[t].uniquing
  BY <1>1, WalkFits
<1>5. PICK q \in Frames :
        /\ Goes(t, q, V) /\ StackFits(q, call[t].obj, V)
        /\ Walkers(q) = OnStack(t) \ {y} /\ \A x \in Walkers(q) : Walked(x) # {}
  BY <1>2, <1>3, <1>4 DEF ReturnTells
<1>6. y \in Obj /\ y \in Cargo(t) /\ y \in V /\ y \in OnStack(t) /\ Walked(y) \subseteq V
  BY <1>2, <1>3, <1>4 DEF ReturnTells
<1>7. t # HasNoThread /\ t \in Carrier /\ Package(t) = V \ OnStack(t) /\ y \notin Package(t)
  <2>1. t # HasNoThread /\ t \in Carrier /\ Package(t) = V \ OnStack(t)
    BY <1>1, <1>4, AffinityAssumption DEF Package, Carrier
  <2> QED
    BY <1>6, <2>1
<1>8. HomeAt(t, y) /\ ApartAt(t, y)
  BY <1>1, <1>6, <1>7 DEF Homes, Apart
<1>9. /\ Bypass(y) => thread_id[y] # HasNoThread
      /\ ~Bypass(y) => thread_id[y] \in {t, IsThreadSafe}
      /\ Affine(y) => thread_id[y] = t
  BY <1>7, <1>8 DEF HomeAt, Affine
<1>10. Relinquished(t, y)
  <2>1. BalancedAt(y)
    BY <1>1, <1>6 DEF Balanced
  <2> QED
    BY <1>1, <1>3, <1>6, <1>9, <2>1, RelinquishGives
<1>11. /\ thread_id' \in [Obj -> Thread \cup {HasNoThread, IsThreadSafe}]
       /\ \A x \in Obj : x # y \/ ~Affine(y) => thread_id'[x] = thread_id[x]
       /\ Affine(y) => thread_id'[y] = HasNoThread
  BY <1>10 DEF Relinquished
<1>12. /\ retainCount' \in [Obj -> Nat] /\ retainCount'[y] > 0
       /\ \A x \in Obj \ {y} : retainCount'[x] = retainCount[x]
       /\ raised' \in {"no", "pool"}
  BY <1>10 DEF Relinquished
<1>13. \A u \in Thread, x \in Obj : u # t \/ x # y \/ ~Affine(y) => (InPools(u, x)' <=> InPools(u, x))
  BY <1>10 DEF Relinquished
<1>14. TypeOK'
  <2>1. call' \in [Thread -> CallRecord]
    BY <1>5 DEF Goes
  <2>2. /\ pools' \in [Thread -> Seq([Obj -> Nat])]
        /\ \A u \in Thread : Len(pools'[u]) \in 1 .. MaxPools
    BY <1>10 DEF Relinquished
  <2> QED
    BY <1>1, <1>11, <1>12, <2>1, <2>2 DEF TypeOK, CallRecord, Frames
<1>15. WalkKeeps(t, q, V)
  BY <1>1, <1>5, <1>14, GoesKeeps
<1>16. /\ CallsFit' /\ \A p \in Carrier : Cargo(p)' = Cargo(p) /\ Cargo(p) \subseteq Obj
       /\ \A p \in Carrier \ {t} : Package(p)' = Package(p)
       /\ Package(t)' = Package(t) \cup {y}
       /\ \A u \in Thread : call'[u].op = call[u].op
  <2>1. Package(t)' = V \ Walkers(q)
    BY <1>1, <1>15 DEF WalkKeeps
  <2>2. Package(t)' = Package(t) \cup {y}
    BY <1>5, <1>6, <1>7, <2>1
  <2> QED
    BY <1>1, <1>15, <2>2, CargoType DEF WalkKeeps
<1>17. \A x : /\ Bypass(x)' = Bypass(x) /\ Walks(x)' = Walks(x) /\ Walked(x)' = Walked(x)
              /\ Holders(x)' = Holders(x) /\ LeavesPools(x)' = LeavesPools(x)
  BY <1>1, BypassStays DEF Walked, Holders
<1>18. \A x \in Obj : thread_id'[x] = IsThreadSafe <=> thread_id[x] = IsThreadSafe
  BY <1>11, AffinityAssumption DEF Affine
<1>19. \A x \in Obj : Affine(x)' <=> Affine(x)
  BY <1>17, <1>18 DEF Affine
<1>20. \A p \in Carrier \ {t} : \A x \in Cargo(p) : thread_id'[x] = thread_id[x]
  BY <1>8, <1>11, <1>16 DEF ApartAt
<1>21. Homes'
  <2>1. ASSUME NEW p \in Carrier, NEW x \in Cargo(p)' PROVE HomeAt(p, x)'
    <3>1. HomeAt(p, x) /\ x \in Cargo(p) /\ x \in Obj
      BY <1>1, <1>16, <2>1 DEF Homes
    <3>2. CASE p # t
      BY <1>16, <1>17, <1>20, <3>1, <3>2 DEF HomeAt
    <3>3. CASE p = t /\ x # y
      BY <1>11, <1>16, <1>17, <3>1, <3>3 DEF HomeAt
    <3>4. CASE p = t /\ x = y
      <4>1. Bypass(y) => thread_id'[y] # HasNoThread
        BY <1>6, <1>9, <1>11 DEF Affine
      <4>2. ~Bypass(y) => thread_id'[y] \in {IsThreadSafe, HasNoThread}
        BY <1>6, <1>11 DEF Affine
      <4>3. x \in Package(t)'
        BY <1>16, <3>4
      <4> QED
        BY <1>17, <3>4, <4>1, <4>2, <4>3 DEF HomeAt
    <3> QED
      BY <3>2, <3>3, <3>4
  <2> QED
    BY <2>1 DEF Homes
<1>22. Apart'
  <2>1. ASSUME NEW p \in Carrier, NEW x \in Cargo(p)' PROVE ApartAt(p, x)'
    <3>1. ApartAt(p, x) /\ x \in Obj
      BY <1>1, <1>16, <2>1 DEF Apart
    <3> QED
      BY <1>16, <1>17, <1>19, <3>1 DEF ApartAt
  <2> QED
    BY <2>1 DEF Apart
<1>23. Backed'
  <2>1. ASSUME NEW u \in Thread, NEW x \in (Cargo(u) \ Package(u))', ~Bypass(x)
        PROVE  BackedAt(u, x)'
    <3>1. u \in Carrier
      BY DEF Carrier
    <3>2. x \in Obj /\ x \in Cargo(u) /\ Cargo(u)' = Cargo(u) /\ call'[u].op = call[u].op
      BY <1>16, <2>1, <3>1
    <3>3. CASE u # t
      <4>1. BackedAt(u, x) /\ Package(u)' = Package(u)
        BY <1>1, <1>16, <2>1, <3>1, <3>2, <3>3 DEF Backed
      <4>2. thread_id'[x] = thread_id[x] /\ (InPools(u, x)' <=> InPools(u, x))
        BY <1>13, <1>20, <3>1, <3>2, <3>3
      <4> QED
        BY <1>17, <3>2, <4>1, <4>2 DEF BackedAt
    <3>4. CASE u = t
      <4>1. x # y /\ x \notin Package(t) /\ BackedAt(t, x)
        BY <1>1, <1>16, <2>1, <3>2, <3>4 DEF Backed
      <4>2. thread_id'[x] = thread_id[x] /\ (InPools(t, x)' <=> InPools(t, x))
        BY <1>11, <1>13, <3>2, <4>1
      <4>3. thread_id[x] = IsThreadSafe => x \notin Walked(y)
        <5>1. ASSUME thread_id[x] = IsThreadSafe, x \in Walked(y) PROVE FALSE
          <6>1. x \in OnStack(t)
            BY <1>6, <1>7, <4>1, <5>1
          <6>2. PICK c : c \in Walked(x)
            BY <1>5, <4>1, <6>1
          <6> QED
            BY <1>1, <3>2, <5>1, <6>2, WalkedHolds
        <5> QED
          BY <5>1
      <4>4. CASE InPools(t, x)
        BY <3>4, <4>2, <4>4 DEF BackedAt
      <4>5. CASE ~InPools(t, x)
        <5>1. PICK h \in Cargo(t) : x \in Walked(h) /\ (thread_id[x] = IsThreadSafe => h \notin Package(t))
          BY <4>1, <4>5 DEF BackedAt
        <5>2. thread_id[x] = IsThreadSafe => h \notin Package(t)'
          BY <1>16, <4>3, <5>1
        <5> QED
          BY <1>1, <1>17, <3>2, <3>4, <4>2, <5>1, <5>2 DEF BackedAt
      <4> QED
        BY <4>4, <4>5
    <3> QED
      BY <3>3, <3>4
  <2> QED
    BY <1>17, <2>1 DEF Backed
<1>24. Limbo'
  <2>1. ASSUME NEW x \in Obj, retainCount'[x] > 0, thread_id'[x] = HasNoThread
        PROVE  ~Bypass(x)' /\ \E p \in Carrier : x \in Package(p)'
    <3>1. CASE x = y
      <4>1. ~Bypass(y)
        BY <1>6, <1>9, <1>11, <2>1, <3>1 DEF Affine
      <4> QED
        BY <1>7, <1>16, <1>17, <3>1, <4>1
    <3>2. CASE x # y
      <4>1. thread_id[x] = HasNoThread /\ retainCount[x] > 0 /\ LimboAt(x)
        BY <1>1, <1>11, <1>12, <2>1, <3>2 DEF Limbo
      <4>2. ~Bypass(x) /\ \E p \in Carrier : x \in Package(p)
        BY <4>1 DEF LimboAt
      <4> QED
        BY <1>16, <1>17, <4>2
    <3> QED
      BY <3>1, <3>2
  <2> QED
    BY <2>1 DEF Limbo, LimboAt
<1>25. ThreadSafeStays'
  <2>1. \A x \in Obj : strategy[x] = "KnownThreadSafe" => thread_id'[x] = thread_id[x]
    BY <1>11 DEF Affine, Bypass
  <2> QED
    BY <1>1, <2>1 DEF Inv, ThreadSafeStays
<1>26. Held'
  <2>1. \A x \in Obj : retainCount[x] > 0 => retainCount'[x] > 0
    BY <1>12
  <2> QED
    BY <1>1, <1>17, <1>18, <2>1 DEF Held, HeldAt
<1>27. Follows'
  <2>1. ASSUME NEW u \in Thread, NEW o \in Obj, NEW d \in ivars[o], thread_id'[o] = u,
               o \notin Cargo(u), ~Bypass(d)
        PROVE  thread_id'[d] \in {u, IsThreadSafe}
    <3>1. d \in Obj /\ u # HasNoThread /\ o \in Holders(d)
      BY <1>1, AffinityAssumption DEF TypeOK, Holders
    <3>2. thread_id[o] = u
      BY <1>11, <2>1, <3>1
    <3>3. FollowsAt(u, o, d)
      BY <1>1 DEF Follows
    <3>4. thread_id[d] \in {u, IsThreadSafe}
      BY <2>1, <3>2, <3>3 DEF FollowsAt
    <3>5. ASSUME d = y, Affine(y) PROVE FALSE
      <4>1. u = t
        BY <1>9, <3>4, <3>5 DEF Affine
      <4>2. o \in Cargo(t)
        BY <1>8, <3>1, <3>5 DEF ApartAt
      <4> QED
        BY <2>1, <4>1, <4>2
    <3>6. thread_id'[d] = thread_id[d]
      BY <1>11, <3>1, <3>5
    <3> QED
      BY <3>4, <3>6
  <2>2. \A u \in Thread : Cargo(u)' = Cargo(u)
    BY <1>16 DEF Carrier
  <2> QED
    BY <1>1, <1>17, <2>1, <2>2 DEF Follows, FollowsAt
<1>28. Balanced'
  <2>1. ASSUME NEW x \in Obj PROVE BalancedAt(x)'
    <3>1. BalancedAt(x) /\ Packed(x)' = Packed(x) \cup (IF x = y THEN {t} ELSE {})
      BY <1>1, <1>7, <1>16 DEF Balanced, Packed
    <3>2. PICK k \in Nat, r \in Nat, l \in Nat, p \in Nat :
            /\ k = Cardinality(Holders(x)) /\ r = retainCount[x] /\ l = Cardinality(Packed(x))
            /\ p = PoolTotal(pools, x)
      BY <1>1, Counted DEF TypeOK
    <3>3. PICK z \in Int : z = 0
      OBVIOUS
    <3>4. k = k + z
      BY <3>3
    <3>5. CASE x = y
      <4>1. t \notin Packed(x)
        BY <1>7, <3>5 DEF Packed
      <4>2. Cardinality(Packed(x) \cup {t}) = Cardinality(Packed(x)) + 1
        BY <1>1, <4>1, Counted, FS_AddElement
      <4>3. PICK g \in Nat : g = Given(t, y)
        BY <1>10 DEF Relinquished
      <4>4. PICK m \in Int : m = 0 - g
        OBVIOUS
      <4>5. r + 1 - g = r + m + z + 1 /\ p - g = p + m
        BY <3>3, <4>4
      <4>6. retainCount'[x] = r + 1 - g /\ PoolTotal(pools', x) = p - g
        BY <1>10, <3>2, <3>5, <4>3 DEF Relinquished
      <4>7. Changes(x, m, z, 1)
        BY <1>17, <3>1, <3>2, <3>4, <3>5, <4>2, <4>5, <4>6 DEF Changes
      <4> QED
        BY <1>1, <1>14, <3>1, <4>7, BalanceStep
    <3>6. CASE x # y
      <4>1. r = r + z + z + z /\ l = l + z /\ p = p + z
        BY <3>3
      <4>2. Packed(x)' = Packed(x)
        BY <3>1, <3>6
      <4>3. retainCount'[x] = r /\ PoolTotal(pools', x) = p
        BY <1>10, <3>2, <3>6 DEF Relinquished
      <4>4. Changes(x, z, z, z)
        BY <1>17, <3>2, <3>4, <4>1, <4>2, <4>3 DEF Changes
      <4> QED
        BY <1>1, <1>14, <3>1, <4>4, BalanceStep
    <3> QED
      BY <3>5, <3>6
  <2> QED
    BY <2>1 DEF Balanced
<1>29. PoolsAreAffine'
  <2>1. ASSUME NEW u \in Thread, NEW x \in Obj, LeavesPools(x), InPools(u, x)', raised' = "no"
        PROVE  thread_id'[x] \in {u, IsThreadSafe}
    <3>1. CASE x # y \/ ~Affine(y)
      <4>1. InPools(u, x) /\ thread_id'[x] = thread_id[x]
        BY <1>11, <1>13, <2>1, <3>1
      <4> QED
        BY <1>1, <2>1, <4>1 DEF Inv, PoolsAreAffine
    <3>2. CASE x = y /\ Affine(y)
      <4>1. u # t
        BY <1>10, <2>1, <3>2 DEF Relinquished
      <4>2. InPools(u, y)
        BY <1>6, <1>13, <2>1, <3>2, <4>1
      <4>3. thread_id[y] \in {u, IsThreadSafe}
        BY <1>1, <1>6, <2>1, <3>2, <4>2 DEF Inv, PoolsAreAffine
      <4> QED
        BY <1>9, <3>2, <4>1, <4>3 DEF Affine
    <3> QED
      BY <3>1, <3>2
  <2> QED
    BY <1>17, <2>1 DEF PoolsAreAffine
<1>30. NoForeignAccess'
  BY <1>12 DEF NoForeignAccess
<1> QED
  BY <1>14, <1>16, <1>21, <1>22, <1>23, <1>24, <1>25, <1>26, <1>27, <1>28, <1>29, <1>30 DEF Inv

-----------------------------------------------------------------------------
(* The steps together.                                                     *)

(* Pools are pushed and popped by Push and PopReturns only.                *)
DomainsStay == \A u \in Thread : DOMAIN pools'[u] = DOMAIN pools[u]

PopsStay == \A u \in Thread : call'[u].op = "pop" => call[u].op = "pop"

LEMMA PoppingStays ==
  ASSUME TypeOK, TypeOK', Popping, DomainsStay, PopsStay
  PROVE  Popping'
<1> SUFFICES ASSUME NEW u \in Thread, call'[u].op = "pop" PROVE Len(pools'[u]) > 1
  BY DEF Popping
<1>1. Len(pools[u]) > 1
  BY DEF Popping, PopsStay
<1>2. DOMAIN pools[u] = 1 .. Len(pools[u]) /\ DOMAIN pools'[u] = 1 .. Len(pools'[u])
  <2>1. pools[u] \in Seq([Obj -> Nat]) /\ pools'[u] \in Seq([Obj -> Nat])
    BY DEF TypeOK
  <2> QED
    BY <2>1, LenProperties
<1>3. PICK a \in Nat, b \in Nat : a = Len(pools[u]) /\ b = Len(pools'[u])
  BY DEF TypeOK
<1>4. 1 .. a = 1 .. b
  BY <1>2, <1>3 DEF DomainsStay
<1>5. a \in 1 .. b
  BY <1>1, <1>3, <1>4
<1> QED
  BY <1>1, <1>3, <1>5

(* The tail of a thread is set.                                            *)
LEMMA TailDomains ==
  ASSUME TypeOK, NEW t \in Thread, NEW n, NEW w, pools' = [pools EXCEPT ![t][n] = w]
  PROVE  DomainsStay
<1>1. ASSUME NEW u \in Thread PROVE DOMAIN pools'[u] = DOMAIN pools[u]
  <2>1. CASE u = t
    <3>1. pools'[t] = [pools[t] EXCEPT ![n] = w]
      BY DEF TypeOK
    <3> QED
      BY <2>1, <3>1
  <2>2. CASE u # t
    BY <2>2 DEF TypeOK
  <2> QED
    BY <2>1, <2>2
<1> QED
  BY <1>1 DEF DomainsStay

LEMMA AutoreleaseDomains ==
  ASSUME TypeOK, NEW t \in Thread, NEW o \in Obj, pools' = Autoreleased(t, o)
  PROVE  DomainsStay
<1>1. PICK w : w = [pools[t][Top(t)] EXCEPT ![o] = @ + 1]
  OBVIOUS
<1>2. pools' = [pools EXCEPT ![t][Top(t)] = w]
  BY <1>1 DEF Autoreleased
<1> QED
  BY <1>2, TailDomains

LEMMA RelinquishDomains ==
  ASSUME TypeOK, NEW t \in Thread, NEW o, RelinquishAccess(t, o)
  PROVE  DomainsStay
<1>1. CASE pools' = pools
  BY <1>1 DEF DomainsStay
<1>2. CASE pools' # pools
  <2>1. PICK lv : lv = RemovedFrom(t, o)
    OBVIOUS
  <2>2. pools' = [pools EXCEPT ![t] = [i \in 1 .. Len(@) |->
                    IF i \in lv THEN [@[i] EXCEPT ![o] = 0] ELSE @[i]]]
    BY <1>2, <2>1 DEF RelinquishAccess
  <2>3. PICK f : f = [i \in 1 .. Len(pools[t]) |->
                        IF i \in lv THEN [pools[t][i] EXCEPT ![o] = 0] ELSE pools[t][i]]
    OBVIOUS
  <2>4. pools' = [pools EXCEPT ![t] = f] /\ DOMAIN f = 1 .. Len(pools[t])
    BY <2>2, <2>3
  <2>5. pools[t] \in Seq([Obj -> Nat])
    BY DEF TypeOK
  <2>6. DOMAIN pools[t] = 1 .. Len(pools[t])
    BY <2>5, LenProperties
  <2>7. ASSUME NEW u \in Thread PROVE DOMAIN pools'[u] = DOMAIN pools[u]
    <3>1. CASE u = t
      BY <2>4, <2>6, <3>1 DEF TypeOK
    <3>2. CASE u # t
      BY <2>4, <3>2 DEF TypeOK
    <3> QED
      BY <3>1, <3>2
  <2> QED
    BY <2>7 DEF DomainsStay
<1> QED
  BY <1>1, <1>2

(* A call that is set is no pop.                                           *)
LEMMA CallSet ==
  ASSUME TypeOK, NEW t \in Thread, NEW k, k.op # "pop", call' = [call EXCEPT ![t] = k]
  PROVE  PopsStay
<1>1. ASSUME NEW u \in Thread, call'[u].op = "pop" PROVE call[u].op = "pop"
  <2>1. CASE u = t
    BY <1>1, <2>1 DEF TypeOK
  <2>2. CASE u # t
    BY <1>1, <2>2 DEF TypeOK
  <2> QED
    BY <2>1, <2>2
<1> QED
  BY <1>1 DEF PopsStay

(* Client code pops no pool but the one that it has pushed.                *)
LEMMA ClientKeepsPopping ==
  ASSUME Inv, TypeOK', Popping, NEW t \in Thread, ClientStep(t)
  PROVE  Popping'
<1>0. TypeOK
  BY DEF Inv
<1>1. pools' = pools => DomainsStay
  BY DEF DomainsStay
<1>2. call' = call => PopsStay
  BY DEF PopsStay
<1>3. ASSUME NEW o \in Obj, Instance(t, o) PROVE Popping'
  BY <1>0, <1>2, <1>3, AutoreleaseDomains, PoppingStays DEF Instance
<1>4. ASSUME NEW o \in Obj, RetainAutorelease(t, o) PROVE Popping'
  BY <1>0, <1>2, <1>4, AutoreleaseDomains, PoppingStays DEF RetainAutorelease
<1>5. ASSUME NEW o \in Obj, Recycle(t, o) PROVE Popping'
  <2>1. PICK k : k = Walk("relinquish", o)
    OBVIOUS
  <2>2. call' = [call EXCEPT ![t] = k] /\ pools' = pools
    BY <1>5, <2>1 DEF Recycle, objects
  <2>3. k.op # "pop"
    BY <2>1 DEF Walk
  <2> QED
    BY <1>0, <1>1, <2>2, <2>3, CallSet, PoppingStays
<1>6. ASSUME NEW o \in Obj, NEW flag \in BOOLEAN, SetThreadSafe(t, o, flag) PROVE Popping'
  BY <1>0, <1>1, <1>2, <1>6, PoppingStays DEF SetThreadSafe
<1>7. ASSUME NEW o \in Obj, NEW c \in Obj, SetIvar(t, o, c) PROVE Popping'
  BY <1>0, <1>1, <1>2, <1>7, PoppingStays DEF SetIvar
<1>8. ASSUME NEW o \in Obj, NEW c \in Obj, ClearIvar(t, o, c) PROVE Popping'
  BY <1>0, <1>2, <1>8, AutoreleaseDomains, PoppingStays DEF ClearIvar
<1>9. CASE Push(t)
  <2>1. call[t].op = "none" /\ call' = call /\ pools' = [pools EXCEPT ![t] = Append(@, EmptyPool)]
    BY <1>9 DEF Push, Running
  <2>2. ASSUME NEW u \in Thread, call'[u].op = "pop" PROVE Len(pools'[u]) > 1
    <3>1. u # t /\ call[u].op = "pop"
      BY <2>1, <2>2
    <3>2. pools'[u] = pools[u]
      BY <1>0, <2>1, <3>1 DEF TypeOK
    <3> QED
      BY <3>1, <3>2 DEF Popping
  <2> QED
    BY <2>2 DEF Popping
<1>10. CASE Pop(t)
  <2>1. Len(pools[t]) > 1 /\ pools' = pools /\ call' = [call EXCEPT ![t].op = "pop"]
    BY <1>10 DEF Pop, objects
  <2>2. ASSUME NEW u \in Thread, call'[u].op = "pop" PROVE Len(pools'[u]) > 1
    <3>1. CASE u = t
      BY <2>1, <3>1
    <3>2. CASE u # t
      <4>1. call'[u] = call[u]
        BY <1>0, <2>1, <3>2 DEF TypeOK
      <4> QED
        BY <2>1, <2>2, <4>1 DEF Popping
    <3> QED
      BY <3>1, <3>2
  <2> QED
    BY <2>2 DEF Popping
<1>11. CASE Acquire(t)
  <2>1. PICK k : k = [call[t] EXCEPT !.op = "acquire", !.obj = available]
    OBVIOUS
  <2>2. call' = [call EXCEPT ![t] = k] /\ pools' = pools
    BY <1>11, <2>1 DEF Acquire, objects
  <2>3. k.op # "pop"
    BY <1>0, <2>1 DEF TypeOK
  <2> QED
    BY <1>0, <1>1, <2>2, <2>3, CallSet, PoppingStays
<1>12. CASE Discard(t)
  <2>1. DomainsStay
    <3>1. CASE pools' = pools
      BY <1>1, <3>1
    <3>2. CASE pools' # pools
      <4>1. PICK w : w = [c \in Obj |-> pools[t][Top(t)][c] + IF c \in ivars[available] THEN 1 ELSE 0]
        OBVIOUS
      <4>2. pools' = [pools EXCEPT ![t][Top(t)] = w]
        BY <1>12, <3>2, <4>1 DEF Discard
      <4> QED
        BY <1>0, <4>2, TailDomains
    <3> QED
      BY <3>1, <3>2
  <2>2. call' = call
    BY <1>12 DEF Discard
  <2> QED
    BY <1>0, <1>2, <2>1, <2>2, PoppingStays
<1> QED
  BY <1>3, <1>4, <1>5, <1>6, <1>7, <1>8, <1>9, <1>10, <1>11, <1>12 DEF ClientStep

(* Nor does a call: a drain leaves its pool in place until it returns.     *)
LEMMA CallKeepsPopping ==
  ASSUME Inv, TypeOK', Popping, NEW t \in Thread, CallStep(t)
  PROVE  Popping'
<1>0. TypeOK /\ CallsFit
  BY DEF Inv
<1>1. pools' = pools => DomainsStay
  BY DEF DomainsStay
<1>2. call' = call => PopsStay
  BY DEF PopsStay
<1>3. ASSUME NEW q, NEW V, Goes(t, q, V) PROVE PopsStay
  BY <1>3 DEF Goes, PopsStay, OthersWalk
<1>4. ASSUME call' = [call EXCEPT ![t] = NoCall] PROVE PopsStay
  <2>1. PICK k : k = NoCall
    OBVIOUS
  <2>2. k.op # "pop"
    BY <2>1 DEF NoCall
  <2> QED
    BY <1>0, <1>4, <2>1, <2>2, CallSet
<1>5. ASSUME NEW o, call' = [call EXCEPT ![t] = Walk("gain", o)] PROVE PopsStay
  <2>1. PICK k : k = Walk("gain", o)
    OBVIOUS
  <2>2. k.op # "pop"
    BY <2>1 DEF Walk
  <2> QED
    BY <1>0, <1>5, <2>1, <2>2, CallSet
<1>6. ASSUME NEW o \in Obj, RelinquishVisits(t, o) PROVE Popping'
  <2>1. Walking(t) /\ o \in Frame(t).left /\ call' = [call EXCEPT ![t] = Visited(t, o)] /\ pools' = pools
    BY <1>6 DEF RelinquishVisits, Running, Walking, objects
  <2>2. VisitTells(t, o)
    BY <1>0, <2>1, VisitGoes
  <2> QED
    BY <1>0, <1>1, <1>3, <2>1, <2>2, PoppingStays DEF VisitTells
<1>7. ASSUME NEW o \in Obj, GainVisits(t, o) PROVE Popping'
  <2>1. Walking(t) /\ o \in Frame(t).left /\ call' = [call EXCEPT ![t] = Visited(t, o)]
    BY <1>7 DEF GainVisits, Running, Walking
  <2>2. pools' = pools \/ pools' = Autoreleased(t, o)
    BY <1>7 DEF GainVisits, GainAccess
  <2>3. DomainsStay
    BY <1>0, <1>1, <2>2, AutoreleaseDomains
  <2>4. VisitTells(t, o)
    BY <1>0, <2>1, VisitGoes
  <2> QED
    BY <1>0, <1>3, <2>3, <2>4, PoppingStays DEF VisitTells
<1>8. ASSUME NEW o \in Obj, PopReleases(t, o) PROVE Popping'
  <2>1. PICK rest : rest = [pools[t][Top(t)] EXCEPT ![o] = @ - 1]
    OBVIOUS
  <2>2. PICK w : w = IF retainCount[o] > 1 THEN rest
                     ELSE [c \in Obj |-> rest[c] + IF c \in ivars[o] THEN 1 ELSE 0]
    OBVIOUS
  <2>3. pools' = [pools EXCEPT ![t][Top(t)] = w] /\ call' = call
    BY <1>8, <2>1, <2>2 DEF PopReleases, Drained
  <2> QED
    BY <1>0, <1>2, <2>3, TailDomains, PoppingStays
<1>9. CASE RelinquishReturns(t)
  <2>1. /\ Walking(t) /\ Frame(t).left = {} /\ Frame(t).obj # None
        /\ call' = [call EXCEPT ![t] = Returned(t)] /\ RelinquishAccess(t, Frame(t).obj)
    BY <1>9 DEF RelinquishReturns, Running, Walking
  <2>2. ReturnTells(t)
    BY <1>0, <2>1, ReturnGoes
  <2>3. PopsStay
    BY <1>3, <2>2 DEF ReturnTells
  <2> QED
    BY <1>0, <2>1, <2>3, RelinquishDomains, PoppingStays
<1>10. CASE GainReturns(t)
  <2>1. /\ Walking(t) /\ Frame(t).left = {} /\ pools' = pools
        /\ call' = [call EXCEPT ![t] = IF Frame(t).obj = None THEN NoCall ELSE Returned(t)]
    BY <1>10 DEF GainReturns, Running, Walking, objects
  <2>2. CASE Frame(t).obj = None
    BY <1>0, <1>1, <1>4, <2>1, <2>2, PoppingStays
  <2>3. CASE Frame(t).obj # None
    <3>1. ReturnTells(t)
      BY <1>0, <2>1, <2>3, ReturnGoes
    <3> QED
      BY <1>0, <1>1, <1>3, <2>1, <3>1, PoppingStays DEF ReturnTells
  <2> QED
    BY <2>2, <2>3
<1>11. CASE PopReturns(t)
  <2>1. /\ call' = [call EXCEPT ![t] = NoCall]
        /\ pools' = [pools EXCEPT ![t] = SubSeq(@, 1, Len(@) - 1)]
    BY <1>11 DEF PopReturns
  <2>2. ASSUME NEW u \in Thread, call'[u].op = "pop" PROVE Len(pools'[u]) > 1
    <3>1. u # t
      BY <1>0, <2>1, <2>2 DEF TypeOK, NoCall
    <3>2. pools'[u] = pools[u] /\ call'[u] = call[u]
      BY <1>0, <2>1, <3>1 DEF TypeOK
    <3> QED
      BY <2>2, <3>2 DEF Popping
  <2> QED
    BY <2>2 DEF Popping
<1>12. CASE RecycleSwaps(t)
  <2>1. /\ pools' = pools
        /\ call' = [call EXCEPT ![t] = NoCall] \/ call' = [call EXCEPT ![t] = Walk("gain", @.obj)]
    BY <1>12 DEF RecycleSwaps, objects
  <2>2. PICK o : o = call[t].obj
    OBVIOUS
  <2>3. call' = [call EXCEPT ![t] = NoCall] \/ call' = [call EXCEPT ![t] = Walk("gain", o)]
    BY <1>0, <2>1, <2>2 DEF TypeOK
  <2> QED
    BY <1>0, <1>1, <1>4, <1>5, <2>1, <2>3, PoppingStays
<1>13. CASE AcquireSwaps(t)
  <2>0. pools' = pools /\ call[t].op = "acquire"
    BY <1>13 DEF AcquireSwaps, Running, objects
  <2>1. CASE call' = [call EXCEPT ![t] = NoCall]
    BY <1>0, <1>1, <1>4, <2>0, <2>1, PoppingStays
  <2>2. CASE call' = [call EXCEPT ![t] = Walk("gain", available)]
    BY <1>0, <1>1, <1>5, <2>0, <2>2, PoppingStays
  <2>3. CASE call' = [call EXCEPT ![t].obj = available]
    <3>1. PICK k : k = [call[t] EXCEPT !.obj = available]
      OBVIOUS
    <3>2. call' = [call EXCEPT ![t] = k] /\ k.op # "pop"
      BY <1>0, <2>0, <2>3, <3>1 DEF TypeOK
    <3> QED
      BY <1>0, <1>1, <2>0, <3>2, CallSet, PoppingStays
  <2>4. \/ call' = [call EXCEPT ![t] = NoCall]
        \/ call' = [call EXCEPT ![t] = Walk("gain", available)]
        \/ call' = [call EXCEPT ![t].obj = available]
    <3>1. call[t].obj # None
      BY <1>0, <2>0, AffinityAssumption DEF CallsFit, CallFits
    <3>2. CASE available = call[t].obj
      BY <1>13, <3>1, <3>2 DEF AcquireSwaps
    <3>3. CASE available # call[t].obj /\ available = None
      BY <1>13, <3>3 DEF AcquireSwaps
    <3>4. CASE available # call[t].obj /\ available # None
      BY <1>13, <3>4 DEF AcquireSwaps
    <3> QED
      BY <3>2, <3>3, <3>4
  <2> QED
    BY <2>1, <2>2, <2>3, <2>4
<1> QED
  BY <1>6, <1>7, <1>8, <1>9, <1>10, <1>11, <1>12, <1>13 DEF CallStep

(* Every step keeps the invariant.                                         *)
LEMMA StepKeepsInv ==
  ASSUME Inv, Popping, [Next]_vars
  PROVE  Inv' /\ Popping'
<1>1. ASSUME NEW t \in Thread, ClientStep(t) PROVE Inv' /\ Popping'
  <2>1. Inv'
    <3>1. ASSUME NEW o \in Obj, Instance(t, o) PROVE Inv'
      BY <3>1, InstanceKeepsInv
    <3>2. ASSUME NEW o \in Obj, RetainAutorelease(t, o) PROVE Inv'
      BY <3>2, RetainAutoreleaseKeepsInv
    <3>3. ASSUME NEW o \in Obj, Recycle(t, o) PROVE Inv'
      BY <3>3, RecycleKeepsInv
    <3>4. ASSUME NEW o \in Obj, NEW flag \in BOOLEAN, SetThreadSafe(t, o, flag) PROVE Inv'
      BY <3>4, SetThreadSafeKeepsInv
    <3>5. ASSUME NEW o \in Obj, NEW c \in Obj, SetIvar(t, o, c) PROVE Inv'
      BY <3>5, SetIvarKeepsInv
    <3>6. ASSUME NEW o \in Obj, NEW c \in Obj, ClearIvar(t, o, c) PROVE Inv'
      BY <3>6, ClearIvarKeepsInv
    <3>7. CASE Push(t)
      BY <3>7, PushKeepsInv
    <3>8. CASE Pop(t)
      BY <3>8, PopKeepsInv
    <3>9. CASE Acquire(t)
      BY <3>9, AcquireKeepsInv
    <3>10. CASE Discard(t)
      BY <3>10, DiscardKeepsInv
    <3> QED
      BY <1>1, <3>1, <3>2, <3>3, <3>4, <3>5, <3>6, <3>7, <3>8, <3>9, <3>10 DEF ClientStep
  <2>2. TypeOK'
    BY <2>1 DEF Inv
  <2> QED
    BY <1>1, <2>1, <2>2, ClientKeepsPopping
<1>2. ASSUME NEW t \in Thread, CallStep(t) PROVE Inv' /\ Popping'
  <2>1. Inv'
    <3>1. ASSUME NEW o \in Obj, RelinquishVisits(t, o) PROVE Inv'
      BY <3>1, RelinquishVisitsKeepsInv
    <3>2. ASSUME NEW o \in Obj, GainVisits(t, o) PROVE Inv'
      BY <3>2, GainVisitsKeepsInv
    <3>3. ASSUME NEW o \in Obj, PopReleases(t, o) PROVE Inv'
      BY <3>3, PopReleasesKeepsInv
    <3>4. CASE RelinquishReturns(t)
      BY <3>4, RelinquishReturnsKeepsInv
    <3>5. CASE GainReturns(t)
      BY <3>5, GainReturnsKeepsInv
    <3>6. CASE PopReturns(t)
      BY <3>6, PopReturnsKeepsInv
    <3>7. CASE RecycleSwaps(t)
      BY <3>7, RecycleSwapsKeepsInv
    <3>8. CASE AcquireSwaps(t)
      BY <3>8, AcquireSwapsKeepsInv
    <3> QED
      BY <1>2, <3>1, <3>2, <3>3, <3>4, <3>5, <3>6, <3>7, <3>8 DEF CallStep
  <2>2. TypeOK'
    BY <2>1 DEF Inv
  <2> QED
    BY <1>2, <2>1, <2>2, CallKeepsPopping
<1>3. CASE UNCHANGED vars
  <2>1. /\ UNCHANGED <<strategy, thread_id, retainCount, ivars, pools, available, call, raised>>
        /\ TypeOK /\ CallsFit
    BY <1>3 DEF vars, objects, Inv
  <2>2. TypeOK' /\ CallsFit' /\ SameCounts
    <3>1. TypeOK' /\ SameCounts
      BY <2>1 DEF TypeOK, SameCounts, InPools
    <3>2. ASSUME NEW u \in Thread PROVE CallFits(u)'
      <4>1. WalksStay({u})
        BY <2>1, BypassStays DEF WalksStay, Walked
      <4> QED
        BY <2>1, <3>1, <4>1, FitsStay
    <3> QED
      BY <3>1, <3>2 DEF CallsFit
  <2>3. CargosStay(Carrier)
    <3>1. \A p : WalksStay(p)
      BY <2>1, BypassStays DEF WalksStay, Walked
    <3>2. \A p \in Carrier : Cargo(p)' = Cargo(p) /\ Package(p)' = Package(p)
      BY <2>1, <2>2, <3>1, CargoStays
    <3> QED
      BY <2>1, <3>1, <3>2 DEF CargosStay, WalksStay
  <2>4. Inv'
    BY <2>1, <2>2, <2>3, ObjectsStay
  <2> QED
    BY <2>1, <2>4 DEF Popping
<1> QED
  BY <1>1, <1>2, <1>3 DEF Next, Ended

(* No object is allocated at first, and nothing under way.                 *)
LEMMA InitInv ==
  ASSUME Init
  PROVE  Inv /\ Popping
<1>1. \A t \in Thread : pools[t] = <<EmptyPool>> /\ call[t] = NoCall
  BY DEF Init
<1>2. \A t \in Thread : Len(pools[t]) = 1 /\ pools[t][1] = EmptyPool /\ pools[t] \in Seq([Obj -> Nat])
  <2>1. EmptyPool \in [Obj -> Nat]
    BY DEF EmptyPool
  <2>2. PICK p \in [Obj -> Nat] : p = EmptyPool
    BY <2>1
  <2>3. Len(<<p>>) = 1 /\ <<p>>[1] = p /\ <<p>> \in Seq([Obj -> Nat])
    OBVIOUS
  <2> QED
    BY <1>1, <2>2, <2>3
<1>3. TypeOK
  <2>1. 1 \in 1 .. MaxPools
    BY AffinityAssumption
  <2>2. pools \in [Thread -> Seq([Obj -> Nat])] /\ \A t \in Thread : Len(pools[t]) \in 1 .. MaxPools
    BY <1>2, <2>1 DEF Init
  <2>3. call \in [Thread -> [op : {"none", "pop", "relinquish", "gain", "acquire"},
                             obj : Obj \cup {None},
                             stack : Seq([obj : Obj \cup {None}, left : SUBSET Obj]),
                             uniquing : SUBSET Obj]]
    BY NoCallType DEF Init
  <2> QED
    BY <2>2, <2>3 DEF Init, TypeOK
<1>4. \A t \in Thread, x \in Obj : ~InPools(t, x)
  BY <1>2 DEF InPools, EmptyPool
<1>5. \A x \in Obj : Holders(x) = {} /\ retainCount[x] = 0 /\ ivars[x] = {} /\ thread_id[x] = HasNoThread
  BY DEF Init, Holders
<1>6. \A p \in Carrier : Cargo(p) = {} /\ Package(p) = {}
  <2>1. \A t \in Thread : ~Walking(t) /\ t # HasNoThread
    BY <1>1, AffinityAssumption DEF Walking, NoCall
  <2>2. Cargo(HasNoThread) = {} /\ Package(HasNoThread) = {}
    BY DEF Cargo, Package, Init
  <2> QED
    BY <2>1, <2>2, NoCargo DEF Carrier
<1>7. Balanced
  <2>1. ASSUME NEW x \in Obj PROVE BalancedAt(x)
    <3>1. References(x) = PoolTotal(pools, x) + Cardinality(Holders(x))
      BY <1>3, Counted
    <3>2. PoolTotal(pools, x) = 0
      <4>1. PICK f : f = [t \in Thread |-> InPool(pools[t], x)]
        OBVIOUS
      <4>2. \A t \in Thread : InPool(pools[t], x) = 0
        <5>1. ASSUME NEW t \in Thread PROVE InPool(pools[t], x) = 0
          <6>1. PICK k \in Nat : k = InPool(pools[t], x)
            BY <1>2, InPoolType DEF Pools
          <6>2. ~(k > 0)
            BY <1>3, <1>4, <6>1, Counted
          <6> QED
            BY <6>1, <6>2
        <5> QED
          BY <5>1
      <4>3. f \in [Thread -> Int] /\ \A t \in Thread : f[t] = 0
        BY <4>1, <4>2
      <4>4. SumFunction(f) = 0
        BY <4>3, AffinityAssumption, SumZero
      <4> QED
        BY <4>1, <4>4 DEF PoolTotal
    <3>3. Packed(x) = {} /\ Holders(x) = {} /\ Cardinality({}) = 0
      BY <1>5, <1>6, FS_EmptySet DEF Packed
    <3> QED
      BY <1>5, <3>1, <3>2, <3>3 DEF BalancedAt
  <2> QED
    BY <2>1 DEF Balanced
<1>8. Homes /\ Apart /\ Backed
  <2>1. \A t \in Thread : Cargo(t) = {}
    BY <1>6 DEF Carrier
  <2> QED
    BY <1>6, <2>1 DEF Homes, Apart, Backed
<1>9. Limbo /\ ThreadSafeStays /\ Held /\ Follows
  BY <1>5 DEF Limbo, LimboAt, ThreadSafeStays, Held, Follows
<1>10. CallsFit
  BY <1>1 DEF CallsFit, CallFits, Walking, NoCall
<1>11. NoForeignAccess /\ PoolsAreAffine
  BY <1>4 DEF NoForeignAccess, PoolsAreAffine, Init
<1>12. Popping
  BY <1>1 DEF Popping, NoCall
<1> QED
  BY <1>3, <1>7, <1>8, <1>9, <1>10, <1>11, <1>12 DEF Inv

(* The invariant holds in every state.                                     *)
THEOREM Invariance == Spec => [](Inv /\ Popping)
<1>1. Init => Inv /\ Popping
  BY InitInv
<1>2. Inv /\ Popping /\ [Next]_vars => (Inv /\ Popping)'
  BY StepKeepsInv
<1> QED
  BY <1>1, <1>2, PTL DEF Spec

-----------------------------------------------------------------------------
(* What the invariant says.                                                *)

(* Affinities, counts, pools, stacks of walks and what they visit stay in  *)
(* their ranges: an object belongs to a thread, to none or to all, no      *)
(* count gets negative and no thread is ever without a pool.               *)
THEOREM TypeCorrect == Spec => []TypeOK
<1>1. Inv /\ Popping => TypeOK
  BY DEF Inv
<1> QED
  BY <1>1, Invariance, PTL

(* -mulleRelinquishAccessWithTAOStrategy: and -mulleGainAccess... of any   *)
(* graph of objects never raise that the object is owned by another        *)
(* thread, and no relinquish leaves an object that leaves pools in one of  *)
(* the sender's pools, where a drain would finalize what the receiver has. *)
THEOREM AffinityIsExclusive == Spec => []AccessIsExclusive
<1>1. Inv /\ Popping => AccessIsExclusive
  BY DEF Inv, AccessIsExclusive
<1> QED
  BY <1>1, Invariance, PTL

(* The retain of each relinquish and the autorelease of each gain balance: *)
(* the references of pools, holders and the atomic variable never exceed   *)
(* the count, and when no hand-over is under way they are the count and no *)
(* living object is left without a thread.                                 *)
LEMMA BalanceFollows ==
  ASSUME Inv
  PROVE  ReferencesBalance
<1>1. TypeOK /\ Balanced /\ Limbo /\ CallsFit
  BY DEF Inv
<1>2. ReferencesCovered
  <2>1. ASSUME NEW o \in Obj PROVE retainCount[o] >= References(o) + IF available = o THEN 1 ELSE 0
    <3>1. PICK r \in Nat, k \in Nat : r = References(o) /\ k = retainCount[o] /\ k >= r
      BY <1>1, Alive DEF Balanced
    <3>2. CASE available = o
      <4>1. HasNoThread \in Carrier /\ o \in Package(HasNoThread)
        <5>1. o # None /\ HasNoThread \in Carrier
          BY AffinityAssumption DEF Carrier
        <5>2. o \in Reach(o)
          BY <1>1, WalkedType, ReachIsLeast
        <5> QED
          BY <3>2, <5>1, <5>2 DEF Package, Cargo
      <4>2. k >= r + 1
        BY <1>1, <3>1, <4>1, Alive DEF Balanced
      <4> QED
        BY <3>1, <3>2, <4>2
    <3>3. CASE available # o
      BY <3>1, <3>3
    <3> QED
      BY <3>2, <3>3
  <2> QED
    BY <2>1 DEF ReferencesCovered
<1>3. NothingLost
  <2>1. ASSUME Quiet, NEW o \in Obj
        PROVE  retainCount[o] = References(o) /\ (retainCount[o] > 0 => thread_id[o] # HasNoThread)
    <3>1. \A p \in Carrier : Package(p) = {}
      <4>1. Package(HasNoThread) = {}
        BY <2>1 DEF Quiet, Package, Cargo
      <4>2. \A t \in Thread : ~Walking(t)
        BY <2>1 DEF Quiet, Walking
      <4> QED
        BY <4>1, <4>2, NoCargo DEF Carrier
    <3>2. Packed(o) = {} /\ Cardinality({}) = 0
      BY <3>1, FS_EmptySet DEF Packed
    <3>3. PICK r \in Nat : r = References(o)
      BY <1>1, Counted
    <3>4. retainCount[o] = r
      BY <1>1, <3>2, <3>3 DEF Balanced, BalancedAt
    <3>5. retainCount[o] > 0 => thread_id[o] # HasNoThread
      BY <1>1, <3>1 DEF Limbo, LimboAt
    <3> QED
      BY <3>3, <3>4, <3>5
  <2> QED
    BY <2>1 DEF NothingLost
<1> QED
  BY <1>2, <1>3 DEF ReferencesBalance

(* No hand-over loses a reference or pays one twice, in any order of the   *)
(* steps of relinquish, swap, gain, drain and dealloc.                     *)
THEOREM HandOversBalance == Spec => []ReferencesBalance
<1>1. Inv /\ Popping => ReferencesBalance
  BY BalanceFollows
<1> QED
  BY <1>1, Invariance, PTL

(* A thread that has an object can message what the object holds, once no  *)
(* walk of its own is under way.                                           *)
LEMMA GraphIsFollowed ==
  ASSUME Inv
  PROVE  GraphFollows
<1>1. ASSUME NEW t \in Thread, NEW o \in Obj, NEW c \in Obj, thread_id[o] = t, c \in ivars[o],
             ~Bypass(c), call[t].op \notin {"relinquish", "gain"}
      PROVE  thread_id[c] \in {t, IsThreadSafe}
  <2>1. Cargo(t) = {}
    BY <1>1, NoCargo DEF Walking
  <2>2. FollowsAt(t, o, c)
    BY <1>1 DEF Inv, Follows
  <2> QED
    BY <1>1, <2>1, <2>2 DEF FollowsAt
<1> QED
  BY <1>1 DEF GraphFollows

(* The walks of relinquish and gain take along exactly what the receiver   *)
(* will want to message.                                                   *)
THEOREM HandOversTakeTheGraph == Spec => []GraphFollows
<1>1. Inv /\ Popping => GraphFollows
  BY GraphIsFollowed
<1> QED
  BY <1>1, Invariance, PTL
=============================================================================
