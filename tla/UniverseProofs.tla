---------------------------- MODULE UniverseProofs ----------------------------
(***************************************************************************)
(* Proofs about the objects of a universe, for any number of threads and   *)
(* objects: shared instances, root objects and the teardown.               *)
(***************************************************************************)
EXTENDS MCUniverse, SumLemmas

-----------------------------------------------------------------------------
(* The inductive invariant.                                                *)

Call ==
  [at : {"idle"}] \cup [at : {"again"}, class : SharedClass]
  \cup [at : {"cas"}, class : SharedClass, new : Obj]
  \cup [at : {"constantify"}, new : Obj]

Types ==
  /\ active \subseteq Thread /\ stage \in 0 .. 10
  /\ shared \in [SharedClass -> Obj \cup {nil}]
  /\ roots \subseteq Obj /\ constant \subseteq Obj /\ leaked \subseteq Obj
  /\ rc \in [Obj -> Nat]
  /\ owned \in [Thread -> [Obj -> Nat]] /\ pool \in [Thread -> [Obj -> Nat]]
  /\ dying \in [Thread -> SUBSET Obj]
  /\ frame \in [Thread -> Call]

(* An instance that is about to be published is new to everyone else; a    *)
(* shared one belongs to one class and is constant, or is to become it.    *)
Sharing ==
  /\ \A t \in Thread : frame[t].at = "constantify" => \E c \in SharedClass : shared[c] = frame[t].new
  /\ \A t \in Thread : frame[t].at = "cas" =>
       /\ frame[t].new \notin leaked \cup constant
       /\ \A c \in SharedClass : shared[c] # frame[t].new
       /\ \A u \in Thread : u # t /\ frame[u].at = "cas" => frame[u].new # frame[t].new
  /\ \A c, d \in SharedClass : c # d /\ shared[c] # nil => shared[c] # shared[d]
  /\ \A c \in SharedClass : shared[c] # nil =>
       \/ shared[c] \in constant
       \/ \E t \in Thread : frame[t].at = "constantify" /\ frame[t].new = shared[c]

(* What is counted is counted for someone, and a constant never goes.      *)
Counts ==
  /\ \A o \in Obj : o \notin constant => rc[o] = References(o)
  /\ \A o \in constant : rc[o] > 0

(* A thread that has left has nothing, and what each stage leaves behind.  *)
Leavings ==
  /\ \A t \in Thread \ active :
       owned[t] = None /\ pool[t] = None /\ dying[t] = {} /\ frame[t] = Idle
  /\ stage > 0 =>
       /\ \A t \in Thread : owned[t] = None /\ frame[t] = Idle
       /\ \E t \in Thread : active = {t}
  /\ stage > 8 => roots = {}
  /\ stage = 10 => \A t \in Thread : pool[t] = None /\ dying[t] = {}

Inv == Types /\ Sharing /\ Counts /\ Leavings

-----------------------------------------------------------------------------
(* Counting the references to an object.                                   *)

(* What each thread has adds up to a number.                               *)
LEMMA TotalType ==
  ASSUME NEW f \in [Thread -> [Obj -> Nat]], NEW o \in Obj
  PROVE  Total(f, o) \in Nat /\ \A t \in Thread : f[t][o] \in Nat /\ f[t][o] <= Total(f, o)
<1>1. PICK g : g = [t \in Thread |-> f[t][o]]
  OBVIOUS
<1>2. g \in [Thread -> Nat] /\ \A t \in Thread : g[t] = f[t][o]
  BY <1>1
<1>3. IsFiniteSet(Thread)
  BY UniverseAssumption
<1>4. SumFunction(g) \in Nat /\ \A t \in Thread : g[t] <= SumFunction(g)
  BY <1>2, <1>3, SumNat
<1> QED
  BY <1>1, <1>2, <1>4 DEF Total

(* No thread but t has more or less of o.                                  *)
SameBut(f, h, o, t) == \A u \in Thread \ {t} : f[u][o] = h[u][o]
Differ(f, h, o, t)  == Total(h, o) = Total(f, o) + h[t][o] - f[t][o]

(* One thread gets or gives away a reference.                              *)
LEMMA TotalChange ==
  ASSUME NEW f \in [Thread -> [Obj -> Nat]], NEW h \in [Thread -> [Obj -> Nat]], NEW o \in Obj,
         NEW t \in Thread, SameBut(f, h, o, t)
  PROVE  Differ(f, h, o, t)
<1>1. PICK x, y : x = [u \in Thread |-> f[u][o]] /\ y = [u \in Thread |-> h[u][o]]
  OBVIOUS
<1>2. /\ x \in [Thread -> Int] /\ \A u \in Thread : x[u] = f[u][o]
      /\ y \in [Thread -> Int] /\ \A u \in Thread : y[u] = h[u][o]
  BY <1>1
<1>3. IsFiniteSet(Thread) /\ \A u \in Thread \ {t} : x[u] = y[u]
  BY <1>2, UniverseAssumption DEF SameBut
<1>4. SumFunction(y) = SumFunction(x) + y[t] - x[t]
  <2>1. x \in [Thread -> Int] /\ y \in [Thread -> Int]
    BY <1>2
  <2>2. IsFiniteSet(Thread) /\ \A u \in Thread \ {t} : x[u] = y[u]
    BY <1>3
  <2> QED
    BY <2>1, <2>2, SumChange, ZenonT(60)
<1> QED
  BY <1>1, <1>2, <1>4 DEF Total, Differ

(* Nobody does.                                                            *)
LEMMA TotalSame ==
  ASSUME NEW f, NEW h, NEW o, \A t \in Thread : f[t][o] = h[t][o]
  PROVE  Total(h, o) = Total(f, o)
<1>1. [t \in Thread |-> f[t][o]] = [t \in Thread |-> h[t][o]]
  OBVIOUS
<1> QED
  BY <1>1 DEF Total

(* Nobody has any.                                                         *)
LEMMA TotalNone ==
  ASSUME NEW f \in [Thread -> [Obj -> Nat]], NEW o \in Obj, \A t \in Thread : f[t][o] = 0
  PROVE  Total(f, o) = 0
<1>1. PICK g : g = [t \in Thread |-> f[t][o]]
  OBVIOUS
<1>2. g \in [Thread -> Int] /\ (\A t \in Thread : g[t] = 0) /\ IsFiniteSet(Thread)
  BY <1>1, UniverseAssumption
<1>3. SumFunction(g) = 0
  BY <1>2, SumZero
<1> QED
  BY <1>1, <1>3 DEF Total

(* The references that are not a thread's.                                 *)
Rooted(o) == IF o \in roots THEN 1 ELSE 0
InHand(o) == IF Carried(o) THEN 1 ELSE 0
Lost(o)   == IF o \in leaked THEN 1 ELSE 0

(* All that are counted.                                                   *)
LEMMA ReferenceParts ==
  ASSUME Types, NEW o \in Obj
  PROVE  /\ Total(owned, o) \in Nat /\ Total(pool, o) \in Nat
         /\ Rooted(o) \in {0, 1} /\ InHand(o) \in {0, 1} /\ Lost(o) \in {0, 1} /\ rc[o] \in Nat
         /\ References(o) = Total(owned, o) + Total(pool, o) + Rooted(o) + InHand(o) + Lost(o)
<1>1. Total(owned, o) \in Nat /\ Total(pool, o) \in Nat /\ rc[o] \in Nat
  BY TotalType DEF Types
<1> QED
  BY <1>1 DEF References, Rooted, InHand, Lost, One

(* What nobody refers to.                                                  *)
LEMMA NoReferences ==
  ASSUME Types, Counts, NEW o \in Obj, rc[o] = 0
  PROVE  /\ o \notin constant /\ o \notin roots /\ o \notin leaked /\ ~Carried(o)
         /\ Rooted(o) = 0 /\ InHand(o) = 0 /\ Lost(o) = 0
         /\ \A t \in Thread : owned[t][o] = 0 /\ pool[t][o] = 0
<1>1. o \notin constant /\ rc[o] = References(o)
  BY DEF Counts
<1>2. PICK a \in Nat, p \in Nat, s \in Nat, c \in Nat, l \in Nat :
        /\ a = Total(owned, o) /\ p = Total(pool, o) /\ s = Rooted(o) /\ c = InHand(o) /\ l = Lost(o)
        /\ 0 = a + p + s + c + l
  <2>1. /\ Total(owned, o) \in Nat /\ Total(pool, o) \in Nat /\ Rooted(o) \in Nat
        /\ InHand(o) \in Nat /\ Lost(o) \in Nat
        /\ 0 = Total(owned, o) + Total(pool, o) + Rooted(o) + InHand(o) + Lost(o)
    BY <1>1, ReferenceParts
  <2> QED
    BY <2>1
<1>3. a = 0 /\ p = 0 /\ s = 0 /\ c = 0 /\ l = 0
  <2>1. 0 = a + p + s + c + l
    BY <1>2
  <2> QED
    BY <2>1
<1>4. o \notin roots /\ o \notin leaked /\ ~Carried(o)
  BY <1>2, <1>3 DEF Rooted, InHand, Lost
<1>5. ASSUME NEW t \in Thread PROVE owned[t][o] = 0 /\ pool[t][o] = 0
  <2>1. /\ owned[t][o] \in Nat /\ owned[t][o] <= a
        /\ pool[t][o] \in Nat /\ pool[t][o] <= p
    BY <1>2, TotalType DEF Types
  <2>2. \A x \in Nat : x <= 0 => x = 0
    OBVIOUS
  <2> QED
    BY <1>3, <2>1, <2>2
<1> QED
  BY <1>1, <1>2, <1>3, <1>4, <1>5

(* What a step does to the references to an object.                        *)
Reckoned(o, r, a, p, s, c, l) ==
  /\ rc'[o] = rc[o] + r
  /\ Total(owned', o) = Total(owned, o) + a /\ Total(pool', o) = Total(pool, o) + p
  /\ Rooted(o)' = Rooted(o) + s /\ InHand(o)' = InHand(o) + c /\ Lost(o)' = Lost(o) + l

(* It keeps the count, if each reference goes from one to another.         *)
LEMMA CountKept ==
  ASSUME Types, Counts, NEW o \in Obj, o \notin constant,
         NEW r \in Int, NEW a \in Int, NEW p \in Int, NEW s \in Int, NEW c \in Int, NEW l \in Int,
         Reckoned(o, r, a, p, s, c, l), r = a + p + s + c + l
  PROVE  rc'[o] = References(o)'
<1>1. /\ rc[o] \in Int /\ Total(owned, o) \in Int /\ Total(pool, o) \in Int
      /\ Rooted(o) \in Int /\ InHand(o) \in Int /\ Lost(o) \in Int
      /\ rc[o] = Total(owned, o) + Total(pool, o) + Rooted(o) + InHand(o) + Lost(o)
  BY ReferenceParts DEF Counts
<1>2. PICK R \in Int, A \in Int, P \in Int, S \in Int, C \in Int, L \in Int :
        /\ R = rc[o] /\ A = Total(owned, o) /\ P = Total(pool, o)
        /\ S = Rooted(o) /\ C = InHand(o) /\ L = Lost(o) /\ R = A + P + S + C + L
  BY <1>1
<1>3. /\ rc'[o] = R + r /\ Total(owned', o) = A + a /\ Total(pool', o) = P + p
      /\ Rooted(o)' = S + s /\ InHand(o)' = C + c /\ Lost(o)' = L + l
  BY <1>2 DEF Reckoned
<1>4. References(o)' = (A + a) + (P + p) + (S + s) + (C + c) + (L + l)
  <2>1. References(o)' = Total(owned', o) + Total(pool', o) + Rooted(o)' + InHand(o)' + Lost(o)'
    BY DEF References, Rooted, InHand, Lost, One
  <2> QED
    BY <1>3, <2>1
<1>5. R + r = (A + a) + (P + p) + (S + s) + (C + c) + (L + l)
  BY <1>2
<1> QED
  BY <1>3, <1>4, <1>5

(* The names of the last stages.                                           *)
LEMMA StageNames ==
  \A i \in 1 .. 10 : /\ Stages[i] = "roots" <=> i = 8
                     /\ Stages[i] = "takedown" <=> i = 9
                     /\ Stages[i] = "gone" <=> i = 10
<1> SUFFICES ASSUME NEW i \in 1 .. 10
             PROVE  /\ Stages[i] = "roots" <=> i = 8
                    /\ Stages[i] = "takedown" <=> i = 9
                    /\ Stages[i] = "gone" <=> i = 10
  OBVIOUS
<1>1. i \in {1, 2, 3, 4, 5, 6, 7, 8, 9, 10}
  OBVIOUS
<1>2. /\ Stages[1] = "pools" /\ Stages[2] = "main thread" /\ Stages[3] = "pools"
      /\ Stages[4] = "callback" /\ Stages[5] = "pools" /\ Stages[6] = "singletons"
      /\ Stages[7] = "pools" /\ Stages[8] = "roots" /\ Stages[9] = "takedown"
      /\ Stages[10] = "gone"
  BY DEF Stages
<1> QED
  BY <1>1, <1>2

-----------------------------------------------------------------------------
(* What steps have in common.                                              *)

(* What thread t and the others do to the references to an object.         *)
Trades(o, t, r, a, p, s, c, l) ==
  /\ rc'[o] = rc[o] + r
  /\ owned'[t][o] = owned[t][o] + a /\ pool'[t][o] = pool[t][o] + p
  /\ \A u \in Thread \ {t} : owned'[u][o] = owned[u][o] /\ pool'[u][o] = pool[u][o]
  /\ Rooted(o)' = Rooted(o) + s /\ InHand(o)' = InHand(o) + c /\ Lost(o)' = Lost(o) + l

(* The count is right again, if t trades one reference for another.        *)
LEMMA Traded ==
  ASSUME Types, Counts, owned' \in [Thread -> [Obj -> Nat]], pool' \in [Thread -> [Obj -> Nat]],
         NEW o \in Obj, o \notin constant, NEW t \in Thread,
         NEW r \in Int, NEW a \in Int, NEW p \in Int, NEW s \in Int, NEW c \in Int, NEW l \in Int,
         Trades(o, t, r, a, p, s, c, l), r = a + p + s + c + l
  PROVE  rc'[o] = References(o)'
<1>1. Total(owned', o) = Total(owned, o) + a
  <2>1. owned \in [Thread -> [Obj -> Nat]] /\ \A u \in Thread \ {t} : owned[u][o] = owned'[u][o]
    BY DEF Types, Trades
  <2>2. Total(owned', o) = Total(owned, o) + owned'[t][o] - owned[t][o]
    <3>1. PICK f, h : f = owned /\ h = owned'
      OBVIOUS
    <3>2. /\ f \in [Thread -> [Obj -> Nat]] /\ h \in [Thread -> [Obj -> Nat]]
          /\ SameBut(f, h, o, t)
      BY <2>1, <3>1 DEF SameBut
    <3>3. Differ(f, h, o, t)
      BY <3>2, TotalChange
    <3> QED
      BY <3>1, <3>3 DEF Differ
  <2>3. PICK x \in Int, y \in Int : x = Total(owned, o) /\ y = owned[t][o]
    BY <2>1, TotalType
  <2>4. Total(owned', o) = x + (y + a) - y
    BY <2>2, <2>3 DEF Trades
  <2> QED
    BY <2>3, <2>4
<1>2. Total(pool', o) = Total(pool, o) + p
  <2>1. pool \in [Thread -> [Obj -> Nat]] /\ \A u \in Thread \ {t} : pool[u][o] = pool'[u][o]
    BY DEF Types, Trades
  <2>2. Total(pool', o) = Total(pool, o) + pool'[t][o] - pool[t][o]
    <3>1. PICK f, h : f = pool /\ h = pool'
      OBVIOUS
    <3>2. /\ f \in [Thread -> [Obj -> Nat]] /\ h \in [Thread -> [Obj -> Nat]]
          /\ SameBut(f, h, o, t)
      BY <2>1, <3>1 DEF SameBut
    <3>3. Differ(f, h, o, t)
      BY <3>2, TotalChange
    <3> QED
      BY <3>1, <3>3 DEF Differ
  <2>3. PICK x \in Int, y \in Int : x = Total(pool, o) /\ y = pool[t][o]
    BY <2>1, TotalType
  <2>4. Total(pool', o) = x + (y + p) - y
    BY <2>2, <2>3 DEF Trades
  <2> QED
    BY <2>3, <2>4
<1>3. Reckoned(o, r, a, p, s, c, l)
  BY <1>1, <1>2 DEF Reckoned, Trades
<1> QED
  BY <1>3, CountKept

(* An object is left alone.                                                *)
LEMMA LeftAlone ==
  ASSUME Types, Counts, owned' \in [Thread -> [Obj -> Nat]], pool' \in [Thread -> [Obj -> Nat]],
         NEW o \in Obj, o \notin constant, NEW t \in Thread, rc'[o] = rc[o],
         \A u \in Thread : owned'[u][o] = owned[u][o] /\ pool'[u][o] = pool[u][o],
         Rooted(o)' = Rooted(o), InHand(o)' = InHand(o), Lost(o)' = Lost(o)
  PROVE  rc'[o] = References(o)'
<1>1. /\ rc[o] \in Int /\ owned[t][o] \in Int /\ pool[t][o] \in Int
      /\ Rooted(o) \in Int /\ InHand(o) \in Int /\ Lost(o) \in Int
  BY DEF Types, Rooted, InHand, Lost
<1>2. PICK z \in Int : z = 0
  OBVIOUS
<1>3. Trades(o, t, z, z, z, z, z, z) /\ z = z + z + z + z + z
  BY <1>1, <1>2 DEF Trades
<1> QED
  BY <1>3, Traded

(* What the slots say of an object.                                        *)
LEMMA HandsStay ==
  ASSUME UNCHANGED <<shared, leaked, frame>>
  PROVE  \A o : InHand(o)' = InHand(o) /\ Lost(o)' = Lost(o)
BY DEF InHand, Carried, Lost

(* What the roots say of an object.                                        *)
LEMMA RootsStay ==
  ASSUME UNCHANGED roots
  PROVE  \A o : Rooted(o)' = Rooted(o)
BY DEF Rooted

(* What is shared stays shared, if no slot changes.                        *)
LEMMA SharingKept ==
  ASSUME Sharing, UNCHANGED <<shared, constant, leaked, frame>>
  PROVE  Sharing'
BY DEF Sharing

(* Counts that are right for what is counted now.                          *)
LEMMA CountsKept ==
  ASSUME Types, Counts, UNCHANGED constant,
         \A o \in Obj : o \notin constant => rc'[o] = References(o)',
         \A o \in constant : rc'[o] = rc[o]
  PROVE  Counts'
BY DEF Counts

(* A thread at work changes only what is its own.                          *)
LEMMA LeavingsKept ==
  ASSUME Types, Leavings, NEW t \in active, stage = 0, UNCHANGED <<active, stage>>,
         \A u \in Thread \ {t} : owned'[u] = owned[u] /\ pool'[u] = pool[u]
                                 /\ dying'[u] = dying[u] /\ frame'[u] = frame[u]
  PROVE  Leavings'
BY DEF Types, Leavings

(* References are given back that were there.                              *)
LEMMA ReleaseDoes ==
  ASSUME Types, NEW t \in Thread, NEW n \in [Obj -> Nat],
         \A o \in Obj : o \notin constant => n[o] <= rc[o],
         _mulle_object_release(t, n)
  PROVE  /\ rc' \in [Obj -> Nat] /\ dying' \in [Thread -> SUBSET Obj]
         /\ \A u \in Thread \ {t} : dying'[u] = dying[u]
         /\ \A o \in constant : rc'[o] = rc[o]
         /\ \A o \in Obj : o \notin constant => rc'[o] = rc[o] - n[o]
<1>1. \A o \in Obj : rc'[o] = IF o \in constant THEN rc[o] ELSE rc[o] - n[o]
  BY DEF _mulle_object_release, Counted
<1>2. ASSUME NEW o \in Obj PROVE rc'[o] \in Nat
  <2>1. CASE o \in constant
    BY <1>1, <2>1 DEF Types
  <2>2. CASE o \notin constant
    <3>1. PICK x \in Nat, y \in Nat : x = rc[o] /\ y = n[o] /\ y <= x
      BY <2>2 DEF Types
    <3>2. x - y \in Nat
      BY <3>1
    <3> QED
      BY <1>1, <2>2, <3>1, <3>2
  <2> QED
    BY <2>1, <2>2
<1>3. rc' \in [Obj -> Nat]
  BY <1>2 DEF _mulle_object_release
<1>4. dying' \in [Thread -> SUBSET Obj] /\ \A u \in Thread \ {t} : dying'[u] = dying[u]
  BY DEF _mulle_object_release, Types
<1> QED
  BY <1>1, <1>3, <1>4 DEF Types

(* A -finalize or -dealloc that makes an object, or does not.              *)
LEMMA MayAutoreleaseKeeps ==
  ASSUME Types, Counts, NEW t \in Thread, MayAutorelease(t),
         UNCHANGED <<owned, roots, shared, constant, leaked, frame>>
  PROVE  /\ rc' \in [Obj -> Nat] /\ pool' \in [Thread -> [Obj -> Nat]] /\ Counts'
         /\ \A u \in Thread \ {t} : pool'[u] = pool[u]
<1>1. CASE UNCHANGED <<rc, pool>>
  <2>1. Counts'
    BY <1>1 DEF Counts, References, Carried
  <2> QED
    BY <1>1, <2>1 DEF Types
<1>2. ASSUME NEW o \in Obj, Allocatable(o), rc' = [rc EXCEPT ![o] = 1],
             pool' = [pool EXCEPT ![t][o] = 1]
      PROVE  /\ rc' \in [Obj -> Nat] /\ pool' \in [Thread -> [Obj -> Nat]] /\ Counts'
             /\ \A u \in Thread \ {t} : pool'[u] = pool[u]
  <2>1. /\ rc' \in [Obj -> Nat] /\ pool' \in [Thread -> [Obj -> Nat]]
        /\ \A u \in Thread \ {t} : pool'[u] = pool[u]
    BY <1>2 DEF Types
  <2>2. rc[o] = 0 /\ o \notin constant /\ pool[t][o] = 0
    BY <1>2, NoReferences DEF Allocatable
  <2>3. ASSUME NEW q \in Obj, q \notin constant PROVE rc'[q] = References(q)'
    <3>1. /\ Rooted(q)' = Rooted(q) /\ InHand(q)' = InHand(q) /\ Lost(q)' = Lost(q)
          /\ owned' \in [Thread -> [Obj -> Nat]]
      BY HandsStay, RootsStay DEF Types
    <3>2. /\ Rooted(q) \in Int /\ InHand(q) \in Int /\ Lost(q) \in Int /\ owned[t][q] \in Int
      BY DEF Types, Rooted, InHand, Lost
    <3>3. CASE q = o
      <4>1. rc'[q] = rc[q] + 1 /\ pool'[t][q] = pool[t][q] + 1 /\ owned'[t][q] = owned[t][q] + 0
        BY <1>2, <2>2, <3>2, <3>3 DEF Types
      <4>2. Trades(q, t, 1, 0, 1, 0, 0, 0)
        BY <2>1, <3>1, <3>2, <4>1 DEF Trades
      <4> QED
        BY <2>1, <2>3, <3>1, <4>2, Traded
    <3>4. CASE q # o
      <4>1. rc'[q] = rc[q] /\ \A u \in Thread : pool'[u][q] = pool[u][q]
        BY <1>2, <3>4 DEF Types
      <4> QED
        BY <2>1, <2>3, <3>1, <4>1, LeftAlone
    <3> QED
      BY <3>3, <3>4
  <2>4. \A q \in constant : rc'[q] = rc[q]
    BY <1>2, <2>2 DEF Types
  <2>5. Counts'
    BY <2>3, <2>4, CountsKept
  <2> QED
    BY <2>1, <2>5
<1> QED
  BY <1>1, <1>2 DEF MayAutorelease

(* What someone holds is counted.                                          *)
LEMMA HeldIsCounted ==
  ASSUME Types, Counts, NEW o \in Obj, o \notin constant
  PROVE  /\ \A t \in Thread : owned[t][o] <= rc[o] /\ pool[t][o] <= rc[o]
         /\ Rooted(o) <= rc[o] /\ InHand(o) <= rc[o]
<1>1. PICK a \in Nat, p \in Nat, s \in Nat, c \in Nat, l \in Nat :
        /\ a = Total(owned, o) /\ p = Total(pool, o) /\ s = Rooted(o) /\ c = InHand(o) /\ l = Lost(o)
        /\ rc[o] = a + p + s + c + l
  <2>1. /\ Total(owned, o) \in Nat /\ Total(pool, o) \in Nat /\ Rooted(o) \in Nat
        /\ InHand(o) \in Nat /\ Lost(o) \in Nat
        /\ rc[o] = Total(owned, o) + Total(pool, o) + Rooted(o) + InHand(o) + Lost(o)
    BY ReferenceParts DEF Counts
  <2> QED
    BY <2>1
<1>2. a <= rc[o] /\ p <= rc[o] /\ s <= rc[o] /\ c <= rc[o]
  <2>1. PICK r \in Int : r = rc[o]
    BY DEF Types
  <2>2. r = a + p + s + c + l
    BY <1>1, <2>1
  <2>3. a <= r /\ p <= r /\ s <= r /\ c <= r
    BY <2>2
  <2> QED
    BY <2>1, <2>3
<1>3. ASSUME NEW t \in Thread PROVE owned[t][o] <= rc[o] /\ pool[t][o] <= rc[o]
  <2>1. /\ owned[t][o] \in Nat /\ owned[t][o] <= Total(owned, o)
        /\ pool[t][o] \in Nat /\ pool[t][o] <= Total(pool, o)
    BY TotalType DEF Types
  <2>2. PICK x \in Nat, y \in Nat, r \in Nat : x = owned[t][o] /\ y = pool[t][o] /\ r = rc[o]
    BY <2>1 DEF Types
  <2>3. x <= a /\ y <= p /\ a <= r /\ p <= r
    BY <1>1, <1>2, <2>1, <2>2
  <2>4. x <= r /\ y <= r
    BY <2>3
  <2> QED
    BY <2>2, <2>4
<1> QED
  BY <1>1, <1>2, <1>3

(* The types of what a step of t changes, and that it changes only its own. *)
Proper(t) ==
  /\ rc' \in [Obj -> Nat] /\ roots' \subseteq Obj
  /\ owned' \in [Thread -> [Obj -> Nat]] /\ pool' \in [Thread -> [Obj -> Nat]]
  /\ dying' \in [Thread -> SUBSET Obj]
  /\ \A u \in Thread \ {t} : owned'[u] = owned[u] /\ pool'[u] = pool[u] /\ dying'[u] = dying[u]
  /\ \A o \in constant : rc'[o] = rc[o]

Balanced == \A o \in Obj : o \notin constant => rc'[o] = References(o)'

(* A step of client code outside of any call.                              *)
LEMMA ClientKeeps ==
  ASSUME Inv, NEW t \in Thread, Client(t), Proper(t), Balanced,
         UNCHANGED <<active, stage, slots>>
  PROVE  Inv'
<1>1. t \in active /\ stage = 0
  BY DEF Client
<1>2. UNCHANGED <<shared, constant, leaked, frame>>
  BY DEF slots
<1>3. Types'
  BY <1>2 DEF Inv, Types, Proper
<1>4. Sharing'
  BY <1>2, SharingKept DEF Inv
<1>5. Counts'
  BY <1>2, CountsKept DEF Inv, Proper, Balanced
<1>6. Leavings'
  BY <1>1, <1>2, LeavingsKept DEF Inv, Proper
<1> QED
  BY <1>3, <1>4, <1>5, <1>6 DEF Inv

(* No other object than o is touched.                                      *)
Only(o) ==
  \A q \in Obj \ {o} :
    /\ rc'[q] = rc[q] /\ Rooted(q)' = Rooted(q)
    /\ \A u \in Thread : owned'[u][q] = owned[u][q] /\ pool'[u][q] = pool[u][q]

(* One reference to one object changes hands.                              *)
LEMMA OneTrade ==
  ASSUME Inv, NEW t \in Thread, Proper(t), NEW o \in Obj, Only(o),
         NEW r \in Int, NEW a \in Int, NEW p \in Int, NEW s \in Int,
         rc'[o] = rc[o] + r, Rooted(o)' = Rooted(o) + s,
         owned'[t][o] = owned[t][o] + a, pool'[t][o] = pool[t][o] + p,
         UNCHANGED slots, o \notin constant => r = a + p + s
  PROVE  Balanced
<1> SUFFICES ASSUME NEW q \in Obj, q \notin constant PROVE rc'[q] = References(q)'
  BY DEF Balanced
<1>1. /\ InHand(q)' = InHand(q) /\ Lost(q)' = Lost(q) /\ InHand(q) \in Int /\ Lost(q) \in Int
  BY HandsStay DEF slots, InHand, Lost
<1>2. Types /\ Counts /\ owned' \in [Thread -> [Obj -> Nat]] /\ pool' \in [Thread -> [Obj -> Nat]]
  BY DEF Inv, Proper
<1>3. CASE q = o
  <2>1. PICK z \in Int : z = 0
    OBVIOUS
  <2>2. InHand(q)' = InHand(q) + z /\ Lost(q)' = Lost(q) + z
    BY <1>1, <2>1
  <2>3. Trades(q, t, r, a, p, s, z, z)
    BY <1>3, <2>2 DEF Trades, Proper
  <2>4. r = a + p + s + z + z
    BY <1>3, <2>1
  <2> QED
    BY <1>2, <2>3, <2>4, Traded
<1>4. CASE q # o
  <2>1. /\ rc'[q] = rc[q] /\ Rooted(q)' = Rooted(q)
        /\ \A u \in Thread : owned'[u][q] = owned[u][q] /\ pool'[u][q] = pool[u][q]
    BY <1>4 DEF Only
  <2> QED
    BY <1>1, <1>2, <2>1, LeftAlone
<1> QED
  BY <1>3, <1>4

-----------------------------------------------------------------------------
(* Every action keeps the invariant.                                       *)

(* A new object.                                                           *)
LEMMA AllocKeeps ==
  ASSUME Inv, NEW t \in Thread, Alloc(t)
  PROVE  Inv'
<1>1. PICK o \in Obj : Allocatable(o) /\ rc' = [rc EXCEPT ![o] = 1] /\ owned' = [owned EXCEPT ![t][o] = 1]
  BY DEF Alloc
<1>2. Types /\ Client(t) /\ UNCHANGED <<active, stage, roots, pool, dying, slots>>
  BY DEF Inv, Alloc
<1>3. rc[o] = 0 /\ o \notin constant /\ owned[t][o] = 0
  BY <1>1, NoReferences DEF Allocatable, Inv
<1>4. Proper(t) /\ Only(o)
  <2>1. Only(o)
    BY <1>1, <1>2, RootsStay DEF Types, Only
  <2>2. Proper(t)
    BY <1>1, <1>2, <1>3 DEF Types, Proper
  <2> QED
    BY <2>1, <2>2
<1>5. PICK one \in Int, z \in Int : one = 1 /\ z = 0
  OBVIOUS
<1>6. /\ rc'[o] = rc[o] + one /\ owned'[t][o] = owned[t][o] + one
      /\ pool'[t][o] = pool[t][o] + z /\ Rooted(o)' = Rooted(o) + z /\ one = one + z + z
  <2>1. Rooted(o)' = Rooted(o) /\ Rooted(o) \in Int /\ pool[t][o] \in Int
    BY <1>2, RootsStay DEF Rooted, Types
  <2> QED
    BY <1>1, <1>2, <1>3, <1>5, <2>1 DEF Types
<1>7. Balanced
  BY <1>2, <1>4, <1>6, OneTrade
<1> QED
  BY <1>2, <1>4, <1>7, ClientKeeps

(* A reference to a shared instance.                                       *)
LEMMA RetainKeeps ==
  ASSUME Inv, NEW t \in Thread, NEW o \in Obj, Retain(t, o)
  PROVE  Inv'
<1>1. /\ rc' = IF o \notin constant THEN [rc EXCEPT ![o] = @ + 1] ELSE rc
      /\ owned' = [owned EXCEPT ![t][o] = 1] /\ owned[t][o] = 0
  BY DEF Retain, Counted
<1>2. Types /\ Client(t) /\ UNCHANGED <<active, stage, roots, pool, dying, slots>>
  BY DEF Inv, Retain
<1>3. Proper(t) /\ Only(o)
  <2>1. Only(o)
    BY <1>1, <1>2, RootsStay DEF Types, Only
  <2>2. rc' \in [Obj -> Nat] /\ \A q \in constant : rc'[q] = rc[q]
    BY <1>1, <1>2 DEF Types
  <2>3. Proper(t)
    BY <1>1, <1>2, <2>2 DEF Types, Proper
  <2> QED
    BY <2>1, <2>3
<1>4. PICK one \in Int, z \in Int : one = 1 /\ z = 0
  OBVIOUS
<1>5. PICK r \in Int : r = IF o \notin constant THEN 1 ELSE 0
  OBVIOUS
<1>6. /\ rc'[o] = rc[o] + r /\ owned'[t][o] = owned[t][o] + one
      /\ pool'[t][o] = pool[t][o] + z /\ Rooted(o)' = Rooted(o) + z
  <2>1. Rooted(o)' = Rooted(o) /\ Rooted(o) \in Int /\ pool[t][o] \in Int
    BY <1>2, RootsStay DEF Rooted, Types
  <2> QED
    BY <1>1, <1>2, <1>4, <1>5, <2>1 DEF Types
<1>7. o \notin constant => r = one + z + z
  BY <1>4, <1>5
<1>8. Balanced
  BY <1>2, <1>3, <1>6, <1>7, OneTrade
<1> QED
  BY <1>2, <1>3, <1>8, ClientKeeps

(* Releasing one object.                                                   *)
LEMMA ReleaseOnce ==
  ASSUME Types, NEW t \in Thread, NEW o \in Obj, o \notin constant => rc[o] > 0,
         _mulle_object_release(t, Once(o))
  PROVE  /\ rc' \in [Obj -> Nat] /\ dying' \in [Thread -> SUBSET Obj]
         /\ \A u \in Thread \ {t} : dying'[u] = dying[u]
         /\ \A q \in constant : rc'[q] = rc[q]
         /\ \A q \in Obj \ {o} : rc'[q] = rc[q]
         /\ o \notin constant => rc'[o] = rc[o] - 1
<1>1. PICK n : n = Once(o)
  OBVIOUS
<1>2. n \in [Obj -> Nat] /\ n[o] = 1 /\ \A q \in Obj \ {o} : n[q] = 0
  BY <1>1 DEF Once, None
<1>3. \A q \in Obj : q \notin constant => n[q] <= rc[q]
  BY <1>2 DEF Types
<1>4. _mulle_object_release(t, n)
  BY <1>1
<1>5. /\ rc' \in [Obj -> Nat] /\ dying' \in [Thread -> SUBSET Obj]
      /\ \A u \in Thread \ {t} : dying'[u] = dying[u]
      /\ \A q \in constant : rc'[q] = rc[q]
      /\ \A q \in Obj : q \notin constant => rc'[q] = rc[q] - n[q]
  BY <1>2, <1>3, <1>4, ReleaseDoes
<1>6. \A q \in Obj \ {o} : rc'[q] = rc[q]
  <2> TAKE q \in Obj \ {o}
  <2>1. PICK x \in Int : x = rc[q]
    BY DEF Types
  <2>2. x - 0 = x
    OBVIOUS
  <2>3. q \notin constant => rc'[q] = x - 0
    BY <1>2, <1>5, <2>1
  <2> QED
    BY <1>5, <2>1, <2>2, <2>3
<1> QED
  BY <1>2, <1>5, <1>6

(* Client code releases what it owns.                                      *)
LEMMA ReleaseKeeps ==
  ASSUME Inv, NEW t \in Thread, NEW o \in Obj, Release(t, o)
  PROVE  Inv'
<1>1. /\ owned' = [owned EXCEPT ![t][o] = @ - 1] /\ owned[t][o] > 0
      /\ _mulle_object_release(t, Once(o))
  BY DEF Release
<1>2. Types /\ Client(t) /\ UNCHANGED <<active, stage, roots, pool, slots>>
  BY DEF Inv, Release
<1>3. o \notin constant => rc[o] > 0
  <2>1. owned[t][o] \in Nat /\ rc[o] \in Nat
    BY <1>2 DEF Types
  <2>2. o \notin constant => owned[t][o] <= rc[o]
    BY HeldIsCounted DEF Inv
  <2> QED
    BY <1>1, <2>1, <2>2
<1>4. /\ rc' \in [Obj -> Nat] /\ dying' \in [Thread -> SUBSET Obj]
      /\ \A u \in Thread \ {t} : dying'[u] = dying[u]
      /\ \A q \in constant : rc'[q] = rc[q]
      /\ \A q \in Obj \ {o} : rc'[q] = rc[q]
      /\ o \notin constant => rc'[o] = rc[o] - 1
  BY <1>1, <1>2, <1>3, ReleaseOnce
<1>5. /\ owned' \in [Thread -> [Obj -> Nat]] /\ owned'[t][o] = owned[t][o] - 1
      /\ \A u \in Thread \ {t} : owned'[u] = owned[u]
      /\ \A q \in Obj \ {o} : \A u \in Thread : owned'[u][q] = owned[u][q]
  <2>1. PICK x \in Nat : x = owned[t][o] - 1
    BY <1>1, <1>2 DEF Types
  <2>2. owned' = [owned EXCEPT ![t][o] = x]
    BY <1>1, <2>1
  <2> QED
    BY <1>2, <2>1, <2>2 DEF Types
<1>6. Proper(t)
  BY <1>2, <1>4, <1>5 DEF Types, Proper
<1>7. Only(o)
  BY <1>2, <1>4, <1>5, RootsStay DEF Types, Only
<1>8. PICK m \in Int, z \in Int, r \in Int : m = -1 /\ z = 0 /\ r = IF o \notin constant THEN -1 ELSE 0
  OBVIOUS
<1>9. /\ rc'[o] = rc[o] + r /\ owned'[t][o] = owned[t][o] + m
      /\ pool'[t][o] = pool[t][o] + z /\ Rooted(o)' = Rooted(o) + z
  <2>1. /\ Rooted(o)' = Rooted(o) /\ Rooted(o) \in Int /\ pool[t][o] \in Int /\ rc[o] \in Int
        /\ owned[t][o] \in Int /\ pool' = pool
    BY <1>2, RootsStay DEF Rooted, Types
  <2> QED
    BY <1>4, <1>5, <1>8, <2>1
<1>10. o \notin constant => r = m + z + z
  BY <1>8
<1>11. Balanced
  BY <1>2, <1>6, <1>7, <1>9, <1>10, OneTrade
<1> QED
  BY <1>2, <1>6, <1>11, ClientKeeps

(* A reference goes to the pool, unless it is one to a constant.           *)
LEMMA AutoreleaseKeeps ==
  ASSUME Inv, NEW t \in Thread, NEW o \in Obj, Autorelease(t, o)
  PROVE  Inv'
<1>1. /\ owned' = [owned EXCEPT ![t][o] = @ - 1] /\ owned[t][o] > 0
      /\ pool' = IF o \notin constant THEN [pool EXCEPT ![t][o] = @ + 1] ELSE pool
  BY DEF Autorelease, Counted
<1>2. Types /\ Client(t) /\ UNCHANGED <<active, stage, roots, rc, dying, slots>>
  BY DEF Inv, Autorelease
<1>3. /\ owned' \in [Thread -> [Obj -> Nat]] /\ owned'[t][o] = owned[t][o] - 1
      /\ \A u \in Thread \ {t} : owned'[u] = owned[u]
      /\ \A q \in Obj \ {o} : \A u \in Thread : owned'[u][q] = owned[u][q]
  <2>1. PICK x \in Nat : x = owned[t][o] - 1
    BY <1>1, <1>2 DEF Types
  <2>2. owned' = [owned EXCEPT ![t][o] = x]
    BY <1>1, <2>1
  <2> QED
    BY <1>2, <2>1, <2>2 DEF Types
<1>4. PICK p \in Int, m \in Int, z \in Int : m = -1 /\ z = 0 /\ p = IF o \notin constant THEN 1 ELSE 0
  OBVIOUS
<1>5. /\ pool' \in [Thread -> [Obj -> Nat]] /\ pool'[t][o] = pool[t][o] + p
      /\ \A u \in Thread \ {t} : pool'[u] = pool[u]
      /\ \A q \in Obj \ {o} : \A u \in Thread : pool'[u][q] = pool[u][q]
  <2>1. CASE o \notin constant
    <3>1. PICK x \in Nat : x = pool[t][o] + 1
      BY <1>2 DEF Types
    <3>2. pool' = [pool EXCEPT ![t][o] = x]
      BY <1>1, <2>1, <3>1
    <3> QED
      BY <1>2, <1>4, <2>1, <3>1, <3>2 DEF Types
  <2>2. CASE o \in constant
    BY <1>1, <1>2, <1>4, <2>2 DEF Types
  <2> QED
    BY <2>1, <2>2
<1>6. Proper(t)
  BY <1>2, <1>3, <1>5 DEF Types, Proper
<1>7. Only(o)
  BY <1>2, <1>3, <1>5, RootsStay DEF Types, Only
<1>8. /\ rc'[o] = rc[o] + z /\ owned'[t][o] = owned[t][o] + m
      /\ pool'[t][o] = pool[t][o] + p /\ Rooted(o)' = Rooted(o) + z
  <2>1. /\ Rooted(o)' = Rooted(o) /\ Rooted(o) \in Int /\ rc' = rc /\ rc[o] \in Int
        /\ owned[t][o] \in Int
    BY <1>2, RootsStay DEF Rooted, Types
  <2> QED
    BY <1>3, <1>4, <1>5, <2>1
<1>9. o \notin constant => z = m + p + z
  BY <1>4
<1>10. Balanced
  BY <1>2, <1>6, <1>7, <1>8, <1>9, OneTrade
<1> QED
  BY <1>2, <1>6, <1>10, ClientKeeps

(* A root object is one more reference.                                    *)
LEMMA BecomeRootKeeps ==
  ASSUME Inv, NEW t \in Thread, NEW o \in Obj, _becomeRootObject(t, o)
  PROVE  Inv'
<1>1. /\ o \notin roots
      /\ o \notin constant => rc' = [rc EXCEPT ![o] = @ + 1] /\ roots' = roots \cup {o}
      /\ o \in constant => UNCHANGED <<rc, roots>>
  BY DEF _becomeRootObject, Counted, _mulle_objc_universe_add_rootobject
<1>2. Types /\ Client(t) /\ UNCHANGED <<active, stage, owned, pool, dying, slots>>
  BY DEF Inv, _becomeRootObject
<1>3. PICK r \in Int, z \in Int : z = 0 /\ r = IF o \notin constant THEN 1 ELSE 0
  OBVIOUS
<1>4. /\ Proper(t) /\ rc'[o] = rc[o] + r
      /\ \A q \in Obj \ {o} : rc'[q] = rc[q] /\ (q \in roots' <=> q \in roots)
  <2>1. CASE o \notin constant
    <3>1. PICK x \in Nat : x = rc[o] + 1
      BY <1>2 DEF Types
    <3>2. rc' = [rc EXCEPT ![o] = x]
      BY <1>1, <2>1, <3>1
    <3> QED
      BY <1>1, <1>2, <1>3, <2>1, <3>1, <3>2 DEF Types, Proper
  <2>2. CASE o \in constant
    BY <1>1, <1>2, <1>3, <2>2 DEF Types, Proper
  <2> QED
    BY <2>1, <2>2
<1>5. Only(o)
  BY <1>2, <1>4 DEF Types, Only, Rooted
<1>6. Rooted(o)' = Rooted(o) + r
  BY <1>1, <1>3 DEF Rooted
<1>7. owned'[t][o] = owned[t][o] + z /\ pool'[t][o] = pool[t][o] + z
  BY <1>2, <1>3 DEF Types
<1>8. o \notin constant => r = z + z + r
  BY <1>3
<1>9. Balanced
  BY <1>2, <1>4, <1>5, <1>6, <1>7, <1>8, OneTrade
<1> QED
  BY <1>2, <1>4, <1>9, ClientKeeps

(* A root goes to the pool.                                                *)
LEMMA ResignRootKeeps ==
  ASSUME Inv, NEW t \in Thread, NEW o \in Obj, _resignAsRootObject(t, o)
  PROVE  Inv'
<1>1. /\ o \in roots /\ roots' = roots \ {o} /\ pool' = [pool EXCEPT ![t][o] = @ + 1]
      /\ o \notin constant
  BY DEF _resignAsRootObject, Counted, _mulle_objc_universe_remove_rootobject
<1>2. Types /\ Client(t) /\ UNCHANGED <<active, stage, rc, owned, dying, slots>>
  BY DEF Inv, _resignAsRootObject
<1>3. /\ pool' \in [Thread -> [Obj -> Nat]] /\ pool'[t][o] = pool[t][o] + 1
      /\ \A u \in Thread \ {t} : pool'[u] = pool[u]
      /\ \A q \in Obj \ {o} : \A u \in Thread : pool'[u][q] = pool[u][q]
  <2>1. PICK x \in Nat : x = pool[t][o] + 1
    BY <1>2 DEF Types
  <2>2. pool' = [pool EXCEPT ![t][o] = x]
    BY <1>1, <2>1
  <2> QED
    BY <1>2, <2>1, <2>2 DEF Types
<1>4. Proper(t) /\ Only(o)
  <2>1. Proper(t)
    BY <1>1, <1>2, <1>3 DEF Types, Proper
  <2>2. Only(o)
    BY <1>1, <1>2, <1>3 DEF Types, Only, Rooted
  <2> QED
    BY <2>1, <2>2
<1>5. PICK m \in Int, z \in Int, one \in Int : m = -1 /\ z = 0 /\ one = 1
  OBVIOUS
<1>6. Rooted(o)' = Rooted(o) + m
  BY <1>1, <1>5 DEF Rooted
<1>7. rc'[o] = rc[o] + z /\ owned'[t][o] = owned[t][o] + z /\ pool'[t][o] = pool[t][o] + one
  BY <1>2, <1>3, <1>5 DEF Types
<1>8. z = z + one + m
  BY <1>5
<1>9. Balanced
  BY <1>2, <1>4, <1>6, <1>7, <1>8, OneTrade
<1> QED
  BY <1>2, <1>4, <1>9, ClientKeeps

(* The releases that wait in the pools of t.                               *)
LEMMA PoolEmptied ==
  ASSUME Inv, NEW t \in Thread, pool' = [pool EXCEPT ![t] = None],
         _mulle_object_release(t, pool[t]), UNCHANGED <<owned, roots, slots>>
  PROVE  Proper(t) /\ Balanced /\ pool'[t] = None
<1>1. Types /\ Counts
  BY DEF Inv
<1>2. PICK n \in [Obj -> Nat] : n = pool[t]
  BY <1>1 DEF Types
<1>3. \A q \in Obj : q \notin constant => n[q] <= rc[q]
  BY <1>1, <1>2, HeldIsCounted
<1>4. _mulle_object_release(t, n)
  BY <1>2
<1>5. /\ rc' \in [Obj -> Nat] /\ dying' \in [Thread -> SUBSET Obj]
      /\ \A u \in Thread \ {t} : dying'[u] = dying[u]
      /\ \A q \in constant : rc'[q] = rc[q]
      /\ \A q \in Obj : q \notin constant => rc'[q] = rc[q] - n[q]
  BY <1>1, <1>3, <1>4, ReleaseDoes
<1>6. None \in [Obj -> Nat]
  BY DEF None
<1>7. /\ pool' \in [Thread -> [Obj -> Nat]] /\ pool'[t] = None
      /\ \A u \in Thread \ {t} : pool'[u] = pool[u]
  BY <1>1, <1>6 DEF Types
<1>8. Proper(t)
  BY <1>1, <1>5, <1>7 DEF Types, Proper
<1>9. ASSUME NEW q \in Obj, q \notin constant PROVE rc'[q] = References(q)'
  <2>1. PICK m \in Int, z \in Int, x \in Int, y \in Int, w \in Int :
          m = 0 - n[q] /\ z = 0 /\ x = rc[q] /\ y = n[q] /\ w = owned[t][q]
    BY <1>1, <1>2 DEF Types
  <2>2. rc'[q] = rc[q] + m
    <3>1. rc'[q] = x - y
      BY <1>5, <1>9, <2>1
    <3>2. x - y = x + m
      BY <2>1
    <3> QED
      BY <2>1, <3>1, <3>2
  <2>3. pool'[t][q] = pool[t][q] + m
    <3>1. pool'[t][q] = 0
      BY <1>7 DEF None
    <3> QED
      BY <1>2, <2>1, <3>1
  <2>4. owned'[t][q] = owned[t][q] + z
    BY <2>1
  <2>5. /\ Rooted(q)' = Rooted(q) + z /\ InHand(q)' = InHand(q) + z /\ Lost(q)' = Lost(q) + z
    <3>1. Rooted(q)' = Rooted(q) /\ InHand(q)' = InHand(q) /\ Lost(q)' = Lost(q)
      BY HandsStay, RootsStay DEF slots
    <3> QED
      BY <2>1, <3>1 DEF Rooted, InHand, Lost
  <2>6. Trades(q, t, m, z, m, z, z, z)
    BY <1>7, <2>2, <2>3, <2>4, <2>5 DEF Trades
  <2>7. m = z + m + z + z + z
    BY <2>1
  <2>8. owned' \in [Thread -> [Obj -> Nat]]
    BY <1>1 DEF Types
  <2> QED
    BY <1>1, <1>7, <1>9, <2>6, <2>7, <2>8, Traded
<1> QED
  BY <1>7, <1>8, <1>9 DEF Balanced

(* Client code pops its pools.                                             *)
LEMMA PopPoolKeeps ==
  ASSUME Inv, NEW t \in Thread, PopPool(t)
  PROVE  Inv'
<1>1. /\ pool' = [pool EXCEPT ![t] = None] /\ _mulle_object_release(t, pool[t])
      /\ Client(t) /\ UNCHANGED <<active, stage, roots, owned, slots>>
  BY DEF PopPool
<1>2. Proper(t) /\ Balanced
  BY <1>1, PoolEmptied
<1> QED
  BY <1>1, <1>2, ClientKeeps

(* -finalize and -dealloc, of client code and during the teardown.         *)
LEMMA DeallocKeeps ==
  ASSUME Inv, NEW t \in Thread, Dealloc(t)
  PROVE  Inv'
<1>1. PICK o \in dying[t] : MayAutorelease(t) /\ dying' = [dying EXCEPT ![t] = @ \ {o}]
  BY DEF Dealloc
<1>2. /\ UNCHANGED <<active, stage, roots, owned>>
      /\ UNCHANGED <<shared, constant, leaked, frame>>
  BY DEF Dealloc, slots
<1>3. Types /\ Sharing /\ Counts /\ Leavings
  BY DEF Inv
<1>4. /\ rc' \in [Obj -> Nat] /\ pool' \in [Thread -> [Obj -> Nat]] /\ Counts'
      /\ \A u \in Thread \ {t} : pool'[u] = pool[u]
  BY <1>1, <1>2, <1>3, MayAutoreleaseKeeps
<1>5. dying' \in [Thread -> SUBSET Obj] /\ \A u \in Thread \ {t} : dying'[u] = dying[u]
  BY <1>1, <1>3 DEF Types
<1>6. Types'
  BY <1>2, <1>3, <1>4, <1>5 DEF Types
<1>7. Sharing'
  BY <1>2, <1>3, SharingKept
<1>8. t \in active /\ stage # 10
  BY <1>1, <1>3 DEF Leavings
<1>9. Leavings'
  BY <1>2, <1>3, <1>4, <1>5, <1>8 DEF Leavings
<1> QED
  BY <1>4, <1>6, <1>7, <1>9 DEF Inv

(* A step of the teardown.                                                 *)
LEMMA TeardownKeeps ==
  ASSUME Inv, NEW t \in active, stage \in 1 .. 9, stage' \in {stage, stage + 1},
         Proper(t), Counts', UNCHANGED <<active, owned>>,
         UNCHANGED <<shared, constant, leaked, frame>>,
         stage' > 8 => roots' = {}, stage' = 10 => pool'[t] = None /\ dying'[t] = {}
  PROVE  Inv'
<1>1. Types /\ Sharing /\ Leavings
  BY DEF Inv
<1>2. stage' \in 1 .. 10
  BY Z3
<1>3. Types'
  BY <1>1, <1>2 DEF Types, Proper
<1>4. Sharing'
  BY <1>1, SharingKept
<1>5. Leavings'
  <2>1. (\E u \in Thread : active = {u}) /\ \A u \in Thread : owned[u] = None /\ frame[u] = Idle
    BY <1>1 DEF Leavings
  <2>2. active = {t}
    BY <2>1
  <2>3. \A u \in Thread \ {t} :
          owned'[u] = None /\ pool'[u] = None /\ dying'[u] = {} /\ frame'[u] = Idle
    BY <1>1, <2>2 DEF Leavings, Proper
  <2>4. \A u \in Thread : owned'[u] = None /\ frame'[u] = Idle
    BY <2>1
  <2>5. stage' = 10 => \A u \in Thread : pool'[u] = None /\ dying'[u] = {}
    BY <2>3
  <2>6. \E u \in Thread : active' = {u}
    BY <2>1
  <2>7. \A u \in Thread \ active' :
          owned'[u] = None /\ pool'[u] = None /\ dying'[u] = {} /\ frame'[u] = Idle
    BY <2>2, <2>3
  <2> QED
    BY <2>4, <2>5, <2>6, <2>7 DEF Leavings
<1> QED
  BY <1>3, <1>4, <1>5 DEF Inv

(* Emptying the pools again and again, until nothing is left in them.      *)
LEMMA ResetKeeps ==
  ASSUME Inv, NEW t \in active, stage \in 1 .. 9, stage # 8, dying[t] = {},
         mulle_objc_thread_reset_poolconfiguration(t)
  PROVE  Inv'
<1>1. Types /\ Leavings /\ Counts /\ t \in Thread
  BY DEF Inv, Types
<1>2. UNCHANGED <<active, roots, owned, slots>> /\ UNCHANGED <<shared, constant, leaked, frame>>
  BY DEF mulle_objc_thread_reset_poolconfiguration, slots
<1>3. stage > 8 => roots' = {}
  BY <1>1, <1>2 DEF Leavings
<1>4. CASE pool[t] = None
  <2>1. UNCHANGED <<rc, pool, dying>> /\ stage' = stage + 1
    BY <1>4 DEF mulle_objc_thread_reset_poolconfiguration, Advance
  <2>2. Counts'
    BY <1>1, <1>2, <2>1 DEF Counts, References, Carried
  <2>3. Proper(t)
    BY <1>1, <1>2, <2>1 DEF Types, Proper
  <2>4. pool'[t] = None /\ dying'[t] = {}
    BY <1>4, <2>1
  <2>5. stage' > 8 => stage > 8
    BY <2>1
  <2> QED
    BY <1>2, <1>3, <2>1, <2>2, <2>3, <2>4, <2>5, TeardownKeeps
<1>5. CASE pool[t] # None
  <2>1. /\ pool' = [pool EXCEPT ![t] = None] /\ _mulle_object_release(t, pool[t])
        /\ stage' = stage
    BY <1>5 DEF mulle_objc_thread_reset_poolconfiguration
  <2>2. Proper(t) /\ Balanced
    BY <1>1, <1>2, <2>1, PoolEmptied
  <2>3. Counts'
    BY <1>1, <1>2, <2>2, CountsKept DEF Proper, Balanced
  <2> QED
    BY <1>2, <1>3, <2>1, <2>2, <2>3, TeardownKeeps
<1> QED
  BY <1>4, <1>5

(* Where a driver of the teardown is.                                      *)
LEMMA DriverStage ==
  ASSUME Inv, NEW t \in Thread, NEW s, Driver(t, s)
  PROVE  /\ t \in active /\ stage \in 1 .. 10 /\ dying[t] = {}
         /\ s # "gone" => stage # 10
         /\ s # "roots" => stage # 8
         /\ s # "takedown" => stage # 9
         /\ s = "roots" => stage = 8
         /\ s = "takedown" => stage = 9
<1>1. t \in active /\ stage > 0 /\ Stages[stage] = s /\ dying[t] = {} /\ stage \in 0 .. 10
  BY DEF Driver, Inv, Types
<1>2. stage \in 1 .. 10
  BY <1>1
<1> QED
  BY <1>1, <1>2, StageNames

(* The pools are emptied between two stages.                               *)
LEMMA ResetPoolsKeeps ==
  ASSUME Inv, NEW t \in Thread, ResetPools(t)
  PROVE  Inv'
<1>1. Driver(t, "pools") /\ mulle_objc_thread_reset_poolconfiguration(t)
  BY DEF ResetPools
<1>2. t \in active /\ stage \in 1 .. 10 /\ stage # 8 /\ stage # 10 /\ dying[t] = {}
  BY <1>1, DriverStage
<1>3. stage \in 1 .. 9
  BY <1>2
<1> QED
  BY <1>1, <1>2, <1>3, ResetKeeps

(* The pools are emptied for the last time.                                *)
LEMMA ResignMainKeeps ==
  ASSUME Inv, NEW t \in Thread, _MulleThreadResignAsMainThreadObjectInUniverse(t)
  PROVE  Inv'
<1>1. Driver(t, "takedown") /\ mulle_objc_thread_reset_poolconfiguration(t)
  BY DEF _MulleThreadResignAsMainThreadObjectInUniverse
<1>2. t \in active /\ stage = 9 /\ dying[t] = {}
  BY <1>1, DriverStage
<1> QED
  BY <1>1, <1>2, ResetKeeps

(* Before the roots are released more than one stage is left.              *)
LEMMA EarlyStage ==
  \A i \in 1 .. 10 : i # 8 /\ i # 9 /\ i # 10 =>
    i \in 1 .. 9 /\ \A j \in {i, i + 1} : ~(j > 8) /\ j # 10
OBVIOUS

(* A -finalize of the teardown that may fill a pool.                       *)
LEMMA FinalizeKeeps ==
  ASSUME Inv, NEW t \in Thread, NEW s \in {"main thread", "callback", "singletons"}, Driver(t, s),
         MayAutorelease(t) \/ UNCHANGED <<rc, pool>>, stage' \in {stage, stage + 1},
         UNCHANGED <<active, roots, owned, dying>>, UNCHANGED <<shared, constant, leaked, frame>>
  PROVE  Inv'
<1>1. t \in active /\ stage \in 1 .. 10 /\ stage # 8 /\ stage # 9 /\ stage # 10 /\ Types /\ Counts
  BY DriverStage DEF Inv
<1>2. MayAutorelease(t)
  BY DEF MayAutorelease
<1>3. /\ rc' \in [Obj -> Nat] /\ pool' \in [Thread -> [Obj -> Nat]] /\ Counts'
      /\ \A u \in Thread \ {t} : pool'[u] = pool[u]
  BY <1>1, <1>2, MayAutoreleaseKeeps
<1>4. \A o \in constant : rc'[o] = rc[o]
  <2>1. CASE UNCHANGED <<rc, pool>>
    BY <2>1
  <2>2. ASSUME NEW o \in Obj, Allocatable(o), rc' = [rc EXCEPT ![o] = 1]
        PROVE  \A q \in constant : rc'[q] = rc[q]
    <3>1. o \notin constant
      BY <1>1, <2>2, NoReferences DEF Allocatable
    <3> QED
      BY <1>1, <2>2, <3>1 DEF Types
  <2> QED
    BY <1>2, <2>1, <2>2 DEF MayAutorelease
<1>5. Proper(t)
  BY <1>1, <1>3, <1>4 DEF Types, Proper
<1>6. stage \in 1 .. 9 /\ ~(stage' > 8) /\ stage' # 10
  BY <1>1, EarlyStage
<1> QED
  BY <1>1, <1>3, <1>5, <1>6, TeardownKeeps

(* The main thread and the callback are finalized.                         *)
LEMMA FinalizeMainThreadKeeps ==
  ASSUME Inv, NEW t \in Thread, FinalizeMainThread(t)
  PROVE  Inv'
<1>1. /\ Driver(t, "main thread") \/ Driver(t, "callback")
      /\ MayAutorelease(t) /\ stage' \in {stage, stage + 1}
      /\ UNCHANGED <<active, roots, owned, dying>> /\ UNCHANGED <<shared, constant, leaked, frame>>
  BY DEF FinalizeMainThread, Advance, slots
<1> QED
  BY <1>1, FinalizeKeeps

(* The singletons are finalized, but not released.                         *)
LEMMA FinalizeSingletonsKeeps ==
  ASSUME Inv, NEW t \in Thread, _mulle_objc_universe_finalize_singletons(t)
  PROVE  Inv'
<1>1. /\ Driver(t, "singletons")
      /\ MayAutorelease(t) \/ UNCHANGED <<rc, pool>>
      /\ stage' \in {stage, stage + 1}
      /\ UNCHANGED <<active, roots, owned, dying>> /\ UNCHANGED <<shared, constant, leaked, frame>>
  BY DEF _mulle_objc_universe_finalize_singletons, Advance
<1> QED
  BY <1>1, FinalizeKeeps

(* The roots go, and with them what each of them was.                      *)
LEMMA ReleaseRootsKeeps ==
  ASSUME Inv, NEW t \in Thread, _mulle_objc_universefoundationinfo_release_rootobjects(t)
  PROVE  Inv'
<1>1. /\ Driver(t, "roots") /\ roots' = {} /\ stage' = stage + 1
      /\ _mulle_object_release(t, [o \in Obj |-> IF o \in roots THEN 1 ELSE 0])
      /\ UNCHANGED <<active, owned, pool>> /\ UNCHANGED <<shared, constant, leaked, frame>>
  BY DEF _mulle_objc_universefoundationinfo_release_rootobjects, Advance, slots
<1>2. t \in active /\ stage = 8 /\ Types /\ Counts
  BY <1>1, DriverStage DEF Inv
<1>3. PICK n : n = [o \in Obj |-> IF o \in roots THEN 1 ELSE 0]
  OBVIOUS
<1>4. n \in [Obj -> Nat] /\ \A q \in Obj : n[q] = Rooted(q)
  BY <1>3 DEF Rooted
<1>5. \A q \in Obj : q \notin constant => n[q] <= rc[q]
  BY <1>2, <1>4, HeldIsCounted
<1>6. _mulle_object_release(t, n)
  BY <1>1, <1>3
<1>7. /\ rc' \in [Obj -> Nat] /\ dying' \in [Thread -> SUBSET Obj]
      /\ \A u \in Thread \ {t} : dying'[u] = dying[u]
      /\ \A q \in constant : rc'[q] = rc[q]
      /\ \A q \in Obj : q \notin constant => rc'[q] = rc[q] - n[q]
  BY <1>2, <1>4, <1>5, <1>6, ReleaseDoes
<1>8. Proper(t)
  BY <1>1, <1>2, <1>7 DEF Types, Proper
<1>9. ASSUME NEW q \in Obj, q \notin constant PROVE rc'[q] = References(q)'
  <2>1. PICK m \in Int, z \in Int, x \in Int, y \in Int :
          m = 0 - n[q] /\ z = 0 /\ x = rc[q] /\ y = n[q]
    BY <1>2, <1>4 DEF Types
  <2>2. rc'[q] = rc[q] + m
    <3>1. rc'[q] = x - y
      BY <1>7, <1>9, <2>1
    <3>2. x - y = x + m
      BY <2>1
    <3> QED
      BY <2>1, <3>1, <3>2
  <2>3. owned'[t][q] = owned[t][q] + z /\ pool'[t][q] = pool[t][q] + z
    BY <1>1, <1>2, <2>1 DEF Types
  <2>4. Rooted(q)' = Rooted(q) + m
    <3>1. Rooted(q)' = 0
      BY <1>1 DEF Rooted
    <3>2. 0 = y + m
      BY <2>1
    <3> QED
      BY <1>4, <2>1, <3>1, <3>2
  <2>5. InHand(q)' = InHand(q) + z /\ Lost(q)' = Lost(q) + z
    <3>1. InHand(q)' = InHand(q) /\ Lost(q)' = Lost(q)
      BY <1>1, HandsStay
    <3> QED
      BY <2>1, <3>1 DEF InHand, Lost
  <2>6. Trades(q, t, m, z, z, m, z, z)
    BY <1>1, <2>2, <2>3, <2>4, <2>5 DEF Trades
  <2>7. m = z + z + m + z + z
    BY <2>1
  <2>8. owned' \in [Thread -> [Obj -> Nat]] /\ pool' \in [Thread -> [Obj -> Nat]]
    BY <1>8 DEF Proper
  <2> QED
    BY <1>2, <1>9, <2>6, <2>7, <2>8, Traded, t \in Thread
<1>10. Counts'
  BY <1>1, <1>2, <1>7, <1>9, CountsKept
<1>11. stage \in 1 .. 9 /\ stage' # 10
  BY <1>1, <1>2
<1> QED
  BY <1>1, <1>2, <1>8, <1>10, <1>11, TeardownKeeps

(* A thread leaves, and the last one begins with the teardown.             *)
LEMMA LeaveKeeps ==
  ASSUME Inv, NEW t \in Thread, Leave(t)
  PROVE  Inv'
<1>1. /\ t \in active /\ stage = 0 /\ frame[t] = Idle /\ dying[t] = {} /\ owned[t] = None
      /\ active # {t} => pool[t] = None
      /\ UNCHANGED <<roots, rc, owned, pool, dying>> /\ UNCHANGED <<shared, constant, leaked, frame>>
  BY DEF Leave, Client, refs, slots
<1>2. Types /\ Sharing /\ Counts /\ Leavings
  BY DEF Inv
<1>3. Sharing' /\ Counts'
  BY <1>1, <1>2, SharingKept DEF Counts, References, Carried
<1>4. CASE active = {t}
  <2>1. stage' = 1 /\ active' = active
    BY <1>4 DEF Leave
  <2>2. \A u \in Thread : owned[u] = None /\ frame[u] = Idle
    BY <1>1, <1>2, <1>4 DEF Leavings
  <2>3. Types'
    BY <1>1, <1>2, <2>1 DEF Types
  <2>4. Leavings'
    BY <1>1, <1>2, <1>4, <2>1, <2>2 DEF Leavings
  <2> QED
    BY <1>3, <2>3, <2>4 DEF Inv
<1>5. CASE active # {t}
  <2>1. stage' = stage /\ active' = active \ {t}
    BY <1>5 DEF Leave
  <2>2. Types'
    BY <1>1, <1>2, <2>1 DEF Types
  <2>3. Leavings'
    BY <1>1, <1>2, <1>5, <2>1 DEF Leavings
  <2> QED
    BY <1>3, <2>2, <2>3 DEF Inv
<1> QED
  BY <1>4, <1>5

(* What the frames of a thread hold.                                       *)
LEMMA CallParts ==
  ASSUME Types, NEW t \in Thread
  PROVE  /\ frame[t].at \in {"idle", "again", "cas", "constantify"}
         /\ frame[t].at = "cas" => frame[t].class \in SharedClass /\ frame[t].new \in Obj
         /\ frame[t].at = "constantify" => frame[t].new \in Obj
<1>1. PICK f \in Call : f = frame[t]
  BY DEF Types
<1>2. /\ f.at \in {"idle", "again", "cas", "constantify"}
      /\ f.at = "cas" => f.class \in SharedClass /\ f.new \in Obj
      /\ f.at = "constantify" => f.new \in Obj
  BY DEF Call
<1> QED
  BY <1>1, <1>2

(* A thread that is in a call has not left, and nothing is torn down.      *)
LEMMA InCall ==
  ASSUME Inv, NEW t \in Thread, frame[t].at # "idle"
  PROVE  t \in active /\ stage = 0
<1>1. frame[t] # Idle
  BY DEF Idle
<1>2. t \in active /\ ~(stage > 0) /\ stage \in 0 .. 10
  BY <1>1 DEF Inv, Leavings, Types
<1> QED
  BY <1>2

(* A step of a call changes the frame of its thread only, and keeps what   *)
(* client code has.                                                        *)
LEMMA CallKeeps ==
  ASSUME Inv, NEW t \in Thread, t \in active, stage = 0, NEW f \in Call, Goto(t, f),
         UNCHANGED <<active, stage, roots, owned, pool>>,
         \A u \in Thread \ {t} : dying'[u] = dying[u],
         dying' \in [Thread -> SUBSET Obj], rc' \in [Obj -> Nat],
         shared' \in [SharedClass -> Obj \cup {nil}], constant' \subseteq Obj, leaked' \subseteq Obj,
         Sharing', Counts'
  PROVE  Inv'
<1>1. Types /\ Leavings
  BY DEF Inv
<1>2. frame' \in [Thread -> Call] /\ \A u \in Thread \ {t} : frame'[u] = frame[u]
  BY <1>1 DEF Types, Goto
<1>3. Types'
  BY <1>1, <1>2 DEF Types
<1>4. Leavings'
  BY <1>1, <1>2, LeavingsKept
<1> QED
  BY <1>3, <1>4 DEF Inv

(* The call finds a shared instance, or makes an object to share.          *)
LEMMA CreateKeeps ==
  ASSUME Inv, NEW t \in Thread, NEW c \in SharedClass, MulleObjCSingletonCreate(t, c)
  PROVE  Inv'
<1>1. Types /\ Sharing /\ Counts
  BY DEF Inv
<1>2. t \in active /\ stage = 0 /\ frame[t].at \in {"idle", "again"}
  <2>1. CASE Client(t)
    BY <2>1 DEF Client, Idle
  <2>2. CASE ~Client(t)
    <3>1. frame[t].at = "again"
      BY <2>2 DEF MulleObjCSingletonCreate
    <3> QED
      BY <3>1, InCall
  <2> QED
    BY <2>1, <2>2
<1>3. UNCHANGED <<active, stage, roots, owned, pool>> /\ UNCHANGED <<dying, shared, constant, leaked>>
  BY DEF MulleObjCSingletonCreate
<1>4. CASE shared[c] # nil
  <2>1. Goto(t, Idle) /\ rc' = rc
    BY <1>4 DEF MulleObjCSingletonCreate
  <2>2. Idle \in Call
    BY DEF Idle, Call
  <2>3. /\ frame'[t] = Idle /\ Idle.at = "idle"
        /\ \A u \in Thread \ {t} : frame'[u] = frame[u]
    BY <1>1, <2>1 DEF Types, Goto, Idle
  <2>4. \A u \in Thread : /\ frame'[u].at = "cas" <=> frame[u].at = "cas"
                          /\ frame'[u].at = "constantify" <=> frame[u].at = "constantify"
                          /\ frame[u].at \in {"cas", "constantify"} => frame'[u] = frame[u]
    BY <1>2, <2>3
  <2>5. Sharing'
    BY <1>1, <1>3, <2>4 DEF Sharing
  <2>6. \A q : Carried(q)' <=> Carried(q)
    BY <1>3, <2>4 DEF Carried
  <2>7. Counts'
    BY <1>1, <1>3, <2>1, <2>6 DEF Counts, References
  <2> QED
    BY <1>1, <1>2, <1>3, <2>1, <2>2, <2>5, <2>7, CallKeeps DEF Types
<1>5. CASE shared[c] = nil
  <2>1. PICK o \in Obj : /\ Allocatable(o) /\ rc' = [rc EXCEPT ![o] = 1]
                         /\ Goto(t, [at |-> "cas", class |-> c, new |-> o])
    BY <1>5 DEF MulleObjCSingletonCreate
  <2>2. PICK f : f = [at |-> "cas", class |-> c, new |-> o]
    OBVIOUS
  <2>3. f \in Call /\ f.at = "cas" /\ f.new = o /\ Goto(t, f)
    BY <2>1, <2>2 DEF Call
  <2>4. frame'[t] = f /\ \A u \in Thread \ {t} : frame'[u] = frame[u]
    BY <1>1, <2>3 DEF Types, Goto
  <2>5. rc[o] = 0 /\ o \notin constant /\ o \notin leaked /\ ~Carried(o) /\ InHand(o) = 0
    BY <1>1, <2>1, NoReferences DEF Allocatable
  <2>6. /\ \A d \in SharedClass : shared[d] # o
        /\ \A u \in Thread : frame[u].at = "cas" => frame[u].new # o
    BY <2>5 DEF Carried
  <2>7. Sharing'
    <3>1. \A u \in Thread : /\ frame'[u].at = "constantify" <=> frame[u].at = "constantify"
                            /\ frame[u].at = "constantify" => frame'[u] = frame[u]
      BY <1>2, <2>3, <2>4
    <3>2. ASSUME NEW u \in Thread, frame'[u].at = "cas"
          PROVE  /\ frame'[u].new \notin leaked \cup constant
                 /\ \A d \in SharedClass : shared[d] # frame'[u].new
                 /\ \A v \in Thread : v # u /\ frame'[v].at = "cas" => frame'[v].new # frame'[u].new
      <4>1. CASE u = t
        BY <2>3, <2>4, <2>5, <2>6, <4>1
      <4>2. CASE u # t
        BY <1>1, <2>3, <2>4, <2>6, <3>2, <4>2 DEF Sharing
      <4> QED
        BY <4>1, <4>2
    <3> QED
      BY <1>1, <1>3, <3>1, <3>2 DEF Sharing
  <2>8. ASSUME NEW q \in Obj, q \notin constant PROVE rc'[q] = References(q)'
    <3>1. /\ owned' \in [Thread -> [Obj -> Nat]] /\ pool' \in [Thread -> [Obj -> Nat]]
          /\ Rooted(q)' = Rooted(q) /\ Lost(q)' = Lost(q)
      BY <1>1, <1>3, RootsStay DEF Types, Lost
    <3>2. CASE q = o
      <4>1. PICK one \in Int, z \in Int : one = 1 /\ z = 0
        OBVIOUS
      <4>2. Carried(q)' /\ InHand(q)' = InHand(q) + one
        BY <2>3, <2>4, <2>5, <3>2, <4>1 DEF Carried, InHand
      <4>3. /\ owned[t][q] \in Int /\ pool[t][q] \in Int /\ Rooted(q) \in Int /\ Lost(q) \in Int
            /\ rc'[q] = rc[q] + one
        BY <1>1, <2>1, <2>5, <3>2, <4>1 DEF Types, Rooted, Lost
      <4>4. Trades(q, t, one, z, z, z, one, z)
        BY <1>3, <3>1, <4>1, <4>2, <4>3 DEF Trades
      <4>5. one = z + z + z + one + z
        BY <4>1
      <4> QED
        BY <1>1, <2>8, <3>1, <4>4, <4>5, Traded
    <3>3. CASE q # o
      <4>1. Carried(q)' <=> Carried(q)
        BY <1>2, <1>3, <2>3, <2>4, <3>3 DEF Carried
      <4>2. rc'[q] = rc[q] /\ InHand(q)' = InHand(q)
        BY <1>1, <2>1, <3>3, <4>1 DEF Types, InHand
      <4>3. \A u \in Thread : owned'[u][q] = owned[u][q] /\ pool'[u][q] = pool[u][q]
        BY <1>3
      <4> QED
        BY <1>1, <2>8, <3>1, <4>2, <4>3, LeftAlone
    <3> QED
      BY <3>2, <3>3
  <2>9. Counts'
    <3>1. \A q \in constant : rc'[q] = rc[q]
      BY <1>1, <2>1, <2>5 DEF Types
    <3> QED
      BY <1>1, <1>3, <2>8, <3>1, CountsKept
  <2>10. rc' \in [Obj -> Nat]
    BY <1>1, <2>1 DEF Types
  <2> QED
    BY <1>1, <1>2, <1>3, <2>3, <2>7, <2>9, <2>10, CallKeeps DEF Types
<1> QED
  BY <1>4, <1>5

(* The new object becomes the shared one.                                  *)
LEMMA PublishKeeps ==
  ASSUME Inv, NEW t \in Thread, PublishUnlessNil(t)
  PROVE  Inv'
<1>1. Types /\ Sharing /\ Counts
  BY DEF Inv
<1>2. PICK c, o : c = frame[t].class /\ o = frame[t].new
  OBVIOUS
<1>3. /\ frame[t].at = "cas" /\ shared[c] = nil /\ shared' = [shared EXCEPT ![c] = o]
      /\ Goto(t, [at |-> "constantify", new |-> o])
      /\ UNCHANGED <<active, stage, roots, rc, owned, pool, dying>> /\ UNCHANGED <<constant, leaked>>
  BY <1>2 DEF PublishUnlessNil, refs
<1>4. c \in SharedClass /\ o \in Obj /\ t \in active /\ stage = 0
  BY <1>1, <1>2, <1>3, CallParts, InCall
<1>5. PICK f : f = [at |-> "constantify", new |-> o]
  OBVIOUS
<1>6. f \in Call /\ f.at = "constantify" /\ f.new = o /\ Goto(t, f)
  BY <1>3, <1>4, <1>5 DEF Call
<1>7. frame'[t] = f /\ \A u \in Thread \ {t} : frame'[u] = frame[u]
  BY <1>1, <1>6 DEF Types, Goto
<1>8. /\ shared' \in [SharedClass -> Obj \cup {nil}] /\ shared'[c] = o
      /\ \A d \in SharedClass \ {c} : shared'[d] = shared[d]
  BY <1>1, <1>3, <1>4 DEF Types
<1>9. /\ o \notin leaked /\ o \notin constant /\ \A d \in SharedClass : shared[d] # o
      /\ \A u \in Thread : u # t /\ frame[u].at = "cas" => frame[u].new # o
      /\ o # nil
  BY <1>1, <1>2, <1>3, <1>4, UniverseAssumption DEF Sharing
<1>10. Sharing'
  <2>1. ASSUME NEW u \in Thread, frame'[u].at = "constantify"
        PROVE  \E d \in SharedClass : shared'[d] = frame'[u].new
    <3>1. CASE u = t
      BY <1>4, <1>6, <1>7, <1>8, <3>1
    <3>2. CASE u # t
      <4>1. frame'[u] = frame[u] /\ frame[u].new \in Obj
        BY <1>1, <1>7, <2>1, <3>2, CallParts
      <4>2. PICK d \in SharedClass : shared[d] = frame[u].new
        BY <1>1, <2>1, <4>1 DEF Sharing
      <4>3. d # c
        BY <1>3, <4>1, <4>2, UniverseAssumption
      <4> QED
        BY <1>8, <4>1, <4>2, <4>3
    <3> QED
      BY <3>1, <3>2
  <2>2. ASSUME NEW u \in Thread, frame'[u].at = "cas"
        PROVE  /\ frame'[u].new \notin leaked \cup constant
               /\ \A d \in SharedClass : shared'[d] # frame'[u].new
               /\ \A v \in Thread : v # u /\ frame'[v].at = "cas" => frame'[v].new # frame'[u].new
    <3>1. u # t /\ frame'[u] = frame[u]
      BY <1>6, <1>7, <2>2
    <3>2. /\ frame[u].new \notin leaked \cup constant
          /\ \A d \in SharedClass : shared[d] # frame[u].new
          /\ \A v \in Thread : v # u /\ frame[v].at = "cas" => frame[v].new # frame[u].new
      BY <1>1, <2>2, <3>1 DEF Sharing
    <3>3. frame[u].new # o
      BY <1>9, <2>2, <3>1
    <3> QED
      BY <1>6, <1>7, <1>8, <3>1, <3>2, <3>3
  <2>3. \A d, e \in SharedClass : d # e /\ shared'[d] # nil => shared'[d] # shared'[e]
    <3> TAKE d, e \in SharedClass
    <3>1. CASE d # c /\ e # c
      BY <1>1, <1>8, <3>1 DEF Sharing
    <3>2. CASE d = c
      BY <1>8, <1>9, <3>2
    <3>3. CASE e = c
      BY <1>8, <1>9, <3>3
    <3> QED
      BY <3>1, <3>2, <3>3
  <2>4. ASSUME NEW d \in SharedClass, shared'[d] # nil
        PROVE  \/ shared'[d] \in constant
               \/ \E u \in Thread : frame'[u].at = "constantify" /\ frame'[u].new = shared'[d]
    <3>1. CASE d = c
      BY <1>6, <1>7, <1>8, <3>1
    <3>2. CASE d # c /\ shared[d] \notin constant
      <4>1. PICK u \in Thread : frame[u].at = "constantify" /\ frame[u].new = shared[d]
        BY <1>1, <1>8, <2>4, <3>2 DEF Sharing
      <4>2. u # t
        BY <1>3, <4>1
      <4> QED
        BY <1>7, <1>8, <3>2, <4>1, <4>2
    <3> QED
      BY <1>8, <3>1, <3>2
  <2> QED
    BY <1>3, <2>1, <2>2, <2>3, <2>4 DEF Sharing
<1>11. ASSUME NEW q \in Obj PROVE Carried(q)' <=> Carried(q)
  <2>1. CASE q = o
    BY <1>2, <1>3, <1>4, <1>8, <2>1 DEF Carried
  <2>2. CASE q # o
    <3>1. \A d \in SharedClass : shared'[d] = q <=> shared[d] = q
      BY <1>3, <1>8, <2>2, UniverseAssumption
    <3>2. \A u \in Thread : (frame'[u].at = "cas" /\ frame'[u].new = q)
                            <=> (frame[u].at = "cas" /\ frame[u].new = q)
      BY <1>2, <1>6, <1>7, <2>2
    <3> QED
      BY <3>1, <3>2 DEF Carried
  <2> QED
    BY <2>1, <2>2
<1>12. Counts'
  <2>1. ASSUME NEW q \in Obj, q \notin constant PROVE rc'[q] = References(q)'
    <3>1. One(Carried(q))' = One(Carried(q))
      BY <1>11 DEF One
    <3>2. References(q)' = References(q)
      BY <1>3, <3>1 DEF References
    <3> QED
      BY <1>1, <1>3, <2>1, <3>2 DEF Counts
  <2> QED
    BY <1>1, <1>3, <2>1, CountsKept
<1> QED
  BY <1>1, <1>3, <1>4, <1>6, <1>8, <1>10, <1>12, CallKeeps DEF Types

(* It is a constant from here on.                                          *)
LEMMA ConstantifyKeeps ==
  ASSUME Inv, NEW t \in Thread, Constantify(t)
  PROVE  Inv'
<1>1. Types /\ Sharing /\ Counts
  BY DEF Inv
<1>2. PICK o : o = frame[t].new
  OBVIOUS
<1>3. /\ frame[t].at = "constantify" /\ constant' = constant \cup {o} /\ Goto(t, Idle)
      /\ UNCHANGED <<active, stage, roots, rc, owned, pool, dying>> /\ UNCHANGED <<shared, leaked>>
  BY <1>2 DEF Constantify, refs
<1>4. o \in Obj /\ t \in active /\ stage = 0 /\ Idle \in Call
  BY <1>1, <1>2, <1>3, CallParts, InCall DEF Idle, Call
<1>5. frame'[t] = Idle /\ Idle.at = "idle" /\ \A u \in Thread \ {t} : frame'[u] = frame[u]
  BY <1>1, <1>3 DEF Types, Goto, Idle
<1>6. PICK c \in SharedClass : shared[c] = o
  BY <1>1, <1>2, <1>3 DEF Sharing
<1>7. \A u \in Thread : /\ frame'[u].at = "cas" <=> frame[u].at = "cas"
                        /\ frame[u].at = "cas" => frame'[u] = frame[u]
                        /\ frame'[u].at = "constantify" => u # t /\ frame'[u] = frame[u]
  BY <1>3, <1>5
<1>8. Sharing'
  <2>1. \A u \in Thread : frame'[u].at = "constantify" => \E d \in SharedClass : shared'[d] = frame'[u].new
    BY <1>1, <1>3, <1>7 DEF Sharing
  <2>2. ASSUME NEW u \in Thread, frame'[u].at = "cas"
        PROVE  /\ frame'[u].new \notin leaked' \cup constant'
               /\ \A d \in SharedClass : shared'[d] # frame'[u].new
               /\ \A v \in Thread : v # u /\ frame'[v].at = "cas" => frame'[v].new # frame'[u].new
    <3>1. frame'[u] = frame[u] /\ frame[u].at = "cas"
      BY <1>7, <2>2
    <3>2. /\ frame[u].new \notin leaked \cup constant
          /\ \A d \in SharedClass : shared[d] # frame[u].new
          /\ \A v \in Thread : v # u /\ frame[v].at = "cas" => frame[v].new # frame[u].new
      BY <1>1, <3>1 DEF Sharing
    <3> QED
      BY <1>3, <1>6, <1>7, <3>1, <3>2
  <2>3. ASSUME NEW d \in SharedClass, shared[d] # nil
        PROVE  \/ shared[d] \in constant'
               \/ \E u \in Thread : frame'[u].at = "constantify" /\ frame'[u].new = shared[d]
    <3>1. CASE shared[d] \in constant \cup {o}
      BY <1>3, <3>1
    <3>2. CASE shared[d] \notin constant \cup {o}
      <4>1. PICK u \in Thread : frame[u].at = "constantify" /\ frame[u].new = shared[d]
        BY <1>1, <2>3, <3>2 DEF Sharing
      <4> QED
        BY <1>2, <1>5, <3>2, <4>1
    <3> QED
      BY <3>1, <3>2
  <2>4. \A d, e \in SharedClass : d # e /\ shared[d] # nil => shared[d] # shared[e]
    BY <1>1 DEF Sharing
  <2> QED
    BY <1>3, <2>1, <2>2, <2>3, <2>4 DEF Sharing
<1>9. Counts'
  <2>1. \A q : Carried(q)' <=> Carried(q)
    BY <1>3, <1>7 DEF Carried
  <2>2. \A q \in Obj : q \notin constant => rc'[q] = References(q)'
    BY <1>1, <1>3, <2>1 DEF Counts, References
  <2>3. rc[o] > 0
    <3>1. CASE o \in constant
      BY <1>1, <3>1 DEF Counts
    <3>2. CASE o \notin constant
      <4>1. InHand(o) = 1 /\ rc[o] \in Nat
        BY <1>1, <1>4, <1>6 DEF InHand, Carried, Types
      <4>2. InHand(o) <= rc[o]
        BY <1>1, <1>4, <3>2, HeldIsCounted
      <4> QED
        BY <4>1, <4>2
    <3> QED
      BY <3>1, <3>2
  <2> QED
    BY <1>1, <1>3, <2>2, <2>3 DEF Counts
<1>10. constant' \subseteq Obj
  BY <1>1, <1>3, <1>4 DEF Types
<1> QED
  BY <1>1, <1>3, <1>4, <1>8, <1>9, <1>10, CallKeeps DEF Types

(* A thread that comes too late: a singleton is released again, and a      *)
(* placeholder is lost.                                                    *)
LEMMA LoseRaceKeeps ==
  ASSUME Inv, NEW t \in Thread, LoseRace(t)
  PROVE  Inv'
<1>1. Types /\ Sharing /\ Counts
  BY DEF Inv
<1>2. PICK c, o : c = frame[t].class /\ o = frame[t].new
  OBVIOUS
<1>3. /\ frame[t].at = "cas" /\ Goto(t, [at |-> "again", class |-> c])
      /\ UNCHANGED <<active, stage, roots, owned, pool>> /\ UNCHANGED <<constant, shared>>
      /\ c = "singleton" => _mulle_object_release(t, Once(o)) /\ leaked' = leaked
      /\ c # "singleton" => leaked' = leaked \cup {o} /\ UNCHANGED <<rc, dying>>
  BY <1>2 DEF LoseRace
<1>4. c \in SharedClass /\ o \in Obj /\ t \in active /\ stage = 0
  BY <1>1, <1>2, <1>3, CallParts, InCall
<1>5. PICK f : f = [at |-> "again", class |-> c]
  OBVIOUS
<1>6. f \in Call /\ f.at = "again" /\ Goto(t, f)
  BY <1>3, <1>4, <1>5 DEF Call
<1>7. frame'[t] = f /\ \A u \in Thread \ {t} : frame'[u] = frame[u]
  BY <1>1, <1>6 DEF Types, Goto
<1>8. /\ o \notin leaked /\ o \notin constant /\ \A d \in SharedClass : shared[d] # o
      /\ \A u \in Thread : u # t /\ frame[u].at = "cas" => frame[u].new # o
  BY <1>1, <1>2, <1>3 DEF Sharing
<1>9. Carried(o) /\ InHand(o) = 1 /\ ~Carried(o)' /\ InHand(o)' = 0
  <2>1. Carried(o) /\ InHand(o) = 1
    BY <1>2, <1>3 DEF Carried, InHand
  <2>2. ~Carried(o)'
    BY <1>3, <1>6, <1>7, <1>8 DEF Carried
  <2> QED
    BY <2>1, <2>2 DEF InHand
<1>10. rc[o] > 0
  <2>1. InHand(o) <= rc[o] /\ rc[o] \in Nat
    BY <1>1, <1>4, <1>8, HeldIsCounted DEF Types
  <2> QED
    BY <1>9, <2>1
<1>11. ASSUME NEW q \in Obj, q # o PROVE Carried(q)' <=> Carried(q)
  <2>1. \A u \in Thread : (frame'[u].at = "cas" /\ frame'[u].new = q)
                          <=> (frame[u].at = "cas" /\ frame[u].new = q)
    BY <1>2, <1>6, <1>7, <1>11
  <2> QED
    BY <1>3, <2>1 DEF Carried
<1>12. Sharing'
  <2>1. leaked' \subseteq leaked \cup {o}
    BY <1>3
  <2>2. ASSUME NEW u \in Thread, frame'[u].at = "cas"
        PROVE  /\ frame'[u].new \notin leaked' \cup constant
               /\ \A d \in SharedClass : shared[d] # frame'[u].new
               /\ \A v \in Thread : v # u /\ frame'[v].at = "cas" => frame'[v].new # frame'[u].new
    <3>1. u # t /\ frame'[u] = frame[u]
      BY <1>6, <1>7, <2>2
    <3>2. frame[u].new # o
      BY <1>8, <2>2, <3>1
    <3>3. /\ frame[u].new \notin leaked \cup constant
          /\ \A d \in SharedClass : shared[d] # frame[u].new
          /\ \A v \in Thread : v # u /\ frame[v].at = "cas" => frame[v].new # frame[u].new
      BY <1>1, <2>2, <3>1 DEF Sharing
    <3> QED
      BY <1>6, <1>7, <2>1, <3>1, <3>2, <3>3
  <2>3. \A u \in Thread : /\ frame'[u].at = "constantify" <=> frame[u].at = "constantify"
                          /\ frame[u].at = "constantify" => frame'[u] = frame[u]
    BY <1>3, <1>6, <1>7
  <2> QED
    BY <1>1, <1>3, <2>2, <2>3 DEF Sharing
<1>13. /\ rc' \in [Obj -> Nat] /\ dying' \in [Thread -> SUBSET Obj]
       /\ \A u \in Thread \ {t} : dying'[u] = dying[u]
       /\ \A q \in constant : rc'[q] = rc[q]
       /\ \A q \in Obj \ {o} : rc'[q] = rc[q]
       /\ leaked' \subseteq Obj
  <2>1. CASE c = "singleton"
    BY <1>1, <1>3, <1>4, <1>10, <2>1, ReleaseOnce DEF Types
  <2>2. CASE c # "singleton"
    BY <1>1, <1>3, <1>4, <2>2 DEF Types
  <2> QED
    BY <2>1, <2>2
<1>14. ASSUME NEW q \in Obj, q \notin constant PROVE rc'[q] = References(q)'
  <2>1. /\ owned' \in [Thread -> [Obj -> Nat]] /\ pool' \in [Thread -> [Obj -> Nat]]
        /\ Rooted(q)' = Rooted(q) /\ Rooted(q) \in Int
        /\ owned[t][q] \in Int /\ pool[t][q] \in Int /\ rc[q] \in Int
    BY <1>1, <1>3, RootsStay DEF Types, Rooted
  <2>2. CASE q = o
    <3>1. PICK m \in Int, z \in Int, one \in Int : m = -1 /\ z = 0 /\ one = 1
      OBVIOUS
    <3>2. InHand(q)' = InHand(q) + m
      BY <1>9, <2>2, <3>1
    <3>3. CASE c = "singleton"
      <4>1. rc'[q] = rc[q] + m
        <5>1. rc'[q] = rc[q] - 1
          BY <1>1, <1>3, <1>4, <1>8, <1>10, <2>2, <3>3, ReleaseOnce
        <5> QED
          BY <2>1, <3>1, <5>1
      <4>2. Lost(q)' = Lost(q) + z
        BY <1>3, <3>1, <3>3 DEF Lost
      <4>3. Trades(q, t, m, z, z, z, m, z)
        BY <1>3, <2>1, <3>1, <3>2, <4>1, <4>2 DEF Trades
      <4>4. m = z + z + z + m + z
        BY <3>1
      <4> QED
        BY <1>1, <1>14, <2>1, <4>3, <4>4, Traded
    <3>4. CASE c # "singleton"
      <4>1. rc'[q] = rc[q] + z
        BY <1>3, <2>1, <3>1, <3>4
      <4>2. Lost(q)' = Lost(q) + one
        BY <1>3, <1>8, <2>2, <3>1, <3>4 DEF Lost
      <4>3. Trades(q, t, z, z, z, z, m, one)
        BY <1>3, <2>1, <3>1, <3>2, <4>1, <4>2 DEF Trades
      <4>4. z = z + z + z + m + one
        BY <3>1
      <4> QED
        BY <1>1, <1>14, <2>1, <4>3, <4>4, Traded
    <3> QED
      BY <3>3, <3>4
  <2>3. CASE q # o
    <3>1. rc'[q] = rc[q] /\ InHand(q)' = InHand(q)
      BY <1>11, <1>13, <2>3 DEF InHand
    <3>2. Lost(q)' = Lost(q)
      BY <1>3, <2>3 DEF Lost
    <3>3. \A u \in Thread : owned'[u][q] = owned[u][q] /\ pool'[u][q] = pool[u][q]
      BY <1>3
    <3> QED
      BY <1>1, <1>14, <2>1, <3>1, <3>2, <3>3, LeftAlone
  <2> QED
    BY <2>2, <2>3
<1>15. Counts'
  BY <1>1, <1>3, <1>13, <1>14, CountsKept
<1> QED
  BY <1>1, <1>3, <1>4, <1>6, <1>12, <1>13, <1>15, CallKeeps DEF Types

-----------------------------------------------------------------------------
(* The theorems.                                                           *)

(* A universe begins with no objects at all.                               *)
LEMMA InitInv == Init => Inv
<1> SUFFICES ASSUME Init PROVE Inv
  OBVIOUS
<1>1. /\ active = Thread /\ stage = 0 /\ roots = {} /\ constant = {} /\ leaked = {}
      /\ shared = [c \in SharedClass |-> nil] /\ rc = None
      /\ owned = [t \in Thread |-> None] /\ pool = [t \in Thread |-> None]
      /\ dying = [t \in Thread |-> {}] /\ frame = [t \in Thread |-> Idle]
  BY DEF Init, _mulle_objc_universefoundationinfo_init
<1>2. None \in [Obj -> Nat] /\ (\A o \in Obj : None[o] = 0) /\ Idle \in Call /\ Idle.at = "idle"
  BY DEF None, Idle, Call
<1>3. Types
  BY <1>1, <1>2 DEF Types
<1>4. \A t \in Thread : frame[t].at = "idle"
  BY <1>1, <1>2
<1>5. Sharing
  BY <1>1, <1>4 DEF Sharing
<1>6. Counts
  <2>1. ASSUME NEW o \in Obj PROVE rc[o] = References(o)
    <3>1. /\ rc[o] = 0 /\ (\A t \in Thread : owned[t][o] = 0)
          /\ (\A t \in Thread : pool[t][o] = 0)
          /\ owned \in [Thread -> [Obj -> Nat]] /\ pool \in [Thread -> [Obj -> Nat]]
      BY <1>1, <1>2
    <3>2. Total(owned, o) = 0
      BY <3>1, TotalNone
    <3>3. Total(pool, o) = 0
      BY <3>1, TotalNone
    <3>4. ~Carried(o)
      BY <1>1, <1>4, UniverseAssumption DEF Carried
    <3>5. Rooted(o) = 0 /\ InHand(o) = 0 /\ Lost(o) = 0
      BY <1>1, <3>4 DEF Rooted, InHand, Lost
    <3>6. References(o) = Total(owned, o) + Total(pool, o) + Rooted(o) + InHand(o) + Lost(o)
      BY <1>3, ReferenceParts
    <3> QED
      BY <3>1, <3>2, <3>3, <3>5, <3>6
  <2> QED
    BY <1>1, <2>1 DEF Counts
<1>7. Leavings
  BY <1>1 DEF Leavings
<1> QED
  BY <1>3, <1>5, <1>6, <1>7 DEF Inv

(* Every step keeps the invariant.                                         *)
LEMMA StepInv == Inv /\ [Next]_vars => Inv'
<1> SUFFICES ASSUME Inv, [Next]_vars PROVE Inv'
  OBVIOUS
<1>1. CASE UNCHANGED vars
  <2>1. /\ UNCHANGED <<active, stage, roots, rc, owned, pool, dying>>
        /\ UNCHANGED <<shared, constant, leaked, frame>>
    BY <1>1 DEF vars, refs, slots
  <2>2. Types'
    BY <2>1 DEF Inv, Types
  <2>3. Sharing'
    BY <2>1, SharingKept DEF Inv
  <2>4. Counts'
    BY <2>1 DEF Inv, Counts, References, Carried
  <2>5. Leavings'
    BY <2>1 DEF Inv, Leavings
  <2> QED
    BY <2>2, <2>3, <2>4, <2>5 DEF Inv
<1>2. ASSUME NEW t \in Thread, Alloc(t) \/ PopPool(t) \/ Dealloc(t) PROVE Inv'
  BY <1>2, AllocKeeps, PopPoolKeeps, DeallocKeeps
<1>3. ASSUME NEW t \in Thread, NEW o \in Obj,
             \/ Retain(t, o) \/ Release(t, o) \/ Autorelease(t, o)
             \/ _becomeRootObject(t, o) \/ _resignAsRootObject(t, o)
      PROVE  Inv'
  BY <1>3, RetainKeeps, ReleaseKeeps, AutoreleaseKeeps, BecomeRootKeeps, ResignRootKeeps
<1>4. ASSUME NEW t \in Thread, NEW c \in SharedClass, MulleObjCSingletonCreate(t, c) PROVE Inv'
  BY <1>4, CreateKeeps
<1>5. ASSUME NEW t \in Thread, PublishUnlessNil(t) \/ LoseRace(t) \/ Constantify(t) PROVE Inv'
  BY <1>5, PublishKeeps, LoseRaceKeeps, ConstantifyKeeps
<1>6. ASSUME NEW t \in Thread,
             \/ Leave(t) \/ ResetPools(t) \/ FinalizeMainThread(t)
             \/ _mulle_objc_universe_finalize_singletons(t)
             \/ _mulle_objc_universefoundationinfo_release_rootobjects(t)
             \/ _MulleThreadResignAsMainThreadObjectInUniverse(t)
      PROVE  Inv'
  BY <1>6, LeaveKeeps, ResetPoolsKeeps, FinalizeMainThreadKeeps, FinalizeSingletonsKeeps,
     ReleaseRootsKeeps, ResignMainKeeps
<1> QED
  BY <1>1, <1>2, <1>3, <1>4, <1>5, <1>6 DEF Next

(* The invariant holds in every universe.                                  *)
LEMMA SpecInv == Spec => []Inv
<1> QED
  BY InitInv, StepInv, PTL DEF Spec

(* However many threads ask at once for a singleton or a placeholder, all  *)
(* get the one that was published, and no retain count loses a reference   *)
(* or keeps one too many.                                                  *)
THEOREM SharingSafety == Spec => []OneSharedInstance
<1>1. Inv => OneSharedInstance
  BY DEF Inv, Sharing, Counts, OneSharedInstance, Counted
<1> QED
  BY <1>1, SpecInv, PTL

(* At the end nothing is left, for any number of threads and objects, and  *)
(* whatever the -finalize and -dealloc methods of the teardown make.       *)
THEOREM TeardownSafety == Spec => []TeardownLeavesNothing
<1>1. Inv => TeardownLeavesNothing
  <2> SUFFICES ASSUME Inv, stage > 0, Stages[stage] = "gone"
               PROVE  /\ \A o \in Obj : rc[o] > 0 => o \in constant \cup leaked
                      /\ \A t \in Thread : pool[t] = None /\ dying[t] = {}
    BY DEF TeardownLeavesNothing
  <2>1. Types /\ Sharing /\ Counts /\ Leavings
    BY DEF Inv
  <2>2. stage = 10
    <3>1. stage \in 0 .. 10 /\ stage > 0
      BY <2>1 DEF Types
    <3>2. stage \in 1 .. 10
      BY <3>1
    <3> QED
      BY <3>2, StageNames
  <2>3. /\ roots = {} /\ \A t \in Thread : owned[t] = None /\ frame[t] = Idle
        /\ \A t \in Thread : pool[t] = None /\ dying[t] = {}
    BY <2>1, <2>2 DEF Leavings
  <2>4. ASSUME NEW o \in Obj, rc[o] > 0, o \notin constant, o \notin leaked PROVE FALSE
    <3>1. /\ (\A t \in Thread : owned[t][o] = 0) /\ (\A t \in Thread : pool[t][o] = 0)
          /\ owned \in [Thread -> [Obj -> Nat]] /\ pool \in [Thread -> [Obj -> Nat]]
      BY <2>1, <2>3 DEF None, Types
    <3>2. Total(owned, o) = 0
      BY <3>1, TotalNone
    <3>3. Total(pool, o) = 0
      BY <3>1, TotalNone
    <3>4. \A t \in Thread : frame[t].at = "idle"
      BY <2>3 DEF Idle
    <3>5. ~Carried(o)
      <4>1. \A c \in SharedClass : shared[c] # o
        BY <2>1, <2>4, <3>4, UniverseAssumption DEF Sharing
      <4> QED
        BY <3>4, <4>1 DEF Carried
    <3>6. Rooted(o) = 0 /\ InHand(o) = 0 /\ Lost(o) = 0
      BY <2>3, <2>4, <3>5 DEF Rooted, InHand, Lost
    <3>7. rc[o] = Total(owned, o) + Total(pool, o) + Rooted(o) + InHand(o) + Lost(o)
      BY <2>1, <2>4, ReferenceParts DEF Counts
    <3>8. rc[o] = 0
      BY <3>2, <3>3, <3>6, <3>7
    <3> QED
      BY <2>4, <3>8
  <2> QED
    BY <2>3, <2>4
<1> QED
  BY <1>1, SpecInv, PTL
=============================================================================
