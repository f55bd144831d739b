------------------------------ MODULE AtomicIds ------------------------------
(***************************************************************************)
(* mulle_atomic_id_t: an instance variable that several threads read, set  *)
(* and compute lazily (mulle-objc-atomicid.h, MulleObjCIvar.h).  Its type  *)
(* says whether it keeps a reference: assign, retain or copy.  Each thread *)
(* has a pool that releases, sometime, what it autoreleased.               *)
(***************************************************************************)
EXTENDS Integers, FiniteSets, Functions

CONSTANTS
  Thread,
  Obj,        \* addresses of objects: what is freed can be allocated again
  nil,
  MaxRefs     \* bound: references to one object

VARIABLES
  ivarType,   \* the type of the instance variable
  ivar,       \* the object it points to
  rc,         \* retain counts, 0 for what is not allocated
  owned,      \* owned[t][o]: the references that client code of t holds
  pool,       \* pool[t][o]: releases pending in the pool of t
  lost,       \* lost[o]: references that nobody will ever release
  frame       \* the call that each thread is in

vars == <<ivarType, ivar, rc, owned, pool, lost, frame>>

Value == Obj \cup {nil}

Updates == {"update", "copy update"}

Request ==
  [op : {"get", "release", "lazy"}] \cup [op : Updates, value : Value]

Idle              == [at |-> "idle"]
Reading(r)        == [at |-> "read", request |-> r]
Loading(r)        == [at |-> "load", request |-> r]
LoadingNil(r)     == [at |-> "load nil", request |-> r, result |-> nil]
Swapping(r, old, new) == [at |-> "cas", request |-> r, old |-> old, new |-> new]
Returning(r, x)   == [at |-> "return", request |-> r, result |-> x]

Goto(t, f) == frame' = [frame EXCEPT ![t] = f]

Keeps == ivarType # "assign"

None == [o \in Obj |-> 0]

Init ==
  /\ ivarType \in {"assign", "retain", "copy"}
  /\ ivar = nil
  /\ rc = None
  /\ owned = [t \in Thread |-> None]
  /\ pool = [t \in Thread |-> None]
  /\ lost = None
  /\ frame = [t \in Thread |-> Idle]

-----------------------------------------------------------------------------
(* Objects and pools, as far as the instance variable needs them.          *)

Plus(f, o, n) == IF o = nil THEN f ELSE [f EXCEPT ![o] = @ + n]

Autoreleased(t, o) == IF o = nil THEN pool ELSE [pool EXCEPT ![t][o] = @ + 1]

Alloc(t) ==
  /\ frame[t] = Idle
  /\ \E o \in Obj :
       /\ rc[o] = 0 /\ lost[o] = 0
       /\ rc' = [rc EXCEPT ![o] = 1]
       /\ owned' = [owned EXCEPT ![t][o] = 1]
  /\ UNCHANGED <<ivarType, ivar, pool, lost, frame>>

Release(t) ==
  /\ frame[t] = Idle
  /\ \E o \in Obj :
       /\ owned[t][o] > 0
       /\ rc' = [rc EXCEPT ![o] = @ - 1]
       /\ owned' = [owned EXCEPT ![t][o] = @ - 1]
  /\ UNCHANGED <<ivarType, ivar, pool, lost, frame>>

DrainPool(t) ==
  /\ frame[t] = Idle
  /\ pool[t] # None
  /\ rc' = [o \in Obj |-> rc[o] - pool[t][o]]
  /\ pool' = [pool EXCEPT ![t] = None]
  /\ UNCHANGED <<ivarType, ivar, owned, lost, frame>>

-----------------------------------------------------------------------------
(* A caller sets the variable to an object that it owns.  A thread that    *)
(* owns nothing of what it set to an assign variable is on its own.        *)

MayAsk(t, r) ==
  /\ r.op \in Updates =>
       /\ (r.op = "copy update") = (ivarType = "copy")
       /\ r.value # nil => owned[t][r.value] > 0
  /\ r.op = "release" => Keeps

(* The new value of an update, retained or copied before anything is read; *)
(* an immutable object may be its own copy.                                *)
UpdateStarts(t, r) ==
  IF ~Keeps \/ r.value = nil
  THEN Goto(t, [at |-> "update", request |-> r, new |-> r.value]) /\ UNCHANGED rc
  ELSE \E new \in {r.value} \cup (IF ivarType = "copy" THEN Obj ELSE {}) :
         /\ new # r.value => rc[new] = 0 /\ lost[new] = 0
         /\ rc[new] < MaxRefs
         /\ rc' = [rc EXCEPT ![new] = @ + 1]
         /\ Goto(t, [at |-> "update", request |-> r, new |-> new])

Call(t, r) ==
  /\ frame[t] = Idle /\ MayAsk(t, r)
  /\ IF r.op \in Updates
     THEN UpdateStarts(t, r)
     ELSE Goto(t, Reading(r)) /\ UNCHANGED rc
  /\ UNCHANGED <<ivarType, ivar, owned, pool, lost>>

(* "can't cas with same value": the reference that the update took for the *)
(* variable stays behind, if the variable has the value already.           *)
UpdateReads(t) ==
  /\ frame[t].at = "update"
  /\ LET f == frame[t] IN
     IF ivar = f.new
     THEN /\ Goto(t, Returning(f.request, ivar))
          /\ lost' = IF Keeps THEN Plus(lost, f.new, 1) ELSE lost
     ELSE Goto(t, Swapping(f.request, ivar, f.new)) /\ UNCHANGED lost
  /\ UNCHANGED <<ivarType, ivar, rc, owned, pool>>

UpdateBlindly(t) ==
  /\ frame[t].at = "cas" /\ frame[t].request.op \in Updates
  /\ LET f == frame[t] IN
     /\ ivar' = f.new
     /\ pool' = IF Keeps THEN Autoreleased(t, f.old) ELSE pool
     /\ Goto(t, Returning(f.request, f.old))
  /\ UNCHANGED <<ivarType, rc, owned, lost>>

_mulle_atomic_id_update(t) ==
  /\ frame[t].at = "cas" /\ frame[t].request.op \in Updates
  /\ LET f == frame[t] IN
     IF ivar = f.old
     THEN /\ ivar' = f.new
          /\ pool' = IF Keeps THEN Autoreleased(t, f.old) ELSE pool
          /\ Goto(t, Returning(f.request, f.old))
     ELSE /\ Goto(t, [at |-> "update", request |-> f.request, new |-> f.new])
          /\ UNCHANGED <<ivar, pool>>
  /\ UNCHANGED <<ivarType, rc, owned, lost>>

-----------------------------------------------------------------------------
_mulle_atomic_id_get(t) ==
  /\ frame[t] = Reading([op |-> "get"])
  /\ Goto(t, Returning([op |-> "get"], ivar))
  /\ UNCHANGED <<ivarType, ivar, rc, owned, pool, lost>>

ReleaseReads(t) ==
  LET r == [op |-> "release"] IN
  /\ frame[t] = Reading(r)
  /\ Goto(t, IF ivar = nil THEN Returning(r, nil) ELSE Swapping(r, ivar, nil))
  /\ UNCHANGED <<ivarType, ivar, rc, owned, pool, lost>>

_mulle_atomic_id_release(t) ==
  /\ frame[t].at = "cas" /\ frame[t].request.op = "release"
  /\ LET f == frame[t] IN
     IF ivar = f.old
     THEN /\ ivar' = nil
          /\ rc' = [rc EXCEPT ![f.old] = @ - 1]
          /\ Goto(t, Returning(f.request, f.old))
     ELSE Goto(t, Reading(f.request)) /\ UNCHANGED <<ivar, rc>>
  /\ UNCHANGED <<ivarType, owned, pool, lost>>

-----------------------------------------------------------------------------
(* The lazy loader returns nil, an object that the thread has already, or  *)
(* a new autoreleased one.  Which it will be is chosen before it runs: a   *)
(* lazy get that returns nil takes effect when it reads nil.               *)

LazyReads(t) ==
  LET r == [op |-> "lazy"] IN
  /\ frame[t] = Reading(r)
  /\ IF ivar # nil
     THEN Goto(t, Returning(r, ivar))
     ELSE Goto(t, Loading(r)) \/ Goto(t, LoadingNil(r))
  /\ UNCHANGED <<ivarType, ivar, rc, owned, pool, lost>>

LoaderReturnsNil(t) ==
  LET r == [op |-> "lazy"] IN
  /\ frame[t] = LoadingNil(r)
  /\ Goto(t, Returning(r, nil))
  /\ UNCHANGED <<ivarType, ivar, rc, owned, pool, lost>>

LoaderReturns(t) ==
  LET r == [op |-> "lazy"] IN
  /\ frame[t] = Loading(r)
  /\ \E o, new \in Obj :
       LET fresh == rc[o] = 0 /\ lost[o] = 0
           keep  == IF Keeps THEN 1 ELSE 0
           made  == IF fresh THEN 1 ELSE 0
       IN /\ fresh \/ owned[t][o] > 0
          /\ new # o => ivarType = "copy" /\ rc[new] = 0 /\ lost[new] = 0
          /\ rc[new] + keep + made <= MaxRefs
          /\ rc' = Plus(Plus(rc, o, made), new, keep)
          /\ pool' = IF fresh THEN Autoreleased(t, o) ELSE pool
          /\ Goto(t, Swapping(r, nil, new))
  /\ UNCHANGED <<ivarType, ivar, owned, lost>>

LazyForgets(t) ==
  /\ frame[t].at = "cas" /\ frame[t].request.op = "lazy"
  /\ LET f == frame[t] IN
     IF ivar = nil
     THEN ivar' = f.new /\ Goto(t, Returning(f.request, f.new))
     ELSE Goto(t, Reading(f.request)) /\ UNCHANGED ivar
  /\ UNCHANGED <<ivarType, rc, owned, pool, lost>>

_MulleObjCAtomicIdGetLazy(t) ==
  /\ frame[t].at = "cas" /\ frame[t].request.op = "lazy"
  /\ LET f == frame[t] IN
     IF ivar = nil
     THEN /\ ivar' = f.new
          /\ Goto(t, Returning(f.request, f.new))
          /\ UNCHANGED rc
     ELSE /\ rc' = IF Keeps THEN Plus(rc, f.new, -1) ELSE rc
          /\ Goto(t, Reading(f.request))
          /\ UNCHANGED ivar
  /\ UNCHANGED <<ivarType, owned, pool, lost>>

Return(t) ==
  /\ frame[t].at = "return"
  /\ Goto(t, Idle)
  /\ UNCHANGED <<ivarType, ivar, rc, owned, pool, lost>>

Next ==
  \E t \in Thread :
    \/ Alloc(t) \/ Release(t) \/ DrainPool(t)
    \/ \E r \in Request : Call(t, r)
    \/ UpdateReads(t) \/ _mulle_atomic_id_update(t)
    \/ _mulle_atomic_id_get(t)
    \/ ReleaseReads(t) \/ _mulle_atomic_id_release(t)
    \/ LazyReads(t) \/ LoaderReturnsNil(t) \/ LoaderReturns(t)
    \/ _MulleObjCAtomicIdGetLazy(t)
    \/ Return(t)

Spec == Init /\ [][Next]_vars

-----------------------------------------------------------------------------
(* References that a call in progress has taken for the variable.          *)
Carries(t, o) ==
  Keeps /\ frame[t].at \in {"update", "cas"} /\ frame[t].new = o

(* No thread frees an object that the variable or a caller still refers to,*)
(* and none is forgotten: retain counts are the sum of what callers own,   *)
(* what pools will release, what the variable and calls in progress hold,  *)
(* and what setting the same object twice lost.                            *)
IvarReferencesBalance ==
  \A o \in Obj :
    /\ lost[o] > 0 => Keeps
    /\ LET Sum(f) == SumFunction([t \in Thread |-> f[t][o]]) IN
       rc[o] = Sum(owned) + Sum(pool) + lost[o]
               + (IF Keeps /\ ivar = o THEN 1 ELSE 0)
               + Cardinality({t \in Thread : Carries(t, o)})

Effects(r, v) ==
  CASE r.op = "get"     -> {v}
    [] r.op = "release" -> {nil}
    [] r.op = "lazy"    -> IF v = nil THEN Value ELSE {v}
    [] r.op = "update"  -> {r.value}
    [] r.op = "copy update" -> IF r.value = nil THEN {nil} ELSE Obj

Result(r, v, w) == IF r.op = "lazy" THEN w ELSE v

AbstractCall(f) ==
  IF f.at = "idle" THEN [at |-> "idle"]
  ELSE IF f.at \in {"return", "load nil"}
  THEN [at |-> "answered", request |-> f.request, result |-> f.result]
  ELSE [at |-> "pending", request |-> f.request]

Register == INSTANCE AtomicRegister
  WITH value <- ivar, call <- [t \in Thread |-> AbstractCall(frame[t])]

(* Getter, setter, release and lazy getter are atomic: the value that one  *)
(* of them takes out of the variable no other one takes, and all threads   *)
(* get the same lazy value.                                                *)
IdsAreAtomic == Register!Spec
=============================================================================
