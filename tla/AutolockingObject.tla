-------------------------- MODULE AutolockingObject --------------------------
(***************************************************************************)
(* MulleObject: every method call that is not marked thread safe goes      *)
(* through -__lockingForward:, which takes the recursive lock of the       *)
(* object.  Objects can share a lock (-shareRecursiveLock:), or have none  *)
(* until they share one; they are then bound to a thread.                  *)
(***************************************************************************)
EXTENDS Integers, Sequences, FiniteSets, SequencesExt

CONSTANTS
  Thread,
  NoThread,
  Object,       \* numbers; the lock made by -init of an object has its number
  NoLock,
  SharesEarly,  \* do threads share locks only before others see the object?
  LocksByHand,  \* does client code use -lock and -unlock?
  MaxCalls      \* bound: nested calls of a thread

VARIABLES
  __lock,       \* __lock[o]: the lock an object uses
  thread_id,    \* thread_id[o]: the thread that it is bound to, or NoThread
  private,      \* private[o]: the only thread that knows the object, or NoThread
  mutex,        \* mutex[l]: owner and depth of a recursive lock
  pending,      \* pending[t]: old locks in the autorelease pool of a thread
  stack         \* stack[t]: the calls a thread is in

vars == <<__lock, thread_id, private, mutex, pending, stack>>

Lock == Object

Init ==
  /\ __lock \in {f \in [Object -> Lock \cup {NoLock}] : \A o \in Object : f[o] \in {o, NoLock}}
  /\ private \in [Object -> Thread]
  /\ thread_id = [o \in Object |-> IF __lock[o] = NoLock THEN private[o] ELSE NoThread]
  /\ mutex = [l \in Lock |-> [owner |-> NoThread, depth |-> 0]]
  /\ pending = [t \in Thread |-> {}]
  /\ stack = [t \in Thread |-> <<>>]

-----------------------------------------------------------------------------
(* NSRecursiveLock                                                         *)

CanLock(t, l) == IF l = NoLock THEN TRUE ELSE mutex[l].owner \in {t, NoThread}

_MulleObjCRecursiveLockLock(t, l) ==
  mutex' = IF l = NoLock THEN mutex
           ELSE [mutex EXCEPT ![l] = [owner |-> t, depth |-> @.depth + 1]]

UnlockAtOnce(l) ==
  mutex' = IF l = NoLock THEN mutex
           ELSE [mutex EXCEPT ![l] = [owner |-> NoThread, depth |-> 0]]

_MulleObjCRecursiveLockUnlock(l) ==
  mutex' = IF l = NoLock THEN mutex
           ELSE [mutex EXCEPT ![l] = [owner |-> IF @.depth = 1 THEN NoThread ELSE @.owner,
                                      depth |-> @.depth - 1]]

-----------------------------------------------------------------------------
Calls(t)  == stack[t] # <<>>
Top(t)    == Last(stack[t])
Runs(t)   == Calls(t) => Top(t).at = "inside" /\ Top(t).kind # "share"
Push(t, f) == stack' = [stack EXCEPT ![t] = Append(@, f)]
SetTop(t, f) == stack' = [stack EXCEPT ![t] = Front(@) \o <<f>>]
Pop(t)    == stack' = [stack EXCEPT ![t] = Front(@)]

Frame(kind, o, new) ==
  [kind |-> kind, object |-> o, new |-> new, lock |-> NoLock, at |-> "called"]

Held(t) == {stack[t][i].lock : i \in DOMAIN stack[t]} \ {NoLock}

(* Client code calls objects that it knows and that are not bound to       *)
(* another thread, and takes different locks in one order.                 *)
MayCall(t, o) ==
  /\ Runs(t) /\ Len(stack[t]) < MaxCalls
  /\ private[o] \in {t, NoThread}
  /\ thread_id[o] \in {t, NoThread}
  /\ __lock[o] \notin Held(t) \cup {NoLock} => \A l \in Held(t) : l < __lock[o]

Call(t, o) ==
  /\ MayCall(t, o)
  /\ Push(t, Frame("method", o, NoLock))
  /\ UNCHANGED <<__lock, thread_id, private, mutex, pending>>

(* Between -lock and -unlock client code does not share the lock.          *)
MayShare(t, o) ==
  /\ ~ \E i \in DOMAIN stack[t] : stack[t][i].kind = "manual" /\ stack[t][i].object = o
  /\ SharesEarly => private[o] = t

(* Thread safe itself; reads the lock of other without locking other.      *)
shareRecursiveLockWithObject(t, o, new) ==
  /\ MayCall(t, o) /\ MayShare(t, o)
  /\ Push(t, Frame("share", o, new))
  /\ UNCHANGED <<__lock, thread_id, private, mutex, pending>>

__lockingForward(t) ==
  /\ Calls(t) /\ Top(t).at = "called"
  /\ SetTop(t, [Top(t) EXCEPT !.lock = __lock[Top(t).object], !.at = "locking"])
  /\ UNCHANGED <<__lock, thread_id, private, mutex, pending>>

Locked(t) ==
  /\ Calls(t) /\ Top(t).at = "locking" /\ CanLock(t, Top(t).lock)
  /\ _MulleObjCRecursiveLockLock(t, Top(t).lock)
  /\ SetTop(t, [Top(t) EXCEPT !.at = "inside"])
  /\ UNCHANGED <<__lock, thread_id, private, pending>>

didShareRecursiveLock(t, o, lock) ==
  thread_id' = [thread_id EXCEPT ![o] = IF lock = NoLock THEN t ELSE NoThread]

shareRecursiveLock(t) ==
  /\ Calls(t) /\ Top(t).kind = "share" /\ Top(t).at = "inside"
  /\ LET o == Top(t).object
         new == Top(t).new
     IN IF new = __lock[o]
        THEN UNCHANGED <<__lock, thread_id, pending>>
        ELSE /\ pending' = [pending EXCEPT ![t] = @ \cup ({__lock[o]} \ {NoLock})]
             /\ __lock' = [__lock EXCEPT ![o] = new]
             /\ didShareRecursiveLock(t, o, new)
  /\ SetTop(t, [Top(t) EXCEPT !.at = "shared"])
  /\ UNCHANGED <<private, mutex>>

ReturnRereading(t) ==
  /\ Calls(t) /\ Top(t).kind # "manual"
  /\ Top(t).at = IF Top(t).kind = "share" THEN "shared" ELSE "inside"
  /\ _MulleObjCRecursiveLockUnlock(__lock[Top(t).object])
  /\ Pop(t)
  /\ UNCHANGED <<__lock, thread_id, private, pending>>

(* "it's vital, that we increment and decrement the identical lock"        *)
Return(t) ==
  /\ Calls(t) /\ Top(t).kind # "manual"
  /\ Top(t).at = IF Top(t).kind = "share" THEN "shared" ELSE "inside"
  /\ _MulleObjCRecursiveLockUnlock(Top(t).lock)
  /\ Pop(t)
  /\ UNCHANGED <<__lock, thread_id, private, pending>>

-----------------------------------------------------------------------------
(* -lock, -tryLock and -unlock, or MulleObjCLockDo(), by client code.      *)

_MulleObjectLock(t, o) ==
  /\ LocksByHand /\ MayCall(t, o)
  /\ Push(t, [Frame("manual", o, NoLock) EXCEPT !.lock = __lock[o], !.at = "locking"])
  /\ UNCHANGED <<__lock, thread_id, private, mutex, pending>>

_MulleObjectTryLock(t, o) ==
  /\ LocksByHand /\ MayCall(t, o)
  /\ __lock[o] # NoLock /\ CanLock(t, __lock[o])
  /\ _MulleObjCRecursiveLockLock(t, __lock[o])
  /\ Push(t, [Frame("manual", o, NoLock) EXCEPT !.lock = __lock[o], !.at = "inside"])
  /\ UNCHANGED <<__lock, thread_id, private, pending>>

(* Reads the lock of the object again.                                     *)
_MulleObjectUnlock(t) ==
  /\ Calls(t) /\ Top(t).kind = "manual" /\ Top(t).at = "inside"
  /\ _MulleObjCRecursiveLockUnlock(__lock[Top(t).object])
  /\ Pop(t)
  /\ UNCHANGED <<__lock, thread_id, private, pending>>

-----------------------------------------------------------------------------
(* Other threads get to know an object that is not bound to its thread.    *)
Publish(t, o) ==
  /\ Runs(t) /\ private[o] = t /\ thread_id[o] = NoThread
  /\ \A i \in DOMAIN stack[t] : stack[t][i].object # o
  /\ private' = [private EXCEPT ![o] = NoThread]
  /\ UNCHANGED <<__lock, thread_id, mutex, pending, stack>>

(* "can't reap the pool inbetween"                                         *)
DrainPool(t) ==
  /\ ~Calls(t) /\ pending[t] # {}
  /\ pending' = [pending EXCEPT ![t] = {}]
  /\ UNCHANGED <<__lock, thread_id, private, mutex, stack>>

Next ==
  \E t \in Thread :
    \/ \E o \in Object :
         \/ Call(t, o)
         \/ \E other \in Object : shareRecursiveLockWithObject(t, o, __lock[other])
         \/ shareRecursiveLockWithObject(t, o, NoLock)
         \/ _MulleObjectLock(t, o)
         \/ _MulleObjectTryLock(t, o)
         \/ Publish(t, o)
    \/ __lockingForward(t)
    \/ Locked(t)
    \/ shareRecursiveLock(t)
    \/ Return(t)
    \/ _MulleObjectUnlock(t)
    \/ DrainPool(t)

Spec == Init /\ [][Next]_vars

-----------------------------------------------------------------------------
Inside(t, i) == stack[t][i].at \in {"inside", "shared"}

(* No two threads are in locked code of the same object.                   *)
MethodsExclude ==
  \A t, u \in Thread : \A i \in DOMAIN stack[t], j \in DOMAIN stack[u] :
    t # u /\ stack[t][i].at = "inside" /\ stack[u][j].at = "inside"
      => stack[t][i].object # stack[u][j].object

Alive == ({__lock[o] : o \in Object} \cup UNION {pending[t] : t \in Thread}) \ {NoLock}

(* "we don't retain it (users responsibility not to torch it)": a lock     *)
(* that a call has taken or waits for is not freed before the call has     *)
(* unlocked it, "even if the lock is no longer in use by any object".      *)
LocksOutliveCalls ==
  \A t \in Thread : \A i \in DOMAIN stack[t] :
    stack[t][i].lock # NoLock => stack[t][i].lock \in Alive

(* A recursive lock is locked as often as there are calls that locked it,  *)
(* all of its owner: an object that changes its lock in the middle of      *)
(* calls, of whatever thread, leaves no lock locked, and unlocks none that *)
(* it must not ("the proper lock count is still achieved").  If locks are  *)
(* shared before others see the object, the locks also outlive the calls.  *)
LocksBalance ==
  /\ \A l \in Alive :
       LET Uses(t) == {i \in DOMAIN stack[t] : Inside(t, i) /\ stack[t][i].lock = l}
           owner   == mutex[l].owner
       IN /\ mutex[l].depth = IF owner = NoThread THEN 0 ELSE Cardinality(Uses(owner))
          /\ owner = NoThread <=> mutex[l].depth = 0
          /\ \A t \in Thread : Uses(t) # {} => t = owner
  /\ SharesEarly => LocksOutliveCalls
=============================================================================
