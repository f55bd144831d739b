------------------------------- MODULE MCLocks -------------------------------
(***************************************************************************)
(* An NSConditionLock, an NSLock, and NSRecursiveLocks as MulleObjects use *)
(* them, once if locks are shared before others see the object, and once   *)
(* if an object exchanges its lock while other threads have it or wait for *)
(* it.  A behaviour exercises one of the four, chosen by its initial state.*)
(***************************************************************************)
EXTENDS ConditionLock, TLC

CONSTANTS Caller, Object, NoLock, SharesEarly, LocksByHand, MaxCalls, MaxTime

ASSUME CallerAssumption ==
  /\ NoThread \notin Caller
  /\ Object \subseteq Nat /\ NoLock \notin Object
  /\ SharesEarly \in BOOLEAN /\ LocksByHand \in BOOLEAN /\ MaxCalls \in Nat

VARIABLES lockClass, owner, frame, inside, now,
          __lock, thread_id, private, _lock, pending, stack

(* Every thread makes every call, with every value.                        *)
AnyCall  ==
  [t \in Thread |-> {r \in Request : r.mode = "any" => r.value = LockRequest.value}]
AnyValue == [t \in Thread |-> Value]

MulleObject == INSTANCE AutolockingObject WITH Thread <- Caller, mutex <- _lock

Exchanged == INSTANCE AutolockingObject
  WITH Thread <- Caller, mutex <- _lock, SharesEarly <- FALSE, LocksByHand <- FALSE

NSLock == INSTANCE PlainLock

plainVars  == <<owner, frame, inside, now>>
objectVars == <<__lock, thread_id, private, _lock, pending, stack>>
mcVars     == <<lockClass, vars, plainVars, objectVars>>

\* What a behaviour leaves alone keeps one of its initial states.
MCInit ==
  /\ lockClass \in {"NSConditionLock", "NSLock", "NSRecursiveLock", "ExchangedLock"}
  /\ Init /\ NSLock!Init /\ MulleObject!Init
  /\ lockClass \in {"NSConditionLock", "NSLock"} =>
       \A o \in Object : __lock[o] # NoLock /\ private[o] = CHOOSE t \in Caller : TRUE
  /\ lockClass # "NSConditionLock" => condition = CHOOSE v \in Value : TRUE

(* The real system may stop here: an exchange can change the order in      *)
(* which locks are taken, so that threads wait for each other.             *)
AllWait ==
  (\A t \in Caller : Exchanged!Calls(t) /\ Exchanged!Top(t).at = "locking") /\ UNCHANGED mcVars

MCNext ==
  /\ UNCHANGED lockClass
  /\ \/ lockClass = "NSConditionLock" /\ Next /\ UNCHANGED <<plainVars, objectVars>>
     \/ lockClass = "NSLock" /\ NSLock!Next /\ UNCHANGED <<vars, objectVars>>
     \/ lockClass = "NSRecursiveLock" /\ MulleObject!Next /\ UNCHANGED <<vars, plainVars>>
     \/ lockClass = "ExchangedLock" /\ Exchanged!Next /\ UNCHANGED <<vars, plainVars>>
     \/ lockClass = "ExchangedLock" /\ AllWait

MCSpec == MCInit /\ [][MCNext]_mcVars

Symmetry == Permutations(Thread) \cup Permutations(Caller)

(* Bound of the behaviours in which locks are exchanged: threads call when *)
(* every object is known to all of them, one of the objects keeps a lock,  *)
(* and at most one old lock waits in the pools.  A behaviour ends where a  *)
(* lock is freed under a call: what is read then is undefined.             *)
ExchangesInBounds ==
  lockClass = "ExchangedLock" =>
    /\ (\E o \in Object : private[o] # NoThread) => \A t \in Caller : stack[t] = <<>>
    /\ \E o \in Object : __lock[o] # NoLock
    /\ Cardinality(UNION {pending[t] : t \in Caller}) <= 1
    /\ Exchanged!LocksOutliveCalls

(* At most one thread is told that it has an NSLock, and the mutex is      *)
(* locked exactly while there is one.                                      *)
LockExcludes == NSLock!LockExcludes

(* No two threads are inside methods of an object, if locks are shared     *)
(* before others see the object.                                           *)
MethodsExclude == lockClass # "ExchangedLock" => MulleObject!MethodsExclude

(* Method calls leave locks as they found them, whoever exchanges the lock *)
(* of the object meanwhile.                                                *)
LocksBalance ==
  IF lockClass = "ExchangedLock" THEN Exchanged!LocksBalance ELSE MulleObject!LocksBalance
=============================================================================
