------------------------------ MODULE LockProofs ------------------------------
(***************************************************************************)
(* Proofs about locks, for any number of threads: the locks that the run   *)
(* of MCLocks checks.                                                      *)
(***************************************************************************)
EXTENDS MCLocks, FiniteSetTheorems, SequenceTheorems, TLAPS

-----------------------------------------------------------------------------
(* Condition locks (ConditionLock).                                        *)

(* The request of a plain -lock is a request.                              *)
LEMMA LockRequestType == LockRequest \in Request
BY LockAssumption DEF LockRequest, Request

(* A thread that leaves for another place wakes threads only from a wait.  *)
LEMMA WokenAreWaiting ==
  ASSUME NEW b \in BOOLEAN, NEW W \in WokenBy(b)
  PROVE  W \subseteq Waiters /\ (b => W = Waiters)
BY DEF WokenBy

(* Every step keeps the types.                                             *)
LEMMA TypeStep == TypeOK /\ [Next]_vars => TypeOK'
<1> SUFFICES ASSUME TypeOK, [Next]_vars PROVE TypeOK'
  OBVIOUS
<1>1. ASSUME NEW t \in Thread, CallStep(t) PROVE TypeOK'
  BY <1>1, LockAssumption DEF TypeOK, CallStep, Call, TryCall, Goto, Place
<1>2. ASSUME NEW t \in Thread, UnlockStep(t) PROVE TypeOK'
  <2>1. PICK v \in UnlockValues[t], b \in Broadcasts : UnlockWithCondition(t, v, b)
    BY <1>2 DEF UnlockStep
  <2>2. v \in Value /\ b \in BOOLEAN
    BY LockAssumption
  <2>3. notify' \in [Thread -> BOOLEAN]
    BY <2>1, <2>2, Zenon DEF UnlockWithCondition, TypeOK
  <2> QED
    BY <2>1, <2>2, <2>3 DEF TypeOK, UnlockWithCondition, Goto, Place
<1>3. ASSUME NEW t \in Thread, RawStep(t) PROVE TypeOK'
  BY <1>3, LockRequestType DEF TypeOK, RawStep, Unlock, Wait, SignalOrBroadcast,
     WakeAndGoto, Goto, Place
<1>4. ASSUME NEW t \in Thread, InnerStep(t) PROVE TypeOK'
  BY <1>4 DEF TypeOK, InnerStep, Acquire, SetIsLocked, Test, WaitClearsFlag, WaitSleeps,
     Notify, UnlockClearsFlag, UnlockMutex, WakeAndGoto, Goto, Place
<1>5. ASSUME NEW t \in Thread, WakeSpuriously(t) PROVE TypeOK'
  BY <1>5 DEF TypeOK, WakeSpuriously, Goto, Place
<1>6. CASE UNCHANGED vars
  BY <1>6 DEF TypeOK, vars
<1> QED
  BY <1>1, <1>2, <1>3, <1>4, <1>5, <1>6 DEF Next

(* The types of the mutex, the condition, the flag and the threads' state  *)
(* hold in every state, for any set of threads, values and calls.          *)
THEOREM TypeCorrect == Spec => []TypeOK
<1>1. Init => TypeOK
  BY LockAssumption, LockRequestType DEF Init, TypeOK, Place
<1> QED
  BY <1>1, TypeStep, PTL DEF Spec

-----------------------------------------------------------------------------
(* The mutex belongs to the thread that is between lock and unlock.        *)
LEMMA MutexStep == TypeOK /\ MutexOwner /\ [Next]_vars => MutexOwner'
<1> SUFFICES ASSUME TypeOK, MutexOwner, [Next]_vars PROVE MutexOwner'
  OBVIOUS
<1> USE LockAssumption DEF TypeOK, MutexOwner, MutexPlaces, Flagged
<1>1. ASSUME NEW t \in Thread, CallStep(t) PROVE MutexOwner'
  BY <1>1 DEF CallStep, Call, TryCall, Goto
<1>2. ASSUME NEW t \in Thread, UnlockStep(t) PROVE MutexOwner'
  BY <1>2 DEF UnlockStep, UnlockWithCondition, Goto
<1>3. ASSUME NEW t \in Thread, RawStep(t) PROVE MutexOwner'
  <2>1. CASE Unlock(t) \/ Wait(t)
    BY <2>1 DEF Unlock, Wait, Goto, LockRequest
  <2>2. ASSUME NEW b \in BOOLEAN, SignalOrBroadcast(t, b) PROVE MutexOwner'
    BY <2>2, WokenAreWaiting DEF SignalOrBroadcast, WakeAndGoto, Waiters
  <2> QED
    BY <1>3, <2>1, <2>2 DEF RawStep
<1>4. ASSUME NEW t \in Thread, InnerStep(t) PROVE MutexOwner'
  <2>1. CASE Notify(t)
    BY <2>1, WokenAreWaiting DEF Notify, WakeAndGoto, Waiters
  <2>2. CASE Acquire(t) \/ SetIsLocked(t) \/ Test(t)
    BY <2>2 DEF Acquire, SetIsLocked, Test, Goto
  <2>3. CASE WaitClearsFlag(t) \/ WaitSleeps(t)
    BY <2>3 DEF WaitClearsFlag, WaitSleeps, Goto
  <2>4. CASE UnlockClearsFlag(t) \/ UnlockMutex(t)
    BY <2>4 DEF UnlockClearsFlag, UnlockMutex, Goto
  <2> QED
    BY <1>4, <2>1, <2>2, <2>3, <2>4 DEF InnerStep
<1>5. ASSUME NEW t \in Thread, WakeSpuriously(t) PROVE MutexOwner'
  BY <1>5 DEF WakeSpuriously, Goto
<1>6. CASE UNCHANGED vars
  BY <1>6 DEF vars
<1> QED
  BY <1>1, <1>2, <1>3, <1>4, <1>5, <1>6 DEF Next

(* The flag is written by the owner of the mutex only.                     *)
LEMMA FlagStep == TypeOK /\ MutexOwner /\ FlagTracksMutex /\ [Next]_vars => FlagTracksMutex'
<1> SUFFICES ASSUME TypeOK, MutexOwner, FlagTracksMutex, [Next]_vars PROVE FlagTracksMutex'
  OBVIOUS
<1> USE LockAssumption DEF TypeOK, MutexOwner, MutexPlaces, Flagged, FlagTracksMutex
<1>1. ASSUME NEW t \in Thread, CallStep(t) PROVE FlagTracksMutex'
  BY <1>1 DEF CallStep, Call, TryCall, Goto
<1>2. ASSUME NEW t \in Thread, UnlockStep(t) PROVE FlagTracksMutex'
  BY <1>2 DEF UnlockStep, UnlockWithCondition, Goto
<1>3. ASSUME NEW t \in Thread, RawStep(t) PROVE FlagTracksMutex'
  <2>1. CASE Unlock(t) \/ Wait(t)
    BY <2>1 DEF Unlock, Wait, Goto, LockRequest
  <2>2. ASSUME NEW b \in BOOLEAN, SignalOrBroadcast(t, b) PROVE FlagTracksMutex'
    BY <2>2, WokenAreWaiting DEF SignalOrBroadcast, WakeAndGoto, Waiters
  <2> QED
    BY <1>3, <2>1, <2>2 DEF RawStep
<1>4. ASSUME NEW t \in Thread, InnerStep(t) PROVE FlagTracksMutex'
  <2>1. CASE Notify(t)
    BY <2>1, WokenAreWaiting DEF Notify, WakeAndGoto, Waiters
  <2>2. CASE Acquire(t) \/ SetIsLocked(t) \/ Test(t)
    BY <2>2 DEF Acquire, SetIsLocked, Test, Goto
  <2>3. CASE WaitClearsFlag(t) \/ WaitSleeps(t)
    BY <2>3 DEF WaitClearsFlag, WaitSleeps, Goto
  <2>4. CASE UnlockClearsFlag(t) \/ UnlockMutex(t)
    BY <2>4 DEF UnlockClearsFlag, UnlockMutex, Goto
  <2> QED
    BY <1>4, <2>1, <2>2, <2>3, <2>4 DEF InnerStep
<1>5. ASSUME NEW t \in Thread, WakeSpuriously(t) PROVE FlagTracksMutex'
  BY <1>5 DEF WakeSpuriously, Goto
<1>6. CASE UNCHANGED vars
  BY <1>6 DEF vars
<1> QED
  BY <1>1, <1>2, <1>3, <1>4, <1>5, <1>6 DEF Next

(* The condition is tested, and changed, by the owner of the mutex only.   *)
LEMMA GrantStep == TypeOK /\ MutexOwner /\ GrantedCondition /\ [Next]_vars => GrantedCondition'
<1> SUFFICES ASSUME TypeOK, MutexOwner, GrantedCondition, [Next]_vars PROVE GrantedCondition'
  OBVIOUS
<1> USE LockAssumption DEF TypeOK, MutexOwner, MutexPlaces, Flagged, GrantedCondition, Satisfied
<1>1. ASSUME NEW t \in Thread, CallStep(t) PROVE GrantedCondition'
  BY <1>1 DEF CallStep, Call, TryCall, Goto
<1>2. ASSUME NEW t \in Thread, UnlockStep(t) PROVE GrantedCondition'
  BY <1>2 DEF UnlockStep, UnlockWithCondition, Goto
<1>3. ASSUME NEW t \in Thread, RawStep(t) PROVE GrantedCondition'
  <2>1. CASE Unlock(t) \/ Wait(t)
    BY <2>1 DEF Unlock, Wait, Goto, LockRequest
  <2>2. ASSUME NEW b \in BOOLEAN, SignalOrBroadcast(t, b) PROVE GrantedCondition'
    BY <2>2, WokenAreWaiting DEF SignalOrBroadcast, WakeAndGoto, Waiters
  <2> QED
    BY <1>3, <2>1, <2>2 DEF RawStep
<1>4. ASSUME NEW t \in Thread, InnerStep(t) PROVE GrantedCondition'
  <2>1. CASE Notify(t)
    BY <2>1, WokenAreWaiting DEF Notify, WakeAndGoto, Waiters
  <2>2. CASE Acquire(t) \/ SetIsLocked(t) \/ Test(t)
    BY <2>2 DEF Acquire, SetIsLocked, Test, Goto
  <2>3. CASE WaitClearsFlag(t) \/ WaitSleeps(t)
    BY <2>3 DEF WaitClearsFlag, WaitSleeps, Goto
  <2>4. CASE UnlockClearsFlag(t) \/ UnlockMutex(t)
    BY <2>4 DEF UnlockClearsFlag, UnlockMutex, Goto
  <2> QED
    BY <1>4, <2>1, <2>2, <2>3, <2>4 DEF InnerStep
<1>5. ASSUME NEW t \in Thread, WakeSpuriously(t) PROVE GrantedCondition'
  BY <1>5 DEF WakeSpuriously, Goto
<1>6. CASE UNCHANGED vars
  BY <1>6 DEF vars
<1> QED
  BY <1>1, <1>2, <1>3, <1>4, <1>5, <1>6 DEF Next

(* The owner of the mutex is the only one that can make a sleeper's        *)
(* condition true, and it then broadcasts before it unlocks.               *)
LEMMA WakeupStep ==
  ASSUME Broadcasts \subseteq {TRUE}
  PROVE  TypeOK /\ MutexOwner /\ NoLostWakeup /\ [Next]_vars => NoLostWakeup'
<1> SUFFICES ASSUME TypeOK, MutexOwner, NoLostWakeup, [Next]_vars PROVE NoLostWakeup'
  OBVIOUS
<1> USE LockAssumption DEF TypeOK, MutexOwner, MutexPlaces, Flagged, NoLostWakeup, Oblivious, Satisfied
<1>1. ASSUME NEW t \in Thread, CallStep(t) PROVE NoLostWakeup'
  BY <1>1 DEF CallStep, Call, TryCall, Goto
<1>2. ASSUME NEW t \in Thread, UnlockStep(t) PROVE NoLostWakeup'
  <2>1. PICK v \in UnlockValues[t], b \in Broadcasts : UnlockWithCondition(t, v, b)
    BY <1>2 DEF UnlockStep
  <2>2. pc'[t] = "notifying" /\ notify'[t]
    <3>1. b = TRUE
      OBVIOUS
    <3>2. notify'[t] = b
      BY <2>1, Zenon DEF UnlockWithCondition
    <3>3. pc'[t] = "notifying"
      BY <2>1 DEF UnlockWithCondition, Goto
    <3> QED
      BY <3>1, <3>2, <3>3
  <2> QED
    BY <2>2
<1>3. ASSUME NEW t \in Thread, RawStep(t) PROVE NoLostWakeup'
  <2>1. CASE Unlock(t) \/ Wait(t)
    BY <2>1 DEF Unlock, Wait, Goto, LockRequest
  <2>2. ASSUME NEW b \in BOOLEAN, SignalOrBroadcast(t, b) PROVE NoLostWakeup'
    BY <2>2, WokenAreWaiting DEF SignalOrBroadcast, WakeAndGoto, Waiters
  <2> QED
    BY <1>3, <2>1, <2>2 DEF RawStep
<1>4. ASSUME NEW t \in Thread, InnerStep(t) PROVE NoLostWakeup'
  <2>1. CASE Notify(t)
    BY <2>1, WokenAreWaiting DEF Notify, WakeAndGoto, Waiters
  <2>2. CASE Acquire(t) \/ SetIsLocked(t) \/ Test(t)
    BY <2>2 DEF Acquire, SetIsLocked, Test, Goto
  <2>3. CASE WaitClearsFlag(t) \/ WaitSleeps(t)
    BY <2>3 DEF WaitClearsFlag, WaitSleeps, Goto
  <2>4. CASE UnlockClearsFlag(t) \/ UnlockMutex(t)
    BY <2>4 DEF UnlockClearsFlag, UnlockMutex, Goto
  <2> QED
    BY <1>4, <2>1, <2>2, <2>3, <2>4 DEF InnerStep
<1>5. ASSUME NEW t \in Thread, WakeSpuriously(t) PROVE NoLostWakeup'
  BY <1>5 DEF WakeSpuriously, Goto
<1>6. CASE UNCHANGED vars
  BY <1>6 DEF vars
<1> QED
  BY <1>1, <1>2, <1>3, <1>4, <1>5, <1>6 DEF Next

-----------------------------------------------------------------------------
(* One thread is inside the mutex of an NSCondition at a time, the flag    *)
(* mulleIsLocked says whether a client has it, and whoever came back from  *)
(* a lock call has the condition it asked for: the lock is safe.           *)
THEOREM LockSafety == Spec => []LockIsSafe
<1>1. Init => TypeOK /\ MutexOwner /\ FlagTracksMutex /\ GrantedCondition
  BY LockAssumption, LockRequestType DEF Init, TypeOK, Place, MutexOwner, FlagTracksMutex,
     GrantedCondition, MutexPlaces, Flagged
<1>2. MutexOwner /\ FlagTracksMutex /\ GrantedCondition => LockIsSafe
  BY DEF LockIsSafe
<1> QED
  BY <1>1, <1>2, TypeStep, MutexStep, FlagStep, GrantStep, PTL DEF Spec

(* If every unlock broadcasts, no thread stays asleep in a lock call whose *)
(* condition holds, unless the broadcast is the next thing to happen.      *)
THEOREM WakeupSafety ==
  ASSUME Broadcasts \subseteq {TRUE}
  PROVE  Spec => []NoLostWakeup
<1>1. Init => TypeOK /\ MutexOwner /\ NoLostWakeup
  BY LockAssumption, LockRequestType DEF Init, TypeOK, Place, MutexOwner, NoLostWakeup,
     MutexPlaces, Flagged
<1> QED
  BY <1>1, TypeStep, MutexStep, WakeupStep, PTL DEF Spec

-----------------------------------------------------------------------------
(* Every step of the detailed lock is a step of the guarded lock, or       *)
(* changes neither its holder nor its condition.                           *)
LEMMA RefinementStep == TypeOK /\ MutexOwner /\ [Next]_vars => [GL!Next]_(GL!gvars)
<1> SUFFICES ASSUME TypeOK, MutexOwner, [Next]_vars PROVE [GL!Next]_(GL!gvars)
  OBVIOUS
<1> USE LockAssumption DEF TypeOK, MutexOwner, MutexPlaces, Flagged, Holder
<1>a. ASSUME Holder' = Holder, UNCHANGED <<condition, request>> PROVE [GL!Next]_(GL!gvars)
  BY <1>a DEF GL!gvars, Asked
<1>b. ASSUME NEW t \in Thread, NEW r \in Request, request' = [request EXCEPT ![t] = r]
      PROVE  Asked' = [Asked EXCEPT ![t] = {v \in Value : Satisfied(r, v)}]
  BY <1>b DEF Asked
<1>1. ASSUME NEW t \in Thread, CallStep(t) PROVE [GL!Next]_(GL!gvars)
  <2>1. PICK r \in Request : Call(t, r) \/ TryCall(t, r)
    BY <1>1 DEF CallStep
  <2>2. Holder' = Holder /\ Holder # t /\ condition' = condition
    BY <2>1 DEF Call, TryCall, Goto
  <2>3. CASE UNCHANGED request
    BY <2>2, <2>3, <1>a
  <2>4. CASE request' = [request EXCEPT ![t] = r]
    <3>1. GL!Ask(t, {v \in Value : Satisfied(r, v)})
      BY <2>2, <2>4, <1>b DEF GL!Ask
    <3> QED
      BY <3>1 DEF GL!Next
  <2> QED
    BY <2>1, <2>3, <2>4 DEF Call, TryCall
<1>2. ASSUME NEW t \in Thread, UnlockStep(t) PROVE [GL!Next]_(GL!gvars)
  <2>1. PICK v \in Value, b \in BOOLEAN : UnlockWithCondition(t, v, b)
    BY <1>2 DEF UnlockStep
  <2>2. GL!Change(t, v)
    BY <2>1 DEF UnlockWithCondition, Goto, GL!Change, Asked
  <2> QED
    BY <2>2 DEF GL!Next
<1>3. ASSUME NEW t \in Thread, RawStep(t) PROVE [GL!Next]_(GL!gvars)
  <2>1. CASE Unlock(t)
    <3>1. GL!Release(t)
      BY <2>1 DEF Unlock, Goto, GL!Release, Asked
    <3> QED
      BY <3>1 DEF GL!Next
  <2>2. CASE Wait(t)
    <3>1. Asked' = [Asked EXCEPT ![t] = {v \in Value : Satisfied(LockRequest, v)}]
      BY <2>2, <1>b, LockRequestType DEF Wait
    <3>2. {v \in Value : Satisfied(LockRequest, v)} = Value
      BY DEF Satisfied, LockRequest
    <3>3. GL!Release(t)
      BY <2>2, <3>1, <3>2 DEF Wait, Goto, GL!Release
    <3> QED
      BY <3>3 DEF GL!Next
  <2>3. ASSUME NEW b \in BOOLEAN, SignalOrBroadcast(t, b) PROVE [GL!Next]_(GL!gvars)
    BY <2>3, <1>a, WokenAreWaiting DEF SignalOrBroadcast, WakeAndGoto, Waiters
  <2> QED
    BY <1>3, <2>1, <2>2, <2>3 DEF RawStep
<1>4. ASSUME NEW t \in Thread, InnerStep(t) PROVE [GL!Next]_(GL!gvars)
  <2>1. CASE Notify(t)
    <3>1. GL!Release(t)
      BY <2>1, WokenAreWaiting DEF Notify, WakeAndGoto, Waiters, GL!Release, Asked
    <3> QED
      BY <3>1 DEF GL!Next
  <2>2. CASE Test(t)
    <3>1. CASE Satisfied(request[t], condition)
      <4>1. GL!Grant(t)
        BY <2>2, <3>1 DEF Test, Goto, GL!Grant, Asked
      <4> QED
        BY <4>1 DEF GL!Next
    <3>2. CASE ~Satisfied(request[t], condition)
      BY <2>2, <3>2, <1>a DEF Test, Goto
    <3> QED
      BY <3>1, <3>2
  <2>3. CASE Acquire(t) \/ SetIsLocked(t) \/ WaitClearsFlag(t) \/ WaitSleeps(t)
    BY <2>3, <1>a DEF Acquire, SetIsLocked, WaitClearsFlag, WaitSleeps, Goto
  <2>4. CASE UnlockClearsFlag(t) \/ UnlockMutex(t)
    BY <2>4, <1>a DEF UnlockClearsFlag, UnlockMutex, Goto
  <2> QED
    BY <1>4, <2>1, <2>2, <2>3, <2>4 DEF InnerStep
<1>5. ASSUME NEW t \in Thread, WakeSpuriously(t) PROVE [GL!Next]_(GL!gvars)
  BY <1>5, <1>a DEF WakeSpuriously, Goto
<1>6. CASE UNCHANGED vars
  BY <1>6, <1>a DEF vars
<1> QED
  BY <1>1, <1>2, <1>3, <1>4, <1>5, <1>6 DEF Next

(* The NSConditionLock code implements the guarded lock it promises.       *)
THEOREM Refinement == Spec => ImplementsGuardedLock
<1>1. Init => GL!Init
  BY LockAssumption DEF Init, GL!Init, Holder, Asked, Satisfied, LockRequest
<1>2. Init => TypeOK /\ MutexOwner
  BY LockAssumption, LockRequestType DEF Init, TypeOK, Place, MutexOwner, MutexPlaces, Flagged
<1> QED
  BY <1>1, <1>2, TypeStep, MutexStep, RefinementStep, PTL DEF Spec, GL!Spec, ImplementsGuardedLock

-----------------------------------------------------------------------------
(* Autolocking objects (AutolockingObject): the inductive invariant.       *)

Frames ==
  [kind : {"method", "share"} \cup (IF LocksByHand THEN {"manual"} ELSE {}), object : Object, new : Object \cup {NoLock},
   lock : Object \cup {NoLock}, at : {"called", "locking", "inside", "shared"}]

Typed ==
  /\ __lock \in [Object -> Object \cup {NoLock}]
  /\ thread_id \in [Object -> Caller \cup {NoThread}]
  /\ private \in [Object -> Caller \cup {NoThread}]
  /\ _lock \in [Object -> [owner : Caller \cup {NoThread}, depth : Nat]]
  /\ pending \in [Caller -> SUBSET Object]
  /\ stack \in [Caller -> Seq(Frames)]

Depth(t) == 1 .. Len(stack[t])

(* An object that more than one thread knows has a lock.                   *)
PublicIsLocked ==
  \A o \in Object : /\ private[o] = NoThread => thread_id[o] = NoThread
                    /\ thread_id[o] = NoThread => __lock[o] # NoLock

(* What a call is doing with the lock of its object: f is its frame.       *)
LockOfCall(t, f) ==
  /\ private[f.object] \in {t, NoThread}
  /\ f.at = "called" => f.lock = NoLock
  /\ f.kind = "manual" => f.at # "called" /\ f.lock = __lock[f.object]
  /\ f.at # "called" /\ private[f.object] = NoThread => f.lock = __lock[f.object]
  /\ f.lock \in {__lock[f.object], NoLock} \cup pending[t]

(* -shareRecursiveLock: is called by the one thread that knows the object, *)
(* not between its -lock and -unlock, and calls nothing itself.            *)
SharesOnTop ==
  \A t \in Caller : \A i \in Depth(t) :
    /\ i < Len(stack[t]) => stack[t][i].kind # "share" /\ stack[t][i].at = "inside"
    /\ stack[t][i].kind = "share" =>
         /\ private[stack[t][i].object] = t
         /\ \A j \in Depth(t) :
              stack[t][j].kind = "manual" => stack[t][j].object # stack[t][i].object

CallsFit == \A t \in Caller : \A i \in Depth(t) : LockOfCall(t, stack[t][i])

(* The calls that have a lock.                                             *)
Uses(t, l) ==
  {i \in Depth(t) : stack[t][i].at \in {"inside", "shared"} /\ stack[t][i].lock = l}

Counted ==
  \A l \in Object :
    /\ _lock[l].owner = NoThread => _lock[l].depth = 0
    /\ \A t \in Caller :
         IF _lock[l].owner = t
         THEN _lock[l].depth # 0 /\ _lock[l].depth = Cardinality(Uses(t, l))
         ELSE Uses(t, l) = {}

(* This much holds whoever shares whatever lock.                           *)
Balanced == Typed /\ Counted

Inv == Balanced /\ PublicIsLocked /\ CallsFit /\ SharesOnTop

-----------------------------------------------------------------------------
(* The stack of calls.                                                     *)

(* The frame on top can be replaced, or taken off.                         *)
LEMMA TopOfStack ==
  ASSUME NEW S, NEW s \in Seq(S), s # <<>>, NEW f \in S
  PROVE  /\ Len(s) \in Nat \ {0}
         /\ MulleObject!Last(s) = s[Len(s)]
         /\ MulleObject!Front(s) \in Seq(S)
         /\ Len(MulleObject!Front(s)) = Len(s) - 1
         /\ \A i \in 1 .. Len(s) - 1 : MulleObject!Front(s)[i] = s[i]
         /\ MulleObject!Front(s) \o <<f>> = [s EXCEPT ![Len(s)] = f]
<1>1. Len(s) \in Nat \ {0} /\ \A i \in 1 .. Len(s) : s[i] \in S
  BY EmptySeq, ElementOfSeq
<1>2. PICK n \in Nat : Len(s) = n + 1
  BY <1>1
<1> DEFINE front == SubSeq(s, 1, n)
           result == front \o <<f>>
<1>3. front \in Seq(S) /\ Len(front) = n /\ \A i \in 1 .. n : front[i] = s[i]
  <2>1. \A i \in 1 .. n : s[i] \in S
    BY <1>1, <1>2
  <2>2. /\ front \in Seq(S)
        /\ Len(front) = IF 1 <= n THEN n - 1 + 1 ELSE 0
        /\ \A i \in 1 .. n - 1 + 1 : front[i] = s[1 + i - 1]
    BY <2>1, SubSeqProperties
  <2> HIDE DEF front
  <2> QED
    BY <2>2
<1>4. /\ result \in Seq(S) /\ Len(result) = n + 1
      /\ \A i \in 1 .. n + 1 : result[i] = IF i = n + 1 THEN f ELSE s[i]
  <2> HIDE DEF front
  <2>1. <<f>> \in Seq(S) /\ Len(<<f>>) = 1 /\ <<f>>[1] = f
    OBVIOUS
  <2>2. /\ result \in Seq(S)
        /\ Len(result) = Len(front) + Len(<<f>>)
        /\ \A i \in 1 .. Len(front) + Len(<<f>>) :
             result[i] = IF i <= Len(front) THEN front[i] ELSE <<f>>[i - Len(front)]
    BY <1>3, <2>1, ConcatProperties
  <2> HIDE DEF result
  <2> QED
    BY <1>3, <2>1, <2>2
<1>5. /\ [s EXCEPT ![Len(s)] = f] \in Seq(S)
      /\ Len([s EXCEPT ![Len(s)] = f]) = Len(s)
      /\ \A i \in 1 .. Len(s) : [s EXCEPT ![Len(s)] = f][i] = IF i = Len(s) THEN f ELSE s[i]
  BY <1>2, ExceptSeq
<1>6. result = [s EXCEPT ![Len(s)] = f]
  <2> HIDE DEF result
  <2> QED
    BY <1>2, <1>4, <1>5, SeqEqual
<1>7. MulleObject!Front(s) = front
  BY <1>2 DEF MulleObject!Front
<1> QED
  BY <1>1, <1>2, <1>3, <1>6, <1>7 DEF MulleObject!Last

(* A call puts a frame on top of the stack of its thread.                  *)
LEMMA PushStack ==
  ASSUME Typed, NEW t \in Caller, NEW f \in Frames, MulleObject!Push(t, f)
  PROVE  /\ stack' \in [Caller -> Seq(Frames)]
         /\ \A u \in Caller \ {t} : stack'[u] = stack[u]
         /\ Len(stack[t]) \in Nat /\ Len(stack'[t]) = Len(stack[t]) + 1
         /\ \A i \in 1 .. Len(stack[t]) : stack'[t][i] = stack[t][i]
         /\ stack'[t][Len(stack[t]) + 1] = f
<1>1. stack \in [Caller -> Seq(Frames)] /\ stack' = [stack EXCEPT ![t] = Append(@, f)]
  BY DEF Typed, MulleObject!Push
<1>2. Append(stack[t], f) \in Seq(Frames)
  BY <1>1
<1>3. /\ Len(stack[t]) \in Nat /\ Len(Append(stack[t], f)) = Len(stack[t]) + 1
      /\ \A i \in 1 .. Len(stack[t]) : Append(stack[t], f)[i] = stack[t][i]
      /\ Append(stack[t], f)[Len(stack[t]) + 1] = f
  BY <1>1
<1>4. stack'[t] = Append(stack[t], f) /\ \A u \in Caller \ {t} : stack'[u] = stack[u]
  BY <1>1
<1>5. stack' \in [Caller -> Seq(Frames)]
  BY <1>1, <1>2
<1> QED
  BY <1>3, <1>4, <1>5

(* A step of a call changes the frame on top.                              *)
LEMMA SetTopStack ==
  ASSUME Typed, NEW t \in Caller, MulleObject!Calls(t), NEW f \in Frames, MulleObject!SetTop(t, f)
  PROVE  /\ stack' \in [Caller -> Seq(Frames)]
         /\ \A u \in Caller \ {t} : stack'[u] = stack[u]
         /\ Len(stack[t]) \in Nat \ {0} /\ Len(stack'[t]) = Len(stack[t])
         /\ \A i \in 1 .. Len(stack[t]) : i # Len(stack[t]) => stack'[t][i] = stack[t][i]
         /\ stack'[t][Len(stack[t])] = f
<1>1. /\ stack \in [Caller -> Seq(Frames)] /\ stack[t] # <<>>
      /\ stack' = [stack EXCEPT ![t] = MulleObject!Front(@) \o <<f>>]
  BY DEF Typed, MulleObject!SetTop, MulleObject!Calls
<1>2. /\ Len(stack[t]) \in Nat \ {0}
      /\ stack' = [stack EXCEPT ![t] = [stack[t] EXCEPT ![Len(stack[t])] = f]]
  <2>1. stack[t] \in Seq(Frames)
    BY <1>1
  <2>2. /\ Len(stack[t]) \in Nat \ {0}
        /\ MulleObject!Front(stack[t]) \o <<f>> = [stack[t] EXCEPT ![Len(stack[t])] = f]
    BY <1>1, <2>1, TopOfStack
  <2> QED
    BY <1>1, <2>2
<1>3. /\ [stack[t] EXCEPT ![Len(stack[t])] = f] \in Seq(Frames)
      /\ Len([stack[t] EXCEPT ![Len(stack[t])] = f]) = Len(stack[t])
      /\ \A i \in 1 .. Len(stack[t]) :
           [stack[t] EXCEPT ![Len(stack[t])] = f][i] = IF i = Len(stack[t]) THEN f ELSE stack[t][i]
  BY <1>1, <1>2, ExceptSeq
<1>4. stack'[t] = [stack[t] EXCEPT ![Len(stack[t])] = f] /\ \A u \in Caller \ {t} : stack'[u] = stack[u]
  BY <1>1, <1>2
<1>5. stack' \in [Caller -> Seq(Frames)]
  BY <1>1, <1>2, <1>3
<1> QED
  BY <1>2, <1>3, <1>4, <1>5

(* A return takes it off.                                                  *)
LEMMA PopStack ==
  ASSUME Typed, NEW t \in Caller, MulleObject!Calls(t), MulleObject!Pop(t)
  PROVE  /\ stack' \in [Caller -> Seq(Frames)]
         /\ \A u \in Caller \ {t} : stack'[u] = stack[u]
         /\ Len(stack[t]) \in Nat \ {0} /\ Len(stack'[t]) = Len(stack[t]) - 1
         /\ \A i \in 1 .. Len(stack[t]) - 1 : stack'[t][i] = stack[t][i]
<1>1. /\ stack \in [Caller -> Seq(Frames)] /\ stack[t] # <<>> /\ stack[t] \in Seq(Frames)
      /\ stack' = [stack EXCEPT ![t] = MulleObject!Front(@)]
  BY DEF Typed, MulleObject!Pop, MulleObject!Calls
<1>2. Len(stack[t]) \in 1 .. Len(stack[t]) /\ Len(stack[t]) \in Nat \ {0}
  BY <1>1, EmptySeq
<1>3. stack[t][Len(stack[t])] \in Frames
  BY <1>1, <1>2, ElementOfSeq
<1>4. /\ MulleObject!Front(stack[t]) \in Seq(Frames)
      /\ Len(MulleObject!Front(stack[t])) = Len(stack[t]) - 1
      /\ \A i \in 1 .. Len(stack[t]) - 1 : MulleObject!Front(stack[t])[i] = stack[t][i]
  BY <1>1, <1>3, TopOfStack, ZenonT(30)
<1>5. stack'[t] = MulleObject!Front(stack[t]) /\ \A u \in Caller \ {t} : stack'[u] = stack[u]
  BY <1>1
<1>6. stack' \in [Caller -> Seq(Frames)]
  BY <1>1, <1>4
<1> QED
  BY <1>2, <1>4, <1>5, <1>6

(* Every call on a stack has a frame.                                     *)
LEMMA EveryFrame ==
  ASSUME Typed, NEW t \in Caller, NEW i \in Depth(t)
  PROVE  stack[t][i] \in Frames
<1>1. stack[t] \in Seq(Frames) /\ i \in 1 .. Len(stack[t])
  BY DEF Typed, Depth
<1> QED
  BY <1>1, ElementOfSeq

(* So has the call on top.                                                 *)
LEMMA TopIsFrame ==
  ASSUME Typed, NEW t \in Caller, MulleObject!Calls(t)
  PROVE  /\ Len(stack[t]) \in Nat \ {0}
         /\ MulleObject!Top(t) = stack[t][Len(stack[t])]
         /\ MulleObject!Top(t) \in Frames
<1>1. stack[t] \in Seq(Frames) /\ stack[t] # <<>>
  BY DEF Typed, MulleObject!Calls
<1>2. Len(stack[t]) \in 1 .. Len(stack[t]) /\ Len(stack[t]) \in Nat \ {0}
  BY <1>1, EmptySeq
<1> QED
  BY <1>1, <1>2, ElementOfSeq DEF MulleObject!Top, MulleObject!Last

-----------------------------------------------------------------------------
(* The locks and the calls that have them.                                 *)

(* A step of neither keeps the counts.                                     *)
LEMMA CountsKept ==
  ASSUME Counted, _lock' = _lock, \A u \in Caller, l \in Object : Uses(u, l)' = Uses(u, l)
  PROVE  Counted'
BY DEF Counted

(* The calls that have a lock can be counted.                              *)
LEMMA UsesFinite ==
  ASSUME Typed, NEW t \in Caller, NEW l \in Object
  PROVE  IsFiniteSet(Uses(t, l)) /\ Cardinality(Uses(t, l)) \in Nat
<1>1. Len(stack[t]) \in Nat
  BY DEF Typed
<1>2. IsFiniteSet(1 .. Len(stack[t]))
  BY <1>1, FS_Interval
<1>3. Uses(t, l) \in SUBSET (1 .. Len(stack[t]))
  BY DEF Uses, Depth
<1> QED
  BY <1>2, <1>3, FS_Subset, FS_CardinalityType

(* A call that gets the lock, if there is one, counts for it.              *)
LEMMA CountsTaken ==
  ASSUME Typed, Counted, NEW t \in Caller, NEW lock \in Object \cup {NoLock}, NEW k,
         MulleObject!CanLock(t, lock), MulleObject!_MulleObjCRecursiveLockLock(t, lock),
         \A u \in Caller, l \in Object :
           Uses(u, l)' = IF u = t /\ l = lock THEN Uses(u, l) \cup {k} ELSE Uses(u, l),
         \A l \in Object : k \notin Uses(t, l)
  PROVE  Counted' /\ _lock' \in [Object -> [owner : Caller \cup {NoThread}, depth : Nat]]
<1>1. CASE lock = NoLock
  BY <1>1, CallerAssumption DEF Typed, Counted, MulleObject!_MulleObjCRecursiveLockLock
<1>2. CASE lock \in Object
  <2>1. /\ _lock' = [_lock EXCEPT ![lock] = [owner |-> t, depth |-> @.depth + 1]]
        /\ _lock[lock].owner \in {t, NoThread}
    BY <1>2, CallerAssumption DEF MulleObject!_MulleObjCRecursiveLockLock, MulleObject!CanLock
  <2>2. _lock[lock].depth = Cardinality(Uses(t, lock))
    <3>1. CASE _lock[lock].owner = t
      BY <1>2, <3>1 DEF Counted
    <3>2. CASE _lock[lock].owner = NoThread
      <4>1. Uses(t, lock) = {}
        BY <1>2, <3>2, CallerAssumption DEF Counted
      <4> QED
        BY <1>2, <3>2, <4>1, FS_EmptySet DEF Counted
    <3> QED
      BY <2>1, <3>1, <3>2
  <2>3. Cardinality(Uses(t, lock)') = Cardinality(Uses(t, lock)) + 1
    BY <1>2, UsesFinite, FS_AddElement
  <2>4. \A u \in Caller \ {t} : Uses(u, lock)' = {}
    BY <1>2, <2>1, CallerAssumption DEF Counted
  <2>5. _lock' \in [Object -> [owner : Caller \cup {NoThread}, depth : Nat]]
    BY <1>2, <2>1 DEF Typed
  <2>6. /\ _lock'[lock].owner = t /\ _lock'[lock].depth = _lock[lock].depth + 1
        /\ \A l \in Object \ {lock} : _lock'[l] = _lock[l]
    BY <1>2, <2>1 DEF Typed
  <2>7. Cardinality(Uses(t, lock)) \in Nat
    BY <1>2, UsesFinite
  <2>8. ASSUME NEW l \in Object, NEW u \in Caller
        PROVE  /\ _lock'[l].owner = NoThread => _lock'[l].depth = 0
               /\ IF _lock'[l].owner = u
                  THEN _lock'[l].depth # 0 /\ _lock'[l].depth = Cardinality(Uses(u, l)')
                  ELSE Uses(u, l)' = {}
    <3>1. CASE l = lock
      BY <2>2, <2>3, <2>4, <2>6, <2>7, <3>1, CallerAssumption
    <3>2. CASE l # lock
      BY <2>6, <3>2 DEF Counted
    <3> QED
      BY <3>1, <3>2
  <2> QED
    BY <2>5, <2>8 DEF Counted
<1> QED
  BY <1>1, <1>2

(* A call that unlocks what it has locked no longer counts.                *)
LEMMA CountsGivenBack ==
  ASSUME Typed, Counted, NEW t \in Caller, NEW lock \in Object \cup {NoLock}, NEW k,
         MulleObject!_MulleObjCRecursiveLockUnlock(lock),
         \A u \in Caller, l \in Object :
           Uses(u, l)' = IF u = t /\ l = lock THEN Uses(u, l) \ {k} ELSE Uses(u, l),
         lock \in Object => k \in Uses(t, lock)
  PROVE  Counted' /\ _lock' \in [Object -> [owner : Caller \cup {NoThread}, depth : Nat]]
<1>1. CASE lock = NoLock
  BY <1>1, CallerAssumption DEF Typed, Counted, MulleObject!_MulleObjCRecursiveLockUnlock
<1>2. CASE lock \in Object
  <2>1. /\ _lock' = [_lock EXCEPT ![lock] = [owner |-> IF @.depth = 1 THEN NoThread ELSE @.owner,
                                             depth |-> @.depth - 1]]
        /\ _lock[lock].owner = t
    BY <1>2, CallerAssumption DEF MulleObject!_MulleObjCRecursiveLockUnlock, Counted
  <2>2. /\ _lock[lock].depth \in Nat \ {0}
        /\ _lock[lock].depth = Cardinality(Uses(t, lock))
    BY <1>2, <2>1 DEF Counted, Typed
  <2>3. /\ IsFiniteSet(Uses(t, lock)')
        /\ Cardinality(Uses(t, lock)') = Cardinality(Uses(t, lock)) - 1
    BY <1>2, UsesFinite, FS_RemoveElement
  <2>4. \A u \in Caller \ {t} : Uses(u, lock)' = {}
    BY <1>2, <2>1, CallerAssumption DEF Counted
  <2>5. _lock' \in [Object -> [owner : Caller \cup {NoThread}, depth : Nat]]
    BY <1>2, <2>1, <2>2 DEF Typed
  <2>6. /\ _lock'[lock].depth = _lock[lock].depth - 1
        /\ _lock'[lock].owner = IF _lock[lock].depth = 1 THEN NoThread ELSE t
        /\ \A l \in Object \ {lock} : _lock'[l] = _lock[l]
    BY <1>2, <2>1 DEF Typed
  <2>7. _lock[lock].depth = 1 => Uses(t, lock)' = {}
    BY <2>2, <2>3, FS_EmptySet
  <2>8. ASSUME NEW l \in Object, NEW u \in Caller
        PROVE  /\ _lock'[l].owner = NoThread => _lock'[l].depth = 0
               /\ IF _lock'[l].owner = u
                  THEN _lock'[l].depth # 0 /\ _lock'[l].depth = Cardinality(Uses(u, l)')
                  ELSE Uses(u, l)' = {}
    <3>1. CASE l = lock
      BY <2>2, <2>3, <2>4, <2>6, <2>7, <3>1, CallerAssumption
    <3>2. CASE l # lock
      BY <2>6, <3>2 DEF Counted
    <3> QED
      BY <3>1, <3>2
  <2> QED
    BY <2>5, <2>8 DEF Counted
<1> QED
  BY <1>1, <1>2

(* A call that begins counts if it has a lock at once.                     *)
LEMMA PushUses ==
  ASSUME Typed, NEW t \in Caller, NEW f \in Frames, MulleObject!Push(t, f)
  PROVE  /\ \A l \in Object : Len(stack[t]) + 1 \notin Uses(t, l)
         /\ \A u \in Caller, l \in Object :
              Uses(u, l)' = IF u = t /\ f.at \in {"inside", "shared"} /\ f.lock = l
                            THEN Uses(u, l) \cup {Len(stack[t]) + 1} ELSE Uses(u, l)
<1> DEFINE n == Len(stack[t])
<1>1. /\ \A u \in Caller \ {t} : stack'[u] = stack[u]
      /\ n \in Nat /\ Len(stack'[t]) = n + 1
      /\ \A i \in 1 .. n : stack'[t][i] = stack[t][i]
      /\ stack'[t][n + 1] = f
  BY PushStack
<1>2. \A u \in Caller, l \in Object :
        Uses(u, l)' = IF u = t /\ f.at \in {"inside", "shared"} /\ f.lock = l
                      THEN Uses(u, l) \cup {n + 1} ELSE Uses(u, l)
  <2>1. ASSUME NEW u \in Caller, NEW l \in Object, u # t PROVE Uses(u, l)' = Uses(u, l)
    BY <1>1, <2>1 DEF Uses, Depth
  <2>2. ASSUME NEW l \in Object
        PROVE  Uses(t, l)' = IF f.at \in {"inside", "shared"} /\ f.lock = l
                             THEN Uses(t, l) \cup {n + 1} ELSE Uses(t, l)
    <3>1. Depth(t)' = Depth(t) \cup {n + 1}
      BY <1>1 DEF Depth
    <3>2. \A i \in Depth(t) : stack'[t][i] = stack[t][i]
      BY <1>1 DEF Depth
    <3> QED
      BY <1>1, <3>1, <3>2 DEF Uses
  <2> QED
    BY <2>1, <2>2
<1>3. \A l \in Object : n + 1 \notin Uses(t, l)
  BY <1>1 DEF Uses, Depth
<1> QED
  BY <1>2, <1>3

(* A call that goes on counts from when it has its lock.                   *)
LEMMA SetTopUses ==
  ASSUME Typed, NEW t \in Caller, MulleObject!Calls(t), NEW f \in Frames, MulleObject!SetTop(t, f)
  PROVE  /\ \A u \in Caller : Depth(u)' = Depth(u)
         /\ \A u \in Caller : \A i \in Depth(u) :
              IF u = t /\ i = Len(stack[t]) THEN stack'[u][i] = f ELSE stack'[u][i] = stack[u][i]
         /\ \A u \in Caller, l \in Object :
              Uses(u, l)' =
                IF u # t THEN Uses(u, l)
                ELSE IF f.at \in {"inside", "shared"} /\ f.lock = l THEN Uses(u, l) \cup {Len(stack[t])}
                ELSE Uses(u, l) \ {Len(stack[t])}
<1> DEFINE n == Len(stack[t])
<1>1. /\ \A u \in Caller \ {t} : stack'[u] = stack[u]
      /\ n \in Nat \ {0} /\ Len(stack'[t]) = n
      /\ \A i \in 1 .. n : i # n => stack'[t][i] = stack[t][i]
      /\ stack'[t][n] = f
  BY SetTopStack
<1>2. \A u \in Caller : Depth(u)' = Depth(u)
  BY <1>1 DEF Depth
<1>3. \A u \in Caller : \A i \in Depth(u) :
        IF u = t /\ i = n THEN stack'[u][i] = f ELSE stack'[u][i] = stack[u][i]
  BY <1>1 DEF Depth
<1>4. ASSUME NEW u \in Caller, NEW l \in Object
      PROVE  Uses(u, l)' =
               IF u # t THEN Uses(u, l)
               ELSE IF f.at \in {"inside", "shared"} /\ f.lock = l THEN Uses(u, l) \cup {n}
               ELSE Uses(u, l) \ {n}
  <2>1. n \in Depth(t)
    BY <1>1 DEF Depth
  <2> QED
    BY <1>2, <1>3, <2>1 DEF Uses
<1> QED
  BY <1>2, <1>3, <1>4

(* A call that ends no longer counts.                                      *)
LEMMA PopUses ==
  ASSUME Typed, NEW t \in Caller, MulleObject!Calls(t), MulleObject!Pop(t)
  PROVE  /\ \A u \in Caller : /\ Depth(u)' \subseteq Depth(u)
                              /\ \A i \in Depth(u)' : stack'[u][i] = stack[u][i]
                              /\ \A i \in Depth(u)' : i < Len(stack'[u]) => i < Len(stack[u])
         /\ \A u \in Caller, l \in Object :
              Uses(u, l)' = IF u = t THEN Uses(u, l) \ {Len(stack[t])} ELSE Uses(u, l)
<1> DEFINE n == Len(stack[t])
<1>1. /\ \A u \in Caller \ {t} : stack'[u] = stack[u]
      /\ n \in Nat \ {0} /\ Len(stack'[t]) = n - 1
      /\ \A i \in 1 .. n - 1 : stack'[t][i] = stack[t][i]
  BY PopStack
<1>2. \A u \in Caller : /\ Depth(u)' \subseteq Depth(u)
                        /\ \A i \in Depth(u)' : stack'[u][i] = stack[u][i]
                        /\ \A i \in Depth(u)' : i < Len(stack'[u]) => i < Len(stack[u])
  <2>1. ASSUME NEW u \in Caller \ {t}
        PROVE  stack'[u] = stack[u] /\ Depth(u)' = Depth(u)
    BY <1>1 DEF Depth
  <2>2. Depth(t)' = 1 .. n - 1 /\ Depth(t) = 1 .. n
    BY <1>1 DEF Depth
  <2>3. /\ Depth(t)' \subseteq Depth(t)
        /\ \A i \in Depth(t)' : stack'[t][i] = stack[t][i]
        /\ \A i \in Depth(t)' : i < Len(stack'[t]) => i < Len(stack[t])
    <3>1. PICK k \in Nat : k = n /\ Len(stack'[t]) = k - 1 /\ Depth(t)' = 1 .. k - 1 /\ Depth(t) = 1 .. k
      BY <1>1, <2>2
    <3>2. \A i \in 1 .. k - 1 : i \in 1 .. k /\ i < k
      OBVIOUS
    <3> QED
      BY <1>1, <3>1, <3>2
  <2> QED
    BY <2>1, <2>3
<1>3. Depth(t)' = Depth(t) \ {n}
  BY <1>1 DEF Depth
<1>4. ASSUME NEW u \in Caller, NEW l \in Object
      PROVE  Uses(u, l)' = IF u = t THEN Uses(u, l) \ {n} ELSE Uses(u, l)
  <2>1. CASE u = t
    BY <1>2, <1>3, <2>1 DEF Uses
  <2>2. CASE u # t
    BY <1>1, <2>2 DEF Uses, Depth
  <2> QED
    BY <2>1, <2>2
<1> QED
  BY <1>2, <1>4

-----------------------------------------------------------------------------
(* Steps that keep the balance, whoever shares what with whom.             *)

(* A call that has no lock yet, or waits for it.                           *)
LEMMA PushKeepsBalance ==
  ASSUME Balanced, NEW t \in Caller, NEW f \in Frames,
         MulleObject!Push(t, f), f.at \in {"called", "locking"},
         UNCHANGED <<__lock, thread_id, private, _lock, pending>>
  PROVE  Balanced'
<1>1. stack' \in [Caller -> Seq(Frames)]
  BY PushStack DEF Balanced
<1>2. \A u \in Caller, l \in Object : Uses(u, l)' = Uses(u, l)
  BY PushUses DEF Balanced
<1> QED
  BY <1>1, <1>2, CountsKept DEF Balanced, Typed

(* -__lockingForward: reads the lock.                                      *)
LEMMA ForwardKeepsBalance ==
  ASSUME Balanced, NEW t \in Caller, MulleObject!__lockingForward(t)
  PROVE  Balanced'
<1>1. PICK top \in Frames :
        /\ MulleObject!Calls(t) /\ MulleObject!Top(t) = top
        /\ Len(stack[t]) \in Depth(t) /\ stack[t][Len(stack[t])] = top
  BY TopIsFrame DEF Balanced, MulleObject!__lockingForward, Depth
<1>2. PICK f \in Frames : f = [top EXCEPT !.lock = __lock[top.object], !.at = "locking"]
  <2>1. __lock[top.object] \in Object \cup {NoLock}
    BY DEF Frames, Balanced, Typed
  <2> QED
    BY <2>1 DEF Frames
<1>3. f.at = "locking"
  BY <1>2 DEF Frames
<1>4. top.at = "called" /\ MulleObject!SetTop(t, f)
      /\ UNCHANGED <<__lock, thread_id, private, _lock, pending>>
  BY <1>1, <1>2 DEF MulleObject!__lockingForward
<1>5. stack' \in [Caller -> Seq(Frames)]
  BY <1>1, <1>4, SetTopStack DEF Balanced
<1>6. \A u \in Caller, l \in Object :
        Uses(u, l)' = IF u # t THEN Uses(u, l) ELSE Uses(u, l) \ {Len(stack[t])}
  BY <1>1, <1>3, <1>4, SetTopUses DEF Balanced
<1>7. \A u \in Caller, l \in Object : Uses(u, l)' = Uses(u, l)
  BY <1>1, <1>4, <1>6 DEF Uses
<1> QED
  BY <1>4, <1>5, <1>7, CountsKept DEF Balanced, Typed

(* It gets the lock.                                                       *)
LEMMA LockedKeepsBalance ==
  ASSUME Balanced, NEW t \in Caller, MulleObject!Locked(t)
  PROVE  Balanced'
<1>1. PICK top \in Frames :
        /\ MulleObject!Calls(t) /\ MulleObject!Top(t) = top
        /\ Len(stack[t]) \in Depth(t) /\ stack[t][Len(stack[t])] = top
  BY TopIsFrame DEF Balanced, MulleObject!Locked, Depth
<1>2. PICK f \in Frames : f = [top EXCEPT !.at = "inside"]
  BY DEF Frames
<1>3. f.lock = top.lock /\ f.at = "inside" /\ top.lock \in Object \cup {NoLock}
  BY <1>2 DEF Frames
<1>4. /\ top.at = "locking" /\ MulleObject!SetTop(t, f)
      /\ MulleObject!CanLock(t, top.lock) /\ MulleObject!_MulleObjCRecursiveLockLock(t, top.lock)
      /\ UNCHANGED <<__lock, thread_id, private, pending>>
  BY <1>1, <1>2 DEF MulleObject!Locked
<1>5. stack' \in [Caller -> Seq(Frames)]
  BY <1>1, <1>4, SetTopStack DEF Balanced
<1>6. \A u \in Caller, l \in Object :
        Uses(u, l)' = IF u # t THEN Uses(u, l)
                      ELSE IF top.lock = l THEN Uses(u, l) \cup {Len(stack[t])}
                      ELSE Uses(u, l) \ {Len(stack[t])}
  BY <1>1, <1>3, <1>4, SetTopUses DEF Balanced
<1>7. \A l \in Object : Len(stack[t]) \notin Uses(t, l)
  BY <1>1, <1>4 DEF Uses
<1>8. ASSUME NEW u \in Caller, NEW l \in Object
      PROVE  Uses(u, l)' = IF u = t /\ l = top.lock THEN Uses(u, l) \cup {Len(stack[t])}
                           ELSE Uses(u, l)
  <2>1. CASE u = t /\ l # top.lock
    <3>1. Uses(u, l)' = Uses(u, l) \ {Len(stack[t])} /\ Len(stack[t]) \notin Uses(u, l)
      BY <1>6, <1>7, <2>1
    <3> QED
      BY <2>1, <3>1
  <2>2. CASE u = t /\ l = top.lock
    BY <1>6, <2>2
  <2>3. CASE u # t
    BY <1>6, <2>3
  <2> QED
    BY <2>1, <2>2, <2>3
<1>9. Counted' /\ _lock' \in [Object -> [owner : Caller \cup {NoThread}, depth : Nat]]
  BY <1>3, <1>4, <1>7, <1>8, CountsTaken DEF Balanced
<1> QED
  BY <1>4, <1>5, <1>9 DEF Balanced, Typed

(* -shareRecursiveLock: changes the lock of an object, and no count.       *)
LEMMA ShareKeepsBalance ==
  ASSUME Balanced, NEW t \in Caller, MulleObject!shareRecursiveLock(t)
  PROVE  Balanced'
<1>1. PICK top \in Frames :
        /\ MulleObject!Calls(t) /\ MulleObject!Top(t) = top
        /\ Len(stack[t]) \in Depth(t) /\ stack[t][Len(stack[t])] = top
  BY TopIsFrame DEF Balanced, MulleObject!shareRecursiveLock, Depth
<1>2. PICK f \in Frames : f = [top EXCEPT !.at = "shared"]
  BY DEF Frames
<1>3. /\ f.lock = top.lock /\ f.at = "shared"
      /\ top.new \in Object \cup {NoLock} /\ top.object \in Object
  BY <1>2 DEF Frames
<1>4. top.at = "inside" /\ MulleObject!SetTop(t, f) /\ UNCHANGED <<private, _lock>>
  BY <1>1, <1>2 DEF MulleObject!shareRecursiveLock
<1>5. stack' \in [Caller -> Seq(Frames)]
  BY <1>1, <1>4, SetTopStack DEF Balanced
<1>6. \A u \in Caller, l \in Object :
        Uses(u, l)' = IF u # t THEN Uses(u, l)
                      ELSE IF top.lock = l THEN Uses(u, l) \cup {Len(stack[t])}
                      ELSE Uses(u, l) \ {Len(stack[t])}
  BY <1>1, <1>3, <1>4, SetTopUses DEF Balanced
<1>7. \A u \in Caller, l \in Object : Uses(u, l)' = Uses(u, l)
  BY <1>1, <1>4, <1>6 DEF Uses
<1>8. /\ __lock \in [Object -> Object \cup {NoLock}]
      /\ thread_id \in [Object -> Caller \cup {NoThread}]
      /\ pending \in [Caller -> SUBSET Object]
  BY DEF Balanced, Typed
<1>9. /\ __lock' \in [Object -> Object \cup {NoLock}]
      /\ thread_id' \in [Object -> Caller \cup {NoThread}]
      /\ pending' \in [Caller -> SUBSET Object]
  <2>1. CASE UNCHANGED <<__lock, thread_id, pending>>
    BY <1>8, <2>1
  <2>2. CASE /\ __lock' = [__lock EXCEPT ![top.object] = top.new]
             /\ thread_id' = [thread_id EXCEPT ![top.object] = IF top.new = NoLock THEN t ELSE NoThread]
             /\ pending' = [pending EXCEPT ![t] = @ \cup ({__lock[top.object]} \ {NoLock})]
    <3>1. {__lock[top.object]} \ {NoLock} \in SUBSET Object
      BY <1>3, <1>8
    <3> QED
      BY <1>3, <1>8, <2>2, <3>1
  <2> QED
    BY <1>1, <2>1, <2>2 DEF MulleObject!shareRecursiveLock, MulleObject!didShareRecursiveLock
<1> QED
  BY <1>4, <1>5, <1>7, <1>9, CountsKept DEF Balanced, Typed

(* The call on top ends, and gives back the lock that it has.              *)
LEMMA PopKeepsBalance ==
  ASSUME Balanced, NEW t \in Caller, MulleObject!Calls(t), MulleObject!Pop(t),
         UNCHANGED <<__lock, thread_id, private, pending>>,
         MulleObject!Top(t).at \in {"inside", "shared"},
         MulleObject!_MulleObjCRecursiveLockUnlock(MulleObject!Top(t).lock)
  PROVE  Balanced'
<1>1. PICK top \in Frames :
        /\ MulleObject!Top(t) = top
        /\ Len(stack[t]) \in Depth(t) /\ stack[t][Len(stack[t])] = top
  BY TopIsFrame DEF Balanced, Depth
<1>2. top.lock \in Object \cup {NoLock}
  BY DEF Frames
<1>3. stack' \in [Caller -> Seq(Frames)]
  BY PopStack DEF Balanced
<1>u. \A u \in Caller, l \in Object :
        Uses(u, l)' = IF u = t THEN Uses(u, l) \ {Len(stack[t])} ELSE Uses(u, l)
  BY PopUses DEF Balanced
<1>4. \A l \in Object : Len(stack[t]) \in Uses(t, l) <=> l = top.lock
  BY <1>1 DEF Uses
<1>5. ASSUME NEW u \in Caller, NEW l \in Object
      PROVE  Uses(u, l)' = IF u = t /\ l = top.lock THEN Uses(u, l) \ {Len(stack[t])}
                           ELSE Uses(u, l)
  <2>1. CASE u = t /\ l # top.lock
    <3>1. Uses(u, l)' = Uses(u, l) \ {Len(stack[t])} /\ Len(stack[t]) \notin Uses(u, l)
      BY <1>u, <1>4, <2>1
    <3> QED
      BY <2>1, <3>1
  <2>2. CASE u = t /\ l = top.lock
    BY <1>u, <2>2
  <2>3. CASE u # t
    BY <1>u, <2>3
  <2> QED
    BY <2>1, <2>2, <2>3
<1>6. Counted' /\ _lock' \in [Object -> [owner : Caller \cup {NoThread}, depth : Nat]]
  BY <1>1, <1>2, <1>4, <1>5, CountsGivenBack DEF Balanced
<1> QED
  BY <1>3, <1>6 DEF Balanced, Typed

(* Other threads get to know the object, a pool is drained, or nothing     *)
(* happens to the calls.                                                   *)
LEMMA RestKeepsBalance ==
  ASSUME Balanced, UNCHANGED <<__lock, thread_id, _lock, stack>>,
         private' \in [Object -> Caller \cup {NoThread}], pending' \in [Caller -> SUBSET Object]
  PROVE  Balanced'
<1>1. \A u \in Caller, l \in Object : Uses(u, l)' = Uses(u, l)
  BY DEF Uses, Depth
<1>2. Counted'
  BY <1>1, CountsKept DEF Balanced
<1> QED
  BY <1>2 DEF Balanced, Typed

-----------------------------------------------------------------------------
(* Steps that put a call on the stack.                                     *)

(* A call begins.                                                          *)
LEMMA PushFits ==
  ASSUME Inv, NEW t \in Caller, NEW f \in Frames,
         MulleObject!Push(t, f), MulleObject!Runs(t), LockOfCall(t, f),
         UNCHANGED <<__lock, thread_id, private, pending>>,
         f.kind = "share" =>
           /\ private[f.object] = t
           /\ \A j \in Depth(t) : stack[t][j].kind = "manual" => stack[t][j].object # f.object
  PROVE  /\ stack' \in [Caller -> Seq(Frames)]
         /\ PublicIsLocked' /\ CallsFit' /\ SharesOnTop'
         /\ \A l \in Object : Len(stack[t]) + 1 \notin Uses(t, l)
         /\ \A u \in Caller, l \in Object :
              Uses(u, l)' = IF u = t /\ f.at \in {"inside", "shared"} /\ f.lock = l
                            THEN Uses(u, l) \cup {Len(stack[t]) + 1} ELSE Uses(u, l)
<1> DEFINE n == Len(stack[t])
<1>1. /\ stack' \in [Caller -> Seq(Frames)]
      /\ \A u \in Caller \ {t} : stack'[u] = stack[u]
      /\ n \in Nat /\ Len(stack'[t]) = n + 1
      /\ \A i \in 1 .. n : stack'[t][i] = stack[t][i]
      /\ stack'[t][n + 1] = f
  BY PushStack DEF Inv, Balanced
<1>2. n # 0 => stack[t][n].kind # "share" /\ stack[t][n].at = "inside"
  <2>1. CASE n # 0
    <3>1. MulleObject!Calls(t)
      BY <2>1 DEF MulleObject!Calls
    <3> QED
      BY <3>1, TopIsFrame DEF Inv, Balanced, MulleObject!Runs
  <2> QED
    BY <2>1
<1>3. PublicIsLocked'
  BY DEF Inv, Balanced, PublicIsLocked
<1>4. CallsFit'
  BY <1>1, SMTT(30) DEF Inv, Balanced, CallsFit, LockOfCall, Depth
<1>5. SharesOnTop'
  <2>1. ASSUME NEW u \in Caller, u # t, NEW i \in Depth(u)'
        PROVE  /\ i < Len(stack'[u]) => stack'[u][i].kind # "share" /\ stack'[u][i].at = "inside"
               /\ stack'[u][i].kind = "share" =>
                    /\ private'[stack'[u][i].object] = u
                    /\ \A j \in Depth(u)' :
                         stack'[u][j].kind = "manual" => stack'[u][j].object # stack'[u][i].object
    BY <1>1, <2>1 DEF Inv, Balanced, SharesOnTop, Depth
  <2>2. ASSUME NEW i \in 1 .. n
        PROVE  stack'[t][i].kind # "share" /\ stack'[t][i].at = "inside"
    <3>1. stack'[t][i] = stack[t][i] /\ i \in Depth(t)
      BY <1>1 DEF Depth
    <3>2. n # 0 /\ (i < n \/ i = n)
      BY <1>1
    <3>3. i < Len(stack[t]) => stack[t][i].kind # "share" /\ stack[t][i].at = "inside"
      BY <3>1 DEF Inv, Balanced, SharesOnTop
    <3>4. CASE i = n
      BY <1>2, <3>1, <3>2, <3>4
    <3>5. CASE i < n
      BY <3>1, <3>3, <3>5
    <3> QED
      BY <3>2, <3>4, <3>5
  <2>3. f.kind = "share" =>
          \A j \in 1 .. n + 1 : stack'[t][j].kind = "manual" => stack'[t][j].object # f.object
    BY <1>1 DEF Depth
  <2>4. \A i \in 1 .. n + 1 : i < n + 1 \/ i = n + 1
    BY <1>1
  <2>5. Depth(t)' = 1 .. n + 1
    BY <1>1 DEF Depth
  <2>6. ASSUME NEW i \in 1 .. n + 1
        PROVE  /\ i < Len(stack'[t]) => stack'[t][i].kind # "share" /\ stack'[t][i].at = "inside"
               /\ stack'[t][i].kind = "share" =>
                    /\ private'[stack'[t][i].object] = t
                    /\ \A j \in 1 .. n + 1 :
                         stack'[t][j].kind = "manual" => stack'[t][j].object # stack'[t][i].object
    <3>1. CASE i < n + 1
      <4>1. i \in 1 .. n
        BY <1>1, <3>1
      <4> QED
        BY <2>2, <4>1
    <3>2. CASE i = n + 1
      <4>1. stack'[t][i] = f /\ ~(i < Len(stack'[t]))
        BY <1>1, <3>2
      <4>2. private' = private
        OBVIOUS
      <4> QED
        BY <2>3, <4>1, <4>2
    <3> QED
      BY <2>4, <3>1, <3>2
  <2> QED
    BY <2>1, <2>5, <2>6 DEF SharesOnTop
<1>6. /\ \A l \in Object : n + 1 \notin Uses(t, l)
      /\ \A u \in Caller, l \in Object :
           Uses(u, l)' = IF u = t /\ f.at \in {"inside", "shared"} /\ f.lock = l
                         THEN Uses(u, l) \cup {n + 1} ELSE Uses(u, l)
  BY PushUses DEF Inv, Balanced
<1> QED
  BY <1>1, <1>3, <1>4, <1>5, <1>6

(* A call that has no lock yet, or waits for it, changes no count.         *)
LEMMA PushUnlocked ==
  ASSUME Inv, NEW t \in Caller, NEW f \in Frames,
         MulleObject!Push(t, f), MulleObject!Runs(t), LockOfCall(t, f),
         UNCHANGED <<__lock, thread_id, private, _lock, pending>>,
         f.at \in {"called", "locking"},
         f.kind = "share" =>
           /\ private[f.object] = t
           /\ \A j \in Depth(t) : stack[t][j].kind = "manual" => stack[t][j].object # f.object
  PROVE  Inv'
<1>1. /\ stack' \in [Caller -> Seq(Frames)]
      /\ PublicIsLocked' /\ CallsFit' /\ SharesOnTop'
      /\ \A u \in Caller, l \in Object : Uses(u, l)' = Uses(u, l)
  BY PushFits
<1>2. Counted'
  BY <1>1, CountsKept DEF Inv, Balanced
<1> QED
  BY <1>1, <1>2 DEF Inv, Balanced, Typed

(* A method is called.                                                     *)
LEMMA CallKeepsInv ==
  ASSUME Inv, NEW t \in Caller, NEW o \in Object, MulleObject!Call(t, o)
  PROVE  Inv'
<1> DEFINE f == MulleObject!Frame("method", o, NoLock)
<1>1. f \in Frames
  BY DEF MulleObject!Frame, Frames
<1>2. LockOfCall(t, f)
  BY DEF LockOfCall, MulleObject!Frame, MulleObject!Call, MulleObject!MayCall
<1>3. f.at = "called" /\ f.kind = "method"
  BY DEF MulleObject!Frame
<1> QED
  BY <1>1, <1>2, <1>3, PushUnlocked DEF MulleObject!Call, MulleObject!MayCall

(* -shareRecursiveLock: is called, before others know the object.          *)
LEMMA ShareCallKeepsInv ==
  ASSUME Inv, SharesEarly, NEW t \in Caller, NEW o \in Object, NEW new \in Object \cup {NoLock},
         MulleObject!shareRecursiveLockWithObject(t, o, new)
  PROVE  Inv'
<1> DEFINE f == MulleObject!Frame("share", o, new)
<1>1. f \in Frames
  BY DEF MulleObject!Frame, Frames
<1>2. LockOfCall(t, f)
  BY DEF LockOfCall, MulleObject!Frame, MulleObject!shareRecursiveLockWithObject, MulleObject!MayCall
<1>3. f.at = "called" /\ f.object = o
  BY DEF MulleObject!Frame
<1>4. /\ private[o] = t
      /\ \A j \in Depth(t) : stack[t][j].kind = "manual" => stack[t][j].object # o
  <2>1. DOMAIN stack[t] = Depth(t)
    BY DEF Inv, Balanced, Typed, Depth
  <2> QED
    BY <2>1 DEF MulleObject!shareRecursiveLockWithObject, MulleObject!MayShare
<1> QED
  BY <1>1, <1>2, <1>3, <1>4, PushUnlocked
  DEF MulleObject!shareRecursiveLockWithObject, MulleObject!MayCall

(* Client code is about to lock an object by hand.                         *)
LEMMA ManualLockKeepsInv ==
  ASSUME Inv, NEW t \in Caller, NEW o \in Object, MulleObject!_MulleObjectLock(t, o)
  PROVE  Inv'
<1>1. PICK new \in Frames : new = MulleObject!Frame("manual", o, NoLock)
  BY DEF MulleObject!Frame, Frames, MulleObject!_MulleObjectLock
<1>2. PICK f \in Frames : f = [new EXCEPT !.lock = __lock[o], !.at = "locking"]
  <2>1. __lock[o] \in Object \cup {NoLock}
    BY DEF Inv, Balanced, Typed
  <2> QED
    BY <2>1 DEF Frames
<1>f. f.kind = "manual" /\ f.object = o /\ f.lock = __lock[o] /\ f.at = "locking"
  <2>1. new.kind = "manual" /\ new.object = o
    BY <1>1 DEF MulleObject!Frame
  <2> QED
    BY <1>2, <2>1 DEF Frames
<1>3. LockOfCall(t, f)
  BY <1>f DEF LockOfCall, MulleObject!_MulleObjectLock, MulleObject!MayCall
<1>4. MulleObject!Push(t, f) /\ MulleObject!Runs(t)
      /\ UNCHANGED <<__lock, thread_id, private, _lock, pending>>
  BY <1>1, <1>2 DEF MulleObject!_MulleObjectLock, MulleObject!MayCall
<1> QED
  BY <1>f, <1>3, <1>4, PushUnlocked

(* It gets the lock at once.                                               *)
LEMMA ManualTryLockKeepsInv ==
  ASSUME Inv, NEW t \in Caller, NEW o \in Object, MulleObject!_MulleObjectTryLock(t, o)
  PROVE  Inv'
<1>1. PICK new \in Frames : new = MulleObject!Frame("manual", o, NoLock)
  BY DEF MulleObject!Frame, Frames, MulleObject!_MulleObjectTryLock
<1>2. PICK f \in Frames : f = [new EXCEPT !.lock = __lock[o], !.at = "inside"]
  <2>1. __lock[o] \in Object \cup {NoLock}
    BY DEF Inv, Balanced, Typed
  <2> QED
    BY <2>1 DEF Frames
<1>f. f.kind = "manual" /\ f.object = o /\ f.lock = __lock[o] /\ f.at = "inside"
  <2>1. new.kind = "manual" /\ new.object = o
    BY <1>1 DEF MulleObject!Frame
  <2> QED
    BY <1>2, <2>1 DEF Frames
<1>3. LockOfCall(t, f)
  BY <1>f DEF LockOfCall, MulleObject!_MulleObjectTryLock, MulleObject!MayCall
<1>4. f.at = "inside" /\ f.kind = "manual" /\ f.lock = __lock[o] /\ f.lock \in Object \cup {NoLock}
  BY <1>f DEF Frames
<1>5. MulleObject!Push(t, f) /\ MulleObject!Runs(t) /\ UNCHANGED <<__lock, thread_id, private, pending>>
  BY <1>1, <1>2 DEF MulleObject!_MulleObjectTryLock, MulleObject!MayCall
<1>6. MulleObject!CanLock(t, f.lock) /\ MulleObject!_MulleObjCRecursiveLockLock(t, f.lock)
  BY <1>4 DEF MulleObject!_MulleObjectTryLock
<1>7. /\ stack' \in [Caller -> Seq(Frames)]
      /\ PublicIsLocked' /\ CallsFit' /\ SharesOnTop'
      /\ \A l \in Object : Len(stack[t]) + 1 \notin Uses(t, l)
      /\ \A u \in Caller, l \in Object :
           Uses(u, l)' = IF u = t /\ l = f.lock THEN Uses(u, l) \cup {Len(stack[t]) + 1} ELSE Uses(u, l)
  BY <1>3, <1>4, <1>5, PushFits
<1>8. Counted' /\ _lock' \in [Object -> [owner : Caller \cup {NoThread}, depth : Nat]]
  BY <1>4, <1>6, <1>7, CountsTaken DEF Inv, Balanced
<1> QED
  BY <1>5, <1>7, <1>8 DEF Inv, Balanced, Typed

-----------------------------------------------------------------------------
(* Steps of the call on top.                                               *)

(* A call goes on.                                                         *)
LEMMA SetTopFits ==
  ASSUME Inv, NEW t \in Caller, MulleObject!Calls(t), NEW f \in Frames,
         MulleObject!SetTop(t, f), UNCHANGED private,
         f.kind = MulleObject!Top(t).kind, f.object = MulleObject!Top(t).object
  PROVE  /\ stack' \in [Caller -> Seq(Frames)]
         /\ SharesOnTop'
         /\ \A u \in Caller : Depth(u)' = Depth(u)
         /\ \A u \in Caller : \A i \in Depth(u) :
              IF u = t /\ i = Len(stack[t]) THEN stack'[u][i] = f ELSE stack'[u][i] = stack[u][i]
         /\ \A u \in Caller, l \in Object :
              Uses(u, l)' =
                IF u # t THEN Uses(u, l)
                ELSE IF f.at \in {"inside", "shared"} /\ f.lock = l THEN Uses(u, l) \cup {Len(stack[t])}
                ELSE Uses(u, l) \ {Len(stack[t])}
<1> DEFINE n == Len(stack[t])
<1>1. /\ stack' \in [Caller -> Seq(Frames)]
      /\ \A u \in Caller \ {t} : stack'[u] = stack[u]
      /\ n \in Nat \ {0} /\ Len(stack'[t]) = n
      /\ \A i \in 1 .. n : i # n => stack'[t][i] = stack[t][i]
      /\ stack'[t][n] = f
  BY SetTopStack DEF Inv, Balanced
<1>2. MulleObject!Top(t) = stack[t][n]
  BY TopIsFrame DEF Inv, Balanced
<1>3. \A u \in Caller : Depth(u)' = Depth(u)
  BY SetTopUses DEF Inv, Balanced
<1>4. \A u \in Caller : \A i \in Depth(u) :
        IF u = t /\ i = n THEN stack'[u][i] = f ELSE stack'[u][i] = stack[u][i]
  BY SetTopUses DEF Inv, Balanced
<1>5. \A u \in Caller : \A i \in Depth(u) :
        stack'[u][i].kind = stack[u][i].kind /\ stack'[u][i].object = stack[u][i].object
  BY <1>2, <1>4
<1>6. SharesOnTop'
  <2>1. \A u \in Caller : Len(stack'[u]) = Len(stack[u])
    BY <1>1
  <2>2. \A u \in Caller : \A i \in Depth(u) : i < Len(stack[u]) => stack'[u][i] = stack[u][i]
    BY <1>1 DEF Depth
  <2> QED
    BY <1>3, <1>5, <2>1, <2>2 DEF Inv, Balanced, SharesOnTop
<1>7. \A u \in Caller, l \in Object :
        Uses(u, l)' =
          IF u # t THEN Uses(u, l)
          ELSE IF f.at \in {"inside", "shared"} /\ f.lock = l THEN Uses(u, l) \cup {n}
          ELSE Uses(u, l) \ {n}
  BY SetTopUses DEF Inv, Balanced
<1> QED
  BY <1>1, <1>3, <1>4, <1>6, <1>7

(* -__lockingForward: reads the lock.                                      *)
LEMMA ForwardKeepsInv ==
  ASSUME Inv, NEW t \in Caller, MulleObject!__lockingForward(t)
  PROVE  Inv'
<1>1. PICK top \in Frames :
        /\ MulleObject!Calls(t) /\ MulleObject!Top(t) = top
        /\ Len(stack[t]) \in Depth(t) /\ stack[t][Len(stack[t])] = top
  BY TopIsFrame DEF Inv, Balanced, MulleObject!__lockingForward, Depth
<1>2. PICK f \in Frames : f = [top EXCEPT !.lock = __lock[top.object], !.at = "locking"]
  <2>1. __lock[top.object] \in Object \cup {NoLock}
    BY DEF Frames, Inv, Balanced, Typed
  <2> QED
    BY <2>1 DEF Frames
<1>3. /\ f.kind = top.kind /\ f.object = top.object
      /\ f.lock = __lock[top.object] /\ f.at = "locking"
  BY <1>2 DEF Frames
<1>4. top.at = "called" /\ MulleObject!SetTop(t, f)
      /\ UNCHANGED <<__lock, thread_id, private, _lock, pending>>
  BY <1>1, <1>2 DEF MulleObject!__lockingForward
<1>5. /\ stack' \in [Caller -> Seq(Frames)]
      /\ SharesOnTop'
      /\ \A u \in Caller : Depth(u)' = Depth(u)
      /\ \A u \in Caller : \A i \in Depth(u) :
           IF u = t /\ i = Len(stack[t]) THEN stack'[u][i] = f ELSE stack'[u][i] = stack[u][i]
      /\ \A u \in Caller, l \in Object :
           Uses(u, l)' = IF u # t THEN Uses(u, l) ELSE Uses(u, l) \ {Len(stack[t])}
  BY <1>1, <1>3, <1>4, SetTopFits
<1>6. LockOfCall(t, top)
  BY <1>1 DEF Inv, Balanced, CallsFit
<1>7. LockOfCall(t, f)'
  BY <1>3, <1>4, <1>6 DEF LockOfCall
<1>8. CallsFit'
  <2>1. ASSUME NEW u \in Caller, NEW i \in Depth(u) PROVE LockOfCall(u, stack[u][i])'
    <3>1. CASE u = t /\ i = Len(stack[t])
      BY <1>5, <1>7, <3>1 DEF LockOfCall
    <3>2. CASE ~(u = t /\ i = Len(stack[t]))
      BY <1>4, <1>5, <3>2 DEF Inv, Balanced, CallsFit, LockOfCall
    <3> QED
      BY <3>1, <3>2
  <2> QED
    BY <1>5, <2>1 DEF CallsFit
<1>9. Balanced'
  BY ForwardKeepsBalance DEF Inv
<1> QED
  BY <1>4, <1>5, <1>8, <1>9 DEF Inv, PublicIsLocked

(* It gets the lock.                                                       *)
LEMMA LockedKeepsInv ==
  ASSUME Inv, NEW t \in Caller, MulleObject!Locked(t)
  PROVE  Inv'
<1>1. PICK top \in Frames :
        /\ MulleObject!Calls(t) /\ MulleObject!Top(t) = top
        /\ Len(stack[t]) \in Depth(t) /\ stack[t][Len(stack[t])] = top
  BY TopIsFrame DEF Inv, Balanced, MulleObject!Locked, Depth
<1>2. PICK f \in Frames : f = [top EXCEPT !.at = "inside"]
  BY DEF Frames
<1>3. /\ f.kind = top.kind /\ f.object = top.object /\ f.lock = top.lock /\ f.at = "inside"
      /\ top.lock \in Object \cup {NoLock}
  BY <1>2 DEF Frames
<1>4. /\ top.at = "locking" /\ MulleObject!SetTop(t, f)
      /\ MulleObject!CanLock(t, top.lock) /\ MulleObject!_MulleObjCRecursiveLockLock(t, top.lock)
      /\ UNCHANGED <<__lock, thread_id, private, pending>>
  BY <1>1, <1>2 DEF MulleObject!Locked
<1>5. /\ stack' \in [Caller -> Seq(Frames)]
      /\ SharesOnTop'
      /\ \A u \in Caller : Depth(u)' = Depth(u)
      /\ \A u \in Caller : \A i \in Depth(u) :
           IF u = t /\ i = Len(stack[t]) THEN stack'[u][i] = f ELSE stack'[u][i] = stack[u][i]
      /\ \A u \in Caller, l \in Object :
           Uses(u, l)' = IF u # t THEN Uses(u, l)
                         ELSE IF top.lock = l THEN Uses(u, l) \cup {Len(stack[t])}
                         ELSE Uses(u, l) \ {Len(stack[t])}
  BY <1>1, <1>3, <1>4, SetTopFits
<1>6. LockOfCall(t, f)'
  BY <1>1, <1>3, <1>4 DEF LockOfCall, Inv, Balanced, CallsFit
<1>7. CallsFit'
  <2>1. ASSUME NEW u \in Caller, NEW i \in Depth(u) PROVE LockOfCall(u, stack[u][i])'
    <3>1. CASE u = t /\ i = Len(stack[t])
      BY <1>5, <1>6, <3>1 DEF LockOfCall
    <3>2. CASE ~(u = t /\ i = Len(stack[t]))
      BY <1>4, <1>5, <3>2 DEF Inv, Balanced, CallsFit, LockOfCall
    <3> QED
      BY <3>1, <3>2
  <2> QED
    BY <1>5, <2>1 DEF CallsFit
<1>8. Balanced'
  BY LockedKeepsBalance DEF Inv
<1> QED
  BY <1>4, <1>5, <1>7, <1>8 DEF Inv, PublicIsLocked

(* -shareRecursiveLock: replaces the lock; the old one goes to the pool.   *)
LEMMA ShareKeepsInv ==
  ASSUME Inv, NEW t \in Caller, MulleObject!shareRecursiveLock(t)
  PROVE  Inv'
<1>1. PICK top \in Frames :
        /\ MulleObject!Calls(t) /\ MulleObject!Top(t) = top
        /\ Len(stack[t]) \in Depth(t) /\ stack[t][Len(stack[t])] = top
  BY TopIsFrame DEF Inv, Balanced, MulleObject!shareRecursiveLock, Depth
<1>2. PICK f \in Frames : f = [top EXCEPT !.at = "shared"]
  BY DEF Frames
<1>3. /\ f.kind = top.kind /\ f.object = top.object /\ f.lock = top.lock /\ f.at = "shared"
      /\ top.new \in Object \cup {NoLock} /\ top.object \in Object
  BY <1>2 DEF Frames
<1>4. /\ top.at = "inside" /\ top.kind = "share" /\ MulleObject!SetTop(t, f)
      /\ UNCHANGED <<private, _lock>>
  BY <1>1, <1>2 DEF MulleObject!shareRecursiveLock
<1>5. /\ stack' \in [Caller -> Seq(Frames)]
      /\ SharesOnTop'
      /\ \A u \in Caller : Depth(u)' = Depth(u)
      /\ \A u \in Caller : \A i \in Depth(u) :
           IF u = t /\ i = Len(stack[t]) THEN stack'[u][i] = f ELSE stack'[u][i] = stack[u][i]
      /\ \A u \in Caller, l \in Object :
           Uses(u, l)' = IF u # t THEN Uses(u, l)
                         ELSE IF top.lock = l THEN Uses(u, l) \cup {Len(stack[t])}
                         ELSE Uses(u, l) \ {Len(stack[t])}
  BY <1>1, <1>3, <1>4, SetTopFits
<1>6. \A u \in Caller, l \in Object : Uses(u, l)' = Uses(u, l)
  BY <1>1, <1>4, <1>5 DEF Uses
<1>7. /\ private[top.object] = t
      /\ \A j \in Depth(t) : stack[t][j].kind = "manual" => stack[t][j].object # top.object
  BY <1>1, <1>4 DEF Inv, Balanced, SharesOnTop
<1>8. \/ UNCHANGED <<__lock, thread_id, pending>>
      \/ /\ __lock' = [__lock EXCEPT ![top.object] = top.new]
         /\ thread_id' = [thread_id EXCEPT ![top.object] = IF top.new = NoLock THEN t ELSE NoThread]
         /\ pending' = [pending EXCEPT ![t] = @ \cup ({__lock[top.object]} \ {NoLock})]
  BY <1>1 DEF MulleObject!shareRecursiveLock, MulleObject!didShareRecursiveLock
<1>9. /\ __lock' \in [Object -> Object \cup {NoLock}]
      /\ thread_id' \in [Object -> Caller \cup {NoThread}]
      /\ pending' \in [Caller -> SUBSET Object]
      /\ \A o \in Object \ {top.object} : __lock'[o] = __lock[o] /\ thread_id'[o] = thread_id[o]
      /\ \A u \in Caller : pending[u] \subseteq pending'[u]
      /\ __lock[top.object] \in {__lock'[top.object], NoLock} \cup pending'[t]
      /\ thread_id'[top.object] = NoThread => __lock'[top.object] # NoLock
  <2>1. CASE UNCHANGED <<__lock, thread_id, pending>>
    BY <1>3, <2>1 DEF Inv, Balanced, Typed, PublicIsLocked
  <2>2. CASE /\ __lock' = [__lock EXCEPT ![top.object] = top.new]
             /\ thread_id' = [thread_id EXCEPT ![top.object] = IF top.new = NoLock THEN t ELSE NoThread]
             /\ pending' = [pending EXCEPT ![t] = @ \cup ({__lock[top.object]} \ {NoLock})]
    <3>1. /\ __lock' \in [Object -> Object \cup {NoLock}]
          /\ __lock'[top.object] = top.new
          /\ \A o \in Object \ {top.object} : __lock'[o] = __lock[o]
      BY <1>3, <2>2 DEF Inv, Balanced, Typed
    <3>2. /\ thread_id' \in [Object -> Caller \cup {NoThread}]
          /\ thread_id'[top.object] = IF top.new = NoLock THEN t ELSE NoThread
          /\ \A o \in Object \ {top.object} : thread_id'[o] = thread_id[o]
      BY <1>3, <2>2 DEF Inv, Balanced, Typed
    <3>3. {__lock[top.object]} \ {NoLock} \in SUBSET Object
      BY <1>3 DEF Inv, Balanced, Typed
    <3>4. pending \in [Caller -> SUBSET Object]
      BY DEF Inv, Balanced, Typed
    <3>5. /\ pending' \in [Caller -> SUBSET Object]
          /\ pending'[t] = pending[t] \cup ({__lock[top.object]} \ {NoLock})
          /\ \A u \in Caller \ {t} : pending'[u] = pending[u]
      BY <2>2, <3>3, <3>4
    <3>6. \A u \in Caller : pending[u] \subseteq pending'[u]
      BY <3>5
    <3>7. __lock[top.object] \in {__lock'[top.object], NoLock} \cup pending'[t]
      BY <3>5
    <3>8. thread_id'[top.object] = NoThread => __lock'[top.object] # NoLock
      BY <3>1, <3>2, CallerAssumption
    <3> QED
      BY <3>1, <3>2, <3>5, <3>6, <3>7, <3>8
  <2> QED
    BY <1>8, <2>1, <2>2
<1>10. PublicIsLocked'
  BY <1>4, <1>7, <1>9, CallerAssumption DEF Inv, Balanced, PublicIsLocked
<1>11. ASSUME NEW u \in Caller, NEW i \in Depth(u) PROVE LockOfCall(u, stack[u][i])'
  <2> DEFINE g == stack[u][i]
  <2>1. LockOfCall(u, g) /\ g \in Frames
    BY DEF Inv, Balanced, CallsFit, Typed, Depth
  <2>2. /\ stack'[u][i].kind = g.kind /\ stack'[u][i].object = g.object /\ stack'[u][i].lock = g.lock
        /\ stack'[u][i].at = "called" <=> g.at = "called"
    BY <1>1, <1>3, <1>4, <1>5
  <2>3. CASE g.object = top.object
    <3>1. u = t
      BY <1>7, <2>1, <2>3, CallerAssumption DEF LockOfCall
    <3>2. g.kind # "manual"
      BY <1>7, <2>3, <3>1
    <3> QED
      BY <1>4, <1>7, <1>9, <2>1, <2>2, <2>3, <3>1, <3>2, CallerAssumption DEF LockOfCall
  <2>4. CASE g.object # top.object
    <3>1. g.object \in Object
      BY <2>1 DEF Frames
    <3> QED
      BY <1>4, <1>9, <2>1, <2>2, <2>4, <3>1 DEF LockOfCall
  <2> QED
    BY <2>3, <2>4
<1>12. CallsFit'
  BY <1>5, <1>11 DEF CallsFit
<1> QED
  BY <1>4, <1>5, <1>6, <1>9, <1>10, <1>12, CountsKept DEF Inv, Balanced, Typed

-----------------------------------------------------------------------------
(* Steps that take a call off the stack.                                   *)

(* A call ends, and gives back what it locked.                             *)
LEMMA PopFits ==
  ASSUME Inv, NEW t \in Caller, MulleObject!Calls(t), MulleObject!Pop(t),
         UNCHANGED <<__lock, thread_id, private, pending>>
  PROVE  /\ stack' \in [Caller -> Seq(Frames)]
         /\ PublicIsLocked' /\ CallsFit' /\ SharesOnTop'
         /\ \A u \in Caller, l \in Object :
              Uses(u, l)' = IF u = t THEN Uses(u, l) \ {Len(stack[t])} ELSE Uses(u, l)
<1> DEFINE n == Len(stack[t])
<1>1. /\ stack' \in [Caller -> Seq(Frames)]
      /\ \A u \in Caller \ {t} : stack'[u] = stack[u]
      /\ n \in Nat \ {0} /\ Len(stack'[t]) = n - 1
      /\ \A i \in 1 .. n - 1 : stack'[t][i] = stack[t][i]
  BY PopStack DEF Inv, Balanced
<1>2. \A u \in Caller : /\ Depth(u)' \subseteq Depth(u)
                        /\ \A i \in Depth(u)' : stack'[u][i] = stack[u][i]
                        /\ \A i \in Depth(u)' : i < Len(stack'[u]) => i < Len(stack[u])
  BY PopUses DEF Inv, Balanced
<1>4. PublicIsLocked' /\ CallsFit'
  BY <1>2 DEF Inv, Balanced, PublicIsLocked, CallsFit, LockOfCall
<1>5. SharesOnTop'
  BY <1>2 DEF Inv, Balanced, SharesOnTop
<1>6. \A u \in Caller, l \in Object :
        Uses(u, l)' = IF u = t THEN Uses(u, l) \ {n} ELSE Uses(u, l)
  BY PopUses DEF Inv, Balanced
<1> QED
  BY <1>1, <1>4, <1>5, <1>6

(* The call on top gives back the lock that it has.                        *)
LEMMA PopUnlocked ==
  ASSUME Inv, NEW t \in Caller, MulleObject!Calls(t), MulleObject!Pop(t),
         UNCHANGED <<__lock, thread_id, private, pending>>,
         MulleObject!Top(t).at \in {"inside", "shared"},
         MulleObject!_MulleObjCRecursiveLockUnlock(MulleObject!Top(t).lock)
  PROVE  Inv'
<1>1. PublicIsLocked' /\ CallsFit' /\ SharesOnTop'
  BY PopFits
<1>2. Balanced'
  BY PopKeepsBalance DEF Inv
<1> QED
  BY <1>1, <1>2 DEF Inv

(* A method returns, and unlocks the lock that it has locked.              *)
LEMMA ReturnKeepsInv ==
  ASSUME Inv, NEW t \in Caller, MulleObject!Return(t)
  PROVE  Inv'
<1>1. MulleObject!Top(t).at \in {"inside", "shared"}
  BY DEF MulleObject!Return
<1> QED
  BY <1>1, PopUnlocked DEF MulleObject!Return

(* Client code unlocks the object, which still has the lock it locked.     *)
LEMMA ManualUnlockKeepsInv ==
  ASSUME Inv, NEW t \in Caller, MulleObject!_MulleObjectUnlock(t)
  PROVE  Inv'
<1>1. /\ MulleObject!Calls(t) /\ MulleObject!Top(t) = stack[t][Len(stack[t])]
      /\ Len(stack[t]) \in Depth(t)
  BY TopIsFrame DEF Inv, Balanced, MulleObject!_MulleObjectUnlock, Depth
<1>2. LockOfCall(t, MulleObject!Top(t))
  BY <1>1 DEF Inv, Balanced, CallsFit
<1>3. __lock[MulleObject!Top(t).object] = MulleObject!Top(t).lock
  BY <1>2 DEF LockOfCall, MulleObject!_MulleObjectUnlock
<1> QED
  BY <1>1, <1>3, PopUnlocked DEF MulleObject!_MulleObjectUnlock

-----------------------------------------------------------------------------
(* Other threads get to know the object.                                   *)
LEMMA PublishKeepsInv ==
  ASSUME Inv, NEW t \in Caller, NEW o \in Object, MulleObject!Publish(t, o)
  PROVE  Inv'
<1>1. /\ private[o] = t /\ thread_id[o] = NoThread
      /\ private' = [private EXCEPT ![o] = NoThread]
      /\ UNCHANGED <<__lock, thread_id, _lock, pending, stack>>
      /\ \A i \in Depth(t) : stack[t][i].object # o
  <2>1. DOMAIN stack[t] = Depth(t)
    BY DEF Inv, Balanced, Typed, Depth
  <2> QED
    BY <2>1 DEF MulleObject!Publish
<1>2. /\ private' \in [Object -> Caller \cup {NoThread}] /\ private'[o] = NoThread
      /\ \A p \in Object \ {o} : private'[p] = private[p]
  BY <1>1 DEF Inv, Balanced, Typed
<1>3. PublicIsLocked'
  BY <1>1, <1>2 DEF Inv, Balanced, PublicIsLocked
<1>4. ASSUME NEW u \in Caller, NEW i \in Depth(u)
      PROVE  stack[u][i].object \in Object \ {o} /\ LockOfCall(u, stack[u][i])
  <2>1. stack[u][i].object \in Object
    BY EveryFrame DEF Inv, Balanced, Frames
  <2> QED
    BY <1>1, <2>1, CallerAssumption DEF Inv, Balanced, CallsFit, LockOfCall
<1>5. CallsFit'
  BY <1>1, <1>2, <1>4 DEF CallsFit, LockOfCall, Depth
<1>6. SharesOnTop'
  BY <1>1, <1>2, <1>4 DEF Inv, Balanced, SharesOnTop, Depth
<1>7. Counted'
  <2>1. \A u \in Caller, l \in Object : Uses(u, l)' = Uses(u, l)
    BY <1>1 DEF Uses, Depth
  <2>2. Counted /\ _lock' = _lock
    BY <1>1 DEF Inv, Balanced
  <2> QED
    BY <2>1, <2>2 DEF Counted
<1> QED
  BY <1>1, <1>2, <1>3, <1>5, <1>6, <1>7 DEF Inv, Balanced, Typed

(* A thread in no call lets go of old locks.                               *)
LEMMA DrainKeepsInv ==
  ASSUME Inv, NEW t \in Caller, MulleObject!DrainPool(t)
  PROVE  Inv'
<1>1. /\ pending' = [pending EXCEPT ![t] = {}]
      /\ UNCHANGED <<__lock, thread_id, private, _lock, stack>>
      /\ stack[t] = <<>>
  BY DEF MulleObject!DrainPool, MulleObject!Calls
<1>2. pending' \in [Caller -> SUBSET Object] /\ \A u \in Caller \ {t} : pending'[u] = pending[u]
  BY <1>1 DEF Inv, Balanced, Typed
<1>3. Depth(t) = {}
  BY <1>1 DEF Depth
<1>4. CallsFit'
  BY <1>1, <1>2, <1>3 DEF Inv, Balanced, CallsFit, LockOfCall, Depth
<1>5. Typed'
  BY <1>1, <1>2 DEF Inv, Balanced, Typed
<1>6. PublicIsLocked' /\ SharesOnTop'
  BY <1>1 DEF Inv, Balanced, PublicIsLocked, SharesOnTop, Depth
<1>7. \A u \in Caller, l \in Object : Uses(u, l)' = Uses(u, l)
  BY <1>1 DEF Uses, Depth
<1> QED
  BY <1>1, <1>4, <1>5, <1>6, <1>7, CountsKept DEF Inv, Balanced

-----------------------------------------------------------------------------
(* Every behaviour.                                                        *)

(* No object is published, no call is made.                                *)
LEMMA InvInit == MulleObject!Init => Inv
<1> SUFFICES ASSUME MulleObject!Init PROVE Inv
  OBVIOUS
<1>1. \A t \in Caller : stack[t] = <<>> /\ Depth(t) = {}
  BY DEF MulleObject!Init, Depth
<1>2. Typed
  <2>1. __lock \in [Object -> Object \cup {NoLock}] /\ private \in [Object -> Caller]
    BY DEF MulleObject!Init, MulleObject!Lock
  <2>2. thread_id \in [Object -> Caller \cup {NoThread}]
    BY <2>1 DEF MulleObject!Init
  <2>3. _lock \in [Object -> [owner : Caller \cup {NoThread}, depth : Nat]]
    BY DEF MulleObject!Init, MulleObject!Lock
  <2>4. pending \in [Caller -> SUBSET Object]
    BY DEF MulleObject!Init
  <2>5. stack \in [Caller -> Seq(Frames)]
    BY DEF MulleObject!Init
  <2> QED
    BY <2>1, <2>2, <2>3, <2>4, <2>5 DEF Typed
<1>3. PublicIsLocked
  BY CallerAssumption DEF MulleObject!Init, PublicIsLocked
<1>4. CallsFit /\ SharesOnTop
  BY <1>1 DEF CallsFit, SharesOnTop
<1>5. \A l \in Object : _lock[l].owner = NoThread /\ _lock[l].depth = 0
  BY DEF MulleObject!Init, MulleObject!Lock
<1>6. \A t \in Caller, l \in Object : Uses(t, l) = {}
  BY <1>1 DEF Uses
<1>7. Counted
  BY <1>5, <1>6, CallerAssumption DEF Counted
<1> QED
  BY <1>2, <1>3, <1>4, <1>7 DEF Inv, Balanced

(* A step that changes nothing.                                            *)
LEMMA StutterKeepsInv ==
  ASSUME Inv, UNCHANGED objectVars
  PROVE  Inv'
<1>1. UNCHANGED <<__lock, thread_id, private, _lock, pending, stack>>
  BY DEF objectVars
<1>2. Typed' /\ PublicIsLocked'
  BY <1>1 DEF Inv, Balanced, Typed, PublicIsLocked
<1>3. CallsFit' /\ SharesOnTop'
  BY <1>1 DEF Inv, Balanced, CallsFit, LockOfCall, SharesOnTop, Depth
<1>4. \A u \in Caller, l \in Object : Uses(u, l)' = Uses(u, l)
  BY <1>1 DEF Uses, Depth
<1> QED
  BY <1>1, <1>2, <1>3, <1>4, CountsKept DEF Inv, Balanced

(* Every step keeps the invariant, if locks are shared before an object is *)
(* known to more than one thread.                                          *)
LEMMA InvStep ==
  ASSUME SharesEarly, Inv, [MulleObject!Next]_objectVars
  PROVE  Inv'
<1>1. CASE UNCHANGED objectVars
  BY <1>1, StutterKeepsInv
<1>2. ASSUME NEW t \in Caller, NEW o \in Object, MulleObject!Call(t, o)
      PROVE  Inv'
  BY <1>2, CallKeepsInv
<1>3. ASSUME NEW t \in Caller, NEW o \in Object, NEW other \in Object,
             MulleObject!shareRecursiveLockWithObject(t, o, __lock[other])
      PROVE  Inv'
  <2>1. __lock[other] \in Object \cup {NoLock}
    BY DEF Inv, Balanced, Typed
  <2>2. PICK new \in Object \cup {NoLock} : new = __lock[other]
    BY <2>1
  <2>3. MulleObject!shareRecursiveLockWithObject(t, o, new)
    BY <1>3, <2>2
  <2> QED
    BY <2>3, ShareCallKeepsInv
<1>4. ASSUME NEW t \in Caller, NEW o \in Object,
             MulleObject!shareRecursiveLockWithObject(t, o, NoLock)
      PROVE  Inv'
  BY <1>4, ShareCallKeepsInv
<1>5. ASSUME NEW t \in Caller, NEW o \in Object, MulleObject!_MulleObjectLock(t, o)
      PROVE  Inv'
  BY <1>5, ManualLockKeepsInv
<1>6. ASSUME NEW t \in Caller, NEW o \in Object, MulleObject!_MulleObjectTryLock(t, o)
      PROVE  Inv'
  BY <1>6, ManualTryLockKeepsInv
<1>7. ASSUME NEW t \in Caller, NEW o \in Object, MulleObject!Publish(t, o)
      PROVE  Inv'
  BY <1>7, PublishKeepsInv
<1>8. ASSUME NEW t \in Caller, MulleObject!__lockingForward(t) PROVE Inv'
  BY <1>8, ForwardKeepsInv
<1>9. ASSUME NEW t \in Caller, MulleObject!Locked(t) PROVE Inv'
  BY <1>9, LockedKeepsInv
<1>10. ASSUME NEW t \in Caller, MulleObject!shareRecursiveLock(t) PROVE Inv'
  BY <1>10, ShareKeepsInv
<1>11. ASSUME NEW t \in Caller, MulleObject!Return(t) PROVE Inv'
  BY <1>11, ReturnKeepsInv
<1>12. ASSUME NEW t \in Caller, MulleObject!_MulleObjectUnlock(t) PROVE Inv'
  BY <1>12, ManualUnlockKeepsInv
<1>13. ASSUME NEW t \in Caller, MulleObject!DrainPool(t) PROVE Inv'
  BY <1>13, DrainKeepsInv
<1> QED
  BY <1>1, <1>2, <1>3, <1>4, <1>5, <1>6, <1>7, <1>8, <1>9, <1>10, <1>11, <1>12, <1>13
  DEF MulleObject!Next

(* Whoever is inside a method of an object that others know has its lock,  *)
(* and a lock has one owner.                                               *)
LEMMA InvExcludes == Inv => MethodsExclude
<1> SUFFICES ASSUME Inv,
                    NEW t \in Caller, NEW u \in Caller,
                    NEW i \in Depth(t), NEW j \in Depth(u),
                    t # u, stack[t][i].at = "inside", stack[u][j].at = "inside",
                    stack[t][i].object = stack[u][j].object
             PROVE  FALSE
  <2>1. \A t \in Caller : DOMAIN stack[t] = Depth(t)
    BY DEF Inv, Balanced, Typed, Depth
  <2> QED
    BY <2>1 DEF MethodsExclude, MulleObject!MethodsExclude
<1>1. PICK o \in Object : stack[t][i].object = o
  BY EveryFrame DEF Inv, Balanced, Frames
<1>2. LockOfCall(t, stack[t][i]) /\ LockOfCall(u, stack[u][j])
  BY DEF Inv, Balanced, CallsFit
<1>3. private[o] = NoThread
  BY <1>1, <1>2, CallerAssumption DEF LockOfCall
<1>4. PICK l \in Object : __lock[o] = l
  BY <1>3 DEF Inv, Balanced, PublicIsLocked, Typed
<1>5. stack[t][i].lock = l /\ stack[u][j].lock = l
  BY <1>1, <1>2, <1>3, <1>4 DEF LockOfCall
<1>6. i \in Uses(t, l) /\ j \in Uses(u, l)
  BY <1>5 DEF Uses
<1> QED
  BY <1>6 DEF Inv, Balanced, Counted

(* A lock is locked as often as there are calls that have locked it.       *)
LEMMA BalanceCounts ==
  ASSUME Balanced, NEW l \in Object
  PROVE  LET Used(t) == {i \in DOMAIN stack[t] : MulleObject!Inside(t, i) /\ stack[t][i].lock = l}
             has     == _lock[l].owner
         IN /\ _lock[l].depth = IF has = NoThread THEN 0 ELSE MulleObject!Cardinality(Used(has))
            /\ has = NoThread <=> _lock[l].depth = 0
            /\ \A t \in Caller : Used(t) # {} => t = has
<1>1. \A t \in Caller : DOMAIN stack[t] = Depth(t)
  BY DEF Balanced, Typed, Depth
<1>2. _lock[l].owner \in Caller \cup {NoThread}
  BY DEF Balanced, Typed
<1>3. /\ _lock[l].depth = IF _lock[l].owner = NoThread THEN 0
                          ELSE Cardinality(Uses(_lock[l].owner, l))
      /\ _lock[l].owner = NoThread <=> _lock[l].depth = 0
      /\ \A t \in Caller : Uses(t, l) # {} => t = _lock[l].owner
  BY <1>2, CallerAssumption DEF Balanced, Counted
<1>4. ASSUME NEW t
      PROVE  t \in Caller =>
               {i \in DOMAIN stack[t] : MulleObject!Inside(t, i) /\ stack[t][i].lock = l} = Uses(t, l)
  BY <1>1 DEF MulleObject!Inside, Uses
<1>5. \A S : MulleObject!Cardinality(S) = Cardinality(S)
  BY DEF MulleObject!Cardinality, Cardinality
<1> QED
  BY <1>2, <1>3, <1>4, <1>5

(* A lock is alive as long as a call is going to use it, if locks are      *)
(* shared early.                                                           *)
LEMMA InvOutlives == Inv => MulleObject!LocksOutliveCalls
<1> SUFFICES ASSUME Inv, NEW t \in Caller, NEW i \in Depth(t), stack[t][i].lock # NoLock
             PROVE  stack[t][i].lock \in MulleObject!Alive
  <2>1. \A t \in Caller : DOMAIN stack[t] = Depth(t)
    BY DEF Inv, Balanced, Typed, Depth
  <2> QED
    BY <2>1 DEF MulleObject!LocksOutliveCalls
<1>1. PICK f \in Frames : stack[t][i] = f
  BY EveryFrame DEF Inv, Balanced
<1>2. f.object \in Object
  BY DEF Frames
<1>3. f.lock \in {__lock[f.object], NoLock} \cup pending[t]
  BY <1>1 DEF Inv, CallsFit, LockOfCall
<1> QED
  BY <1>1, <1>2, <1>3 DEF MulleObject!Alive

(* Locks that live are locks.                                              *)
LEMMA AliveAreLocks == Balanced => MulleObject!Alive \subseteq Object
BY DEF Balanced, Typed, MulleObject!Alive

(* Both, and the balance without the lifetime if locks are shared late.    *)
LEMMA BalanceIsKept ==
  ASSUME Balanced, SharesEarly => Inv
  PROVE  LocksBalance
<1>1. MulleObject!Alive \subseteq Object
  BY AliveAreLocks
<1>2. SharesEarly => MulleObject!LocksOutliveCalls
  BY InvOutlives
<1>3. MulleObject!LocksBalance
  BY <1>1, <1>2, BalanceCounts DEF MulleObject!LocksBalance
<1>4. Exchanged!LocksBalance
  <2>1. \A S : MulleObject!Cardinality(S) = Exchanged!Cardinality(S)
    BY DEF MulleObject!Cardinality, Exchanged!Cardinality
  <2>2. MulleObject!Alive = Exchanged!Alive
    BY DEF MulleObject!Alive, Exchanged!Alive
  <2>3. \A t, i : MulleObject!Inside(t, i) <=> Exchanged!Inside(t, i)
    BY DEF MulleObject!Inside, Exchanged!Inside
  <2> QED
    BY <1>3, <2>1, <2>2, <2>3 DEF Exchanged!LocksBalance, MulleObject!LocksBalance
<1> QED
  BY <1>3, <1>4 DEF LocksBalance

(* The invariant holds in every state.                                     *)
THEOREM ObjectInv == SharesEarly => (MulleObject!Spec => []Inv)
<1> SUFFICES ASSUME SharesEarly PROVE MulleObject!Spec => []Inv
  OBVIOUS
<1>1. Inv /\ [MulleObject!Next]_MulleObject!vars => Inv'
  BY InvStep DEF MulleObject!vars, objectVars
<1> QED
  BY InvInit, <1>1, PTL DEF MulleObject!Spec

(* No two threads are in locked code of the same object (-__lockingForward:) *)
(* for as long as objects share locks before others see them.              *)
THEOREM MethodSafety == SharesEarly => (MulleObject!Spec => []MethodsExclude)
BY ObjectInv, InvExcludes, PTL

(* Every step keeps the balance, also if locks change at any time, as long *)
(* as the calls themselves lock and unlock.                                *)
LEMMA BalanceStep ==
  ASSUME ~LocksByHand, Balanced, [MulleObject!Next]_objectVars
  PROVE  Balanced'
<1> DEFINE quiet == UNCHANGED <<__lock, thread_id, _lock, stack>>
<1>1. private \in [Object -> Caller \cup {NoThread}] /\ pending \in [Caller -> SUBSET Object]
  BY DEF Balanced, Typed
<1>2. CASE UNCHANGED objectVars
  BY <1>1, <1>2, RestKeepsBalance DEF objectVars
<1>3. ASSUME NEW t \in Caller, NEW o \in Object, NEW kind \in {"method", "share"},
             NEW new \in Object \cup {NoLock}, MulleObject!Push(t, MulleObject!Frame(kind, o, new)),
             UNCHANGED <<__lock, thread_id, private, _lock, pending>>
      PROVE  Balanced'
  <2>1. PICK f \in Frames : f = MulleObject!Frame(kind, o, new)
    BY DEF MulleObject!Frame, Frames
  <2>2. f.at = "called"
    BY <2>1 DEF MulleObject!Frame
  <2> QED
    BY <1>3, <2>1, <2>2, PushKeepsBalance
<1>4. ASSUME NEW t \in Caller, NEW o \in Object, MulleObject!Call(t, o) PROVE Balanced'
  BY <1>3, <1>4 DEF MulleObject!Call
<1>5. ASSUME NEW t \in Caller, NEW o \in Object, NEW new \in Object \cup {NoLock},
             MulleObject!shareRecursiveLockWithObject(t, o, new)
      PROVE  Balanced'
  BY <1>3, <1>5 DEF MulleObject!shareRecursiveLockWithObject
<1>6. ASSUME NEW t \in Caller, NEW o \in Object, NEW other \in Object,
             MulleObject!shareRecursiveLockWithObject(t, o, __lock[other])
      PROVE  Balanced'
  <2>1. PICK new \in Object \cup {NoLock} : new = __lock[other]
    BY DEF Balanced, Typed
  <2> QED
    BY <1>5, <1>6, <2>1
<1>7. ASSUME NEW t \in Caller, NEW o \in Object, MulleObject!Publish(t, o) PROVE Balanced'
  BY <1>1, <1>7, RestKeepsBalance DEF MulleObject!Publish
<1>8. ASSUME NEW t \in Caller, MulleObject!DrainPool(t) PROVE Balanced'
  BY <1>1, <1>8, RestKeepsBalance DEF MulleObject!DrainPool
<1>9. ASSUME NEW t \in Caller, MulleObject!Return(t) PROVE Balanced'
  <2>1. MulleObject!Top(t).at \in {"inside", "shared"}
    BY <1>9 DEF MulleObject!Return
  <2> QED
    BY <1>9, <2>1, PopKeepsBalance DEF MulleObject!Return
<1>10. ASSUME NEW t \in Caller, MulleObject!_MulleObjectUnlock(t) PROVE Balanced'
  <2>1. MulleObject!Top(t) \in Frames
    BY <1>10, TopIsFrame DEF Balanced, MulleObject!_MulleObjectUnlock
  <2>2. MulleObject!Top(t).kind \in {"method", "share"}
    BY <2>1 DEF Frames
  <2> QED
    BY <1>10, <2>2 DEF MulleObject!_MulleObjectUnlock
<1> QED
  BY <1>2, <1>4, <1>5, <1>6, <1>7, <1>8, <1>9, <1>10,
     ForwardKeepsBalance, LockedKeepsBalance, ShareKeepsBalance
  DEF MulleObject!Next, MulleObject!_MulleObjectLock, MulleObject!_MulleObjectTryLock

(* Every call unlocks what it has locked, also if another thread exchanges *)
(* the lock meanwhile (-__lockingForward:, -shareRecursiveLock:); client   *)
(* code may lock by hand, and no lock is freed that a call has taken or    *)
(* waits for, if locks are shared before others see the object.            *)
THEOREM LockBalance ==
  SharesEarly \/ ~LocksByHand => (MulleObject!Spec => []LocksBalance)
<1>1. CASE SharesEarly
  <2>1. Inv => LocksBalance
    BY BalanceIsKept DEF Inv
  <2> QED
    BY <1>1, <2>1, ObjectInv, PTL
<1>2. CASE ~SharesEarly /\ ~LocksByHand
  <2>1. MulleObject!Init => Balanced
    BY InvInit DEF Inv
  <2>2. Balanced /\ [MulleObject!Next]_MulleObject!vars => Balanced'
    BY <1>2, BalanceStep DEF MulleObject!vars, objectVars
  <2>3. Balanced => LocksBalance
    BY <1>2, BalanceIsKept
  <2> QED
    BY <2>1, <2>2, <2>3, PTL DEF MulleObject!Spec
<1> QED
  BY <1>1, <1>2

-----------------------------------------------------------------------------
(* NSLock (PlainLock).                                                     *)

(* The threads that were let in: the owner of the mutex, or none.          *)
Entered ==
  /\ inside \subseteq Thread
  /\ inside = IF owner = NoThread THEN {} ELSE {owner}

(* A try takes the mutex and tells so, or does neither.                    *)
LEMMA TryKeepsOwner ==
  ASSUME Entered, NEW t \in Thread, NSLock!_MulleObjCLockTryLock(t)
  PROVE  Entered'
BY LockAssumption DEF Entered, NSLock!_MulleObjCLockTryLock

(* Every step of a call, and of the clock.                                 *)
LEMMA OwnerStep == Entered /\ [NSLock!Next]_NSLock!vars => Entered'
<1> SUFFICES ASSUME Entered, [NSLock!Next]_NSLock!vars PROVE Entered'
  OBVIOUS
<1>1. CASE NSLock!Tick
  BY <1>1 DEF NSLock!Tick, Entered
<1>2. ASSUME NEW t \in Thread, NSLock!Lock(t) PROVE Entered'
  BY <1>2 DEF NSLock!Lock, Entered
<1>3. ASSUME NEW t \in Thread, NSLock!_MulleObjCLockLock(t) PROVE Entered'
  BY <1>3, LockAssumption DEF NSLock!_MulleObjCLockLock, Entered
<1>4. ASSUME NEW t \in Thread, NSLock!_MulleObjCLockUnlock(t) PROVE Entered'
  BY <1>4 DEF NSLock!_MulleObjCLockUnlock, Entered
<1>5. ASSUME NEW t \in Thread, NSLock!TryLock(t) PROVE Entered'
  BY <1>5, TryKeepsOwner DEF NSLock!TryLock
<1>6. ASSUME NEW t \in Thread, NEW until \in 0 .. MaxTime, NSLock!LockBeforeTimeInterval(t, until)
      PROVE  Entered'
  BY <1>6 DEF NSLock!LockBeforeTimeInterval, Entered
<1>7. ASSUME NEW t \in Thread, NSLock!Poll(t) PROVE Entered'
  <2>1. CASE NSLock!LookAtClock(t)
    BY <2>1 DEF NSLock!LookAtClock, Entered
  <2>2. CASE NSLock!TryInTime(t)
    BY <2>2, TryKeepsOwner DEF NSLock!TryInTime
  <2> QED
    BY <1>7, <2>1, <2>2 DEF NSLock!Poll
<1>8. CASE UNCHANGED NSLock!vars
  BY <1>8 DEF NSLock!vars, Entered
<1> QED
  BY <1>1, <1>2, <1>3, <1>4, <1>5, <1>6, <1>7, <1>8 DEF NSLock!Next

(* -lock, -tryLock and the timed lock exclude each other, for any number   *)
(* of threads, and a failed or late attempt leaves the mutex as it was.    *)
THEOREM NSLockSafety == NSLock!Spec => []LockExcludes
<1>1. NSLock!Init => Entered
  BY DEF NSLock!Init, Entered
<1>2. Entered => LockExcludes
  BY DEF Entered, LockExcludes, NSLock!LockExcludes
<1> QED
  BY <1>1, <1>2, OwnerStep, PTL DEF NSLock!Spec

-----------------------------------------------------------------------------
(* The composition.                                                        *)

(* A behaviour of MCLocks is one of each kind of lock: it runs one of      *)
(* them, and leaves the others at rest.  Locks of objects are shared early *)
(* or exchanged, never both.                                               *)
THEOREM Composition ==
  MCSpec => /\ Spec /\ NSLock!Init /\ [][NSLock!Next]_(NSLock!vars)
            /\ lockClass = "ExchangedLock" => Exchanged!Spec
            /\ lockClass # "ExchangedLock" => MulleObject!Spec
<1>1. MCInit => Init /\ MulleObject!Init /\ Exchanged!Init /\ NSLock!Init
  BY DEF MCInit, MulleObject!Init, Exchanged!Init, MulleObject!Lock, Exchanged!Lock
<1>2. [MCNext]_mcVars => [Next]_vars
  BY DEF MCNext, mcVars, AllWait
<1>3. [MCNext]_mcVars /\ lockClass # "ExchangedLock"
        => [MulleObject!Next]_(MulleObject!vars) /\ (lockClass # "ExchangedLock")'
  BY DEF MCNext, mcVars, objectVars, MulleObject!vars
<1>4. [MCNext]_mcVars /\ lockClass = "ExchangedLock"
        => [Exchanged!Next]_(Exchanged!vars) /\ (lockClass = "ExchangedLock")'
  BY DEF MCNext, mcVars, objectVars, Exchanged!vars, AllWait
<1>5. [MCNext]_mcVars => [NSLock!Next]_(NSLock!vars)
  BY DEF MCNext, mcVars, plainVars, NSLock!vars, AllWait
<1> QED
  BY <1>1, <1>2, <1>3, <1>4, <1>5, PTL
  DEF MCSpec, Spec, MulleObject!Spec, Exchanged!Spec
=============================================================================
