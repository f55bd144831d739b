---------------------------- MODULE ConditionLock ----------------------------
(***************************************************************************)
(* NSCondition and NSConditionLock: a mutex, a condition variable, an      *)
(* unsynchronised flag and the integer condition, used by several threads. *)
(* Every step between two accesses to shared state is a step of its own;   *)
(* mutex and condition variable are mulle-thread's and follow POSIX: a     *)
(* signal wakes at least one waiter, and waiters may wake spuriously.      *)
(***************************************************************************)
EXTENDS Naturals, FiniteSets

CONSTANTS
  Thread,        (* the threads that share the lock                        *)
  Value,         (* the values of the integer condition                    *)
  NoThread,      (* the mutex is free                                      *)
  LockRequests,  (* LockRequests[t]: the lock calls that t makes           *)
  UnlockValues,  (* UnlockValues[t]: the values t passes when it unlocks   *)
  Broadcasts,    (* values t passes for broadcast: in the mulle unlock     *)
  RawUse         (* do threads also use -unlock, -wait, -signal, -broadcast? *)

(* A lock call: -lock (any), lockWhenCondition: (when) and                 *)
(* mulleLockWhenNotCondition: (whenNot), or the trying variant of each.    *)
Request == [mode : {"any", "when", "whenNot"}, value : Value, try : BOOLEAN]

ASSUME LockAssumption ==
  /\ Value # {}
  /\ NoThread \notin Thread
  /\ LockRequests \in [Thread -> SUBSET Request]
  /\ UnlockValues \in [Thread -> SUBSET Value]
  /\ Broadcasts \subseteq BOOLEAN
  /\ RawUse \in BOOLEAN

VARIABLES
  mutex,         (* _lock: its owner                                       *)
  condition,     (* _currentCondition                                      *)
  isLocked,      (* _mulleIsLocked                                         *)
  pc,            (* where each thread is                                   *)
  request,       (* the lock call the thread makes, or made                *)
  notify         (* what the unlocking thread still has to call            *)

vars == <<mutex, condition, isLocked, pc, request, notify>>

(* A lock call that is satisfied by the current condition.                 *)
Satisfied(r, v) ==
  \/ r.mode = "any"
  \/ r.mode = "when" /\ v = r.value
  \/ r.mode = "whenNot" /\ v # r.value

(* -lock; its value is not used.                                           *)
LockRequest == [mode |-> "any", value |-> CHOOSE v \in Value : TRUE, try |-> FALSE]

Goto(t, to) == pc' = [pc EXCEPT ![t] = to]

-----------------------------------------------------------------------------
Init ==
  /\ mutex = NoThread
  /\ condition \in Value
  /\ isLocked = FALSE
  /\ pc = [t \in Thread |-> "idle"]
  /\ request = [t \in Thread |-> LockRequest]
  /\ notify = [t \in Thread |-> TRUE]

(* -lock, lockWhenCondition:, mulleLockWhenNotCondition: are called.       *)
Call(t, r) ==
  /\ pc[t] = "idle" /\ ~r.try
  /\ request' = [request EXCEPT ![t] = r]
  /\ Goto(t, "locking")
  /\ UNCHANGED <<mutex, condition, isLocked, notify>>

(* -tryLock and the trying variants: EBUSY returns NO at once.             *)
TryCall(t, r) ==
  /\ pc[t] = "idle" /\ r.try
  /\ IF mutex = NoThread
     THEN mutex' = t /\ request' = [request EXCEPT ![t] = r] /\ Goto(t, "locked")
     ELSE UNCHANGED <<mutex, request, pc>>
  /\ UNCHANGED <<condition, isLocked, notify>>

(* mulle_thread_mutex_lock() in -lock, and at the end of a -wait.          *)
Acquire(t) ==
  /\ pc[t] \in {"locking", "woken"}
  /\ mutex = NoThread
  /\ mutex' = t
  /\ Goto(t, "locked")
  /\ UNCHANGED <<condition, isLocked, request, notify>>

(* _mulleIsLocked = YES, after the mutex was taken.                        *)
SetIsLockedToOwner(t) ==
  /\ pc[t] = "locked"
  /\ isLocked' = mutex
  /\ Goto(t, "testing")
  /\ UNCHANGED <<mutex, condition, request, notify>>

SetIsLocked(t) ==
  /\ pc[t] = "locked"
  /\ isLocked' = TRUE
  /\ Goto(t, "testing")
  /\ UNCHANGED <<mutex, condition, request, notify>>

(* The condition is compared: return with the lock, or unlock it (try) or  *)
(* wait.                                                                   *)
TestNotInTry(t) ==
  /\ pc[t] = "testing"
  /\ Goto(t, IF request[t].try \/ Satisfied(request[t], condition)
             THEN "holding" ELSE "goingToWait")
  /\ UNCHANGED <<mutex, condition, isLocked, request, notify>>

Test(t) ==
  /\ pc[t] = "testing"
  /\ Goto(t, IF Satisfied(request[t], condition) THEN "holding"
             ELSE IF request[t].try THEN "unlocking" ELSE "goingToWait")
  /\ UNCHANGED <<mutex, condition, isLocked, request, notify>>

(* -wait: _mulleIsLocked = NO, ...                                         *)
WaitClearsFlag(t) ==
  /\ pc[t] = "goingToWait"
  /\ isLocked' = FALSE
  /\ Goto(t, "enteringWait")
  /\ UNCHANGED <<mutex, condition, request, notify>>

(* ... then mulle_thread_cond_wait() releases the mutex and sleeps in one  *)
(* step.                                                                   *)
WaitSleeps(t) ==
  /\ pc[t] = "enteringWait"
  /\ mutex' = NoThread
  /\ Goto(t, "waiting")
  /\ UNCHANGED <<condition, isLocked, request, notify>>

(* A waiter wakes without having been signalled.                           *)
WakeSpuriously(t) ==
  /\ pc[t] = "waiting"
  /\ Goto(t, "woken")
  /\ UNCHANGED <<mutex, condition, isLocked, request, notify>>

Waiters == {t \in Thread : pc[t] = "waiting"}

(* The threads that a signal, or a broadcast, can wake.                    *)
WokenBy(broadcast) ==
  IF broadcast \/ Waiters = {} THEN {Waiters} ELSE SUBSET Waiters \ {{}}

(* pc after t went to a new place and the threads in W woke up.            *)
WakeAndGoto(t, W, to) ==
  pc' = [u \in Thread |-> IF u = t THEN to ELSE IF u \in W THEN "woken" ELSE pc[u]]

-----------------------------------------------------------------------------
(* unlockWithCondition: and mulleUnlockWithCondition:broadcast: write the  *)
(* condition, ...                                                          *)
UnlockWithCondition(t, v, broadcast) ==
  /\ pc[t] = "holding"
  /\ condition' = v
  /\ notify' = [notify EXCEPT ![t] = broadcast]
  /\ Goto(t, "notifying")
  /\ UNCHANGED <<mutex, isLocked, request>>

(* ... wake waiters with the mutex still locked, ...                       *)
NotifyOne(t) ==
  /\ pc[t] = "notifying"
  /\ \E W \in WokenBy(FALSE) : WakeAndGoto(t, W, "unlocking")
  /\ UNCHANGED <<mutex, condition, isLocked, request, notify>>

Notify(t) ==
  /\ pc[t] = "notifying"
  /\ \E W \in WokenBy(notify[t]) : WakeAndGoto(t, W, "unlocking")
  /\ UNCHANGED <<mutex, condition, isLocked, request, notify>>

(* ... and send -unlock: _mulleIsLocked = NO, then the mutex is released.  *)
UnlockLeavesFlag(t) ==
  /\ pc[t] = "unlocking"
  /\ Goto(t, "unlockingMutex")
  /\ UNCHANGED <<mutex, condition, isLocked, request, notify>>

UnlockClearsFlag(t) ==
  /\ pc[t] = "unlocking"
  /\ isLocked' = FALSE
  /\ Goto(t, "unlockingMutex")
  /\ UNCHANGED <<mutex, condition, request, notify>>

UnlockMutex(t) ==
  /\ pc[t] = "unlockingMutex"
  /\ mutex' = NoThread
  /\ Goto(t, "idle")
  /\ UNCHANGED <<condition, isLocked, request, notify>>

-----------------------------------------------------------------------------
(* Client code that uses the NSCondition methods directly.                 *)

(* -unlock without a condition notifies nobody.                            *)
Unlock(t) ==
  /\ RawUse /\ pc[t] = "holding"
  /\ Goto(t, "unlocking")
  /\ UNCHANGED <<mutex, condition, isLocked, request, notify>>

(* -wait by a thread that has the lock: it comes back with the lock, for   *)
(* whatever condition.                                                     *)
Wait(t) ==
  /\ RawUse /\ pc[t] = "holding"
  /\ request' = [request EXCEPT ![t] = LockRequest]
  /\ Goto(t, "goingToWait")
  /\ UNCHANGED <<mutex, condition, isLocked, notify>>

(* -signal and -broadcast, with or without the lock.                       *)
SignalOrBroadcast(t, broadcast) ==
  /\ RawUse /\ pc[t] \in {"idle", "holding"}
  /\ \E W \in WokenBy(broadcast) : WakeAndGoto(t, W, pc[t])
  /\ UNCHANGED <<mutex, condition, isLocked, request, notify>>

-----------------------------------------------------------------------------
CallStep(t) == \E r \in LockRequests[t] : Call(t, r) \/ TryCall(t, r)

UnlockStep(t) ==
  \E v \in UnlockValues[t], b \in Broadcasts : UnlockWithCondition(t, v, b)

RawStep(t) == Unlock(t) \/ Wait(t) \/ \E b \in BOOLEAN : SignalOrBroadcast(t, b)

(* The steps inside a lock, wait or unlock call.                           *)
InnerStep(t) ==
  \/ Acquire(t) \/ SetIsLocked(t) \/ Test(t)
  \/ WaitClearsFlag(t) \/ WaitSleeps(t)
  \/ Notify(t) \/ UnlockClearsFlag(t) \/ UnlockMutex(t)

Next ==
  \E t \in Thread : \/ CallStep(t) \/ UnlockStep(t) \/ RawStep(t)
                    \/ InnerStep(t) \/ WakeSpuriously(t)

Spec == Init /\ [][Next]_vars

(* Threads that run: they lock again, they unlock, and calls in progress   *)
(* go on when they can.  Waiters wake spuriously, but not forever; under   *)
(* that condition no fairness of the mutex is needed.                      *)
Fairness ==
  /\ \A t \in Thread : WF_vars(CallStep(t)) /\ WF_vars(UnlockStep(t)) /\ WF_vars(InnerStep(t))
  /\ <>[][\A t \in Thread : ~WakeSpuriously(t)]_vars

FairSpec == Spec /\ Fairness

-----------------------------------------------------------------------------
(* Properties.                                                             *)

Place == {"idle", "locking", "locked", "testing", "holding", "goingToWait",
          "enteringWait", "waiting", "woken", "notifying", "unlocking",
          "unlockingMutex"}

(* The types of the shared and the per-thread state.                       *)
TypeOK ==
  /\ mutex \in Thread \cup {NoThread}
  /\ condition \in Value
  /\ isLocked \in BOOLEAN
  /\ pc \in [Thread -> Place]
  /\ request \in [Thread -> Request]
  /\ notify \in [Thread -> BOOLEAN]

(* Places where a thread owns the mutex, and where it also set the flag.   *)
Flagged  == {"testing", "holding", "goingToWait", "notifying", "unlocking"}
MutexPlaces == Flagged \cup {"locked", "enteringWait", "unlockingMutex"}

(* One thread at a time is inside the mutex, through -wait and its wakeups *)
(* too, and it is the one the mutex belongs to.                            *)
MutexOwner == \A t \in Thread : pc[t] \in MutexPlaces <=> mutex = t

(* The unsynchronised mulleIsLocked never says that a free lock is locked, *)
(* and says so of every lock that a client holds.                          *)
FlagTracksMutex == isLocked <=> \E t \in Thread : pc[t] \in Flagged

(* A thread that came back from lockWhenCondition: (or a variant) has the  *)
(* lock with the condition it asked for, and keeps it until it unlocks:    *)
(* the wakeup is not taken for the condition.                              *)
GrantedCondition ==
  \A t \in Thread : pc[t] = "holding" => Satisfied(request[t], condition)

(* Mutual exclusion through waits and wakeups, a flag that tells it, and   *)
(* the condition that was asked for.                                       *)
LockIsSafe == MutexOwner /\ FlagTracksMutex /\ GrantedCondition

Oblivious(t) ==
  /\ request[t].mode # "any"
  /\ Satisfied(request[t], condition)

(* No thread goes to sleep or sleeps in lockWhenCondition: (or a variant)  *)
(* while the condition it waits for holds, except before a broadcast that  *)
(* is about to come.  It is the reason why unlockWithCondition: broadcasts. *)
NoLostWakeup ==
  \A t \in Thread : pc[t] \in {"goingToWait", "enteringWait", "waiting"} /\ Oblivious(t) =>
    \E u \in Thread : pc[u] = "notifying" /\ notify[u]

(* The thread that the guarded lock is granted to.                         *)
Holder ==
  IF mutex \in Thread /\ pc[mutex] \in {"holding", "notifying"} THEN mutex ELSE NoThread

(* The values that satisfy each thread's last lock call.                   *)
Asked == [t \in Thread |-> {v \in Value : Satisfied(request[t], v)}]

GL == INSTANCE GuardedLock WITH holder <- Holder, asked <- Asked

(* The mutex, the condition variable and the tests around them implement a *)
(* lock that is granted to one thread, on the condition it asked for.      *)
ImplementsGuardedLock == GL!Spec

(* In a ring of threads, each waiting for its own value and setting the    *)
(* next one's, all get the lock again and again.                           *)
EveryThreadGetsTheLock == \A t \in Thread : []<>(pc[t] = "holding")

==============================================================================
