------------------------------ MODULE PlainLock ------------------------------
(***************************************************************************)
(* NSLock: a mutex with -lock, -tryLock, -unlock and a timed lock that     *)
(* polls the mutex against the clock (NSLock.m, NSLock-Private.h).         *)
(***************************************************************************)
EXTENDS Naturals

CONSTANTS
  Thread,
  NoThread,
  MaxTime     \* bound: the clock stops there

ASSUME LockAssumption == NoThread \notin Thread

VARIABLES
  owner,      \* the thread that has the mutex _lock
  frame,      \* the call each thread is in, and when it has to give up
  inside,     \* the threads whose last lock call told them that they have it
  now         \* mulle_timeinterval_now()

vars == <<owner, frame, inside, now>>

Idle           == [at |-> "idle"]
Waiting        == [at |-> "wait"]
Looking(until) == [at |-> "clock", until |-> until]
Trying(until)  == [at |-> "try", until |-> until]

Goto(t, f) == frame' = [frame EXCEPT ![t] = f]

Init ==
  /\ owner = NoThread
  /\ frame = [t \in Thread |-> Idle]
  /\ inside = {}
  /\ now = 0

\* A mutex that its owner locks again blocks it forever; callers do not.
Lock(t) ==
  /\ frame[t] = Idle /\ t \notin inside
  /\ Goto(t, Waiting)
  /\ UNCHANGED <<owner, inside, now>>

_MulleObjCLockLock(t) ==
  /\ frame[t] = Waiting /\ owner = NoThread
  /\ owner' = t
  /\ inside' = inside \cup {t}
  /\ Goto(t, Idle)
  /\ UNCHANGED now

_MulleObjCLockUnlock(t) ==
  /\ frame[t] = Idle /\ t \in inside
  /\ owner' = NoThread
  /\ inside' = inside \ {t}
  /\ UNCHANGED <<frame, now>>

TryLockBusyIsSuccess(t) ==
  /\ owner' = IF owner = NoThread THEN t ELSE owner
  /\ inside' = inside \cup {t}

\* EBUSY is not an error, for the thread that has the mutex neither.
_MulleObjCLockTryLock(t) ==
  IF owner = NoThread
  THEN owner' = t /\ inside' = inside \cup {t}
  ELSE UNCHANGED <<owner, inside>>

TryLock(t) ==
  /\ frame[t] = Idle
  /\ _MulleObjCLockTryLock(t)
  /\ UNCHANGED <<frame, now>>

LockBeforeTimeInterval(t, until) ==
  /\ frame[t] = Idle /\ t \notin inside
  /\ Goto(t, Looking(until))
  /\ UNCHANGED <<owner, inside, now>>

LookAtClockOnce(t) ==
  /\ frame[t].at = "clock"
  /\ Goto(t, IF now = frame[t].until THEN Idle ELSE Trying(frame[t].until))
  /\ UNCHANGED <<owner, inside, now>>

LookAtClock(t) ==
  /\ frame[t].at = "clock"
  /\ Goto(t, IF now >= frame[t].until THEN Idle ELSE Trying(frame[t].until))
  /\ UNCHANGED <<owner, inside, now>>

\* After a failure the thread yields and looks at the clock again.
TryInTime(t) ==
  /\ frame[t].at = "try"
  /\ _MulleObjCLockTryLock(t)
  /\ Goto(t, IF owner = NoThread THEN Idle ELSE Looking(frame[t].until))
  /\ UNCHANGED now

Tick == now < MaxTime /\ now' = now + 1 /\ UNCHANGED <<owner, frame, inside>>

Poll(t) == LookAtClock(t) \/ TryInTime(t)

Next ==
  \/ Tick
  \/ \E t \in Thread :
       \/ Lock(t) \/ _MulleObjCLockLock(t) \/ _MulleObjCLockUnlock(t)
       \/ TryLock(t)
       \/ \E until \in 0 .. MaxTime : LockBeforeTimeInterval(t, until)
       \/ Poll(t)

\* Time goes on and a polling thread runs; nobody has to unlock.
Fairness == WF_vars(Tick) /\ \A t \in Thread : WF_vars(Poll(t))

Spec == Init /\ [][Next]_vars /\ Fairness

-----------------------------------------------------------------------------
(* At most one thread believes that it has the lock, whether -lock let it  *)
(* in, -tryLock or a timed lock that other threads overtook; and the mutex *)
(* is locked exactly while there is one, so that no failed attempt leaves  *)
(* it locked.                                                              *)
LockExcludes ==
  /\ \A t, u \in inside : t = u
  /\ IF inside = {} THEN owner = NoThread ELSE owner \in inside

(* A timed lock comes back, even if the lock is never given back or if     *)
(* others always get it.                                                   *)
TimedLockReturns ==
  \A t \in Thread : (frame[t].at \in {"clock", "try"}) ~> (frame[t] = Idle)
=============================================================================
