--------------------------- MODULE ThreadRegistry ----------------------------
(***************************************************************************)
(* How the NSThread of an OS thread is found: by the thread itself, which  *)
(* has it in its thread local storage, by other threads through the table  *)
(* of the universe, or as the main thread.  A C thread gets its NSThread   *)
(* when it first needs one, and leaves again; another thread can then have *)
(* the same thread id.  An NSThread keeps objects for its thread: the run  *)
(* loop, that whoever comes first sets, a user info and a value for a key. *)
(***************************************************************************)
EXTENDS Naturals, FiniteSets, Functions

CONSTANTS
  Os,       \* thread ids of OS threads
  Main,     \* that of the main thread
  Thr,      \* addresses of NSThread objects
  Value,    \* addresses of other objects
  nil,
  MaxRefs   \* bound: references to one object from the pools of a thread

VARIABLES
  threads,           \* info->object.threads: the NSThread of a thread id
  mainthreadobject,  \* info->thread.mainthread
  threadobject,      \* the NSThread in the thread local storage
  place,             \* where each OS thread is
  self,              \* the NSThread that it owns, nil before and after
  ivars,             \* the instance variables of the NSThreads
  rc,                \* retain counts, 0 for what is not allocated
  pool,              \* pool[o][x]: releases pending in the pools of o
  setter             \* the call of -mulleSetRunLoop: that o is in, or its result

registry == <<threads, mainthreadobject, threadobject, place, self>>
vars     == <<registry, ivars, rc, pool, setter>>

Object  == Thr \cup Value
NoCall  == [at |-> "idle", thr |-> nil, runLoop |-> nil]
Empty   == [x \in Object |-> 0]

NSThread(o) ==
  [_osThreadId |-> o, _runLoop |-> nil, _userInfo |-> nil, _map |-> nil, finalized |-> FALSE]

\* +load: the main thread is registered.
Init ==
  \E t \in Thr :
    /\ threads = [o \in Os |-> IF o = Main THEN t ELSE nil]
    /\ mainthreadobject = t
    /\ threadobject = threads
    /\ place = [o \in Os |-> IF o = Main THEN "client" ELSE "c"]
    /\ self = threads
    /\ ivars = [u \in Thr |-> NSThread(Main)]
    /\ rc = [x \in Object |-> IF x = t THEN 1 ELSE 0]
    /\ pool = [o \in Os |-> Empty]
    /\ setter = [o \in Os |-> NoCall]

Goto(o, p) == place' = [place EXCEPT ![o] = p]

-----------------------------------------------------------------------------
(* The table, each function under the lock of the universe.                *)

_mulle_objc_universe_set_threadobject_for_thread_id(id, t) ==
  threads' = [threads EXCEPT ![id] = t]

_mulle_objc_universe_remove_threadobject_for_thread_id(id) ==
  threads' = [threads EXCEPT ![id] = nil]

(* What is found is retained under the lock, and autoreleased.             *)
_mulle_objc_universe_lookup_threadobject_for_thread_id(o, id) ==
  LET t == threads[id] IN
  IF t = nil THEN UNCHANGED <<rc, pool>>
  ELSE /\ rc' = [rc EXCEPT ![t] = @ + 1]
       /\ pool' = [pool EXCEPT ![o][t] = @ + 1]

-----------------------------------------------------------------------------
(* A thread without an NSThread asks for it or autoreleases something.     *)

__MulleThreadCreateThreadObjectInUniverse(o) ==
  \E t \in Thr :
    /\ rc[t] = 0
    /\ rc' = [rc EXCEPT ![t] = 1]
    /\ ivars' = [ivars EXCEPT ![t] = NSThread(o)]
    /\ self' = [self EXCEPT ![o] = t]
    /\ Goto(o, "registering")
    /\ UNCHANGED <<threads, mainthreadobject, threadobject, pool, setter>>

MulleThreadGetOrCreateCurrentThread(o) ==
  threadobject[o] = nil /\ place[o] = "c" /\ __MulleThreadCreateThreadObjectInUniverse(o)

mulle_objc_thread_get_poolconfiguration(o) ==
  place[o] = "c" /\ __MulleThreadCreateThreadObjectInUniverse(o)

_MulleThreadRegisterInUniverse(o) ==
  /\ place[o] = "registering"
  /\ _mulle_objc_universe_set_threadobject_for_thread_id(o, self[o])
  /\ Goto(o, "registered")
  /\ UNCHANGED <<mainthreadobject, threadobject, self, ivars, rc, pool, setter>>

SetThreadObject(o) ==
  /\ place[o] = "registered"
  /\ threadobject' = [threadobject EXCEPT ![o] = self[o]]
  /\ Goto(o, "client")
  /\ UNCHANGED <<threads, mainthreadobject, self, ivars, rc, pool, setter>>

-----------------------------------------------------------------------------
(* A thread with an NSThread.                                              *)

Client(o) == place[o] = "client" /\ setter[o].at = "idle"

MulleThreadGetCurrentThread(o) == threadobject[o]

mulleIsMainThread(o) ==
  threadobject[o] # nil /\ threadobject[o] = mainthreadobject

MulleThreadObjectGetOSThreadId(t) == ivars[t]._osThreadId

MulleThreadGetCurrentThreadUserInfo(o) == ivars[MulleThreadGetCurrentThread(o)]._userInfo

MulleThreadObjectForKeyUTF8String(o) == ivars[MulleThreadGetCurrentThread(o)]._map

Lookup(o, id) ==
  /\ Client(o) /\ \A t \in Thr : pool[o][t] < MaxRefs
  /\ _mulle_objc_universe_lookup_threadobject_for_thread_id(o, id)
  /\ UNCHANGED <<registry, ivars, setter>>

NewValue(o, v) ==
  /\ Client(o) /\ rc[v] = 0
  /\ rc' = [rc EXCEPT ![v] = 1]
  /\ pool' = [pool EXCEPT ![o][v] = 1]
  /\ UNCHANGED <<registry, ivars, setter>>

Drain(o) ==
  /\ rc' = [x \in Object |-> rc[x] - pool[o][x]]
  /\ pool' = [pool EXCEPT ![o] = Empty]

PopPool(o) ==
  /\ Client(o) /\ Drain(o)
  /\ UNCHANGED <<registry, ivars, setter>>

Usable(o, v) == v # nil /\ pool[o][v] > 0

(* The old one is autoreleased.                                            *)
MulleThreadSetCurrentThreadUserInfo(o, v) ==
  LET t == MulleThreadGetCurrentThread(o)
      old == MulleThreadGetCurrentThreadUserInfo(o)
  IN  /\ Client(o) /\ (v = nil \/ Usable(o, v))
      /\ old # nil => pool[o][old] < MaxRefs
      /\ ivars' = [ivars EXCEPT ![t]._userInfo = v]
      /\ rc' = [x \in Object |-> IF x = v THEN rc[x] + 1 ELSE rc[x]]
      /\ pool' = [pool EXCEPT ![o] = [x \in Object |-> IF x = old THEN @[x] + 1 ELSE @[x]]]
      /\ UNCHANGED <<registry, setter>>

(* The map retains its value, and releases the one it had.                 *)
MulleThreadSetObjectForKeyUTF8String(o, v) ==
  LET t == MulleThreadGetCurrentThread(o)
      old == MulleThreadObjectForKeyUTF8String(o)
  IN  /\ Client(o) /\ Usable(o, v) /\ v # old
      /\ ivars' = [ivars EXCEPT ![t]._map = v]
      /\ rc' = [x \in Object |-> IF x = v THEN rc[x] + 1
                                 ELSE IF x = old THEN rc[x] - 1 ELSE rc[x]]
      /\ UNCHANGED <<registry, pool, setter>>

(* -mulleSetRunLoop: of the own NSThread or the main thread.               *)
RetainRunLoop(o, t, v) ==
  /\ Client(o) /\ t \in {MulleThreadGetCurrentThread(o), mainthreadobject} \ {nil}
  /\ Usable(o, v) /\ ~ivars[t].finalized
  /\ rc' = [rc EXCEPT ![v] = @ + 1]
  /\ setter' = [setter EXCEPT ![o] = [at |-> "cas", thr |-> t, runLoop |-> v]]
  /\ UNCHANGED <<registry, ivars, pool>>

mulleSetRunLoop(o) ==
  LET s == setter[o]
      otherRunloop == ivars[s.thr]._runLoop
  IN  /\ s.at = "cas" /\ pool[o][s.runLoop] < MaxRefs
      /\ IF otherRunloop = nil
         THEN ivars' = [ivars EXCEPT ![s.thr]._runLoop = s.runLoop] /\ UNCHANGED pool
         ELSE pool' = [pool EXCEPT ![o][s.runLoop] = @ + 1] /\ UNCHANGED ivars
      /\ setter' = [setter EXCEPT ![o] =
           [@ EXCEPT !.at = "idle",
                     !.runLoop = IF otherRunloop = nil THEN s.runLoop ELSE otherRunloop]]
      /\ UNCHANGED <<registry, rc>>

-----------------------------------------------------------------------------
(* The end of a thread, of the main thread once it is the only one left.   *)

MayLeave(o) ==
  /\ Client(o)
  /\ o = Main => \A p \in Os \ {Main} : place[p] = "c"

(* -finalize: what the NSThread keeps goes to the pool of the thread, but  *)
(* for the map.                                                            *)
Finalize(o) ==
  LET t == self[o]
      kept == {x \in Value : x \in {ivars[t]._runLoop, ivars[t]._userInfo}}
      Uses(x) == Cardinality({f \in {"_runLoop", "_userInfo"} : ivars[t][f] = x})
  IN  /\ MayLeave(o)
      /\ \A x \in kept : pool[o][x] + Uses(x) <= MaxRefs + 1
      /\ pool' = [pool EXCEPT ![o] = [x \in Object |-> IF x \in kept THEN @[x] + Uses(x) ELSE @[x]]]
      /\ rc' = [x \in Object |-> IF x = ivars[t]._map THEN rc[x] - 1 ELSE rc[x]]
      /\ ivars' = [ivars EXCEPT ![t] = [NSThread(o) EXCEPT !.finalized = TRUE]]
      /\ setter' = [setter EXCEPT ![o] = NoCall]
      /\ Goto(o, "finalized")
      /\ UNCHANGED <<threads, mainthreadobject, threadobject, self>>

mulle_objc_thread_reset_poolconfiguration(o) ==
  /\ place[o] = "finalized" /\ Drain(o)
  /\ Goto(o, "reset")
  /\ UNCHANGED <<threads, mainthreadobject, threadobject, self, ivars, setter>>

LeaveTable(o) ==
  /\ _mulle_objc_universe_remove_threadobject_for_thread_id(o)
  /\ threadobject' = [threadobject EXCEPT ![o] = nil]

GiveUp(o) ==
  /\ rc' = [rc EXCEPT ![self[o]] = @ - 1]
  /\ self' = [self EXCEPT ![o] = nil]
  /\ mainthreadobject' = IF o = Main THEN nil ELSE mainthreadobject

(* The other order.                                                        *)
ReleaseBeforeDeregister(o) ==
  \/ /\ place[o] = "reset" /\ GiveUp(o) /\ Goto(o, "deregistered")
     /\ UNCHANGED <<threads, threadobject, ivars, pool, setter>>
  \/ /\ place[o] = "deregistered" /\ LeaveTable(o) /\ Goto(o, IF o = Main THEN "gone" ELSE "c")
     /\ UNCHANGED <<mainthreadobject, self, ivars, rc, pool, setter>>

_MulleThreadTakedownPoolAndRelease(o) ==
  \/ /\ place[o] = "reset" /\ LeaveTable(o) /\ Goto(o, "deregistered")
     /\ UNCHANGED <<mainthreadobject, self, ivars, rc, pool, setter>>
  \/ /\ place[o] = "deregistered" /\ GiveUp(o) /\ Goto(o, IF o = Main THEN "gone" ELSE "c")
     /\ UNCHANGED <<threads, threadobject, ivars, pool, setter>>

Next ==
  \E o \in Os :
    \/ MulleThreadGetOrCreateCurrentThread(o) \/ mulle_objc_thread_get_poolconfiguration(o)
    \/ _MulleThreadRegisterInUniverse(o) \/ SetThreadObject(o)
    \/ \E id \in Os : Lookup(o, id)
    \/ PopPool(o)
    \/ \E v \in Value : \/ NewValue(o, v)
                        \/ MulleThreadSetObjectForKeyUTF8String(o, v)
                        \/ \E t \in Thr : RetainRunLoop(o, t, v)
    \/ \E v \in Value \cup {nil} : MulleThreadSetCurrentThreadUserInfo(o, v)
    \/ mulleSetRunLoop(o)
    \/ Finalize(o) \/ mulle_objc_thread_reset_poolconfiguration(o)
    \/ _MulleThreadTakedownPoolAndRelease(o)

Spec == Init /\ [][Next]_vars

-----------------------------------------------------------------------------
(* A thread finds its own NSThread, only the main thread takes itself for  *)
(* the main thread, and whatever NSThread is found under an id is alive    *)
(* and is the one of the thread that has the id, not of one that had it.   *)
ThreadsAreFound ==
  /\ \A o \in Os :
       /\ threads[o] # nil => rc[threads[o]] > 0 /\ threads[o] = self[o]
                              /\ MulleThreadObjectGetOSThreadId(threads[o]) = o
       /\ place[o] \in {"client", "finalized", "reset"} =>
            MulleThreadGetCurrentThread(o) = threads[o] /\ threads[o] # nil
       /\ mulleIsMainThread(o) => o = Main
  /\ \A t \in Thr : t \in {mainthreadobject} => rc[t] > 0

(* Everything is counted for its owners, so that nothing that a thread has *)
(* looked up or keeps is freed under it; an NSThread that goes away keeps  *)
(* nothing anymore.                                                        *)
ReferencesBalance ==
  LET Pending(x) == SumFunction([o \in Os |-> pool[o][x]])
      Slots(x) == Cardinality({s \in Thr \X {"_runLoop", "_userInfo", "_map"} : ivars[s[1]][s[2]] = x})
      Calls(x) == Cardinality({o \in Os : setter[o].at = "cas" /\ setter[o].runLoop = x})
  IN  /\ \A t \in Thr : rc[t] = Pending(t) + Cardinality({o \in Os : self[o] = t})
      /\ \A v \in Value : rc[v] = Pending(v) + Slots(v) + Calls(v)
      /\ \A t \in Thr : rc[t] = 0 =>
           \A f \in {"_runLoop", "_userInfo", "_map"} : ivars[t][f] = nil

(* Everybody who sets the run loop of a thread gets the same one, until    *)
(* the thread is finalized.                                                *)
OneRunLoop ==
  \A o \in Os : setter[o].at = "idle" /\ setter[o].thr # nil =>
    \/ ivars[setter[o].thr]._runLoop = setter[o].runLoop
    \/ ivars[setter[o].thr].finalized
=============================================================================
