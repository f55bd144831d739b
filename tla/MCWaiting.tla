------------------------------ MODULE MCWaiting ------------------------------
(***************************************************************************)
(* What threads wait for: an NSLock, an NSConditionLock that goes round a  *)
(* ring of threads, the end of another NSThread, and the end of a drain of *)
(* an autorelease pool.  They have no state in common: a behaviour         *)
(* exercises one of them, chosen by its initial state.                     *)
(***************************************************************************)
EXTENDS PlainLock

CONSTANTS Thr, Os, Foreign, Main, None, Limbo, MaxRefs, MaxStarts,
          Obj, ConstantObj, Hole, ChunkSize, CountModulus, Steps, BulkSize,
          MaxPools, MaxSlots, MaxCalls, AllocInDealloc, DrainsWalked

VARIABLES awaited,
          _lock, condition, isLocked, pc, request, notify,
          thr, place, self, call, joined,
          retaincount, torn, n_threads, isMultiThreaded, aba, threads,
          pools, object_map, rc, live, owned, roots, leaked, stack

(* Threads are numbers; each waits for its number and passes on the next,  *)
(* as in test/NSConditionLock/two-threads.m.                               *)
RingThread == 1 .. 3
RingCall   == [t \in RingThread |-> {[mode |-> "when", value |-> t, try |-> FALSE]}]
RingUnlock == [t \in RingThread |-> {(t % 3) + 1}]

NSConditionLock == INSTANCE ConditionLock
  WITH Thread <- RingThread, Value <- RingThread, LockRequests <- RingCall,
       UnlockValues <- RingUnlock, Broadcasts <- {TRUE}, RawUse <- FALSE, mutex <- _lock

NSThread == INSTANCE ThreadLifecycle WITH pc <- place

NSAutoreleasePool == INSTANCE AutoreleasePool

ringVars == <<_lock, condition, isLocked, pc, request, notify>>
thrVars  == <<thr, place, self, call, joined,
              retaincount, torn, n_threads, isMultiThreaded, aba, threads>>
poolVars == <<pools, object_map, rc, live, owned, roots, leaked, stack>>
mcVars   == <<awaited, vars, ringVars, thrVars, poolVars>>

\* What a behaviour leaves alone keeps one of its initial states.
MCInit ==
  /\ awaited \in {"NSLock", "NSConditionLock", "NSThread", "NSAutoreleasePool"}
  /\ Init /\ NSConditionLock!Init /\ NSThread!Init /\ NSAutoreleasePool!Init
  /\ awaited # "NSConditionLock" => condition = 1

OnNSLock(step) ==
  awaited = "NSLock" /\ step /\ UNCHANGED <<awaited, ringVars, thrVars, poolVars>>

OnNSConditionLock(step) ==
  awaited = "NSConditionLock" /\ step /\ UNCHANGED <<awaited, vars, thrVars, poolVars>>

OnNSThread(step) ==
  awaited = "NSThread" /\ step /\ UNCHANGED <<awaited, vars, ringVars, poolVars>>

OnNSAutoreleasePool(step) ==
  awaited = "NSAutoreleasePool" /\ step /\ UNCHANGED <<awaited, vars, ringVars, thrVars>>

MCNext ==
  \/ OnNSLock(Next)
  \/ OnNSConditionLock(NSConditionLock!Next)
  \/ OnNSThread(NSThread!Next)
  \/ OnNSAutoreleasePool(NSAutoreleasePool!Next)

(* The fairness of PlainLock, ConditionLock, ThreadLifecycle and           *)
(* AutoreleasePool.                                                        *)
MCFairness ==
  /\ WF_mcVars(OnNSLock(Tick))
  /\ \A t \in Thread : WF_mcVars(OnNSLock(Poll(t)))
  /\ \A t \in RingThread :
       /\ WF_mcVars(OnNSConditionLock(NSConditionLock!CallStep(t)))
       /\ WF_mcVars(OnNSConditionLock(NSConditionLock!UnlockStep(t)))
       /\ WF_mcVars(OnNSConditionLock(NSConditionLock!InnerStep(t)))
  /\ <>[][\A t \in RingThread : ~NSConditionLock!WakeSpuriously(t)]_mcVars
  /\ \A a \in NSThread!Actor : WF_mcVars(OnNSThread(NSThread!CallStep(a)))
  /\ \A o \in Os : /\ WF_mcVars(OnNSThread(place[o] # "none" /\ NSThread!BounceStep(o)))
                   /\ SF_mcVars(OnNSThread(NSThread!ExitStep(o)))
  /\ WF_mcVars(OnNSAutoreleasePool(NSAutoreleasePool!PoolStep))
  /\ SF_mcVars(OnNSAutoreleasePool(NSAutoreleasePool!DeallocReturn))
  /\ SF_mcVars(OnNSAutoreleasePool(NSAutoreleasePool!DeallocPops))

MCSpec == MCInit /\ [][MCNext]_mcVars /\ MCFairness

(* Threads that hand an NSConditionLock round a ring of conditions all get *)
(* it again and again.                                                     *)
EveryThreadGetsTheLock ==
  awaited = "NSConditionLock" => NSConditionLock!EveryThreadGetsTheLock

(* Once the main thread has ended, the universe is torn down.              *)
TeardownComes == NSThread!TeardownComes

(* A join comes back.                                                      *)
JoinComesBack == NSThread!JoinComesBack

(* Drains and walks end, although what they release refills the pool.      *)
CallsEnd == NSAutoreleasePool!CallsEnd
=============================================================================
