# TLA+ models of MulleObjC

MulleObjC is the root class library of the mulle-objc language: `NSObject`,
autorelease pools, threads, locks, invocations, properties that are made on
demand, and the set-up and teardown of the Objective-C universe. This directory
holds TLA+ models of it, TLC runs on small instances, and TLAPS proofs that hold
for any number of threads. The models concentrate on what depends on reentrancy,
on the interleaving of threads, on who owns a reference, and on the limits of
integers.

Paths are relative to `src/src/` unless they start with `src/`. `PROJECT.json`
maps each definition to the lines it stands for, lists the hazards line by line
with the properties that cover them, and holds the mutants: for each property a
plausible defect of the code that makes TLC find it violated.

## 1. Inventory

| Component | State | Operations | What is hard | What makes it correct |
|---|---|---|---|---|
| Autorelease pools (`class/NSAutoreleasePool.m`, `mulle-objc-autoreleasepointerarray-private.h`) | per thread: the chain of pools, each with chained pointer arrays, and an optional object map | autorelease, bulk autorelease, push, pop, drain, removal of objects, reset, done, counting | draining runs `-dealloc`, which is client code and uses the pools that are being drained | no pending release is lost or doubled, no cursor dangles, drains end |
| Root objects (`protocol/MulleObjCRootObject.m`) | the universe's set of roots | become, resign, push to parent pool | references move between pool, root set and client | every counted reference has an owner |
| Condition locks (`class/NSCondition.m`, `class/NSConditionLock.m`) | mutex, condition variable, unsynchronised flag, integer condition | lock, try, wait, signal, unlock with value | spurious wakeups, signals to the wrong waiter, racy flag | granted with the value asked for, no lost wakeup |
| Plain and recursive locks (`class/NSLock.m`, `class/NSRecursiveLock.m`) | mutex, owner, depth | lock, try, timed lock, unlock | the timed lock polls the clock while others lock and unlock | mutual exclusion; the timed lock returns |
| Autolocking objects (`class/MulleObject.m`) | a recursive lock per object, possibly shared | locking forward, exchange of the lock | exchange of a lock that is held or waited for | nobody else is in a method; the lock that was taken is the one released, and is alive |
| Threads (`class/NSThread.m`) | `NSThread` ivars, the universe's reference count and `n_threads`, the threads map, registration with `mulle_aba` | init, start, detach, join, cancel, exit, adoption of C threads, TSS destructor; lookup, names, run loop, user info | starter, thread, joiner and teardown race; the last thread out tears the universe down; thread ids are used again | the universe and the `NSThread` outlive their use; teardown comes, and finds nobody; what is found under an id is alive and the right one |
| Thread affinity, "TAO" (`protocol/MulleObjCRootObject.m`, `class/NSObject.m`, `class/NSInvocation.m`, `function/MulleObjCProperty.h`) | the thread id of each object | gain and relinquish access with eight strategies | a retain in one thread is paired with an autorelease in another | one owner at a time; gains and relinquishes balance |
| Atomic and lazy instance variables (`mulle-objc-atomicid.m`, `function/MulleObjCIvar.m`, `MulleObjCIntegralType.h`) | one pointer each | get, set, exchange, lazy computation | publication by compare and swap, ownership of the losers | each call takes effect at one instant, references balance |
| Singletons, class clusters (`protocol/MulleObjCSingleton.m`, `protocol/MulleObjCClassCluster.m`) | one pointer per class | create or get | made constant only after publication | one object for all threads |
| Universe (`mulle-objc-universefoundationinfo.m`, `mulle-objc-universeconfiguration.m`) | configuration, roots, threads, exception table | set-up, will-finalize, finalize, done | each stage creates objects for pools that earlier stages emptied | nothing is left, nothing is released twice |
| `NSObject` and allocation (`class/NSObject.m`, `function/MulleObjCAllocation.h`) | retain counts with special values, allocators of threads and instances | alloc, retain, release, dealloc, malloc and free for an instance or class | the allocator changes between allocation and release | memory goes back to where it came from |
| Properties and dynamic objects (`function/MulleObjCProperty.m`, `class/MulleDynamicObject.m`) | values by property kind; accessors of a class | get, set, add to and remove from a container, clear, make an accessor | setter, finalize and dealloc each decide by kind what they owe; accessors are made by racing threads | each reference of a property is given back once |
| Invocations (`class/NSInvocation.m`) | argument frame, flags, a queue of instances for reuse | set, retain or copy the arguments, invoke, dealloc | reuse of an instance with a former life | references balance |
| Container callbacks (`struct/MulleObjCContainerObjectCallback.m`) | none; they define what a container holds | retain, copy, assign, autorelease, compare | insertion and removal must be of one kind | what is in a container can be used and found |
| Exceptions (`protocol/MulleObjCException.h`, `function/MulleObjCExceptionHandler.m`) | handler table per universe | throw, cast, check | which universe's table, in which phase | the error arrives with its message |
| Runtime functions (`function/MulleObjCFunctions.h`, `.m`, `protocol/MulleObjCRootObject.h`) | none of their own | message calls and accessors, searches for methods, classes and properties | calling conventions by platform; search order | caller and callee agree; each method is found once |
| Ranges, hashes, byte order, tagged pointers, enum names | none | functions | wrap around, width, sign | agreement with a reference definition |
| Proxies, coding, values, null, startup, printing, debugging | little or none | | | see section 6 |

How they interact: a release anywhere may run `-dealloc`, which may use the
thread's pools. `NSThread` owns the pool configuration of its OS thread and hands
objects over with TAO. Every thread holds a reference to the universe. Whoever
drops the last one runs the teardown, which drains pools and releases roots and
singletons. Raise functions go through an exception table whose defaults abort;
apart from `Exceptions`, the models treat a raise as the end of the program and
leave the raising call out. The one exception is a failed thread creation:
`-mulleStart` first gives back the references it took and raises last, so `CreateFails` returns
the starter to its client, as it does under an exception table that throws. What it
does not undo is the relinquish of the argument (section 4).

## 2. Modules

| Module | Models |
|---|---|
| `AutoreleasePool`, `MCAutoreleasePool`, `AutoreleasePoolProofs` | the pools, the object map and the reference counts of one thread; roots |
| `GuardedLock` | abstract: what a condition lock promises |
| `ConditionLock` | `NSCondition` and `NSConditionLock`, step by step |
| `PlainLock` | `NSLock` with its timed lock |
| `AutolockingObject` | `NSRecursiveLock`, and `MulleObject` with its locking forward |
| `MCLocks`, `LockProofs`, `MCWaiting` | compositions: the safety of locks, with the proofs for all of them; what threads wait for |
| `ThreadLifecycle`, `MCThreadLifecycle`, `ThreadLifecycleProofs` | start, exit, join, adoption, and the universe's reference count |
| `ThreadRegistry` | the ways to find the `NSThread` of a thread, and what it keeps for its thread |
| `AtomicNames` | the name of a thread |
| `AtomicRegister` | abstract: what an atomic variable promises |
| `AtomicIntegers`, `AtomicIds` | integers and instance variables changed by compare and swap |
| `MCSharedVariables`, `SharedVariablesProofs` | composition: what threads share without a lock, with the proofs for names, integers, instance variables and the table of threads |
| `ThreadAffinity`, `MCThreadAffinity`, `ThreadAffinityProofs` | gain and relinquish, hand-over of object graphs between threads with pools |
| `Universe`, `MCUniverse`, `UniverseProofs` | singletons, placeholders, roots, and the stages of the teardown |
| `SumLemmas` | sums over finite sets, by which the proofs count references |
| `Properties` | the properties of an object from `+alloc` to `-dealloc`; accessors that are made on demand |
| `Container` | a container with each pair of callbacks |
| `Invocations` | `NSInvocation`: arguments, results, reuse |
| `Allocation`, `OwnedObjects` | allocators, retain counts and zones; functions that fill memory of the caller |
| `Exceptions` | errors, universes' tables, casts |
| `MetaABI`, `MethodSearch`, `ClassHierarchy` | message calls, overridden methods, classes and their properties |
| `Ranges`, `ByteOrder`, `TaggedPointers`, `EnumTables` | pure functions |
| `PowersOfTwo` | widths of integers and pointers |
| `MCValues`, `ValueProofs` | composition: calls every function with all small inputs; runs the objects; with the proofs for both |

The modules named `MC...` instantiate several components at once where these have no
variable in common: the initial state picks one, which then runs alone, while
the others rest in one of their initial states. So such a run checks the sum of the
components' states, not their product. In the same way `MCAutoreleasePool` picks between two sets of bounds, and
`MCLocks` between two kinds of clients.

### AutoreleasePool

`pools` is the chain of pools, oldest first; each is the sequence of its pointer
arrays (`objects`, whose length is the C field `used`, and the unsigned `count`).
The thread's C stack matters here: a drain releases an object, whose `-dealloc`
autoreleases into the pool that is being drained, pushes a pool, pops it, or takes
objects out of pools. `stack` therefore holds one frame per call in progress: a
`drain` with the storage it took off the pool (`chain`), a `walk` of
`-mulleReleasePoolObjects:count:` with its cursor, or a `dealloc`. Client
operations are enabled when client code is on top, that is at the bottom of the
stack or in a `-dealloc`. Each release inside a drain or a walk is a step, so all
reentrant uses are explored.

Kept from the code: `addObjects()` fills the rest of the current array and then new
ones and does not touch `count`; a removal leaves a hole; a pop moves the tail only
after the pool stayed empty, and goes on to the target; `-addObject:` ignores
which pool it is sent to; constant objects are skipped by `_autoreleaseObject()` but
not by the bulk path; without a pool the reference leaks.

Client assumptions: code gives away only references it owns, and pops only pools it
pushed (what `@autoreleasepool` enforces). It may send `-mulleReleaseAllPoolObjects` to any pool, which
checks nothing: one that another call is draining or popping, one below a pool pushed since. One case is a
constant: with `DrainsWalked` a `-dealloc` may also send it to a pool that a walk is in. The walk then
goes on with its old pointers; its frame keeps what they point to (`stale`), and `SlotReads` says what it
finds there: the old contents of the first array, which is part of the pool, and anything in the others,
which are freed. The properties hold without `DrainsWalked` and fail with it (section 4, `pool_walked`).
Of the dump there is the set of objects it shows (`DumpedObjects`). Not modelled: tracing, what the dump
prints, and `FORBID_ALLOC_DURING_AUTORELEASE`, which is not built.

### Locks

`ConditionLock` has one action per access to shared state: a lock call takes the mutex (`Acquire`),
writes `_isLocked` (`SetIsLocked`) and compares the condition (`Test`). A wait clears
the flag, then gives up the mutex and sleeps atomically. Mutex and condition variable
are those of mulle-thread and follow POSIX: a signal wakes at least one waiter, and
waiters may wake without one. `Holder` and `Asked` map the state to `GuardedLock`.

`PlainLock` has the mutex, the clock `now`, and for each thread its call with its deadline. A
timed lock looks at the clock, tries the mutex and yields, each a step; `inside` are the threads
whose last call told them that they have the lock.

`AutolockingObject` has for each object the lock it uses (`__lock`), the thread it is bound to while it
has none, and the thread that alone knows it at first (`private`); for each recursive lock
its owner and depth (`mutex`); and for each thread the `stack` of the calls it is in, each with
the lock that it took, since `-__lockingForward:` does not read the lock again to unlock.
Raw `-lock` and `-unlock` do read it again (`_MulleObjectLock`, `_MulleObjectUnlock`). An exchanged lock
goes to the autorelease pool of the thread that exchanges it (`pending`), and a thread reaps its pool when it has no call
in progress, as the comment in `MulleObject.m` demands. Client assumptions: locks are taken in one order, and a thread
does not exchange a lock between its own raw `-lock` and `-unlock`. Two constants choose among clients. With
`SharesEarly` a lock is exchanged only while the object is known to one thread; without it at any time, also while
others hold or wait for the lock. With `LocksByHand` code uses raw `-lock` and `-unlock`. All
properties hold with `SharesEarly`. Without it the counts of the locks stay right if nobody locks by hand, and
the rest fails: methods do not exclude each other (`lock_sharing`), a raw `-unlock` unlocks another lock than its `-lock` took,
and a lock may be freed under a call (section 4). `MCLocks` has both kinds of clients (`MulleObject`, `Exchanged`). A behaviour of
the second kind ends where a lock is freed under a call, and threads may wait for each other there (`AllWait`),
since an exchange changes the order in which locks are taken; the comment at `-shareRecursiveLock:` expects that.

### ThreadLifecycle, ThreadRegistry, AtomicNames

`pc` says where each OS thread is. A thread goes through a start call (`goingMulti`
to `detaching`), through `bouncyBounce()` (`bounce` to `gaining`), is `client` code, and
leaves through `+exit` and the TSS destructor (`goingSingle` to `leaving`). `thr` holds the
ivars of each `NSThread`, its reference count, the thread its argument belongs to (`affinity`), and the retains
of relinquishes that no gain has given back (`handed`). `-mulleRelinquishAccess` of the argument
by another thread than its owner raises, as does an argument of another thread in `Start`; `ArgumentIsReady` states
that neither relinquish of the code gets there: the starter's finds the argument its own, or with nobody after a start
that failed, the finalizer's finds it with the thread.
`ReleaseUniverse` is `_mulle_objc_universe_release()`: the last reference drives the
teardown on the releasing thread, which ends `mulle_aba`. C threads (`Foreign`) enter
at `mulle_aba_register()` in `MulleThreadGetOrCreateCurrentThread()`.

Client assumptions: a call on an `NSThread` is made by someone who holds a reference;
only the main thread joins (joins in a circle deadlock in any thread library); an
`NSThread` is started by a thread that alone sends it messages and has access to the argument, and that may give
it away afterwards; C code does not let `main` return
while one of its threads is in the middle of being adopted, before it has its reference.

`ThreadRegistry` takes up what the threads map is for: `threads`, the map, whose functions run under
the universe's lock and are one step each; `threadobject`, the thread local storage; and
`mainthreadobject`. OS thread ids and addresses of `NSThread` objects are used
again after the thread and the object are gone. Lookups retain and autorelease under the lock. The
run loop is set by compare and swap by the thread itself and by others for the main thread; user info
and dictionary belong to the thread.

`AtomicNames` has the name of one `NSThread`, and strings that `mulle_aba` frees when every
thread has checked in since. A thread that pops a pool or calls `-isCancelled` checks in, and no longer
uses what it read; this is the contract of `mulle_aba`, and client code's part of it.

### AtomicRegister, AtomicIntegers, AtomicIds

`AtomicRegister` is a variable and calls with three steps: invoke, take effect, return. Its operator
constants say what a request may leave (`Effects`) and what it returns (`Result`). `AtomicIntegers`
are the inline functions of `MulleObjCIntegralType.h`: read, combine, compare and swap, again if it
failed; a word is the set of its one bits. `AtomicIds` are get, set, exchange and the lazy getter
of `mulle_atomic_id_t`, with the retain, copy and autorelease that the ivar's type asks for, addresses that
are used again, and a lazy loader that runs client code which may return nil, an old or a new object.
Both implement the register.

### ThreadAffinity

`thread_id` is the affinity of each object: a thread, no thread (in limbo) or thread safe.
`pools` are the autorelease pools of each thread, here as counts of references per object,
since only the number matters and a drain may come upon the objects in any order.
`ivars` are the objects that an object retains, as properties or as the arguments of an
invocation. `-mulleRelinquishAccess` and `-mulleGainAccess` walk this graph: `call[t].stack` has
a frame for each object on the way, with the objects still to visit, and `uniquing` is the set
that keeps a walk from doing an object twice. A relinquish visits what an object holds first,
a gain does the object first. `RelinquishAccess` and `GainAccess` are the two
`...WithTAOStrategy:` methods, statement by statement, and each is one step, because nobody else
may touch an object while they run; the steps of the walks of two threads interleave. The
order in which an object's held objects are visited is left open.

Threads hand objects over through `available`, with `_MulleObjCRecycleObjectAtomically()` and
`_MulleObjCAcquireObjectAtomically()`. The read and the swap of the acquire, and the relinquish,
swap and second gain of the recycle, are steps of their own. The checks are those of a DEBUG
build with TAO; a failed one sets `raised` and ends the program.

Client assumptions: a thread messages objects of its own, thread safe ones, and those with
`KnownThreadSafeMethods`, as far as it can reach them; an object that is not thread safe
is held by at most one other object, which takes it along and takes it out of at least as many
pools, and is not handed over on its own meanwhile; an object is made thread safe or not only while
nobody else refers to it; a recycled object is discarded only if it holds nothing that a walk
visits. An invocation is a plain `NSObject` (`class/NSInvocation.h:70`), so its strategy is none of the two thread
safe ones (`AffinityAssumption`). Not modelled: proxies (`MulleProxy` forwards both walks to its
target), the loops over several objects, which make the same two walks for one object after the other.

### Universe

Threads create a singleton and the placeholder of a class cluster: look, create, publish by compare and
swap, make constant, each a step, so that others see the object before it is constant. `Stages` are
those of the universe's will-finalize, finalize and done callbacks in their order; between them the
last thread drains its pools, and each `-finalize` and `-dealloc` that a drain, a root or a singleton runs
may make another autoreleased object. `dying` are the objects that a
thread has yet to finalize and deallocate; `zombies` were freed in name only, since a singleton's memory is
kept to the end.
The last thread is the main thread here; workers that outlive it are in `ThreadLifecycle`.

### Properties, Container, Invocations, Allocation

`Properties` is one object, of class `MulleObject` with instance variables or `MulleDynamicObject` with a map. `kind`
gives for each property its type (object, string, wrapped or plain value), whether it is
retained, copied or assigned, and whether it is readonly, cleared through its setter, and so on. Setters,
clearing, `-finalize` and `-dealloc` work on `ivars` and the counts `rc` and
`pool`, each deciding by kind as the code does. A setter asserts that it finds the key of its property, which is a
part of `ContentsAreHeld` (`SettersHaveKeys`). Adding to and removing from a container property are left out. Besides, threads make the accessors
of the class on demand: `-forward:`, the search, and adding the method list are separate steps.

`Container` is a container of mulle-container with one of the 14 pairs of callbacks: all pairs of objects and
integers that the library names, those of pointers and strings that differ in what they do, and the key callback without a pair
with an integer as value. Its client gives a reference away only once, so not as key and value of one entry.
Objects and C strings are cells with count, content and mutability. `Invocations` has a few invocations of
one signature, which are set, retain or copy their arguments, are invoked, released by threads and used again through
the queue `reuse`. Clients do not retain arguments over which a result was written. `Allocation` has instances and
blocks of memory that remember where they came from,
with and without the allocator in the instance's header. With it, `MulleObjCInstanceGetAllocator()` returns what the code
does, which is the first word of the allocator (`FirstWord`; section 4), so
`MemoryGoesHome` speaks of classes and zones in both builds and of instances in the build without;
`_MulleObjCReleaseObject` is the release that frees what the instance allocated. Client assumptions are stated in the modules: clients release what they own, once, and
use what they borrowed only until the pool is popped.

### Functions

A function is an operator; a property compares it with a reference definition that
is stated without its machinery (locations as sets, bytes as sequences, implementations as sets). `Ranges`
has `NSUInteger` as numbers below `Modulus`, with wrap around. `MetaABI` has three sorts of
platform, which differ in the sizes of C types; the rule of the compiler, which the library must
match, is external. `MethodSearch` and `ClassHierarchy` take the runtime's order of classes, categories and
mixins as given. `OwnedObjects` writes to an array of the caller with `maxCount`
places, or constructs an instance in a buffer. `Exceptions` maps a
thrown error to how the program goes on, for every configuration of two universes. `EnumTables` prints by a
table and parses what was printed, where one character stands for the digits of a number.

## 3. Runs

| Run | Instance | Properties and what they show |
|---|---|---|
| `pool` | 2 objects, 2 pools; arrays of two slots, storage of three, 2 references to an object, calls nested 2 deep; or arrays of one slot, storage of two, calls nested 3 deep | `RetainBalance`, `MapIsExact`, `CursorsValid` under every reentrant use |
| `locks` | 3 threads, 2 values, all calls of an `NSConditionLock`; or 2 threads, 2 objects that lock themselves, 2 nested calls, with locks that are shared early, or exchanged while others have them; or an `NSLock` with 3 threads and a clock to 2 | `LockIsSafe` (mutual exclusion, the flag, the granted condition), `NoLostWakeup`, `ImplementsGuardedLock`; `LockExcludes`; `MethodsExclude` for early sharing; `LocksBalance`: locks are released as often as taken, by their owner, also if they were exchanged meanwhile, and if they are shared early are not freed before |
| `waiting` | an `NSLock` with 2 threads and a clock to 2; a ring of 3 threads and 3 values; 2 NSThreads with a started and a C thread; 2 objects and 2 pools with arrays of one slot, no allocation inside `-dealloc` | `TimedLockReturns`, `EveryThreadGetsTheLock`, `TeardownComes`, `JoinComesBack`; `CallsEnd`: drains end although they refill the pool |
| `threads` | 3 NSThreads, 2 started threads, one C thread, 2 references each | `ReferencesHaveHolders`, `UniverseOutlivesThreads`, `TeardownIsQuiet`, `NSThreadOutlivesUse`, `ArgumentHandover` |
| `affinity` | 2 threads with 2 pools each, an invocation and an object, 7 pairs of strategies | `AccessIsExclusive`, `ReferencesBalance`, `GraphFollows`: no gain or relinquish raises for ownership, references are covered and none is lost, pools hold only objects of their thread, what an object holds follows it |
| `shared_variables` | 2 threads, words of 2 bits; 2 objects, 3 references; 3 strings; 2 OS threads, 3 NSThreads | `IntegersAreAtomic`, `IdsAreAtomic` (refinements of `AtomicRegister`), `IvarReferencesBalance`, `NamesAreSafe`, `ThreadsAreFound` |
| `universe` | 2 threads, 4 addresses, 2 references | `OneSharedInstance`: all threads get the same singleton and placeholder, references balance on the way; `TeardownLeavesNothing` |
| `values` | see below | `RangesHold`, `BuffersFit`, `MessagesArrive`, `NumbersAreKept`, `MethodsFound`, `NamesParseBack`: a function agrees with its reference; `ContentsAreHeld`, `MemoryGoesHome`: an object's values, a container's entries, an invocation's arguments and memory are counted, alive while used, and given back once |
| `pool_spaced`, `pool_walked`, `lock_sharing`, `accessor_race` | | see section 4 |

Bounds. Arrays of one slot make every autorelease cross an array boundary, arrays of two
leave room for holes and partial copies; at most four slots are in use in all pools together (`FourSlots`), which one pool with
two arrays and another pool need. Two objects are enough for a `-dealloc` to put
another object into the pool, and three nested calls for a drain or a walk in a `-dealloc` inside a walk or a drain.
No run has constant objects in a pool; `BalanceKept` and `MapExactness` are proved for any set of them.
`CountModulus` is far above what the counter can reach, so that a wrap is a
wrap below zero. Two values and three threads give a signal the choice of a wrong
waiter. The run has every unlock broadcast; for unlocks that only signal (`broadcast:NO`),
`LockSafety` and `Refinement` are proved and a lost wakeup is to be expected. Two started threads and a
C thread allow each of them to be last, before or after
the main thread. A start that failed may be repeated until two retains of its relinquish are left
(`MaxStarts`), and that only for one `NSThread` while the other is not in the course of a start (`OneStartsAgain`). In `locks`, exchanges are explored once all objects are known to all threads, while one of the objects has a lock, and with at most
one old lock in a pool (`ExchangesInBounds`): that suffices for a lock to be replaced under its holder, under a waiter, by a lock
that is held, and by none. In `affinity` two pools tell the current pool from the outer ones, and two objects
are one that walks and one that is walked to; the pairs of strategies let each strategy occur and
be held by an object of each kind. `MaxRefs` = 2 gives an object two entries in one pool.
Two objects for `AtomicIds` are a value that is in the variable and one that replaces it, and a freed
address that comes back as a new object; three strings are the current name, one in use and retired, and
a new one; three NSThreads leave one free when both OS threads have one, for an id to come back with another object. In
`universe`, four addresses are the shared instances of both classes, what their `-finalize` leaves in a
pool, and a root or a loser of the race. In `values`, `Modulus` = 16 is small enough to
take all ranges and lengths and large enough for `NSNotFound` to lie between valid locations and the end; 7
implementations of a method in two classes with two categories and two mixins are such that any
two of them differ in class, category, mixin or level; three classes a chain of three; enum tables have up to two lines of a narrow and of the
widest type; dynamic properties come in all kinds, next to a second one that is assigned or retained;
containers have two entries; invocations two instances, with a queue of one, so that it overflows.

Deadlock is checked in `pool`, `locks`, `waiting`, `threads` and `affinity`. In `ThreadLifecycle` the end
of all threads is a stuttering step (`Ended`). The others may stop: a universe that is gone, an object after
its `-dealloc`, and references at their bounds leave nothing to do.

Fairness. `CallsEnd`: the thread's own calls go on (weak fairness of `PoolStep`), client code
comes back from `-dealloc` and pops what it pushed there; it allocates nothing there,
since code that allocates a new object in every `-dealloc` can keep any drain busy.
`TimedLockReturns`: the clock goes on and a polling thread runs; nobody has to unlock.
`EveryThreadGetsTheLock`: threads that can run do, lock again and unlock; spurious wakeups
stop eventually; a fair mutex is not needed, because in the ring only one waiter can go on.
`TeardownComes` and `JoinComesBack`: the operating system runs the threads, and `-main` of each
thread ends (strong fairness of the way out, since client code may make calls in between).
`AutoreleasePool`, `PlainLock`, `ConditionLock` and `ThreadLifecycle` state the steps; `MCWaiting` composes them.

## 4. Where code and documentation disagree

* `pool_spaced`: with a stride the object map counts the wrong objects, and the drain trips
  the assertion "object appeared in pool out of nowhere". The map exists only when
  the pool is configured with one.
* `pool_walked`: `-mulleReleaseAllPoolObjects` drains the pool it is sent to without a look at who else is in it. If a `-dealloc`
  that `-mulleReleasePoolObjects:count:` runs sends it to the pool that is being walked, the walk goes on through slots of
  released objects and through arrays that were freed, and trips the same assertion. The header calls the method "untested!
  This like -drain, but the autoreleasepool stays in place" (`class/NSAutoreleasePool.h:120`).
* `lock_sharing`: `-shareRecursiveLock:` in the middle of a method lets a second thread into the
  methods of the object, since it takes the new lock while the first thread holds the old one. The header promises
  thread safe methods; the comment at the method shows the balance of the locks and
  concludes "Looks like its harmless..". The balance is confirmed, also for exchanges by another thread than the one that has the lock or
  waits for it, as long as nobody locks by hand (`LocksBalance` in `locks`, and `LockBalance`).
* `accessor_race`: two threads that call the same new accessor of a `MulleDynamicObject` class both reach
  `-forward:`; the second one finds the method that the first one has added and trips the assertion
  "why are we here then, if it exists". Without assertions it returns the first method of
  an empty list, if no other accessor of the property was missing.

Also noticed while modelling, without a run.

Pools and roots: the bulk call puts constant objects into a pool, which `src/RELEASENOTES.md:40` and the
comment of the single call rule out (harmless for the balance, as `BalanceKept` shows); `-mulleCount` leaves out
bulk autoreleases; `+mulleCountObject:` misses storage that is being drained; the `break` of
`_mulle_autoreleasepointerarray_walk_objects()` leaves the inner loop only; `-_pushToParentAutoreleasePool` ends in
the current pool, since `-addObject:` ignores its receiver; `-_getRootObjects` looks at the info that is part of the universe
even if that was allocated apart; `add_rootobject` asserts with an object against a map that has thread ids as keys.

Threads: a start whose thread cannot be created gives back its references under the comment "undo this" (`class/NSThread.m:820-828`), but
does not take back the relinquish of the argument, which stays without a thread and has a retain that nobody
gives back; `ThreadLifecycle` has the state (`CreateFails`), and lets the starter try again or let go. When a worker outlives the main thread and drives the teardown, the main thread's entry stays in the threads
map, against the assertion at `mulle-objc-universefoundationinfo.m:341`; `+mulleIsMultiThreaded` may still read NO right
after `-mulleStart`, since the new thread moves the counter; two exits that both read two leave it on; `-mulleStart` tests the thread id long before it is set, so two
starters of one `NSThread` both get through; `-start` on a running thread leaves `_isDetached` set if the exception
table throws; `-isCancelled` compares `_osThreadId` with itself and checks in on any thread; `-dealloc` never frees the
name; `-finalize` ends the map of the user's keys before pools are reset, so that objects released there find a finished map;
`-mulleSetRunLoop:` asserts that the thread is not finalized only before its compare and swap;
`_MulleThreadGetCurrentThreadObjectInUniverse()` returns the main thread's object.

Singletons: the ephemeral singleton's loser gets the winner without a retain, and the table holds no reference of its own;
`+sharedInstance` returns nil during deinitialization even if there is a singleton; placeholders that lose the race leak.

Atomic variables: setting the same object twice loses a reference (`AtomicIds` counts them as `lost`); getters
return pointers without a reference, so a thread needs one from elsewhere.

Autolocking: a raw `-unlock` reads the lock again (`class/MulleObject-Private.h:59`) and unlocks another one if it was exchanged, though
"it's vital, that we increment and decrement the identical lock" (`class/MulleObject.m:425`). An exchanged lock is
autoreleased in the pool of the thread that exchanges it (`class/MulleObject.m:667`), so it may be freed while another thread has it or waits for
it; the comment at line 616, "can't reap the pool inbetween", thinks of the pool of the thread that has the lock.
`LocksOutliveCalls` states what is missing: it is proved for `SharesEarly` and fails without.

Objects and allocation: `NSExtraRefCount()` returns the retain count; the getter of the embedded allocator
(`function/MulleObjCAllocation.h:62-67`) dereferences the pointer in the header twice and so returns the first word of the allocator, a function, in its place: in such a
build memory for an instance does not come from the instance's allocator, which is the purpose of the header;
`MulleObjCThreadGetAllocator()` is declared free of side effects and of memory although it reads what threads change; the overflow assertion of
`MulleObjCCallocAutoreleased()` misses products that wrap to something large enough; `-_getOwnedObjects` counts
instance variables that are nil, so that its count can exceed what it wrote.

Properties: discarding a recycled object with `[obj release]`, as `MulleObjCProperty.h:88-100` says, gives back one of the retains that
its relinquish took, so what the object held stays in limbo; `release_generic_value()` has no case for assigned
values; the accessor name made for `mulleSetX:` repeats the first character; the search sets a context and returns what it
was called with; values set after `-mullePerformFinalize` are not released by `-dealloc`.

Invocations: `-invoke` writes a struct result over arguments or target, which a second `-invoke` and a `-dealloc` after
`-retainArguments` then use; `-setArgument:` after `-retainArguments` replaces without a release; a second `-invoke`
after `-mulleRetainReturnValue` overwrites the retained value. `-retainArguments` after an `-invoke` that wrote its result over the target sends
`-retain` to what is left of it (`class/NSInvocation.m:647-651`); `MayRetain` leaves the call out.

Exceptions and configuration: `raisev_errno` does not check the string that the others check;
`mulle_objc_universe_get_foundationexceptionhandlertable()` dereferences the universe before it compares it with NULL, and
`NSInvocation.m:308` passes NULL; the default configuration gives the size of another struct
(`mulle-objc-universeconfiguration.m:529`); a configuration without an uncaught exception handler overwrites the default one.

Functions: `MulleObjCRangeCombine()` combines ranges that touch, {0, 2} and {2, 3} to {0, 5}, though `src/dox/API_NSRange.md:86` says that for
ranges that do not overlap it returns `NSNotFound` and 0, and these do not; `SetOperationsAgree` states what the code does.
`MulleObjCObjectGetLongDouble()` returns a double; `MulleObjCRangeSubtract()` returns nothing although its documentation
speaks of a count; negative enum constants of narrow types print as numbers that do not parse back; `MulleObjCClobberedIMP()`
does not find what its comment says if self is of a subclass; class lookup by name compares hashes only;
`MulleObjCClassMetaClass()` is a predicate despite its name; two threads that create the same selector leak the loser's
descriptor.

## 5. Proofs

All theorems are for arbitrary constants that satisfy the named assumptions. Where a theorem is
about a module that a composition instantiates, its specification is the instance's (`Names!Spec`, `Ids!Spec`, `Registry!Spec`,
`MulleObject!Spec`, `NSLock!Spec`, `Memory!Spec`, `Messages!Spec`, `Contents!Spec`, `Accessors!Spec`), so it speaks of the very definition that the run checks. A theorem
`Composition` of each such module shows that the composition implements the specifications of its parts: it runs one and leaves the
others at rest. What is proved about a part so holds of the run (of `NSLock` without its fairness, which `LockExcludes` does not need).

| Module | Assumptions on constants | Theorems |
|---|---|---|
| `LockProofs` | `LockAssumption`, `CallerAssumption`; `Broadcasts` ⊆ {`TRUE`} for `WakeupSafety`; `SharesEarly` for `MethodSafety`; for `LockBalance` that, or ~`LocksByHand` | `TypeCorrect`, `LockSafety`, `WakeupSafety`, `Refinement`; `MethodSafety`, `LockBalance`; `NSLockSafety`; `Composition` |
| `ThreadLifecycleProofs` | `ThreadAssumption` | `TypeCorrect`, `References`, `UniverseSafety`, `TeardownSafety`, `NSThreadSafety`, `ArgumentSafety` |
| `SharedVariablesProofs` | `SharingAssumption` | `NameSafety`, `IntegersTyped`, `IntegersRefineRegister`, `IdsRefineRegister`, `IdReferences`, `RegistrySafety`; `Composition` |
| `AutoreleasePoolProofs` | `PoolAssumption`; ~`DrainsWalked`; `Steps` ⊆ {1} for all but the first | `CursorSafety`, `BalanceKept`, `MapExactness`, `NeverOutOfNowhere` |
| `UniverseProofs` | `UniverseAssumption` | `SharingSafety`, `TeardownSafety` |
| `ThreadAffinityProofs` | `AffinityAssumption` | `Invariance`, `TypeCorrect`, `AffinityIsExclusive`, `HandOversBalance`, `HandOversTakeTheGraph` |
| `ValueProofs` | `ValuesAssumption` and those of the modules it calls (`ModulusAssumption`, `UniverseAssumption`, ...) | `RangesAreExact`, `MessagesAndErrorsArrive`, `NumbersKept`; `MemorySafety`, `InvocationsGiveBack`, `ContainersHold`, `PropertiesHold`; `Composition`, `ContentsHold` |
| `SumLemmas` | none | only lemmas, for the others |

The hypotheses that are not about the kind of a constant are needed, as section 4 shows:
`WakeupSafety` fails where an unlock only signals, `MethodSafety` where a lock is exchanged in the middle of a method
(`lock_sharing`), `LockBalance` where that is done between a raw `-lock` and `-unlock`, the theorems of the pools where a `-dealloc` drains the pool that is being walked
(`pool_walked`), and the counting ones where a caller of `autoreleaseObjects` uses a stride (`pool_spaced`).
`Steps` = {1} is every caller in `src/` but `_MulleObjCAutoreleaseSpacedObjects()`.

### Counting

Most of these properties say that a count equals the number of those who hold a reference, and holders
are spread over threads, pools, frames and variables. `SumLemmas` has what such an argument needs: a sum over
a finite set exists, is a natural number that no part exceeds, is zero if every part is, and changes by what one
part changes (`SumChange`). Its induction is over the subsets of a finite set by well-founded
induction on a set of subsets, which is a set and not an operator, so that the provers can take it. Recursive functions are
reached the same way: first that a function with the recursive equation exists, then that the chosen one
satisfies it (`SumIsAdds`; `FlattenIsChosen` and `WalkIsChosen` for pools).

### Locks

For condition locks, ownership of the mutex makes the other invariants inductive: only the owner moves through
`MutexPlaces`, so a write of the flag or of the condition cannot fall between another
thread's test and its return. For `WakeupSafety` the property itself speaks of threads that
are on their way into the wait: the value cannot change under them, since they hold the mutex. `Refinement`
maps each step to one of `GuardedLock` or to a stutter.

For autolocking objects `Inv` ties the lock that an object uses, the owner and depth of each recursive lock, and the stacks of
the callers together: `CallsFit` (a call has the lock that its object uses, or one that waits in the pool of its thread), `PublicIsLocked` (a call on an object
that others know holds the object's lock), `SharesOnTop` (an exchange is
the innermost call, on an object only its thread knows). These three need `SharesEarly`. The rest, `Balanced == Typed /\ Counted`, is kept by every step whoever exchanges
a lock, since a call unlocks what its frame says, and gives `LockBalance` for `Exchanged` clients. The depth of a lock is the number of frames that will release
it, which is a cardinality step for each push and pop of a frame.

For a plain lock `inside` is exactly the owner of the mutex.

### Threads

`Inv` is `PlacesFit /\ ReferencesHaveHolders`. The count of the
universe is `|Own| + |Starting| + |Started|`: threads with a reference of their own, starts
between the retain and the creation, and new threads whose starter's reference is not given
back yet. Each action moves at most one thread between these sets, so its proof is a
cardinality step. `LastReference` is the heart: the count reaches zero exactly
when all three sets are empty. `PlacesFit` keeps the main thread and C threads out of places
they cannot reach and ties the registration with `mulle_aba` to the place, which gives
`TeardownSafety`. `ThreadInv` adds for each `NSThread` that its `held` count exceeds the number of threads that are
in a call on it, that its OS thread has a reference while it runs, and where its argument and its detached flag may be at each
place of starter and thread, with at least one retain to give back (`handed`) wherever the argument is in limbo, the leftover of a failed start
included; `NSThreadSafety` and `ArgumentSafety` follow.

`RegistryInv` says for each OS thread what the map, the thread local storage and `mainthreadobject` have for
it at each place, that two threads never share an `NSThread`, and that each retain count is the sum of the references of
threads, map, lookups and pools. The invariant is needed at its full strength for the reuse of ids: a thread id that comes back finds no entry
under it only because its former thread has taken the entry out.

### Variables without a lock

Integers: a successful swap takes effect, and so does a read that shows
that there is nothing to change; a failed swap and a read before a swap are stutters. Types suffice as the invariant, because a swap compares
with what it read, whatever happened in between (a value that went and came back included).

Instance variables: `IdTyped` says in addition which requests a frame can be in and that a new value fits its request. `IdReferences` then is
`Balanced`: for each object the count is what threads own, what pools will release, what the variable keeps, what calls in progress carry,
and what was lost by setting the same object twice. Each action moves references between two of these.

Names: each string has one owner, and one that a thread uses is the current name, or is retired and waits for that thread to check in
(`UsersCheckIn`).

### Autorelease pools

`PoolFits` is about shape: a walk has its cursor inside an array of the pool it works on, a drain or walk calls nothing but
a `-dealloc`, and each call stays above the pools of the calls below it on the stack (`Below`), since code pops only what it
pushed. An operation at the top of the stack then leaves those pools their slots; a `-mulleReleaseAllPoolObjects` may empty any pool, but one that a
walk is in only with `DrainsWalked`. `CursorSafety` needs nothing else, and no hypothesis on strides.

`Books == PoolFits /\ Ledger /\ MapCounts` is about references. `Ledger`: each
count is what client code owns, the roots, what `-dealloc` holds, and the pending releases in the pools *and* in the storages that
drains have taken off their pools. `MapCounts`: the object map counts the same pending releases. They need each other, since a new object
at a used address has no pending release only because no slot of a pool has it, which the count says, while a drain
goes on only as the map allows. Pending releases are weights summed over nested sequences, and the recursive functions
that flatten and walk these are shown to agree with the sums.

### Universe

`Inv == Types /\ Sharing /\ Counts /\ Leavings`. `Sharing`: an object that a thread is about to publish is new to everyone else, the two
classes share different objects, and a shared object is constant or in the hands of a thread that is about to make it
so. `Counts`: what is not constant is counted for its holders, and a constant never went to zero before it became one.
`Leavings`: threads that left have nothing, nobody is inside a call during the teardown,
the roots are gone after their stage, and nothing is pending after the last.

### Thread affinity

`Inv` is about who has what while objects are on their way. A *carrier* is a thread that walks, or the atomic variable. Its
*cargo* is `Reach`, the least set that has the object handed over and, with each object, what a walk goes on to from there; its
*package* is the part that a relinquish has behind it, or that a gain has still before it. The parts of the invariant:

* `Balanced`: a retain count is the number of references plus the number of packages the object is in. This is the pairing of
  the relinquish's retain in one thread with the gain's autorelease in another, for each object and each moment between them.
* `Homes`, `Limbo`: what is packed has no thread, the rest of a cargo is its carrier's, and no other living object is without a thread.
* `Apart`: an object with an affinity is in one cargo only, and so is its holder. So no second walk comes upon it.
* `Backed`: what a carrier has not packed is in its pools, or held by an object it is about to relinquish; taking it out of the
  pools then cannot free it.
* `Held`, `Follows`, `ThreadSafeStays`: the shape of the graphs, and that affinities agree along them.
* `StackFits`: the stack of a walk, in the way of a depth first search: what was visited is within reach, and what its objects
  go on to was visited or is still to be visited from a frame.

A walk that ends has visited exactly `Reach` (it is closed, and the least such set), so its whole cargo is packed or
unpacked, and passes between thread and variable as a whole. The swap of the variable hands the cargo of one carrier to another; a lost race
leaves it with the thread, which gains it again. `TypeOK` belongs to the invariant, since no count may get negative.
`NothingLost` follows when there is no package, and `GraphFollows` for a thread that does not walk.

### Values

The functions of `MCValues` are proved about one call at a time: `CallFits` says that the inputs of a call are those its callers may
pass, and then each function agrees with its reference. Widths are arbitrary: `PowersOfTwo` is a recursive function that is shown
to exist and to double, and quotients and remainders of sums are the rest (`ShiftedOut`, `QuotientAndRest`). So a tagged pointer
with its shift and its mask keeps a value of any width if and only if it fits, and a wrapped sum of a location and a length is
recognised whatever the width of `NSUInteger`.

The objects of `MCValues` have inductive invariants of their own:

* `MemoryInv`: an instance and a block remember an allocator of the set they may come from, and the header of an instance, if the
  build has one, names it. What the getter of that build returns is not claimed to be an allocator.
* `MessagesInv`: an invocation that is live retained what its flags say, one in the queue nothing; the queue has no
  invocation twice, and counts are references plus what live invocations retained.
* `ContentsInv`: counts are what the client owns, what the pool will release, and the uses as keys and values (`CellsBalance`). Each of
  the pairs of callbacks undoes on removal what it does on insertion (`CallbacksFit`, from the 14 pairs). What is
  merely assigned is owned by the client, a copied string has no second reference (`PartFits`), and a key keeps
  the hash it was put in with (`HashIn`), because it is immutable where it is compared by its contents.
* `PropertiesInv`: `StoreFits` is the balance for a store of values, pool and counts, with the facts that each step of a
  `-finalize` needs: a string has one property and no other reference, so `free()` ends it; what a getter returned is
  held or in the pool. Clearing all properties is a fold in some order. It is shown that a walk over a finite set exists
  (`WalkExists`), that it keeps what each of its steps keeps, and that what a step does for its element stays done
  (`WalkKeeps`). The first walk of a dynamic object clears the assigned values, which the second one would autorelease.
  The checker of superfluous releases is quiet since the object's own count is what the client and the pool have.

`ValuesAssumption` states what the models take for granted: `NULL` is no object, addresses of objects are no plain values, finite sets of
properties and invocations. Instances have their own copies of the operators of the library (`Messages!SumFunction`,
`Accessors!Cardinality`); lemmas show that they are the same.

### Only model-checked

* Liveness and what speaks of `ENABLED`: `CallsEnd`, `TimedLockReturns`, `EveryThreadGetsTheLock`, `TeardownComes`,
  `JoinComesBack`.
* `MethodsFound`, `NamesParseBack` and `BuffersFit` of `values`: what searches through lists of methods, parsers and copying loops
  compute follows by induction over their data. `MethodsFound` and `BuffersFit` also rest on `SelectSeq`, of which the prover knows neither a
  definition nor facts.
* The runs of section 4 find violations; there is nothing to prove.

## 6. Not modelled

* Proxies: `MulleProxy` forwards to a retained target, and its part in walks of TAO is to pass them on.
* Coding, values, null: sequential methods without shared state. `NSNull` is a singleton like any other.
* Startup code and version checks run once, called by the linker and the build system.
* Debugging, printing and tracing are output for people.
* The runtime (method caches, message dispatch, the checks it makes on a message in a TAO build, class loading) and mulle-thread,
  mulle-aba, mulle-container and mulle-data are other repositories; they are modelled from how the code here uses them, and
  marked external in the map.
* The second level of method caches of autolocking objects (`MulleObject-Private.h:63-129`). As long as no methods are added
  both levels hold what the class says. `MulleObject.m:291` asks whether the two can race when methods are added; the answer
  depends on how the runtime library fills and swaps a cache, which this repository does not show.
* Adding to and removing from a container property (`MulleDynamicObject.m`), which go through the container's own methods. There is no
  copy of an `NSInvocation` to model: only its arguments are copied.
* `MulleObjCRangeInsert()`: its meaning is nowhere in the repository.
* Parsing of type encodings in `NSMethodSignature`, floating point tagged pointers, ephemeral singletons, which are a debugging aid.

## 7. What is left to prove

`NamesParseBack`: its folds have to be restated as functions on positions, with an induction like that of `WalkKeeps`.
`MethodsFound` and `BuffersFit` need in addition a definition of `SelectSeq` that can be expanded, and its lemmas.
