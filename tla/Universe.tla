------------------------------ MODULE Universe -------------------------------
(***************************************************************************)
(* What a universe owns: the singleton of a class and the placeholder of a *)
(* class cluster, which threads create on demand without a lock; the root  *)
(* objects; and the teardown, in which the last thread empties its pools,  *)
(* finalizes singletons and releases the roots, stage after stage, while   *)
(* the -finalize and -dealloc methods that it calls make new objects.      *)
(* Singletons are static here, not the ephemeral ones of leak tracing.     *)
(***************************************************************************)
EXTENDS Integers, Sequences, FiniteSets, Functions

CONSTANTS
  Thread,
  Obj,        \* addresses of objects: what is freed can be allocated again
  nil,
  MaxRefs     \* bound: references to one object

ASSUME UniverseAssumption == IsFiniteSet(Thread) /\ nil \notin Obj /\ MaxRefs \in Nat

SharedClass == {"singleton", "classcluster"}

\* The stages of willfinalize, finalize and done, in their order.
Stages == <<"pools", "main thread", "pools", "callback", "pools",
            "singletons", "pools", "roots", "takedown", "gone">>

VARIABLES
  zombieenabled, deallocatezombie,
  active,     \* the threads that have not left the universe
  stage,      \* 0 while it runs, then a place in Stages
  shared,     \* shared[c]: the singleton or placeholder of a class
  roots,      \* the root objects
  rc,         \* retain counts, 0 for what is not allocated
  constant,   \* the objects that retain and release leave alone
  finalized,  \* constants whose -finalize ran
  zombies,    \* objects that were freed in name only
  leaked,     \* placeholders that nobody refers to
  owned,      \* owned[t][o]: references that client code of t holds
  pool,       \* pool[t][o]: releases pending in the pools of t
  dying,      \* dying[t]: objects that t has yet to finalize and deallocate
  frame       \* the call each thread is in

config   == <<zombieenabled, deallocatezombie>>
refs     == <<rc, owned, pool, dying>>
slots    == <<shared, constant, finalized, leaked, frame>>
vars     == <<config, active, stage, roots, zombies, refs, slots>>

Idle == [at |-> "idle"]
None == [o \in Obj |-> 0]

_mulle_objc_universefoundationinfo_init ==
  /\ zombieenabled \in BOOLEAN
  /\ deallocatezombie \in BOOLEAN
  /\ roots = {}

Init ==
  /\ _mulle_objc_universefoundationinfo_init
  /\ active = Thread /\ stage = 0
  /\ shared = [c \in SharedClass |-> nil]
  /\ rc = None
  /\ constant = {} /\ finalized = {} /\ zombies = {} /\ leaked = {}
  /\ owned = [t \in Thread |-> None]
  /\ pool = [t \in Thread |-> None]
  /\ dying = [t \in Thread |-> {}]
  /\ frame = [t \in Thread |-> Idle]

-----------------------------------------------------------------------------
(* Objects                                                                 *)

Allocatable(o) ==
  /\ rc[o] = 0 /\ o \notin zombies
  /\ \A t \in Thread : o \notin dying[t]

\* Constants: neither counted nor freed.
Counted(o) == o \notin constant

_mulle_object_release(t, n) ==
  /\ rc' = [o \in Obj |-> IF Counted(o) THEN rc[o] - n[o] ELSE rc[o]]
  /\ dying' = [dying EXCEPT ![t] = @ \cup {o \in Obj : Counted(o) /\ rc[o] > 0 /\ rc[o] = n[o]}]

Once(o) == [None EXCEPT ![o] = 1]

\* Code that puts a new object into the pool, or does not.
MayAutorelease(t) ==
  \/ UNCHANGED <<rc, pool>>
  \/ \E o \in Obj : /\ Allocatable(o)
                    /\ rc' = [rc EXCEPT ![o] = 1]
                    /\ pool' = [pool EXCEPT ![t][o] = 1]

_MulleObjCInstanceFree(o) ==
  zombies' = IF zombieenabled /\ ~deallocatezombie THEN zombies \cup {o} ELSE zombies

\* -finalize and -dealloc of an object.
Dealloc(t) ==
  \E o \in dying[t] :
    /\ MayAutorelease(t)
    /\ _MulleObjCInstanceFree(o)
    /\ dying' = [dying EXCEPT ![t] = @ \ {o}]
    /\ UNCHANGED <<config, active, stage, roots, owned, slots>>

-----------------------------------------------------------------------------
(* Client code, between calls.                                             *)

Client(t) == t \in active /\ stage = 0 /\ frame[t] = Idle /\ dying[t] = {}

Alloc(t) ==
  /\ Client(t)
  /\ \E o \in Obj : /\ Allocatable(o)
                    /\ rc' = [rc EXCEPT ![o] = 1]
                    /\ owned' = [owned EXCEPT ![t][o] = 1]
  /\ UNCHANGED <<config, active, stage, roots, zombies, pool, dying, slots>>

Retain(t, o) ==
  /\ Client(t) /\ o \in {shared[c] : c \in SharedClass} /\ owned[t][o] = 0
  /\ Counted(o) => rc[o] < MaxRefs
  /\ rc' = IF Counted(o) THEN [rc EXCEPT ![o] = @ + 1] ELSE rc
  /\ owned' = [owned EXCEPT ![t][o] = 1]
  /\ UNCHANGED <<config, active, stage, roots, zombies, pool, dying, slots>>

Release(t, o) ==
  /\ Client(t) /\ owned[t][o] > 0
  /\ owned' = [owned EXCEPT ![t][o] = @ - 1]
  /\ _mulle_object_release(t, Once(o))
  /\ UNCHANGED <<config, active, stage, roots, zombies, pool, slots>>

Autorelease(t, o) ==
  /\ Client(t) /\ owned[t][o] > 0
  /\ owned' = [owned EXCEPT ![t][o] = @ - 1]
  /\ pool' = IF Counted(o) THEN [pool EXCEPT ![t][o] = @ + 1] ELSE pool
  /\ UNCHANGED <<config, active, stage, roots, zombies, rc, dying, slots>>

PopPool(t) ==
  /\ Client(t) /\ pool[t] # None
  /\ pool' = [pool EXCEPT ![t] = None]
  /\ _mulle_object_release(t, pool[t])
  /\ UNCHANGED <<config, active, stage, roots, zombies, owned, slots>>

-----------------------------------------------------------------------------
(* Root objects                                                            *)

_mulle_objc_universe_add_rootobject(o) == roots' = roots \cup {o}

_mulle_objc_universe_remove_rootobject(o) == roots' = roots \ {o}

_becomeRootObject(t, o) ==
  /\ Client(t) /\ owned[t][o] > 0 /\ o \notin roots
  /\ IF Counted(o)
     THEN /\ rc[o] < MaxRefs
          /\ rc' = [rc EXCEPT ![o] = @ + 1]
          /\ _mulle_objc_universe_add_rootobject(o)
     ELSE UNCHANGED <<rc, roots>>
  /\ UNCHANGED <<config, active, stage, zombies, owned, pool, dying, slots>>

_resignAsRootObject(t, o) ==
  /\ Client(t) /\ o \in roots /\ Counted(o)
  /\ _mulle_objc_universe_remove_rootobject(o)
  /\ pool' = [pool EXCEPT ![t][o] = @ + 1]
  /\ UNCHANGED <<config, active, stage, zombies, rc, owned, dying, slots>>

-----------------------------------------------------------------------------
(* +sharedInstance of a singleton class, +alloc of a class cluster         *)

Goto(t, f) == frame' = [frame EXCEPT ![t] = f]

MulleObjCSingletonCreate(t, c) ==
  /\ Client(t) \/ (t \in active /\ frame[t] = [at |-> "again", class |-> c] /\ dying[t] = {})
  /\ IF shared[c] # nil
     THEN Goto(t, Idle) /\ UNCHANGED rc
     ELSE \E o \in Obj : /\ Allocatable(o)
                         /\ rc' = [rc EXCEPT ![o] = 1]
                         /\ Goto(t, [at |-> "cas", class |-> c, new |-> o])
  /\ UNCHANGED <<config, active, stage, roots, zombies, owned, pool, dying,
                 shared, constant, finalized, leaked>>

PublishAnyway(t) ==
  /\ frame[t].at = "cas"
  /\ shared' = [shared EXCEPT ![frame[t].class] = frame[t].new]
  /\ Goto(t, [at |-> "constantify", new |-> frame[t].new])
  /\ UNCHANGED <<config, active, stage, roots, zombies, refs, constant, finalized, leaked>>

PublishUnlessNil(t) ==
  /\ frame[t].at = "cas" /\ shared[frame[t].class] = nil
  /\ shared' = [shared EXCEPT ![frame[t].class] = frame[t].new]
  /\ Goto(t, [at |-> "constantify", new |-> frame[t].new])
  /\ UNCHANGED <<config, active, stage, roots, zombies, refs, constant, finalized, leaked>>

\* A singleton that comes too late is released, a placeholder is not.
LoseRace(t) ==
  /\ frame[t].at = "cas" /\ shared[frame[t].class] # nil
  /\ LET o == frame[t].new IN
     IF frame[t].class = "singleton"
     THEN _mulle_object_release(t, Once(o)) /\ UNCHANGED leaked
     ELSE leaked' = leaked \cup {o} /\ UNCHANGED <<rc, dying>>
  /\ Goto(t, [at |-> "again", class |-> frame[t].class])
  /\ UNCHANGED <<config, active, stage, roots, zombies, owned, pool, shared, constant, finalized>>

Constantify(t) ==
  /\ frame[t].at = "constantify"
  /\ constant' = constant \cup {frame[t].new}
  /\ Goto(t, Idle)
  /\ UNCHANGED <<config, active, stage, roots, zombies, refs, shared, finalized, leaked>>

-----------------------------------------------------------------------------
(* The end                                                                 *)

\* A thread that leaves has released what it owns, and has popped its pools
\* unless it is the last one, which is the main thread here: ThreadLifecycle
\* has the workers that outlive it.
Leave(t) ==
  /\ Client(t) /\ owned[t] = None
  /\ active # {t} => pool[t] = None
  /\ IF active = {t} THEN stage' = 1 /\ UNCHANGED active
                     ELSE active' = active \ {t} /\ UNCHANGED stage
  /\ UNCHANGED <<config, roots, zombies, refs, slots>>

Driver(t, s) == t \in active /\ stage > 0 /\ Stages[stage] = s /\ dying[t] = {}

Advance == stage' = stage + 1

mulle_objc_thread_reset_poolconfiguration(t) ==
  /\ IF pool[t] = None
     THEN Advance /\ UNCHANGED <<rc, pool, dying>>
     ELSE /\ pool' = [pool EXCEPT ![t] = None]
          /\ _mulle_object_release(t, pool[t])
          /\ UNCHANGED stage
  /\ UNCHANGED <<config, active, roots, zombies, owned, slots>>

ResetPools(t) == Driver(t, "pools") /\ mulle_objc_thread_reset_poolconfiguration(t)

\* -finalize of the main NSThread, and the callback of the configuration.
FinalizeMainThread(t) ==
  /\ Driver(t, "main thread") \/ Driver(t, "callback")
  /\ MayAutorelease(t)
  /\ Advance
  /\ UNCHANGED <<config, active, roots, zombies, owned, dying, slots>>

\* Only for its -finalize a singleton is no constant.
_mulle_objc_universe_finalize_singletons(t) ==
  /\ Driver(t, "singletons")
  /\ LET todo == {shared["singleton"]} \ ({nil} \cup finalized) IN
     IF todo = {}
     THEN Advance /\ UNCHANGED <<rc, pool, finalized>>
     ELSE MayAutorelease(t) /\ finalized' = finalized \cup todo /\ UNCHANGED stage
  /\ UNCHANGED <<config, active, roots, zombies, owned, dying, shared, constant, leaked, frame>>

\* The roots are released but stay in the set, which goes away.
_mulle_objc_universefoundationinfo_release_rootobjects(t) ==
  /\ Driver(t, "roots")
  /\ _mulle_object_release(t, [o \in Obj |-> IF o \in roots THEN 1 ELSE 0])
  /\ roots' = {}
  /\ Advance
  /\ UNCHANGED <<config, active, zombies, owned, pool, slots>>

TakedownKeepsPools(t) ==
  /\ Driver(t, "takedown")
  /\ Advance
  /\ UNCHANGED <<config, active, roots, zombies, refs, slots>>

_MulleThreadResignAsMainThreadObjectInUniverse(t) ==
  Driver(t, "takedown") /\ mulle_objc_thread_reset_poolconfiguration(t)

Next ==
  \E t \in Thread :
    \/ Alloc(t) \/ PopPool(t) \/ Dealloc(t)
    \/ \E o \in Obj : \/ Retain(t, o) \/ Release(t, o) \/ Autorelease(t, o)
                      \/ _becomeRootObject(t, o) \/ _resignAsRootObject(t, o)
    \/ \E c \in SharedClass : MulleObjCSingletonCreate(t, c)
    \/ PublishUnlessNil(t) \/ LoseRace(t) \/ Constantify(t)
    \/ Leave(t) \/ ResetPools(t) \/ FinalizeMainThread(t)
    \/ _mulle_objc_universe_finalize_singletons(t)
    \/ _mulle_objc_universefoundationinfo_release_rootobjects(t)
    \/ _MulleThreadResignAsMainThreadObjectInUniverse(t)

Spec == Init /\ [][Next]_vars

-----------------------------------------------------------------------------
Carried(o) ==
  \/ \E c \in SharedClass : shared[c] = o
  \/ \E t \in Thread : frame[t].at = "cas" /\ frame[t].new = o

Total(f, o) == SumFunction([t \in Thread |-> f[t][o]])
One(P)      == IF P THEN 1 ELSE 0

\* Those who have a reference to an object that they have to give back.
References(o) ==
  Total(owned, o) + Total(pool, o) + One(o \in roots) + One(Carried(o)) + One(o \in leaked)

(* However many threads ask for it first, a class has one shared instance  *)
(* and every thread gets that one; and nothing is lost or freed too early  *)
(* on the way: what is counted is counted for an owner, a pool, the roots, *)
(* a shared instance that is not constant yet, or one that lost the race.  *)
OneSharedInstance ==
  /\ \A t \in Thread :
       frame[t].at = "constantify" => \E c \in SharedClass : shared[c] = frame[t].new
  /\ \A o \in Obj : Counted(o) => rc[o] = References(o)

(* The stages leave no object behind, those that -finalize and -dealloc    *)
(* methods make in a late stage included: only constants, placeholders     *)
(* that lost a race and zombies remain.                                    *)
TeardownLeavesNothing ==
  stage > 0 /\ Stages[stage] = "gone" =>
    /\ \A o \in Obj : rc[o] > 0 => o \in constant \cup leaked
    /\ \A t \in Thread : pool[t] = None /\ dying[t] = {}
=============================================================================
