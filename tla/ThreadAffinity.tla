--------------------------- MODULE ThreadAffinity ----------------------------
(***************************************************************************)
(* Thread affinity of objects (TAO).  An object that is not thread safe    *)
(* belongs to one thread; to hand it over, the owner relinquishes it,      *)
(* which retains it and leaves it to no thread, and the receiver gains it, *)
(* which autoreleases it in the receiving thread.  What happens to the     *)
(* pools of the sender and to the objects that the instance variables hold *)
(* depends on the strategy of the object's class.  Threads hand objects    *)
(* over through an atomic instance variable, as with                       *)
(* _MulleObjCRecycleObjectAtomically() and                                 *)
(* _MulleObjCAcquireObjectAtomically().  This is the DEBUG build, in which *)
(* access to the object of another thread raises.                          *)
(***************************************************************************)
EXTENDS Integers, Sequences, FiniteSets, Functions

CONSTANTS
  Thread,         (* threads, by their ids                                 *)
  Obj,            (* objects                                               *)
  Invocation,     (* those of them that are NSInvocations                  *)
  Strategies,     (* the choices of a -mulleTAOStrategy for each object    *)
  None,           (* nil, and no object                                    *)
  HasNoThread,    (* mulle_objc_object_has_no_thread                       *)
  IsThreadSafe,   (* mulle_objc_object_is_threadsafe                       *)
  MaxPools,       (* bound: nested autorelease pools of a thread           *)
  MaxRefs         (* bound: references to an object when a client adds one *)

TAOStrategy ==
  {"CallerRemovesFromCurrentPool", "CallerRemovesFromAllPools",
   "CallerRemovesFromCurrentPoolShallow", "CallerRemovesFromAllPoolsShallow",
   "ReceiverPerformsFinalize", "TransferIvars", "KnownThreadSafeMethods", "KnownThreadSafe"}

(* Threads and objects are finitely many.  NSInvocation is not one of the  *)
(* thread safe classes, which bypass the affinity.                         *)
ASSUME AffinityAssumption ==
  /\ IsFiniteSet(Thread) /\ IsFiniteSet(Obj) /\ Invocation \subseteq Obj
  /\ Strategies \subseteq [Obj -> TAOStrategy]
  /\ \A s \in Strategies, o \in Invocation :
       s[o] \notin {"KnownThreadSafe", "KnownThreadSafeMethods"}
  /\ None \notin Obj
  /\ HasNoThread \notin Thread /\ IsThreadSafe \notin Thread /\ HasNoThread # IsThreadSafe
  /\ MaxPools \in Nat \ {0} /\ MaxRefs \in Nat \ {0}

VARIABLES
  strategy,     (* -mulleTAOStrategy of each object                        *)
  thread_id,    (* the thread that an object belongs to                    *)
  retainCount,  (* references to each object, none: not allocated          *)
  ivars,        (* objects that the instance variables of an object retain *)
  pools,        (* the autorelease pools of each thread, the tail last     *)
  available,    (* the atomic instance variable                            *)
  call,         (* the call that each thread makes                         *)
  raised        (* why the program has ended with an exception             *)

objects == <<thread_id, retainCount, ivars, pools>>
vars == <<strategy, objects, available, call, raised>>

(* Thread t makes the call op, and no exception has ended the program.     *)
Running(t, op) == raised = "no" /\ call[t].op = op

NoCall == [op |-> "none", obj |-> None, stack |-> <<>>, uniquing |-> {}]

-----------------------------------------------------------------------------
(* The strategies.                                                         *)

FromCurrentPool(o) ==
  strategy[o] \in {"CallerRemovesFromCurrentPool", "CallerRemovesFromCurrentPoolShallow"}

FromAllPools(o) ==
  strategy[o] \in {"CallerRemovesFromAllPools", "CallerRemovesFromAllPoolsShallow"}

LeavesPools(o) == FromCurrentPool(o) \/ FromAllPools(o)

(* The differentiations that never change the affinity.                    *)
Bypass(o) == strategy[o] \in {"KnownThreadSafe", "KnownThreadSafeMethods"}

(* The walk goes on to the retained instance variables by strategy, and    *)
(* always to the arguments of an invocation.                               *)
Walks(o) ==
  \/ o \in Invocation
  \/ strategy[o] \in {"CallerRemovesFromCurrentPool", "CallerRemovesFromAllPools",
                      "TransferIvars"}

(* Mutant: only invocations take along what they hold.                     *)
WalkedByInvocations(o) == IF o \in Invocation THEN ivars[o] ELSE {}

Walked(o) == IF Walks(o) THEN ivars[o] ELSE {}

-----------------------------------------------------------------------------
(* Autorelease pools, as counts of the references in each.                 *)

EmptyPool == [o \in Obj |-> 0]
Top(t)  == Len(pools[t])

Autoreleased(t, o) == [pools EXCEPT ![t][Top(t)][o] = @ + 1]

InPools(t, o) == \E i \in 1 .. Len(pools[t]) : pools[t][i][o] > 0
InParents(t, o) == \E i \in 1 .. Len(pools[t]) - 1 : pools[t][i][o] > 0

(* Mutant of RemovedFrom: looks at the tail pool only.                     *)
RemovedFromTail(t, o) == IF LeavesPools(o) THEN {Top(t)} ELSE {}

(* Pools of t from which a relinquish removes o: all of them, or the tail. *)
RemovedFrom(t, o) ==
  CASE FromAllPools(o)    -> 1 .. Len(pools[t])
    [] FromCurrentPool(o) -> {Top(t)}
    [] OTHER              -> {}

PoolRefs(t, o, levels) == SumFunction([i \in levels |-> pools[t][i][o]])

-----------------------------------------------------------------------------
(* What the walks do with one object.                                      *)

(* -mulleRelinquishAccessWithTAOStrategy:                                  *)
RelinquishAccess(t, o) ==
  LET removed == RemovedFrom(t, o)
  IN  IF Bypass(o) \/ thread_id[o] \in {IsThreadSafe, HasNoThread}
      THEN /\ retainCount' = [retainCount EXCEPT ![o] = @ + 1]
           /\ UNCHANGED <<thread_id, pools, raised>>
      ELSE IF thread_id[o] # t
      THEN /\ raised' = "owner"
           /\ UNCHANGED <<thread_id, retainCount, pools>>
      ELSE /\ retainCount' = [retainCount EXCEPT ![o] = @ + 1 - PoolRefs(t, o, removed)]
           /\ pools' = [pools EXCEPT ![t] = [i \in 1 .. Len(@) |->
                          IF i \in removed THEN [@[i] EXCEPT ![o] = 0] ELSE @[i]]]
           /\ thread_id' = [thread_id EXCEPT ![o] = HasNoThread]
           /\ raised' = IF FromCurrentPool(o) /\ InParents(t, o) THEN "pool" ELSE raised

(* -mulleGainAccessWithTAOStrategy:                                        *)
GainAccess(t, o) ==
  IF Bypass(o) \/ thread_id[o] \in {IsThreadSafe, HasNoThread, t}
  THEN /\ pools' = Autoreleased(t, o)
       /\ thread_id' = [thread_id EXCEPT ![o] =
                          IF Bypass(o) \/ @ = IsThreadSafe THEN @ ELSE t]
       /\ UNCHANGED raised
  ELSE /\ raised' = "owner"
       /\ UNCHANGED <<thread_id, pools>>

-----------------------------------------------------------------------------
(* The walks.  The stack has a frame for each object that is being walked, *)
(* with the objects that are left to visit; the first frame stands for the *)
(* caller.  The uniquing set holds what was visited.                       *)

Walk(op, o) ==
  [op |-> op, obj |-> o, stack |-> <<[obj |-> None, left |-> {o}]>>, uniquing |-> {}]

Frame(t) == call[t].stack[Len(call[t].stack)]

(* A visit of c by t: insert into the uniquing set, walk c if it was new.  *)
Visited(t, c) ==
  LET rest == [call[t] EXCEPT !.stack[Len(call[t].stack)].left = @ \ {c}]
  IN  IF c \in call[t].uniquing THEN rest
      ELSE [rest EXCEPT !.stack = Append(@, [obj |-> c, left |-> Walked(c)]),
                        !.uniquing = @ \cup {c}]

Returned(t) == [call[t] EXCEPT !.stack = SubSeq(@, 1, Len(@) - 1)]

(* Relinquishing visits the held objects first and then does the object.   *)
RelinquishVisits(t, c) ==
  /\ Running(t, "relinquish") /\ c \in Frame(t).left
  /\ call' = [call EXCEPT ![t] = Visited(t, c)]
  /\ UNCHANGED <<strategy, objects, available, raised>>

RelinquishReturns(t) ==
  /\ Running(t, "relinquish") /\ Frame(t).left = {} /\ Frame(t).obj # None
  /\ RelinquishAccess(t, Frame(t).obj)
  /\ call' = [call EXCEPT ![t] = Returned(t)]
  /\ UNCHANGED <<strategy, ivars, available>>

(* Gaining does the object first, then visits what it holds.               *)
GainVisits(t, c) ==
  /\ Running(t, "gain") /\ c \in Frame(t).left
  /\ IF c \in call[t].uniquing THEN UNCHANGED <<thread_id, pools, raised>>
                               ELSE GainAccess(t, c)
  /\ call' = [call EXCEPT ![t] = Visited(t, c)]
  /\ UNCHANGED <<strategy, retainCount, ivars, available>>

GainReturns(t) ==
  /\ Running(t, "gain") /\ Frame(t).left = {}
  /\ call' = [call EXCEPT ![t] = IF Frame(t).obj = None THEN NoCall ELSE Returned(t)]
  /\ UNCHANGED <<strategy, objects, available, raised>>

-----------------------------------------------------------------------------
(* What client code may do: it sends messages that are not thread safe to  *)
(* objects of its own thread, and knows an object from a pool of its own   *)
(* or from an object of its own.  It keeps an object that is not thread    *)
(* safe in one other object at most, which takes it along.                 *)

Holders(o) == {h \in Obj : o \in ivars[h]}

(* References that somebody still has to give back.                        *)
References(o) ==
  SumFunction([t \in Thread |-> PoolRefs(t, o, DOMAIN pools[t])])
  + Cardinality(Holders(o))

Known(t, o) == InPools(t, o) \/ \E h \in Holders(o) : thread_id[h] = t

MayMessage(t, o) ==
  /\ Running(t, "none")
  /\ Known(t, o)
  /\ thread_id[o] \in {t, IsThreadSafe} \/ strategy[o] = "KnownThreadSafeMethods"

MayHold(o, c) ==
  \/ strategy[c] = "KnownThreadSafe"
  \/ /\ Walks(o) /\ (LeavesPools(c) => LeavesPools(o))
     /\ Holders(c) = {} /\ o # c

Few(o) == retainCount[o] < MaxRefs

-----------------------------------------------------------------------------
(* Operations of client code.                                              *)

(* +instance; +initialize of MulleObjCThreadSafe clears the affinity.      *)
Instance(t, o) ==
  /\ Running(t, "none") /\ retainCount[o] = 0
  /\ retainCount' = [retainCount EXCEPT ![o] = 1]
  /\ thread_id' = [thread_id EXCEPT ![o] =
                     IF strategy[o] = "KnownThreadSafe" THEN IsThreadSafe ELSE t]
  /\ pools' = Autoreleased(t, o)
  /\ UNCHANGED <<strategy, ivars, available, call, raised>>

(* The setter of a retain property; the value nil autoreleases the old.    *)
SetIvar(t, o, c) ==
  /\ MayMessage(t, o) /\ MayMessage(t, c) /\ thread_id[o] = t
  /\ c \notin ivars[o] /\ MayHold(o, c) /\ Few(c)
  /\ ivars' = [ivars EXCEPT ![o] = @ \cup {c}]
  /\ retainCount' = [retainCount EXCEPT ![c] = @ + 1]
  /\ UNCHANGED <<strategy, thread_id, pools, available, call, raised>>

ClearIvar(t, o, c) ==
  /\ MayMessage(t, o) /\ thread_id[o] = t /\ c \in ivars[o]
  /\ ivars' = [ivars EXCEPT ![o] = @ \ {c}]
  /\ pools' = Autoreleased(t, c)
  /\ UNCHANGED <<strategy, thread_id, retainCount, available, call, raised>>

(* [[o retain] autorelease]                                                *)
RetainAutorelease(t, o) ==
  /\ MayMessage(t, o) /\ Few(o)
  /\ retainCount' = [retainCount EXCEPT ![o] = @ + 1]
  /\ pools' = Autoreleased(t, o)
  /\ UNCHANGED <<strategy, thread_id, ivars, available, call, raised>>

(* -mulleSetThreadSafe: of an object that only its owner's lock protects.  *)
SetThreadSafe(t, o, flag) ==
  /\ MayMessage(t, o) /\ ~Bypass(o) /\ ivars[o] = {}
  /\ \A u \in Thread \ {t} : ~InPools(u, o)
  /\ \A h \in Holders(o) : thread_id[h] = t
  /\ retainCount[o] = References(o)
  /\ thread_id' = [thread_id EXCEPT ![o] = IF flag THEN IsThreadSafe ELSE t]
  /\ UNCHANGED <<strategy, retainCount, ivars, pools, available, call, raised>>

Push(t) ==
  /\ Running(t, "none") /\ Len(pools[t]) < MaxPools
  /\ pools' = [pools EXCEPT ![t] = Append(@, EmptyPool)]
  /\ UNCHANGED <<strategy, thread_id, retainCount, ivars, available, call, raised>>

Pop(t) ==
  /\ Running(t, "none") /\ Len(pools[t]) > 1
  /\ call' = [call EXCEPT ![t].op = "pop"]
  /\ UNCHANGED <<strategy, objects, available, raised>>

(* The drain releases one object of the tail pool; the last reference      *)
(* finalizes the object, which clears its properties: the setters          *)
(* autorelease what it held.                                               *)
Release(o) == retainCount' = [retainCount EXCEPT ![o] = @ - 1]

Drained(t, o) ==
  LET rest == [pools[t][Top(t)] EXCEPT ![o] = @ - 1]
  IN  [pools EXCEPT ![t][Top(t)] =
         IF retainCount[o] > 1 THEN rest
         ELSE [c \in Obj |-> rest[c] + IF c \in ivars[o] THEN 1 ELSE 0]]

PopReleases(t, o) ==
  /\ Running(t, "pop") /\ pools[t][Top(t)][o] > 0
  /\ Release(o)
  /\ pools' = Drained(t, o)
  /\ ivars' = IF retainCount[o] > 1 THEN ivars ELSE [ivars EXCEPT ![o] = {}]
  /\ UNCHANGED <<strategy, thread_id, available, call, raised>>

PopReturns(t) ==
  /\ Running(t, "pop") /\ pools[t][Top(t)] = EmptyPool
  /\ pools' = [pools EXCEPT ![t] = SubSeq(@, 1, Len(@) - 1)]
  /\ call' = [call EXCEPT ![t] = NoCall]
  /\ UNCHANGED <<strategy, thread_id, retainCount, ivars, available, raised>>

-----------------------------------------------------------------------------
(* Hand-over through the atomic variable.                                  *)

(* _MulleObjCRecycleObjectAtomically(): relinquish the object ...          *)
Recycle(t, o) ==
  /\ MayMessage(t, o) /\ (Holders(o) \subseteq Walked(o) \/ strategy[o] = "KnownThreadSafe")
  /\ \A c \in Obj : retainCount[c] <= MaxRefs
  /\ call' = [call EXCEPT ![t] = Walk("relinquish", o)]
  /\ UNCHANGED <<strategy, objects, available, raised>>

(* Mutant: gives up when the variable is taken.                            *)
RecycleGivesUp(t) ==
  /\ Running(t, "relinquish") /\ Frame(t).left = {} /\ Frame(t).obj = None
  /\ available' = IF available = None THEN call[t].obj ELSE available
  /\ call' = [call EXCEPT ![t] = NoCall]
  /\ UNCHANGED <<strategy, objects, raised>>

(* ... swap it into the variable; if it is taken, gain the object again.   *)
RecycleSwaps(t) ==
  /\ Running(t, "relinquish") /\ Frame(t).left = {} /\ Frame(t).obj = None
  /\ IF available = None
     THEN available' = call[t].obj /\ call' = [call EXCEPT ![t] = NoCall]
     ELSE call' = [call EXCEPT ![t] = Walk("gain", @.obj)] /\ UNCHANGED available
  /\ UNCHANGED <<strategy, objects, raised>>

(* _MulleObjCAcquireObjectAtomically() reads the variable ...              *)
Acquire(t) ==
  /\ Running(t, "none") /\ available # None
  /\ call' = [call EXCEPT ![t].op = "acquire", ![t].obj = available]
  /\ UNCHANGED <<strategy, objects, available, raised>>

(* ... and swaps nil in, until it finds what it read last, or nil.         *)
AcquireSwaps(t) ==
  /\ Running(t, "acquire")
  /\ CASE available = call[t].obj ->
            available' = None /\ call' = [call EXCEPT ![t] = Walk("gain", available)]
       [] available = None ->
            call' = [call EXCEPT ![t] = NoCall] /\ UNCHANGED available
       [] OTHER ->
            call' = [call EXCEPT ![t].obj = available] /\ UNCHANGED available
  /\ UNCHANGED <<strategy, objects, raised>>

(* -dealloc of the variable's owner, as MulleObjCProperty.h says to code   *)
(* it: [obj release] of an object that was recycled and never acquired.    *)
(* Clients do so with an object nobody else refers to and that holds none; *)
(* what others hold would keep the reference of the relinquish.            *)
MayDiscard(o) ==
  Walked(o) = {} /\ (retainCount[o] = 1 \/ thread_id[o] # HasNoThread)

Discard(t) ==
  /\ Running(t, "none") /\ available # None /\ MayDiscard(available)
  /\ Release(available)
  /\ IF retainCount[available] > 1 THEN UNCHANGED <<ivars, pools>>
     ELSE /\ ivars' = [ivars EXCEPT ![available] = {}]
          /\ pools' = [pools EXCEPT ![t][Top(t)] =
                         [c \in Obj |-> @[c] + IF c \in ivars[available] THEN 1 ELSE 0]]
  /\ available' = None
  /\ UNCHANGED <<strategy, thread_id, call, raised>>

-----------------------------------------------------------------------------
Init ==
  /\ strategy \in Strategies
  /\ thread_id = [o \in Obj |-> HasNoThread]
  /\ retainCount = [o \in Obj |-> 0]
  /\ ivars = [o \in Obj |-> {}]
  /\ pools = [t \in Thread |-> <<EmptyPool>>]
  /\ available = None
  /\ call = [t \in Thread |-> NoCall]
  /\ raised = "no"

ClientStep(t) ==
  \/ \E o \in Obj : \/ Instance(t, o) \/ RetainAutorelease(t, o) \/ Recycle(t, o)
                    \/ \E flag \in BOOLEAN : SetThreadSafe(t, o, flag)
                    \/ \E c \in Obj : SetIvar(t, o, c) \/ ClearIvar(t, o, c)
  \/ Push(t) \/ Pop(t) \/ Acquire(t) \/ Discard(t)

CallStep(t) ==
  \/ \E o \in Obj : RelinquishVisits(t, o) \/ GainVisits(t, o) \/ PopReleases(t, o)
  \/ RelinquishReturns(t) \/ GainReturns(t) \/ PopReturns(t)
  \/ RecycleSwaps(t) \/ AcquireSwaps(t)

(* An exception ends the program.                                          *)
Ended == raised # "no" /\ UNCHANGED vars

Next == (\E t \in Thread : ClientStep(t) \/ CallStep(t)) \/ Ended

Spec == Init /\ [][Next]_vars

-----------------------------------------------------------------------------
TypeOK ==
  /\ strategy \in Strategies
  /\ thread_id \in [Obj -> Thread \cup {HasNoThread, IsThreadSafe}]
  /\ retainCount \in [Obj -> Nat]
  /\ ivars \in [Obj -> SUBSET Obj]
  /\ pools \in [Thread -> Seq([Obj -> Nat])]
  /\ \A t \in Thread : Len(pools[t]) \in 1 .. MaxPools
  /\ available \in Obj \cup {None}
  /\ call \in [Thread -> [op : {"none", "pop", "relinquish", "gain", "acquire"},
                          obj : Obj \cup {None},
                          stack : Seq([obj : Obj \cup {None}, left : SUBSET Obj]),
                          uniquing : SUBSET Obj]]
  /\ raised \in {"no", "owner", "pool"}

(* The exceptions "your thread can not gain access to object, still owned  *)
(* by thread" and "your thread does not have access to object" never come: *)
(* whatever a walk meets is in limbo for the receiver and the sender's own *)
(* for the sender.                                                         *)
NoForeignAccess == raised # "owner"

(* A pool never holds a reference that is not backed by the count, and the *)
(* object in the atomic variable is alive: the retain of the relinquish    *)
(* covers the time until the gain's autorelease.                           *)
ReferencesCovered ==
  \A o \in Obj : retainCount[o] >= References(o) + IF available = o THEN 1 ELSE 0

(* No hand-over is under way.                                             *)
Quiet == raised = "no" /\ available = None /\ \A t \in Thread : call[t].op \notin {"relinquish", "gain"}

(* Gains answer relinquishes one for one along the walks: when nothing is  *)
(* under way no reference is lost and no living object is left in limbo.   *)
NothingLost ==
  Quiet => \A o \in Obj : /\ retainCount[o] = References(o)
                          /\ retainCount[o] > 0 => thread_id[o] # HasNoThread

(* An object whose strategy takes it out of the sender's pools is never in *)
(* a pool of a thread that it does not belong to, which would finalize it. *)
PoolsAreAffine ==
  raised = "no" =>
    \A t \in Thread, o \in Obj :
      LeavesPools(o) /\ InPools(t, o) => thread_id[o] \in {t, IsThreadSafe}

(* No thread gets at the object of another: no walk raises, and no drain   *)
(* finalizes what a relinquish has handed over.                            *)
AccessIsExclusive == NoForeignAccess /\ PoolsAreAffine

(* The retain of each relinquish is paid back by the autorelease of one    *)
(* gain, lost races for the variable included.                             *)
ReferencesBalance == ReferencesCovered /\ NothingLost

(* What an object holds goes with it: a thread that has an object can      *)
(* message the objects it holds, once no walk of its own is under way.     *)
GraphFollows ==
  \A t \in Thread, o, c \in Obj :
    thread_id[o] = t /\ c \in ivars[o] /\ ~Bypass(c) /\ call[t].op \notin {"relinquish", "gain"}
      => thread_id[c] \in {t, IsThreadSafe}

==============================================================================
