--------------------------- MODULE AutoreleasePool ---------------------------
(***************************************************************************)
(* The autorelease pools of one thread: the pool configuration of          *)
(* mulle-objc-threadfoundationinfo.h and the class NSAutoreleasePool with  *)
(* its chained pointer arrays.                                             *)
(*                                                                         *)
(* Releasing an object may run its -dealloc, and -dealloc is client code:  *)
(* it may autorelease into the very pool that is being drained, push and   *)
(* pop pools of its own, or take objects out of pools.  So the thread's    *)
(* control state is an explicit stack of the calls that are in progress.   *)
(***************************************************************************)
EXTENDS Integers, Sequences, FiniteSets, SequencesExt

CONSTANTS
  Obj,          (* the objects (addresses: a freed one can be allocated again) *)
  ConstantObj,  (* objects whose retain count is pinned (MULLE_OBJC_NEVER_RELEASE) *)
  Hole,         (* the NULL that -mulleReleasePoolObject: leaves in a slot  *)
  ChunkSize,    (* MULLE_AUTORELEASEPOINTERARRRAY_N_OBJECTS                 *)
  CountModulus, (* the range of the unsigned counter of a pointer array     *)
  Steps,        (* strides (in words) callers of autoreleaseObjects use     *)
  BulkSize,     (* bound: the most objects in one autoreleaseObjects call   *)
  MaxPools,     (* bound: nested pools                                      *)
  MaxSlots,     (* bound: slots, holes included, in the storage of one pool *)
  MaxRefs,      (* bound: references to one object                          *)
  MaxCalls,     (* bound: nested calls                                      *)
  AllocInDealloc, (* may a -dealloc allocate new objects?                   *)
  DrainsWalked  (* may a -dealloc that runs inside a walk send
                   -mulleReleaseAllPoolObjects to the pool walked?          *)

ASSUME PoolAssumption ==
  /\ ConstantObj \subseteq Obj
  /\ Hole \notin Obj
  /\ ChunkSize \in Nat \ {0}
  /\ CountModulus \in Nat \ {0}
  /\ Steps \subseteq Nat \ {0}
  /\ BulkSize \in Nat
  /\ MaxPools \in Nat
  /\ MaxSlots \in Nat
  /\ MaxRefs \in Nat
  /\ MaxCalls \in Nat
  /\ AllocInDealloc \in BOOLEAN
  /\ DrainsWalked \in BOOLEAN

VARIABLES
  pools,        (* pools[Len(pools)] is config->tail, pools[k-1] the _owner
                   of pools[k]; each is its _storage, a sequence of chunks
                   whose last element is the array _storage points to       *)
  object_map,   (* config->object_map: autoreleases per object              *)
  rc,           (* retain counts (0: -dealloc has begun, or not allocated)  *)
  live,         (* the objects whose memory is allocated                    *)
  owned,        (* references that client code holds and must give back     *)
  roots,        (* the universe's set of root objects                       *)
  leaked,       (* references handed to -autorelease when there was no pool *)
  stack         (* the calls in progress, innermost last                    *)

vars == <<pools, object_map, rc, live, owned, roots, leaked, stack>>

-----------------------------------------------------------------------------
(* Pointer arrays.                                                         *)

Slot  == Obj \cup {Hole}
Chunk == [objects : Seq(Slot), count : 0 .. CountModulus - 1]

(* _mulle_autoreleasepointerarray_init: used is Len(objects). *)
EmptyChunk == [objects |-> <<>>, count |-> 0]

Occurrences(s, o) == {i \in DOMAIN s : s[i] = o}

(* _mulle_autoreleasepointerarray_can_add, for a storage that may be NULL. *)
CanAdd(storage) ==
  /\ storage # <<>>
  /\ Len(Last(storage).objects) < ChunkSize

(* The storage with an array appended if the current one is full or absent. *)
WithSpace(storage) ==
  IF CanAdd(storage) THEN storage ELSE Append(storage, EmptyChunk)

(* _mulle_autoreleasepointerarray_add(), on an array that is not full. *)
Added(chunk, p) ==
  [objects |-> Append(chunk.objects, p), count |-> (chunk.count + 1) % CountModulus]

(* _mulle_autoreleasepointerarray_count_object(): over all arrays. *)
CountObject(storage, p) ==
  SumFunction([c \in DOMAIN storage |-> Cardinality(Occurrences(storage[c].objects, p))])

(* _mulle_autoreleasepointerarray_contains(): the first one will do. *)
ContainsObject(storage, p) ==
  \E c \in DOMAIN storage : \E i \in DOMAIN storage[c].objects : storage[c].objects[i] = p

(* The loop over one array: the slots in use, the holes left out.          *)
Visited(objects) ==
  LET walk[i \in 0 .. Len(objects)] ==
        IF i = 0 THEN <<>>
        ELSE walk[i - 1] \o (IF objects[i] = Hole THEN <<>> ELSE <<objects[i]>>)
  IN  walk[Len(objects)]

(* _mulle_autoreleasepointerarray_walk_objects(): newest array first, from *)
(* its first slot up.                                                      *)
WalkObjects(storage) ==
  FlattenSeq([c \in DOMAIN storage |-> Visited(storage[Len(storage) + 1 - c].objects)])

(* addObject() on the storage of the tail pool. *)
AddedObject(storage, o) ==
  LET s == WithSpace(storage) IN [s EXCEPT ![Len(s)] = Added(@, o)]

(* addObjects() on the storage of the tail pool: a block copy into what is  *)
(* left of the current array, then into new ones.  used grows, count does  *)
(* not.                                                                    *)
AddedObjects(storage, objects) ==
  LET n     == Len(objects)
      left  == IF storage = <<>> THEN 0 ELSE ChunkSize - Len(Last(storage).objects)
      first == IF n < left THEN n ELSE left
      more  == (n - first + ChunkSize - 1) \div ChunkSize
      block(c) == [objects |-> SubSeq(objects, first + (c - 1) * ChunkSize + 1,
                                      IF c < more THEN first + c * ChunkSize ELSE n),
                   count   |-> 0]
  IN (IF first = 0 THEN storage
      ELSE [storage EXCEPT ![Len(storage)].objects = @ \o SubSeq(objects, 1, first)])
     \o [c \in 1 .. more |-> block(c)]

-----------------------------------------------------------------------------
(* The array with a hole in the slot, as _mulle_autoreleasepointerarray_-   *)
(* release_objects() leaves it; the counter is unsigned.                   *)
PunchedNowhere(chunk, slot) == [chunk EXCEPT !.count = (@ - 1) % CountModulus]

Punched(chunk, slot) ==
  [objects |-> [chunk.objects EXCEPT ![slot] = Hole],
   count   |-> (chunk.count - 1) % CountModulus]

-----------------------------------------------------------------------------
(* The call stack.                                                         *)

Top      == Last(stack)
Running(kind) == stack # <<>> /\ Top.kind = kind

(* Client code runs at the bottom of the stack and in a -dealloc.          *)
ClientRuns == stack # <<>> => Top.kind = "dealloc"

(* The pools that existed before the running client code was entered: code *)
(* pops the pools it pushed, which is what @autoreleasepool enforces.      *)
BasePools == IF stack = <<>> THEN 0 ELSE Top.base

DeallocFrame(o) == [kind |-> "dealloc", object |-> o, base |-> Len(pools)]

(* A drain of pool k that goes on popping until target (0: the pool stays) *)
DrainFrame(k, target, then) ==
  [kind |-> "drain", pool |-> k, chain |-> <<>>, target |-> target, then |-> then]

(* A walk over the arrays of pool k; chunk and slot are the cursor.  It    *)
(* holds on to its arrays: they are stale, when a drain has taken them off *)
(* the pool meanwhile.                                                     *)
WalkFrameFromSize(k, S, all) ==
  [kind |-> "walk", pool |-> k, chunk |-> Len(pools[k]), slot |-> ChunkSize,
   objects |-> S, all |-> all, stale |-> <<>>]

WalkFrame(k, S, all) ==
  [kind |-> "walk", pool |-> k, chunk |-> Len(pools[k]),
   slot |-> IF pools[k] = <<>> THEN 0 ELSE Len(Last(pools[k]).objects),
   objects |-> S, all |-> all, stale |-> <<>>]

(* The walks that are in pool k. *)
WalksIn(k) == {f \in DOMAIN stack : stack[f].kind = "walk" /\ stack[f].pool = k}

(* What a walk reads from its slot.  A drain leaves the slots as they are, *)
(* but frees all arrays except the one that is part of the pool.           *)
SlotReads(walk) ==
  IF walk.stale = <<>> THEN {pools[walk.pool][walk.chunk].objects[walk.slot]}
  ELSE IF walk.chunk = 1 THEN {walk.stale[1].objects[walk.slot]}
  ELSE Slot

-----------------------------------------------------------------------------
Init ==
  /\ pools = << <<EmptyChunk>> >>
  /\ object_map = [o \in Obj |-> 0]
  /\ rc = [o \in Obj |-> IF o \in ConstantObj THEN 1 ELSE 0]
  /\ live = ConstantObj
  /\ owned = [o \in Obj |-> 0]
  /\ roots = {}
  /\ leaked = [o \in Obj |-> 0]
  /\ stack = <<>>

(* [o release] by code whose frames are rest: the last reference starts    *)
(* -dealloc, a pinned retain count does not move.                          *)
ReleaseFrom(o, rest) ==
  IF o \in ConstantObj
  THEN stack' = rest /\ UNCHANGED rc
  ELSE /\ rc' = [rc EXCEPT ![o] = @ - 1]
       /\ stack' = IF rc[o] = 1 THEN Append(rest, DeallocFrame(o)) ELSE rest

(* Bounds the model: the tail pool takes n more autoreleases.              *)
HasRoom(n) ==
  pools # <<>> =>
    SumFunction([c \in DOMAIN Last(pools) |-> Len(Last(pools)[c].objects)]) + n <= MaxSlots

(* A reference that client code may give away.                             *)
MayGive(o) == o \in ConstantObj \/ owned[o] > 0

Give(o) == owned' = IF o \in ConstantObj THEN owned ELSE [owned EXCEPT ![o] = @ - 1]

-----------------------------------------------------------------------------
(* Operations of client code.                                              *)

(* +alloc. *)
Alloc(o) ==
  /\ ClientRuns /\ o \notin live
  /\ stack # <<>> => AllocInDealloc
  /\ live' = live \cup {o}
  /\ rc' = [rc EXCEPT ![o] = 1]
  /\ owned' = [owned EXCEPT ![o] = 1]
  /\ UNCHANGED <<pools, object_map, roots, leaked, stack>>

(* -retain. *)
Retain(o) ==
  /\ ClientRuns /\ o \in live \ ConstantObj
  /\ rc[o] \in 1 .. MaxRefs - 1
  /\ rc' = [rc EXCEPT ![o] = @ + 1]
  /\ owned' = [owned EXCEPT ![o] = @ + 1]
  /\ UNCHANGED <<pools, object_map, live, roots, leaked, stack>>

(* -release. *)
Release(o) ==
  /\ ClientRuns /\ o \notin ConstantObj /\ MayGive(o)
  /\ Give(o)
  /\ ReleaseFrom(o, stack)
  /\ UNCHANGED <<pools, object_map, live, roots, leaked>>

(* _autoreleaseObject(): constant objects are left alone, without a pool   *)
(* the reference leaks, else the map and the tail pool record it.          *)
DoAutorelease(o) ==
  IF o \in ConstantObj
  THEN UNCHANGED <<pools, object_map, leaked>>
  ELSE IF pools = <<>>
       THEN /\ leaked' = [leaked EXCEPT ![o] = @ + 1]
            /\ UNCHANGED <<pools, object_map>>
       ELSE /\ object_map' = [object_map EXCEPT ![o] = @ + 1]
            /\ pools' = [pools EXCEPT ![Len(pools)] = AddedObject(@, o)]
            /\ UNCHANGED leaked

(* -addObject: and +addObject: of any pool, which end in the tail pool,    *)
(* wherever the universe of the object finds the thread's configuration.   *)
_MulleObjCAutoreleaseObject(o) == DoAutorelease(o)

(* -autorelease, NSAutoreleaseObject().                                    *)
Autorelease(o) ==
  /\ ClientRuns /\ MayGive(o) /\ HasRoom(1)
  /\ _MulleObjCAutoreleaseObject(o)
  /\ Give(o)
  /\ UNCHANGED <<rc, live, roots, stack>>

(* _autoreleaseObjects() of count objects that lie step words apart in     *)
(* memory.  The map is updated from the first count words.                 *)
DoAutoreleaseObjects(memory, step) ==
  LET count   == (Len(memory) + step - 1) \div step
      objects == [i \in 1 .. count |-> memory[1 + (i - 1) * step]]
      given   == [o \in Obj |-> Cardinality(Occurrences(objects, o))]
      mapped  == [o \in Obj |-> Cardinality(Occurrences(SubSeq(memory, 1, count), o))]
  IN
  /\ ClientRuns /\ HasRoom(count)
  /\ \A i \in 1 .. count : objects[i] \in live
  /\ \A o \in Obj \ ConstantObj : given[o] <= owned[o]
  /\ owned' = [o \in Obj |-> IF o \in ConstantObj THEN owned[o] ELSE owned[o] - given[o]]
  /\ IF pools = <<>>
     THEN /\ leaked' = [o \in Obj |-> IF o \in ConstantObj THEN leaked[o]
                                       ELSE leaked[o] + given[o]]
          /\ UNCHANGED <<pools, object_map>>
     ELSE /\ object_map' = [o \in Obj |-> object_map[o] + mapped[o]]
          /\ pools' = [pools EXCEPT ![Len(pools)] = AddedObjects(@, objects)]
          /\ UNCHANGED leaked
  /\ UNCHANGED <<rc, live, roots, stack>>

(* -mulleAddObjects:count: and functions of mulle-objc-runtime.            *)
_MulleObjCAutoreleaseSpacedObjects(memory, step) == DoAutoreleaseObjects(memory, step)

_MulleObjCAutoreleaseObjects(objects) == DoAutoreleaseObjects(objects, 1)

(* -_becomeRootObject; it asserts that the object is not a root yet.       *)
BecomeRootObject(o) ==
  /\ ClientRuns /\ o \in live \ (ConstantObj \cup roots)
  /\ rc[o] \in 1 .. MaxRefs - 1
  /\ rc' = [rc EXCEPT ![o] = @ + 1]
  /\ roots' = roots \cup {o}
  /\ UNCHANGED <<pools, object_map, live, owned, leaked, stack>>

(* -_resignAsRootObject. *)
ResignAsRootObject(o) ==
  /\ ClientRuns /\ o \in roots /\ HasRoom(1)
  /\ roots' = roots \ {o}
  /\ DoAutorelease(o)
  /\ UNCHANGED <<rc, live, owned, stack>>

(* -_pushToParentAutoreleasePool: [pool addObject:self] is sent to the     *)
(* parent pool, whose -addObject: uses the thread's tail pool.  Without a  *)
(* parent the object becomes a root.                                       *)
PushToParentAutoreleasePool(o) ==
  /\ ClientRuns /\ o \in live \ ConstantObj
  /\ rc[o] \in 1 .. MaxRefs - 1 /\ HasRoom(1)
  /\ IF Len(pools) > 1
     THEN /\ rc' = [rc EXCEPT ![o] = @ + 1]
          /\ DoAutorelease(o)
          /\ UNCHANGED <<live, owned, roots, stack>>
     ELSE BecomeRootObject(o)

(* config->push: pushAutoreleasePool().                                    *)
PushAutoreleasePool == pools' = Append(pools, <<EmptyChunk>>)

(* @autoreleasepool, NSPushAutoreleasePool(), +alloc and +new.             *)
MulleAutoreleasePoolPush ==
  /\ ClientRuns /\ Len(pools) < MaxPools /\ Len(stack) < MaxCalls
  /\ PushAutoreleasePool
  /\ UNCHANGED <<object_map, rc, live, owned, roots, leaked, stack>>

(* config->pop: popAutoreleasePool() to pool k.                            *)
PopAutoreleasePool(k) == stack' = Append(stack, DrainFrame(Len(pools), k, "return"))

(* The end of @autoreleasepool, NSPopAutoreleasePool(), -release, -drain.  *)
MulleAutoreleasePoolPop(k) ==
  /\ ClientRuns /\ Len(stack) < MaxCalls
  /\ k > BasePools
  /\ PopAutoreleasePool(k)
  /\ UNCHANGED <<pools, object_map, rc, live, owned, roots, leaked>>

(* -mulleReleaseAllPoolObjects of pool k, whoever pushed it.               *)
ReleaseAllPoolObjects(k) ==
  /\ ClientRuns /\ Len(stack) < MaxCalls
  /\ Cardinality(WalksIn(k)) <= IF DrainsWalked THEN 1 ELSE 0
  /\ stack' = Append(stack, DrainFrame(k, 0, "return"))
  /\ UNCHANGED <<pools, object_map, rc, live, owned, roots, leaked>>

(* _mulle_objc_poolconfiguration_reset() pops every pool and pushes one,   *)
(* _mulle_objc_poolconfiguration_done() only pops.                         *)
ResetOrDone(then) ==
  /\ stack = <<>>
  /\ IF pools = <<>>
     THEN /\ then = "push"
          /\ pools' = << <<EmptyChunk>> >>
          /\ UNCHANGED stack
     ELSE /\ stack' = <<DrainFrame(Len(pools), 1, then)>>
          /\ UNCHANGED pools
  /\ UNCHANGED <<object_map, rc, live, owned, roots, leaked>>

PoolConfigurationReset == ResetOrDone("push")
PoolConfigurationDone  == ResetOrDone("return")

(* -mulleReleasePoolObjects:count: looks in the tail pool whatever pool it *)
(* is sent to, +mulleReleasePoolObjects:count: in all pools.               *)
ReleasePoolObjects(S, all) ==
  /\ ClientRuns /\ Len(stack) < MaxCalls
  /\ pools # <<>>
  /\ stack' = Append(stack, WalkFrame(Len(pools), S, all))
  /\ UNCHANGED <<pools, object_map, rc, live, owned, roots, leaked>>

-----------------------------------------------------------------------------
(* Steps of the calls in progress.                                         *)

(* _mulle_object_map_release_and_free().                                   *)
UnmapForgets(o) == o \in Obj /\ UNCHANGED object_map

Unmap(o) == object_map' = [object_map EXCEPT ![o] = @ - 1]

(* The calls in progress, when the storage of pool k is taken off it.      *)
StorageLost(k) ==
  [f \in DOMAIN stack |->
     IF f \in WalksIn(k) /\ stack[f].stale = <<>>
     THEN [stack[f] EXCEPT !.stale = pools[k]] ELSE stack[f]]

(* The loop of releaseAllObjectsInPool(): take the storage off the pool    *)
(* and release it, as long as there is one.                                *)
DrainTakeStorage ==
  /\ Running("drain") /\ Top.chain = <<>> /\ pools[Top.pool] # <<>>
  /\ stack' = [StorageLost(Top.pool) EXCEPT ![Len(stack)].chain = pools[Top.pool]]
  /\ pools' = [pools EXCEPT ![Top.pool] = <<>>]
  /\ UNCHANGED <<object_map, rc, live, owned, roots, leaked>>

(* _mulle_autoreleasepointerarray_release_and_free(): newest array first,  *)
(* from its last slot down.                                                *)
DrainObject ==
  /\ Running("drain") /\ Top.chain # <<>>
  /\ LET objects == Last(Top.chain).objects
         opfer   == Last(objects)
         rest    == [stack EXCEPT ![Len(stack)].chain[Len(Top.chain)].objects = Front(objects)]
     IN /\ objects # <<>>
        /\ IF opfer = Hole
           THEN stack' = rest /\ UNCHANGED <<object_map, rc>>
           ELSE Unmap(opfer) /\ ReleaseFrom(opfer, rest)
  /\ UNCHANGED <<pools, live, owned, roots, leaked>>

(* The array is free, go on with the previous one. *)
DrainFreeChunkStays ==
  /\ Running("drain") /\ Top.chain # <<>>
  /\ Last(Top.chain).objects = <<>>
  /\ UNCHANGED vars

DrainFreeChunk ==
  /\ Running("drain") /\ Top.chain # <<>>
  /\ Last(Top.chain).objects = <<>>
  /\ stack' = [stack EXCEPT ![Len(stack)].chain = Front(Top.chain)]
  /\ UNCHANGED <<pools, object_map, rc, live, owned, roots, leaked>>

DrainFinishUnlooped ==
  /\ Running("drain") /\ Top.chain = <<>> /\ Top.target # 0
  /\ pools' = Front(pools)
  /\ stack' = IF Top.pool # Top.target
              THEN [stack EXCEPT ![Len(stack)].pool = Len(pools) - 1]
              ELSE Front(stack)
  /\ UNCHANGED <<object_map, rc, live, owned, roots, leaked>>

(* The pool has no storage anymore.  Only now does the tail move to the    *)
(* owner and the pool go away; pop goes on until it removed the target.    *)
DrainFinish ==
  /\ Running("drain") /\ Top.chain = <<>> /\ pools[Top.pool] = <<>>
  /\ IF Top.target = 0
     THEN /\ stack' = Front(stack)
          /\ UNCHANGED pools
     ELSE LET owners == Front(pools) IN
          /\ stack' = IF Top.pool # Top.target
                      THEN [stack EXCEPT ![Len(stack)].pool = Len(owners)]
                      ELSE Front(stack)
          /\ pools' = IF Top.pool = Top.target /\ Top.then = "push"
                      THEN Append(owners, <<EmptyChunk>>)
                      ELSE owners
  /\ UNCHANGED <<object_map, rc, live, owned, roots, leaked>>

(* The inner loop of _mulle_autoreleasepointerarray_release_objects().     *)
WalkSlot ==
  /\ Running("walk") /\ Top.slot > 0
  /\ LET rest == [stack EXCEPT ![Len(stack)].slot = @ - 1] IN
     \E obj \in SlotReads(Top) :
        IF obj \in Top.objects
        THEN /\ pools' = IF Top.stale # <<>> THEN pools
                         ELSE [pools EXCEPT ![Top.pool][Top.chunk] = Punched(@, Top.slot)]
             /\ Unmap(obj)
             /\ ReleaseFrom(obj, rest)
        ELSE /\ stack' = rest
             /\ UNCHANGED <<pools, object_map, rc>>
  /\ UNCHANGED <<live, owned, roots, leaked>>

(* On to the previous array, the next pool (for the class method), or back. *)
(* A drain cuts the links between the arrays it has taken.                 *)
WalkNext ==
  /\ Running("walk") /\ Top.slot = 0
  /\ stack' =
       IF Top.chunk > 1 /\ Top.stale = <<>>
       THEN [stack EXCEPT ![Len(stack)].chunk = @ - 1,
                          ![Len(stack)].slot = Len(pools[Top.pool][Top.chunk - 1].objects)]
       ELSE IF Top.all /\ Top.pool > 1
            THEN Append(Front(stack), WalkFrame(Top.pool - 1, Top.objects, TRUE))
            ELSE Front(stack)
  /\ UNCHANGED <<pools, object_map, rc, live, owned, roots, leaked>>

(* -dealloc ends with the instance's memory given back.                    *)
DeallocReturn ==
  /\ Running("dealloc") /\ Len(pools) = Top.base
  /\ live' = live \ {Top.object}
  /\ stack' = Front(stack)
  /\ UNCHANGED <<pools, object_map, rc, owned, roots, leaked>>

-----------------------------------------------------------------------------
(* Memory that a caller of autoreleaseObjects can pass for a stride.       *)
Memory(step) ==
  UNION {[1 .. (n - 1) * step + 1 -> IF step = 1 THEN Obj ELSE Slot] : n \in 1 .. BulkSize}

ClientStep ==
  \/ \E o \in Obj : \/ Alloc(o) \/ Retain(o) \/ Release(o) \/ Autorelease(o)
                    \/ BecomeRootObject(o) \/ ResignAsRootObject(o)
                    \/ PushToParentAutoreleasePool(o)
  \/ \E step \in Steps : \E memory \in Memory(step) :
        IF step = 1 THEN _MulleObjCAutoreleaseObjects(memory)
        ELSE _MulleObjCAutoreleaseSpacedObjects(memory, step)
  \/ MulleAutoreleasePoolPush
  \/ \E k \in 1 .. Len(pools) : MulleAutoreleasePoolPop(k) \/ ReleaseAllPoolObjects(k)
  \/ \E S \in SUBSET Obj \ {{}}, all \in BOOLEAN : ReleasePoolObjects(S, all)
  \/ PoolConfigurationReset
  \/ PoolConfigurationDone

(* What a -dealloc has pushed it pops, before it returns.                  *)
DeallocPops == Running("dealloc") /\ MulleAutoreleasePoolPop(BasePools + 1)

PoolStep ==
  \/ DrainTakeStorage \/ DrainObject \/ DrainFreeChunk \/ DrainFinish
  \/ WalkSlot \/ WalkNext

Next == ClientStep \/ PoolStep \/ DeallocReturn

Spec == Init /\ [][Next]_vars

(* Calls in progress run on.  Client code comes back from -dealloc and pops *)
(* the pools it pushed there.                                              *)
FairSpec ==
  /\ Spec
  /\ WF_vars(PoolStep)
  /\ SF_vars(DeallocReturn)
  /\ SF_vars(DeallocPops)

-----------------------------------------------------------------------------
(* Properties.                                                             *)

Frame ==
  [kind : {"dealloc"}, object : Obj, base : Nat]
  \cup [kind : {"drain"}, pool : Nat, chain : Seq(Chunk), target : Nat,
        then : {"return", "push"}]
  \cup [kind : {"walk"}, pool : Nat, chunk : Nat, slot : Nat,
        objects : SUBSET Obj, all : BOOLEAN, stale : Seq(Chunk)]

(* The types of the pool configuration, the counters and the call stack.   *)
TypeOK ==
  /\ pools \in Seq(Seq(Chunk))
  /\ object_map \in [Obj -> Int]
  /\ rc \in [Obj -> Int]
  /\ live \in SUBSET Obj
  /\ owned \in [Obj -> Int]
  /\ roots \in SUBSET Obj
  /\ leaked \in [Obj -> Int]
  /\ stack \in Seq(Frame)

(* How often o is in the storage that a drain has taken off a pool.        *)
TakenObject(frame, o) == IF frame.kind = "drain" THEN CountObject(frame.chain, o) ELSE 0

(* +mulleCountObject: without an object map, a scan over all pools, which  *)
(* misses the storage of a drain in progress.                              *)
MulleCountObject(o) == SumFunction([k \in DOMAIN pools |-> CountObject(pools[k], o)])

(* +mulleContainsObject: without an object map.                            *)
MulleContainsObject(o) == \E k \in DOMAIN pools : ContainsObject(pools[k], o)

(* MulleObjCDumpAutoreleasePoolsToFILEWithOptions(): the lines of a thread. *)
DumpedObjects == FlattenSeq([k \in DOMAIN pools |-> WalkObjects(pools[Len(pools) + 1 - k])])

Pending(o) ==
  MulleCountObject(o) + SumFunction([f \in DOMAIN stack |-> TakenObject(stack[f], o)])

RootReference(o) == IF o \in roots THEN 1 ELSE 0

(* Every reference counted in an object's retain count has one owner: the  *)
(* client, an autorelease that the object map counts, the root set.        *)
ReferencesHaveOwners ==
  \A o \in Obj \ ConstantObj :
    rc[o] = owned[o] + object_map[o] + leaked[o] + RootReference(o)

(* -dealloc of an object runs at most once per allocation, and only when   *)
(* no pool can release the object again.                                   *)
DeallocOnce ==
  \A f \in DOMAIN stack : stack[f].kind = "dealloc" =>
    LET o == stack[f].object IN
    /\ o \in live \ ConstantObj
    /\ Pending(o) = 0
    /\ \A g \in DOMAIN stack : g # f /\ stack[g].kind = "dealloc" => stack[g].object # o

(* Whatever -dealloc does while its pool is drained or walked, and whether *)
(* objects got there one by one or in bulk, no operation loses a pending   *)
(* release or performs one twice.                                          *)
RetainBalance == ReferencesHaveOwners /\ DeallocOnce

(* The object map counts exactly the autoreleases that are still to be     *)
(* released, those in arrays with holes and in storage that is being       *)
(* drained included: none is lost when its pool goes away.  Counting and   *)
(* searching without a map, and the dump of the debugger, give the same    *)
(* answer as long as no drain has taken storage off a pool.                *)
MapIsExact ==
  \A o \in Obj :
    /\ object_map[o] = Pending(o)
    /\ Cardinality(Occurrences(DumpedObjects, o)) = MulleCountObject(o)
    /\ (\A f \in DOMAIN stack : stack[f].kind = "drain" => stack[f].chain = <<>>)
       => (MulleContainsObject(o) <=> object_map[o] > 0)

(* The state has its types, and the pools, arrays and slots that calls in  *)
(* progress come back to after a -dealloc are still there: no release      *)
(* inside frees what its caller uses.                                      *)
CursorsValid ==
  TypeOK /\ \A f \in DOMAIN stack :
    /\ stack[f].kind = "drain" => stack[f].pool \in DOMAIN pools
    /\ stack[f].kind = "walk" =>
         /\ stack[f].pool \in DOMAIN pools
         /\ stack[f].stale = <<>>
         /\ stack[f].slot > 0 =>
              /\ stack[f].chunk \in DOMAIN pools[stack[f].pool]
              /\ stack[f].slot \in DOMAIN pools[stack[f].pool][stack[f].chunk].objects

(* Every push of a pool is undone by a drain that comes to an end, even    *)
(* though the objects it releases put new objects into the pool.           *)
CallsEnd == (stack # <<>>) ~> (stack = <<>>)

-----------------------------------------------------------------------------
(* What an assertion says.                                                 *)

(* The assertion of _mulle_object_map_release_and_free(): an object that   *)
(* is released from a pool is in the map.                                  *)
NotOutOfNowhere == \A o \in Obj : object_map[o] >= 0

==============================================================================
