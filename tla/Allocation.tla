----------------------------- MODULE Allocation ------------------------------
(***************************************************************************)
(* The allocators that instances and their memory come from and go back to *)
(* (MulleObjCAllocation.h).  With MULLE_OBJC_EMBEDDED_ALLOCATOR a thread   *)
(* can have an allocator of its own, and an instance keeps the one that it *)
(* came from in its header; otherwise all instances of a class share one.  *)
(* A function that is called with something that is no allocator has no    *)
(* defined effect; here the memory that it returns comes from there.       *)
(***************************************************************************)
EXTENDS Naturals

CONSTANTS
  Thread,
  Instance,        \* addresses of instances of a class
  MemoryBlock,     \* addresses of other memory
  Allocator,
  ClassAllocator,  \* the allocator of the class
  DefaultAllocator,  \* that of mulle_malloc()
  FirstWord,       \* what is at the address of an allocator: one of its functions
  MaxOwners,       \* bound: references to one instance
  NULL

VARIABLES
  embedded,            \* MULLE_OBJC_EMBEDDED_ALLOCATOR
  instance_allocator,  \* instance_allocator[t]: the allocator of a thread, or NULL
  instance,            \* instance[i]: whence it comes, what its header says
  block,               \* block[b]: whence it comes, for which instance or thread
  owners               \* owners[i]: how many references clients hold

vars == <<embedded, instance_allocator, instance, block, owners>>

Free == [from |-> NULL]

\* The only zone there is.
NSDefaultMallocZone == "zone"

Init ==
  /\ embedded \in BOOLEAN
  /\ instance_allocator = [t \in Thread |-> NULL]
  /\ instance = [i \in Instance |-> Free]
  /\ block = [b \in MemoryBlock |-> Free]
  /\ owners = [i \in Instance |-> 0]

MulleObjCThreadGetAllocator(t) == instance_allocator[t]

ThreadAllocatorAlways(t) ==
  IF MulleObjCThreadGetAllocator(t) # NULL THEN MulleObjCThreadGetAllocator(t) ELSE ClassAllocator

MulleObjCClassGetAllocator(t) ==
  IF embedded /\ MulleObjCThreadGetAllocator(t) # NULL
  THEN MulleObjCThreadGetAllocator(t) ELSE ClassAllocator

\* The pointer in the header is dereferenced once more than it is meant to.
MulleObjCInstanceGetAllocator(i) == IF embedded THEN FirstWord ELSE ClassAllocator

MulleObjCThreadSetAllocator(t, allocator) ==
  /\ instance_allocator' = [instance_allocator EXCEPT ![t] = allocator]
  /\ UNCHANGED <<embedded, instance, block, owners>>

-----------------------------------------------------------------------------
AllocateFrom(i, allocator) ==
  /\ instance[i] = Free
  /\ instance' = [instance EXCEPT ![i] =
                    [from |-> allocator, header |-> allocator, retaincount |-> 0]]
  /\ owners' = [owners EXCEPT ![i] = 1]
  /\ UNCHANGED <<embedded, instance_allocator, block>>

_MulleObjCClassAllocateInstance(t, i) == AllocateFrom(i, MulleObjCClassGetAllocator(t))

\* The zone does not count.
NSAllocateObject(t, i, zone) == _MulleObjCClassAllocateInstance(t, i)

\* Without an allocator in the header, another one than that of the class is
\* for objects with a -dealloc of their own, like placeholders.
_MulleObjCClassAllocateInstanceWithAllocator(i, allocator) ==
  /\ ~embedded => allocator = ClassAllocator
  /\ AllocateFrom(i, allocator)

\* The count in the header is that of the references beyond the first one.
NSIncrementExtraRefCount(i) ==
  /\ owners[i] > 0 /\ owners[i] < MaxOwners
  /\ instance' = [instance EXCEPT ![i].retaincount = @ + 1]
  /\ owners' = [owners EXCEPT ![i] = @ + 1]
  /\ UNCHANGED <<embedded, instance_allocator, block>>

NSDecrementExtraRefCountWasZero(i) == instance[i].retaincount = 0

NSExtraRefCount(i) == instance[i].retaincount + 1

\* Of a class whose -dealloc frees the memory that it allocated.
NSDeallocateObject(i) ==
  /\ instance' = [instance EXCEPT ![i] = Free]
  /\ block' = [b \in MemoryBlock |->
                 IF block[b] # Free /\ block[b].owner = i THEN Free ELSE block[b]]

_MulleObjCReleaseObject(i) ==
  /\ owners[i] > 0
  /\ owners' = [owners EXCEPT ![i] = @ - 1]
  /\ IF NSDecrementExtraRefCountWasZero(i)
     THEN NSDeallocateObject(i)
     ELSE /\ instance' = [instance EXCEPT ![i].retaincount = @ - 1]
          /\ UNCHANGED block
  /\ UNCHANGED <<embedded, instance_allocator>>

MulleObjCInstanceAllocateMemory(i, b) ==
  /\ owners[i] > 0 /\ block[b] = Free
  /\ block' = [block EXCEPT ![b] = [from |-> MulleObjCInstanceGetAllocator(i), owner |-> i]]
  /\ UNCHANGED <<embedded, instance_allocator, instance, owners>>

MulleObjCInstanceReallocateNonZeroedMemory(i, b, new) ==
  /\ owners[i] > 0 /\ block[b] # Free /\ block[b].owner = i /\ (new = b \/ block[new] = Free)
  /\ block' = [block EXCEPT ![b] = Free,
                            ![new] = [from |-> MulleObjCInstanceGetAllocator(i), owner |-> i]]
  /\ UNCHANGED <<embedded, instance_allocator, instance, owners>>

MulleObjCInstanceDeallocateMemory(b) ==
  /\ block[b] # Free /\ block[b].owner \in Instance
  /\ block' = [block EXCEPT ![b] = Free]
  /\ UNCHANGED <<embedded, instance_allocator, instance, owners>>

-----------------------------------------------------------------------------
(* Memory of a class: it is for the thread to free, and to keep its        *)
(* allocator until then.                                                   *)

MulleObjCClassAllocateMemory(t, b) ==
  /\ block[b] = Free
  /\ block' = [block EXCEPT ![b] = [from |-> MulleObjCClassGetAllocator(t), owner |-> t]]
  /\ UNCHANGED <<embedded, instance_allocator, instance, owners>>

MulleObjCClassReallocateNonZeroedMemory(t, b, new) ==
  /\ block[b] # Free /\ block[b].owner = t /\ (new = b \/ block[new] = Free)
  /\ block' = [block EXCEPT ![b] = Free,
                            ![new] = [from |-> MulleObjCClassGetAllocator(t), owner |-> t]]
  /\ UNCHANGED <<embedded, instance_allocator, instance, owners>>

MulleObjCClassDeallocateMemory(t, b) ==
  /\ block[b] # Free /\ block[b].owner = t
  /\ block' = [block EXCEPT ![b] = Free]
  /\ UNCHANGED <<embedded, instance_allocator, instance, owners>>

-----------------------------------------------------------------------------
(* The functions of zones ignore the zone, and use the default allocator.  *)

NSZoneFromPointer(b) == NSDefaultMallocZone

NSZoneMalloc(b) ==
  /\ block[b] = Free
  /\ block' = [block EXCEPT ![b] = [from |-> DefaultAllocator, owner |-> NSDefaultMallocZone]]
  /\ UNCHANGED <<embedded, instance_allocator, instance, owners>>

NSZoneRealloc(b, new) ==
  /\ block[b] # Free /\ block[b].owner = NSDefaultMallocZone /\ (new = b \/ block[new] = Free)
  /\ block' = [block EXCEPT ![b] = Free,
                            ![new] = [from |-> DefaultAllocator, owner |-> NSDefaultMallocZone]]
  /\ UNCHANGED <<embedded, instance_allocator, instance, owners>>

NSZoneFree(b) ==
  /\ block[b] # Free /\ block[b].owner = NSZoneFromPointer(b)
  /\ block' = [block EXCEPT ![b] = Free]
  /\ UNCHANGED <<embedded, instance_allocator, instance, owners>>

-----------------------------------------------------------------------------
MaySetAllocator(t) == \A b \in MemoryBlock : block[b] # Free => block[b].owner # t

Next ==
  \/ \E t \in Thread :
       \/ \E a \in Allocator \cup {NULL} : MaySetAllocator(t) /\ MulleObjCThreadSetAllocator(t, a)
       \/ \E i \in Instance : NSAllocateObject(t, i, NSDefaultMallocZone)
       \/ \E b \in MemoryBlock :
            \/ MulleObjCClassAllocateMemory(t, b)
            \/ \E new \in MemoryBlock : MulleObjCClassReallocateNonZeroedMemory(t, b, new)
            \/ MulleObjCClassDeallocateMemory(t, b)
  \/ \E i \in Instance :
       \/ \E a \in Allocator : _MulleObjCClassAllocateInstanceWithAllocator(i, a)
       \/ NSIncrementExtraRefCount(i)
       \/ _MulleObjCReleaseObject(i)
       \/ \E b \in MemoryBlock : \/ MulleObjCInstanceAllocateMemory(i, b)
                           \/ \E new \in MemoryBlock : MulleObjCInstanceReallocateNonZeroedMemory(i, b, new)
  \/ \E b \in MemoryBlock : \/ MulleObjCInstanceDeallocateMemory(b)
                            \/ NSZoneMalloc(b)
                            \/ NSZoneFree(b)
                            \/ \E new \in MemoryBlock : NSZoneRealloc(b, new)

Spec == Init /\ [][Next]_vars

-----------------------------------------------------------------------------
(* Whatever allocators threads set in the meantime: memory of a class and  *)
(* of a zone will be given back to the allocator that it came from, and so *)
(* will an instance and its memory, if instances share the allocator of    *)
(* their class; an embedded allocator stays what it was.  An instance is   *)
(* there exactly as long as somebody has a reference, and its memory no    *)
(* longer than it.                                                         *)
MemoryGoesHome ==
  /\ \A i \in Instance :
       /\ instance[i] # Free <=> owners[i] > 0
       /\ instance[i] # Free => /\ instance[i].from = instance[i].header
                                /\ ~embedded => instance[i].from = MulleObjCInstanceGetAllocator(i)
                                /\ NSExtraRefCount(i) = owners[i]
  /\ \A b \in MemoryBlock : block[b] # Free =>
       /\ \A i \in Instance : block[b].owner = i =>
            /\ instance[i] # Free
            /\ ~embedded => block[b].from = MulleObjCInstanceGetAllocator(i)
       /\ \A t \in Thread : block[b].owner = t => block[b].from = MulleObjCClassGetAllocator(t)
       /\ block[b].owner = NSDefaultMallocZone => block[b].from = DefaultAllocator
=============================================================================
