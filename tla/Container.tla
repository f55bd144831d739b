------------------------------ MODULE Container ------------------------------
(***************************************************************************)
(* A container of mulle-container with the callbacks that MulleObjC has    *)
(* for it (MulleObjCContainerObjectCallback.h).  A callback says how keys  *)
(* are compared, and what happens to a key or value that goes in or out.   *)
(* The client owns objects and C strings, changes them, looks into the     *)
(* container and pops its autorelease pool.  Both are cells here; a key    *)
(* that is an integer or a plain pointer is a content without a cell.      *)
(***************************************************************************)
EXTENDS Naturals, FiniteSets

CONSTANTS
  Cell,      \* addresses of objects and C strings
  Content,   \* what decides -hash and -isEqual:, or strcmp()
  NULL,
  MaxEntries, \* bound: entries of the container
  MaxRefs     \* bound: references to one object

VARIABLES
  callbacks,  \* those of keys and of values
  cell,       \* cell[o]: kind, retain count, mutability and content
  owned,      \* what the client has a reference to
  pool,       \* pool[o]: releases pending in the client's pool
  entries,    \* the container: keys with their hash, and values
  borrowed    \* values that the client read, and did not retain

vars == <<callbacks, cell, owned, pool, entries, borrowed>>

-----------------------------------------------------------------------------
(* The callbacks                                                           *)

INTEGER_KEY_CALLBACK ==
  [kind |-> "plain", compare |-> "equal", insert |-> "nop", remove |-> "nop"]
POINTER_KEY_CALLBACK == INTEGER_KEY_CALLBACK
COPIED_CSTRING_KEY_CALLBACK ==
  [kind |-> "cstring", compare |-> "equal", insert |-> "copy", remove |-> "free"]
ASSIGN_KEY_CALLBACK ==
  [kind |-> "object", compare |-> "equal", insert |-> "nop", remove |-> "nop"]
ASSIGN_RETAINED_KEY_CALLBACK ==
  [kind |-> "object", compare |-> "equal", insert |-> "take", remove |-> "autorelease"]
RETAIN_KEY_CALLBACK ==
  [kind |-> "object", compare |-> "equal", insert |-> "retain", remove |-> "autorelease"]
COPY_KEY_CALLBACK ==
  [kind |-> "object", compare |-> "equal", insert |-> "immutableCopy", remove |-> "autorelease"]
RETAIN_POINTER_COMPARE_KEY_CALLBACK ==
  [kind |-> "object", compare |-> "identity", insert |-> "retain", remove |-> "autorelease"]

INTEGER_VALUE_CALLBACK == [kind |-> "plain", insert |-> "nop", remove |-> "nop"]
ASSIGN_VALUE_CALLBACK == [kind |-> "object", insert |-> "nop", remove |-> "nop"]
ASSIGN_RETAINED_VALUE_CALLBACK == [kind |-> "object", insert |-> "take", remove |-> "autorelease"]
RETAIN_VALUE_CALLBACK == [kind |-> "object", insert |-> "retain", remove |-> "autorelease"]
COPY_VALUE_CALLBACK == [kind |-> "object", insert |-> "copy", remove |-> "autorelease"]
COPIED_CSTRING_VALUE_CALLBACK == [kind |-> "cstring", insert |-> "copy", remove |-> "free"]

\* The pairs that have a name, and those that are composed of what has one.
Callbacks ==
  {<<COPIED_CSTRING_KEY_CALLBACK, RETAIN_VALUE_CALLBACK>>,
   <<RETAIN_KEY_CALLBACK, RETAIN_VALUE_CALLBACK>>,
   <<COPY_KEY_CALLBACK, RETAIN_VALUE_CALLBACK>>,
   <<INTEGER_KEY_CALLBACK, RETAIN_VALUE_CALLBACK>>,
   <<ASSIGN_RETAINED_KEY_CALLBACK, ASSIGN_RETAINED_VALUE_CALLBACK>>,
   <<ASSIGN_RETAINED_KEY_CALLBACK, RETAIN_VALUE_CALLBACK>>,
   <<RETAIN_KEY_CALLBACK, COPY_VALUE_CALLBACK>>,
   <<COPY_KEY_CALLBACK, COPY_VALUE_CALLBACK>>,
   <<ASSIGN_KEY_CALLBACK, RETAIN_VALUE_CALLBACK>>,
   <<RETAIN_POINTER_COMPARE_KEY_CALLBACK, INTEGER_VALUE_CALLBACK>>}

PointerAndStringCallbacks ==
  {<<POINTER_KEY_CALLBACK, INTEGER_VALUE_CALLBACK>>,
   <<POINTER_KEY_CALLBACK, ASSIGN_VALUE_CALLBACK>>,
   <<COPIED_CSTRING_KEY_CALLBACK, INTEGER_VALUE_CALLBACK>>,
   <<INTEGER_KEY_CALLBACK, COPIED_CSTRING_VALUE_CALLBACK>>}

KeyCallback == callbacks[1]
ValueCallback == callbacks[2]

-----------------------------------------------------------------------------
(* Keys and values, on their way in and out.                               *)

Freed == [kind |-> "free", rc |-> 0, mutable |-> FALSE, content |-> NULL]
Nothing == [o \in Cell |-> 0]

Init ==
  /\ callbacks \in Callbacks \cup PointerAndStringCallbacks
  /\ cell = [o \in Cell |-> Freed]
  /\ owned = {} /\ pool = Nothing
  /\ entries = {} /\ borrowed = {}

mulle_container_keycallback_object_hash(k) ==
  IF k \in Cell /\ KeyCallback.compare = "equal" THEN cell[k].content ELSE k

mulle_container_keycallback_object_is_equal(j, k) ==
  mulle_container_keycallback_object_hash(j) = mulle_container_keycallback_object_hash(k)

\* An insertion turns cells into others and says what the container keeps.
mulle_container_callback_object_assign(cells, o) == {[cells |-> cells, kept |-> o]}

mulle_container_callback_object_retain(cells, o) ==
  {[cells |-> [cells EXCEPT ![o].rc = @ + 1], kept |-> o]}

RetainOnly(cells, o, isMutable) == mulle_container_callback_object_retain(cells, o)

\* Only what is mutable, as C strings are, is really copied.
CopyOf(cells, o, isMutable) ==
  IF ~cells[o].mutable THEN mulle_container_callback_object_retain(cells, o)
  ELSE {[cells |-> [cells EXCEPT ![new] = [cells[o] EXCEPT !.rc = 1, !.mutable = isMutable]],
         kept |-> new] : new \in {c \in Cell : cells[c] = Freed}}

mulle_container_callback_object_copy(cells, o) == CopyOf(cells, o, cells[o].mutable)

mulle_container_callback_object_immutable_copy(cells, o) == CopyOf(cells, o, FALSE)

InsertCallback(callback, cells, o) ==
  IF callback.insert = "retain" THEN mulle_container_callback_object_retain(cells, o)
  ELSE IF callback.insert = "copy" THEN mulle_container_callback_object_copy(cells, o)
  ELSE IF callback.insert = "immutableCopy" THEN mulle_container_callback_object_immutable_copy(cells, o)
  ELSE mulle_container_callback_object_assign(cells, o)

ReleaseAtOnce(cells, pending, o) ==
  [cells |-> [cells EXCEPT ![o] = IF @.rc = 1 THEN Freed ELSE [@ EXCEPT !.rc = @ - 1]],
   pool |-> pending]

\* Removal: objects stay until the pool is popped, C strings are freed.
mulle_container_callback_object_autorelease(cells, pending, o) ==
  [cells |-> cells, pool |-> [pending EXCEPT ![o] = @ + 1]]

RemoveCallback(callback, cells, pending, o) ==
  IF callback.remove = "autorelease"
  THEN mulle_container_callback_object_autorelease(cells, pending, o)
  ELSE [cells |-> IF callback.remove = "free" THEN [cells EXCEPT ![o] = Freed] ELSE cells,
        pool  |-> pending]

-----------------------------------------------------------------------------
(* The container.  An entry is found by the hash its key had on insertion. *)

Found(k) ==
  {e \in entries : /\ e.hash = mulle_container_keycallback_object_hash(k)
                   /\ mulle_container_keycallback_object_is_equal(e.key, k)}

\* What the client can pass: what it owns, but not twice what it gives away.
Passable(callback, o) ==
  IF callback.kind = "plain" THEN o \in Content ELSE o \in owned /\ cell[o].kind = callback.kind

TakesBoth == KeyCallback.insert = "take" /\ ValueCallback.insert = "take"

GivenAway(k, v) == (IF KeyCallback.insert = "take" THEN {k} ELSE {}) \cup (IF ValueCallback.insert = "take" THEN {v} ELSE {})

Bounded(cells) == \A o \in Cell : cells[o].rc <= MaxRefs

Insert(k, v) ==
  /\ Passable(KeyCallback, k) /\ Passable(ValueCallback, v)
  /\ k = v => ~TakesBoth
  /\ Cardinality(entries) < MaxEntries /\ Found(k) = {}
  /\ \E key \in InsertCallback(KeyCallback, cell, k) : \E value \in InsertCallback(ValueCallback, key.cells, v) :
       /\ Bounded(value.cells)
       /\ cell' = value.cells
       /\ entries' = entries \cup {[key |-> key.kept, value |-> value.kept,
                                    hash |-> mulle_container_keycallback_object_hash(k)]}
  /\ owned' = owned \ GivenAway(k, v)
  /\ UNCHANGED <<callbacks, pool, borrowed>>

\* The key of an entry stays when its value is replaced.
Replace(e, v) ==
  /\ Passable(ValueCallback, v)
  /\ \E value \in InsertCallback(ValueCallback, cell, v) :
       LET r == RemoveCallback(ValueCallback, value.cells, pool, e.value)
       IN  /\ Bounded(r.cells)
           /\ cell' = r.cells /\ pool' = r.pool
           /\ entries' = (entries \ {e}) \cup {[e EXCEPT !.value = value.kept]}
  /\ owned' = IF ValueCallback.insert = "take" THEN owned \ {v} ELSE owned
  /\ UNCHANGED <<callbacks, borrowed>>

Remove(e) ==
  LET k == RemoveCallback(KeyCallback, cell, pool, e.key)
      v == RemoveCallback(ValueCallback, k.cells, k.pool, e.value)
  IN  /\ cell' = v.cells /\ pool' = v.pool
      /\ entries' = entries \ {e}
      /\ UNCHANGED <<callbacks, owned, borrowed>>

Get(e) ==
  /\ ValueCallback.kind = "object"
  /\ borrowed' = borrowed \cup {e.value}
  /\ UNCHANGED <<callbacks, cell, owned, pool, entries>>

-----------------------------------------------------------------------------
(* The client.                                                             *)

Create(o, kind, mutable, content) ==
  /\ cell[o] = Freed
  /\ kind = "cstring" => mutable
  /\ kind \in {KeyCallback.kind, ValueCallback.kind}
  /\ cell' = [cell EXCEPT ![o] = [kind |-> kind, rc |-> 1, mutable |-> mutable, content |-> content]]
  /\ owned' = owned \cup {o}
  /\ UNCHANGED <<callbacks, pool, entries, borrowed>>

\* Keys that the container did not copy are not changed, unless it compares
\* pointers.
Mutate(o, content) ==
  /\ o \in owned /\ cell[o].mutable
  /\ KeyCallback.compare = "identity" \/ \A e \in entries : e.key # o
  /\ cell' = [cell EXCEPT ![o].content = content]
  /\ UNCHANGED <<callbacks, owned, pool, entries, borrowed>>

\* What the container merely points to is for the client to keep.
Assigned == {o \in Cell : \E e \in entries : \/ KeyCallback.insert = "nop" /\ e.key = o
                                             \/ ValueCallback.insert = "nop" /\ e.value = o}

Dropped(cells) == [o \in Cell |-> IF cells[o].rc = 0 THEN Freed ELSE cells[o]]

Release(o) ==
  /\ o \in owned \ Assigned
  /\ owned' = owned \ {o}
  /\ cell' = Dropped([cell EXCEPT ![o].rc = @ - 1])
  /\ borrowed' = IF ValueCallback.insert = "nop" THEN borrowed \ {o} ELSE borrowed
  /\ UNCHANGED <<callbacks, pool, entries>>

PopPool ==
  /\ pool # Nothing \/ borrowed # {}
  /\ cell' = Dropped([o \in Cell |-> [cell[o] EXCEPT !.rc = @ - pool[o]]])
  /\ pool' = Nothing /\ borrowed' = {}
  /\ UNCHANGED <<callbacks, owned, entries>>

Next ==
  \/ \E k, v \in Cell \cup Content : Insert(k, v)
  \/ \E e \in entries : \/ Remove(e) \/ Get(e)
                        \/ \E v \in Cell \cup Content : Replace(e, v)
  \/ \E o \in Cell : \/ \E kind \in {"object", "cstring"}, mutable \in BOOLEAN, c \in Content :
                          Create(o, kind, mutable, c)
                     \/ \E c \in Content : Mutate(o, c)
                     \/ Release(o)
  \/ PopPool

Spec == Init /\ [][Next]_vars

-----------------------------------------------------------------------------
Kept(o) == Cardinality({e \in entries : KeyCallback.insert # "nop" /\ e.key = o})
         + Cardinality({e \in entries : ValueCallback.insert # "nop" /\ e.value = o})

(* What is in a container is there to be used, whatever the client gives   *)
(* up in the meantime; so is a value that was read from it, until the pool *)
(* is popped, even if the container has lost it (the -autorelease of the   *)
(* callbacks).  The container gives back each reference that it took.  An  *)
(* entry can be looked up by its key, although a mutable object that was   *)
(* given as the key of a copying container has changed since.              *)
ContentsAreHeld ==
  /\ \A e \in entries : /\ KeyCallback.kind # "plain" => cell[e.key].rc > 0
                        /\ ValueCallback.kind # "plain" => cell[e.value].rc > 0
                        /\ Found(e.key) = {e}
  /\ \A o \in borrowed : cell[o].rc > 0
  /\ \A o \in Cell :
       cell[o].rc = (IF o \in owned THEN 1 ELSE 0) + pool[o] + Kept(o)
=============================================================================
