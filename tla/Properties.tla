----------------------------- MODULE Properties ------------------------------
(***************************************************************************)
(* An object and its properties: from +alloc to -dealloc, with the values  *)
(* its accessors keep.  A MulleObject has them in instance variables, a    *)
(* MulleDynamicObject in a map, behind accessors that are made when they   *)
(* are first called.  Threads call them on objects of their own; the map   *)
(* of values is that of the object of one of them.                         *)
(***************************************************************************)
EXTENDS Naturals, FiniteSets, FiniteSetsExt

CONSTANTS
  Thread,
  Property,
  Value,      \* addresses of objects and strings that are values
  Mutable,    \* those that -copy copies
  NULL,
  MaxRefs     \* bound: references to an object

VARIABLES
  cls,        \* the class of the object
  kind,       \* kind[p]: how a property was declared
  phase,      \* "none", "live", "finalized" after -finalize, "gone"
  ivars,      \* ivars[p]: the value that is kept
  rc,         \* rc[v]: retain count, 1 for an allocated C string
  pool,       \* pool[v]: releases pending in the autorelease pool
  owned,      \* values that the client has a reference to
  borrowed,   \* values that the client read, and did not retain
  selfRefs,   \* [rc, owned, pool] of the object itself
  complained, \* the autorelease checker has raised
  methods,    \* accessors that the class has
  getter_lookup, \* setters whose getter is known
  forward     \* forward[t]: the accessor that a thread makes

object  == <<phase, ivars, rc, pool, owned, borrowed, selfRefs, complained>>
making  == <<methods, getter_lookup, forward>>
vars    == <<cls, kind, object, making>>

Plain    == {"VoidPointer"}
Wrapped  == {"Value"}   \* an NSValue, or a NSNumber if there are any
MulleObjCGenericType == Plain \cup {"Strdup", "Assign", "Retain", "Copy"} \cup Wrapped

Accessor == {"getter", "setter"}

\* Only pointers are cleared through their setter, and not those that can
\* not be nil; there are no readonly dynamic properties, and no _Nonnull
\* ones that are assigned.
Declarable(class) ==
  {k \in [type : MulleObjCGenericType, readonly : BOOLEAN, setterclear : BOOLEAN] :
     /\ k.type \in Plain \cup Wrapped => ~k.setterclear
     /\ k.type = "Assign" => k.setterclear
     /\ k.type \in Wrapped => class = "MulleDynamicObject"
     /\ k.readonly => class = "MulleObject" /\ k.type \in {"Retain", "Copy", "Strdup"} /\ ~k.setterclear}

Nothing == [v \in Value |-> 0]
Idle    == [at |-> "idle"]

Init ==
  /\ cls \in {"MulleObject", "MulleDynamicObject"}
  /\ kind \in [Property -> Declarable(cls)]
  /\ phase = "none"
  /\ ivars = [p \in Property |-> NULL]
  /\ rc = Nothing /\ pool = Nothing /\ owned = {} /\ borrowed = {}
  /\ selfRefs = [rc |-> 0, owned |-> 0, pool |-> 0]
  /\ complained = FALSE
  /\ methods = IF cls = "MulleObject" THEN Property \X Accessor ELSE {}
  /\ getter_lookup = {}
  /\ forward = [t \in Thread |-> Idle]

-----------------------------------------------------------------------------
(* What setters do to a store [ivars, rc, pool]; the results they can have. *)

Store == [ivars |-> ivars, rc |-> rc, pool |-> pool]

Keep(s, p, v) == [s EXCEPT !.ivars[p] = v]

AutoreleaseIn(s, v) == IF v = NULL THEN s ELSE [s EXCEPT !.pool[v] = @ + 1]

RetainIn(s, v) == IF v = NULL THEN s ELSE [s EXCEPT !.rc[v] = @ + 1]

FreeIn(s, v) == IF v = NULL THEN s ELSE [s EXCEPT !.rc[v] = 0]

New(s) == {v \in Value : s.rc[v] = 0}

AllocateIn(s, v) == [s EXCEPT !.rc[v] = 1]

VoidPointerSetter(s, p, v) == {Keep(s, p, v)}

StrdupSetter(s, p, v) ==
  IF v = NULL THEN {FreeIn(Keep(s, p, NULL), s.ivars[p])}
  ELSE {FreeIn(Keep(AllocateIn(s, new), p, new), s.ivars[p]) : new \in New(s)}

RetainSetter(s, p, v) == {AutoreleaseIn(Keep(RetainIn(s, v), p, v), s.ivars[p])}

CopySetter(s, p, v) ==
  IF v \in Mutable
  THEN {AutoreleaseIn(Keep(AllocateIn(s, new), p, new), s.ivars[p]) : new \in New(s)}
  ELSE RetainSetter(s, p, v)

GenericValueSetter(s, p) ==
  {AutoreleaseIn(Keep(AllocateIn(s, new), p, new), s.ivars[p]) : new \in New(s)}

Setter(s, p, v) ==
  LET type == kind[p].type
  IN  IF type = "Retain" THEN RetainSetter(s, p, v)
      ELSE IF type = "Copy" THEN CopySetter(s, p, v)
      ELSE IF type = "Strdup" THEN StrdupSetter(s, p, v)
      ELSE IF type \in Wrapped THEN GenericValueSetter(s, p)
      ELSE VoidPointerSetter(s, p, v)

IsObject(p) == kind[p].type \in {"Assign", "Retain", "Copy"}

\* A value of a property that is not an object is not one of the client's.
Passable(p) == IF IsObject(p) THEN owned \cup {NULL}
               ELSE IF kind[p].type = "Strdup" THEN {NULL, "text"} ELSE {NULL}

Becomes(s) == ivars' = s.ivars /\ rc' = s.rc /\ pool' = s.pool

-----------------------------------------------------------------------------
(* Accessors that a MulleDynamicObject makes on demand.                    *)

\* -forward: gets a message that the class has no method for.
_MulleDynamicObjectForward(t, p, a) ==
  /\ forward[t] = Idle /\ <<p, a>> \notin methods
  /\ forward' = [forward EXCEPT ![t] = [at |-> "search", property |-> p, needed |-> a]]
  /\ UNCHANGED <<cls, kind, object, methods, getter_lookup>>

\* Those that are there already are left out of the new method list.
SearchMissing(t) ==
  /\ forward[t].at = "search"
  /\ LET p == forward[t].property IN
     forward' = [forward EXCEPT ![t] =
       [at |-> "add", property |-> p, needed |-> @.needed,
        missing |-> {a \in Accessor : <<p, a>> \notin methods}]]
  /\ UNCHANGED <<cls, kind, object, methods, getter_lookup>>

AddMethodList(t) ==
  /\ forward[t].at = "add"
  /\ LET p == forward[t].property IN
     /\ getter_lookup' = IF "setter" \in forward[t].missing THEN getter_lookup \cup {p} ELSE getter_lookup
     /\ methods' = methods \cup {<<p, a>> : a \in forward[t].missing}
  /\ forward' = [forward EXCEPT ![t] = Idle]
  /\ UNCHANGED <<cls, kind, object>>

-----------------------------------------------------------------------------
(* The object, as the client sees it.                                      *)

Client == phase = "live" /\ ~complained

Set(p, v) ==
  /\ Client /\ ~kind[p].readonly /\ <<p, "setter">> \in methods
  /\ v = NULL => kind[p].setterclear \/ ~IsObject(p)
  /\ \E s \in Setter(Store, p, v) :
       /\ \A o \in Value : s.rc[o] <= MaxRefs
       /\ Becomes(s)
  /\ UNCHANGED <<cls, kind, phase, owned, borrowed, selfRefs, complained, making>>

\* -init of a class sets its readonly properties.
SetReadonly(p, v) ==
  /\ Client /\ kind[p].readonly /\ ivars[p] = NULL
  /\ \E s \in Setter(Store, p, v) :
       /\ \A o \in Value : s.rc[o] <= MaxRefs
       /\ Becomes(s)
  /\ UNCHANGED <<cls, kind, phase, owned, borrowed, selfRefs, complained, making>>

Get(p) ==
  /\ Client /\ <<p, "getter">> \in methods
  /\ kind[p].type \in {"Retain", "Copy"} /\ ivars[p] # NULL
  /\ borrowed' = borrowed \cup {ivars[p]}
  /\ UNCHANGED <<cls, kind, phase, ivars, rc, pool, owned, selfRefs, complained, making>>

\* The getter of a relationship can be given another object, to keep instead.
RetainGetterWillReadRelationship(p, changed) ==
  /\ Client /\ cls = "MulleDynamicObject" /\ <<p, "getter">> \in methods
  /\ kind[p].type \in {"Retain", "Copy"}
  /\ changed # ivars[p] /\ changed \in owned
  /\ rc[changed] < MaxRefs
  /\ Becomes(RetainIn(Keep(AutoreleaseIn(Store, ivars[p]), p, changed), changed))
  /\ borrowed' = borrowed \cup {changed}
  /\ UNCHANGED <<cls, kind, phase, owned, selfRefs, complained, making>>

\* The client makes values and gives them up.
CreateValue(v) ==
  /\ rc[v] = 0 /\ rc' = [rc EXCEPT ![v] = 1]
  /\ owned' = owned \cup {v}
  /\ UNCHANGED <<cls, kind, phase, ivars, pool, borrowed, selfRefs, complained, making>>

ReleaseValue(v) ==
  /\ v \in owned /\ owned' = owned \ {v}
  /\ rc' = [rc EXCEPT ![v] = @ - 1]
  /\ UNCHANGED <<cls, kind, phase, ivars, pool, borrowed, selfRefs, complained, making>>

-----------------------------------------------------------------------------
(* The life of the object.                                                 *)

_MulleObjCStandardAlloc == selfRefs' = [rc |-> 1, owned |-> 1, pool |-> 0]

_MulleObjCStandardNew ==
  /\ phase = "none" /\ phase' = "live"
  /\ _MulleObjCStandardAlloc
  /\ UNCHANGED <<cls, kind, ivars, rc, pool, owned, borrowed, complained, making>>

\* +instance leaves the only reference to the pool.
NSObjectInstance ==
  /\ phase = "none" /\ phase' = "live"
  /\ selfRefs' = [rc |-> 1, owned |-> 0, pool |-> 1]
  /\ UNCHANGED <<cls, kind, ivars, rc, pool, owned, borrowed, complained, making>>

_MulleObjCStandardRetain ==
  /\ phase \in {"live", "finalized"} /\ selfRefs.rc < MaxRefs
  /\ selfRefs' = [selfRefs EXCEPT !.rc = @ + 1, !.owned = @ + 1]
  /\ UNCHANGED <<cls, kind, phase, ivars, rc, pool, owned, borrowed, complained, making>>

\* A debugging aid: what is in the pool must be less than what is retained.
_MulleObjCStandardCheckAutoreleaseRelease ==
  complained' = (complained \/ selfRefs.pool >= selfRefs.rc)

\* -finalize: readonly properties of a MulleObject first, then the others;
\* a MulleDynamicObject releases what is left in the map.
ClearProperty(s, p) ==
  IF kind[p].setterclear THEN CHOOSE r \in Setter(s, p, NULL) : TRUE
  ELSE IF cls = "MulleDynamicObject" \/ kind[p].type \in Plain THEN s
  ELSE IF kind[p].type = "Strdup" THEN FreeIn(Keep(s, p, NULL), s.ivars[p])
  ELSE AutoreleaseIn(Keep(s, p, NULL), s.ivars[p])

ReleaseObjectsOnly(s, p) ==
  IF kind[p].type \in Plain \cup {"Strdup"} THEN s ELSE AutoreleaseIn(s, s.ivars[p])

release_generic_value(s, p) ==
  IF kind[p].type \in Plain THEN s
  ELSE IF kind[p].type = "Strdup" THEN FreeIn(s, s.ivars[p])
  ELSE AutoreleaseIn(s, s.ivars[p])

ReleaseLeftover(s, p) == Keep(release_generic_value(s, p), p, NULL)

ClearProperties(s, mode) ==
  LET Cleared == {p \in Property : \/ mode = "All"
                                   \/ mode = "OnlyReadOnly" /\ kind[p].readonly
                                   \/ mode = "NonReadOnly" /\ ~kind[p].readonly}
      Clear(p, store) == ClearProperty(store, p)
  IN  FoldSet(Clear, s, Cleared)

Finalized(s) ==
  LET Leftover(p, store) == ReleaseLeftover(store, p)
  IN  IF cls = "MulleObject"
      THEN ClearProperties(ClearProperties(s, "OnlyReadOnly"), "NonReadOnly")
      ELSE FoldSet(Leftover, ClearProperties(s, "NonReadOnly"), Property)

_MulleObjCStandardFinalize == Becomes(IF phase = "live" THEN Finalized(Store) ELSE Store)

mullePerformFinalize ==
  /\ Client /\ selfRefs.owned > 0
  /\ phase' = "finalized"
  /\ _MulleObjCStandardFinalize
  /\ UNCHANGED <<cls, kind, owned, borrowed, selfRefs, complained, making>>

\* The last release finalizes, unless that was done, and deallocates.
_mulle_objc_object_release_inline(refs) ==
  /\ selfRefs' = refs
  /\ IF refs.rc = 0 THEN phase' = "gone" /\ _MulleObjCStandardFinalize
     ELSE UNCHANGED <<phase, ivars, rc, pool>>

_MulleObjCStandardRelease ==
  /\ selfRefs.owned > 0 /\ ~complained
  /\ _MulleObjCStandardCheckAutoreleaseRelease
  /\ _mulle_objc_object_release_inline([selfRefs EXCEPT !.rc = @ - 1, !.owned = @ - 1])
  /\ UNCHANGED <<cls, kind, owned, borrowed, making>>

_MulleObjCStandardAutorelease ==
  /\ selfRefs.owned > 0 /\ ~complained
  /\ _MulleObjCStandardCheckAutoreleaseRelease
  /\ selfRefs' = [selfRefs EXCEPT !.owned = @ - 1, !.pool = @ + 1]
  /\ UNCHANGED <<cls, kind, phase, ivars, rc, pool, owned, borrowed, making>>

\* The pool lets go of the values first, and of what a -finalize that it
\* causes adds, in its next round.
PopPool ==
  /\ pool # Nothing \/ borrowed # {} \/ selfRefs.pool > 0
  /\ LET drained == [ivars |-> ivars, rc |-> [v \in Value |-> rc[v] - pool[v]], pool |-> Nothing]
         left == selfRefs.rc - selfRefs.pool
         dies == selfRefs.pool > 0 /\ left = 0
     IN /\ Becomes(IF dies /\ phase = "live" THEN Finalized(drained) ELSE drained)
        /\ selfRefs' = [selfRefs EXCEPT !.rc = left, !.pool = 0]
        /\ phase' = IF dies THEN "gone" ELSE phase
  /\ borrowed' = {}
  /\ UNCHANGED <<cls, kind, owned, complained, making>>

Next ==
  \/ \E t \in Thread : \/ \E p \in Property, a \in Accessor : _MulleDynamicObjectForward(t, p, a)
                       \/ SearchMissing(t) \/ AddMethodList(t)
  \/ \E p \in Property : \/ \E v \in Passable(p) : Set(p, v) \/ SetReadonly(p, v)
                         \/ Get(p)
                         \/ \E v \in Value : RetainGetterWillReadRelationship(p, v)
  \/ \E v \in Value : CreateValue(v) \/ ReleaseValue(v)
  \/ _MulleObjCStandardNew \/ NSObjectInstance \/ _MulleObjCStandardRetain
  \/ _MulleObjCStandardRelease \/ _MulleObjCStandardAutorelease
  \/ mullePerformFinalize \/ PopPool

Spec == Init /\ [][Next]_vars

-----------------------------------------------------------------------------
Keeps(p) == phase = "live" /\ kind[p].type \notin Plain \cup {"Assign"}

\* A dynamic object's setter looks its key up, and asserts that it finds one.
SettersHaveKeys ==
  cls = "MulleDynamicObject" =>
    \A p \in Property : <<p, "setter">> \in methods => p \in getter_lookup

(* Properties keep what they should as long as the object lives and not a  *)
(* moment longer: each reference to a value is that of a property, of the  *)
(* pool or of the client; a value that was read stays until the pool is    *)
(* popped; strings have one property each.  The checker for superfluous    *)
(* -autorelease and -release does not complain about a correct client, and *)
(* a setter finds its key, whoever has made it.                            *)
ContentsAreHeld ==
  /\ \A v \in Value :
       rc[v] = Cardinality({p \in Property : Keeps(p) /\ ivars[p] = v})
               + pool[v] + (IF v \in owned THEN 1 ELSE 0)
  /\ \A v \in borrowed : rc[v] > 0
  /\ phase \in {"finalized", "gone"} => \A p \in Property : ivars[p] = NULL
  /\ ~complained
  /\ SettersHaveKeys

(* "why are we here then, if it exists": the accessor that -forward: makes *)
(* is not there when it looks for those that are missing.                  *)
NeededAccessorIsMissing ==
  \A t \in Thread : forward[t].at = "add" => forward[t].needed \in forward[t].missing
=============================================================================
