------------------------------ MODULE MCValues ------------------------------
(***************************************************************************)
(* Values, and where they are kept.  The functions without a state of      *)
(* their own are each called with all inputs of a small instance: a step   *)
(* chooses a function and its inputs; the invariants compare what it       *)
(* returns with a reference.  The properties of an object, containers and  *)
(* the memory of instances change step by step.  These have no state in    *)
(* common: a behaviour exercises one, chosen by its initial state.         *)
(***************************************************************************)
EXTENDS Ranges, MetaABI, TaggedPointers, EnumTables, MethodSearch, ByteOrder, Exceptions, TLC

CONSTANTS Classes, Objects, MaxValid,
          Caller, Property, Varied, Value, Mutable, NULL, MaxRefs,
          Cell, Content, MaxEntries,
          Thread, Instance, MemoryBlock, Allocator, ClassAllocator,
          Invocation, Argument, Reusable,
          DefaultAllocator, FirstWord, MaxOwners

ASSUME ValuesAssumption ==
  /\ NULL \notin Value \cup Cell \cup Instance \cup MemoryBlock \cup Allocator \cup Argument
  /\ IsFiniteSet(Property) /\ IsFiniteSet(Invocation) /\ Reusable \in Nat
  /\ Cell \cap Content = {}
  /\ Instance \cap Thread = {} /\ "zone" \notin Instance \cup Thread
  /\ {MaxRefs, MaxEntries} \subseteq Nat
  /\ MaxValid \in 0 .. Modulus - 1
  /\ ByteBits \in Nat \ {0} /\ Garbage \notin Floats
  /\ Varied \subseteq Property /\ Mutable \subseteq Value /\ ClassAllocator \in Allocator
  /\ NULL \notin {DefaultAllocator, FirstWord} /\ MaxOwners \in Nat

VARIABLES
  place, call,
  cls, kind, phase, ivars, rc, pool, owned, borrowed, selfRefs,
  complained, methods, getter_lookup, forward,
  callbacks, cell, cellOwned, cellPool, entries, cellBorrowed,
  embedded, instance_allocator, instance, block, owners,
  signature, invocation, reuse, refs, held

Accessors == INSTANCE Properties WITH Thread <- Caller

Contents == INSTANCE Container
  WITH owned <- cellOwned, pool <- cellPool, borrowed <- cellBorrowed

Memory == INSTANCE Allocation

Messages == INSTANCE Invocations WITH Value <- Argument

ClassName == {"A", "B", "C", "D"}

Loaded == INSTANCE ClassHierarchy
            WITH Class <- 1 .. 3, NameOf <- <<"A", "B", "C">>

Owned == INSTANCE OwnedObjects

propertyVars  == <<cls, kind, phase, ivars, rc, pool, owned, borrowed, selfRefs,
                   complained, methods, getter_lookup, forward>>
containerVars == <<callbacks, cell, cellOwned, cellPool, entries, cellBorrowed>>
memoryVars    == <<embedded, instance_allocator, instance, block, owners>>
messageVars   == <<signature, invocation, reuse, refs, held>>
vars          == <<place, call, propertyVars, containerVars, memoryVars, messageVars>>

NoCall == [fn |-> "none"]

Plain == [argument |-> "none", rval |-> "void"]

Signatures ==
    {[argument |-> "none", rval |-> "block"], [argument |-> "assign", rval |-> "block"],
     [argument |-> "retain", rval |-> "retain"], [argument |-> "copy", rval |-> "retain"],
     [argument |-> "copy", rval |-> "void"]}

SmallRanges == {r \in [location : 0 .. MaxValid, length : 0 .. MaxValid] :
                   MulleObjCRangeIsValid(r)}

\* A class with two categories and two mixins, and its superclass with one.
AllImplementations ==
    << [level |-> 1, kind |-> "category", class |-> "Bar", category |-> "Y"],
       [level |-> 1, kind |-> "category", class |-> "Bar", category |-> "X"],
       [level |-> 1, kind |-> "class",    class |-> "Bar", category |-> "none"],
       [level |-> 1, kind |-> "mixin",    class |-> "Q",   category |-> "none"],
       [level |-> 1, kind |-> "mixin",    class |-> "P",   category |-> "none"],
       [level |-> 2, kind |-> "category", class |-> "Foo", category |-> "X"],
       [level |-> 2, kind |-> "class",    class |-> "Foo", category |-> "none"] >>

OrderOf(present) ==
    LET Present(impl) == impl \in present
    IN  SelectSeq(AllImplementations, Present)

CollectionInfos ==
    UNION {{MulleObjCCollectionInfoMake(stop, {}),
            MulleObjCCollectionInfoMake(stop, {"superclass"}),
            MulleObjCCollectionInfoMake(stop, {"protocols"}),
            MulleObjCCollectionInfoMakeCategories(stop)} : stop \in 0 .. 2}

Names == {<<"A">>, <<"A", "B">>, <<"B">>}

Tables(width, constants) ==
    UNION {[1 .. n -> {NS_ENUM_ITEM(width, s, c) : s \in Names, c \in constants}] : n \in 1 .. 2}

\* What a behaviour leaves alone keeps one of its initial states.
Init ==
    /\ place \in {"function", "properties", "container", "memory", "invocation"}
    /\ call = NoCall
    /\ Accessors!Init /\ Contents!Init /\ Memory!Init /\ Messages!Init
    /\ place # "properties" => cls = "MulleObject" /\ \A p \in Property : kind[p].type = "Assign"
    /\ \A p \in Property \ Varied : kind[p].type \in {"Assign", "Retain"}
    /\ place # "container" => callbacks = <<Contents!INTEGER_KEY_CALLBACK, Contents!RETAIN_VALUE_CALLBACK>>
    /\ place # "memory" => ~embedded
    /\ signature \in IF place = "invocation" THEN Signatures ELSE {Plain}

Return == call /= NoCall /\ call' = NoCall

CheckRange ==
    /\ call = NoCall
    /\ \E r \in NSRange, length \in NSUInteger :
          call' = [fn |-> "range", r |-> r, length |-> length]

CompareRanges ==
    /\ call = NoCall
    /\ \E a, b \in SmallRanges : call' = [fn |-> "ranges", a |-> a, b |-> b]

Access ==
    /\ call = NoCall
    /\ \E p \in Platforms, type \in Types : \E value \in Values(p, type) :
          call' = [fn |-> "access", p |-> p, type |-> type, value |-> value]

Send ==
    /\ call = NoCall
    /\ \E n \in 0 .. 5 : \E args \in [1 .. n -> Objects] :
          call' = [fn |-> "send", args |-> args]

Swap ==
    /\ call = NoCall
    /\ \E h, g \in Hosts, type \in IntegerTypes \union FloatingTypes :
          call' = [fn |-> "swap", h |-> h, g |-> g, type |-> type,
                   value |-> [i \in 1 .. Width(h, type) |-> i]]

Tag ==
    /\ call = NoCall
    /\ \E index \in Indexes \union {0}, class \in Classes \union {NoClass},
          value \in NSIntegers \union NSUIntegers :
          call' = [fn |-> "tag", index |-> index, cls |-> class, value |-> value]

SearchMethod ==
    /\ call = NoCall
    /\ \E present \in SUBSET {AllImplementations[i] : i \in 1 .. Len(AllImplementations)},
          start \in 1 .. 2, info \in CollectionInfos,
          default \in {{}, {"superclass"}} :
          call' = [fn |-> "search", order |-> OrderOf(present), start |-> start,
                   info |-> info, default |-> default]

PrintEnum ==
    /\ call = NoCall
    /\ \E width \in {3, LongLongBits} : \E table \in Tables(width, -2 .. 3),
          i \in 1 .. 2, constant \in -2 .. 3 :
          /\ i <= Len(table)
          /\ call' = [fn |-> "enum", width |-> width, table |-> table, i |-> i,
                      constant |-> constant]

PrintOptions ==
    /\ call = NoCall
    /\ \E table \in Tables(3, 0 .. 4), options \in 0 .. 7 :
          call' = [fn |-> "options", table |-> table, options |-> options]

\* Code for two universes; one has any configuration.
UniversesWith(config) ==
    [id \in UniverseId |->
        ConfigureUniverse(id, IF id = DefaultUniverse THEN config
                              ELSE mulle_objc_global_get_default_universeconfiguration)]

\* Three classes, each with a superclass of a smaller number, or none.
Supers == {f \in [1 .. 3 -> {NULL, 1, 2}] : \A c \in 1 .. 3 : f[c] = NULL \/ f[c] < c}

OneList == [c \in 1 .. 3 |-> << <<"p">> >>]

LoadClasses ==
    /\ call = NoCall
    /\ \E super \in Supers, rooted \in BOOLEAN, implements \in SUBSET (1 .. 3),
          ids \in {<<1, 2, 3, 4>>, <<1, 2, 3, 3>>} :
          call' = [fn |-> "classes",
                   h |-> [super |-> super, rooted |-> rooted, implements |-> implements,
                          propertylists |-> OneList, withoutCategories |-> {},
                          classid |-> [name \in ClassName |->
                             CASE name = "A" -> ids[1] [] name = "B" -> ids[2]
                               [] name = "C" -> ids[3] [] name = "D" -> ids[4]]]]

PropertyLists ==
    {<<first>> \o rest : first \in {<<>>, <<"p">>, <<"q", "p">>},
                         rest \in {<<>>, << <<"p">> >>, << <<"q">> >>}}

WalkProperties ==
    /\ call = NoCall
    /\ \E super \in Supers, lists \in [1 .. 3 -> PropertyLists],
          withoutCategories \in {{}, {2}}, c \in 2 .. 3, id \in {"p", "q"} :
          call' = [fn |-> "walk", c |-> c, id |-> id,
                   h |-> [super |-> super, rooted |-> TRUE, implements |-> {},
                          propertylists |-> lists, withoutCategories |-> withoutCategories,
                          classid |-> [name \in ClassName |-> 1]]]

CopyObjects ==
    /\ call = NoCall
    /\ \E n \in 0 .. 3, maxCount \in 0 .. 4 :
       \E variables \in [1 .. n -> [type : {"assign", "retain", "copy"}, value : {None, 1, 2}]] :
          call' = [fn |-> "copy", ivars |-> variables, maxCount |-> maxCount]

ConstructInstance ==
    /\ call = NoCall
    /\ \E class \in [extra : 0 .. 2, header : {1}, variables : 0 .. 2], length \in 0 .. 6,
          isZeroed \in BOOLEAN :
          call' = [fn |-> "construct", class |-> class, length |-> length, isZeroed |-> isZeroed]

Throw ==
    /\ call = NoCall
    /\ \E config \in _mulle_objc_universeconfiguration, id \in UniverseId,
          crunch \in BOOLEAN, error \in Kind :
          call' = [fn |-> "throw", universes |-> UniversesWith(config), id |-> id,
                   crunch |-> crunch, kind |-> error]

CastObject ==
    /\ call = NoCall
    /\ \E asserts \in BOOLEAN, k \in Classes,
          x \in {None} \cup [id : Objects, kinds : SUBSET Classes] :
          call' = [fn |-> "cast", asserts |-> asserts, k |-> k, x |-> x]

Function ==
    \/ Throw \/ CastObject \/ Return \/ CheckRange \/ CompareRanges \/ Access \/ Send \/ Swap \/ Tag
    \/ SearchMethod \/ PrintEnum \/ PrintOptions
    \/ LoadClasses \/ WalkProperties \/ CopyObjects \/ ConstructInstance

Next ==
    /\ UNCHANGED place
    /\ \/ place = "function" /\ Function /\ UNCHANGED <<propertyVars, containerVars, memoryVars, messageVars>>
       \/ place = "properties" /\ Accessors!Next /\ UNCHANGED <<call, containerVars, memoryVars, messageVars>>
       \/ place = "container" /\ Contents!Next /\ UNCHANGED <<call, propertyVars, memoryVars, messageVars>>
       \/ place = "memory" /\ Memory!Next /\ UNCHANGED <<call, propertyVars, containerVars, messageVars>>
       \/ /\ place = "invocation" /\ Messages!Next
          /\ UNCHANGED <<call, propertyVars, containerVars, memoryVars>>

Spec == Init /\ [][Next]_vars

Symmetry == Permutations(Value \ Mutable) \cup Permutations(Invocation)
-----------------------------------------------------------------------------
(***************************************************************************)
(* Checking a range against a length (MulleObjCException.h) throws exactly *)
(* for ranges that are not inside, a loop over an adjusted range stays     *)
(* inside, and operations on ranges (NSRange.h, NSRange.c) are operations  *)
(* on sets, up to the wrap around of NSUInteger.  Functions that fill      *)
(* memory of the caller (MulleObjCAllocation.h) stay inside of it.         *)
(***************************************************************************)
RangesHold ==
    /\ call.fn = "range" => /\ ValidateIsExact(call.r, call.length)
                            /\ AdjustedLoopIsSafe(call.r, call.length)
                            /\ HashRangeIsTail(call.length)
    /\ call.fn = "ranges" => SetOperationsAgree(call.a, call.b)

(***************************************************************************)
(* Functions that fill memory of the caller stay inside of it              *)
(* (MulleObjCRootObject.m, MulleObjCAllocation.h), and say how much more   *)
(* they would need.                                                        *)
(***************************************************************************)
BuffersFit ==
    /\ call.fn = "copy" => Owned!OwnedObjectsFit(call.ivars, call.maxCount)
    /\ call.fn = "construct" => Owned!ConstructsInside(call.class, call.length, call.isZeroed)

(***************************************************************************)
(* Callers and compiled methods agree on where a value is                  *)
(* (MulleObjCFunctions.h), on every platform.  An error that they throw    *)
(* arrives in the universe it belongs to (MulleObjCException.h).           *)
(***************************************************************************)
MessagesArrive ==
    /\ call.fn = "access" => AccessorsRoundTrip(call.p, call.type, call.value)
    /\ call.fn = "send" => CallsPassArguments(1, call.args)
    /\ call.fn = "throw" => ErrorsArrive(call.universes, call.id, call.crunch, call.kind, "what")
    /\ call.fn = "cast" => CastsAgree(call.asserts, call.k, call.x)

(***************************************************************************)
(* Numbers keep their value in other representations.  Byte order          *)
(* conversions (NSByteOrder.h) produce the bytes they should in memory, and*)
(* another host reads them back.  Tagged pointers                          *)
(* (MulleObjCTaggedPointer.h) keep what is said to fit, and lead to their  *)
(* class.                                                                  *)
(***************************************************************************)
BytesTravel ==
    call.fn = "swap" =>
       IF call.type \in IntegerTypes
       THEN WireOrder(call.h, call.g, call.type, call.value)
       ELSE FloatingWireOrder(call.h, call.g, call.value)

TagsHold ==
    call.fn = "tag" =>
       /\ call.index \in Indexes => FitsExactly(call.index, call.value)
       /\ RegisteredLeadsBack([i \in Indexes |-> NoClass], [c \in Classes |-> 0],
                              call.cls, call.index, call.value)

NumbersAreKept == BytesTravel /\ TagsHold

(***************************************************************************)
(* Overridden and clobbered implementations (MulleObjCFunctions.h) are     *)
(* each found once; collected ones are called in the right order, none is  *)
(* missing and none comes from beyond the stop class.  Classes, and their  *)
(* properties, are found along the superclasses.                           *)
(***************************************************************************)
MethodsFound ==
    /\ call.fn = "search" =>
          /\ OverriddenVisitsAll(call.order)
          /\ \A n \in 0 .. 4 : ClobberChainIsOwn(call.order, call.start, n)
          /\ CollectedOnce(call.order, call.start, call.info, call.default)
    /\ call.fn = "classes" =>
          Loaded!KindsAgree(call.h) /\ Loaded!BodiesRunOnce(call.h) /\ Loaded!NamesFindClasses(call.h)
    /\ call.fn = "walk" => Loaded!PropertiesAreWalked(call.h, [infra |-> call.c], call.id)

(***************************************************************************)
(* Names of enum and option values (mulle-objc-enum.h) are found by value  *)
(* and parse back, within the limits that the two round trips state.       *)
(***************************************************************************)
NamesParseBack ==
    /\ call.fn = "enum" => /\ EnumRoundTrip(call.width, call.table, call.i, call.constant)
                           /\ PrefixIsCommon(call.table)
    /\ call.fn = "options" => OptionsRoundTrip(call.table, call.options)

(***************************************************************************)
(* What the properties of an object (MulleDynamicObject.m), a container    *)
(* (MulleObjCContainerObjectCallback.m) and invocations (NSInvocation.m)   *)
(* keep is alive, and given back as often as it was taken.                 *)
(***************************************************************************)
ContentsAreHeld ==
    Accessors!ContentsAreHeld /\ Contents!ContentsAreHeld /\ Messages!InvocationsBalance

(***************************************************************************)
(* Memory of classes and of zones goes back to the allocator that it came  *)
(* from, instances and their memory do if they share the allocator of      *)
(* their class, and instances are there as long as there are references    *)
(* (MulleObjCAllocation.h).                                                *)
(***************************************************************************)
MemoryGoesHome == Memory!MemoryGoesHome
=============================================================================
