--------------------------- MODULE ClassHierarchy ---------------------------
(***************************************************************************)
(* Classes, their instances and their metaclasses, and what one asks of    *)
(* them: the kind and the class of an object, class ids and names, which   *)
(* class runs the body of an inherited +initialize, and the properties of  *)
(* a class.                                                                *)
(*                                                                         *)
(* The runtime, which is external, keeps for each class a pair: the class  *)
(* and its metaclass.  A hierarchy h is what is loaded: super[c] is a class*)
(* or NULL; rooted tells if a root metaclass inherits from its root class; *)
(* implements is the set of classes that implement +initialize;            *)
(* propertylists[c] is the list of the class, then those of its categories;*)
(* withoutCategories is the set of classes that do not inherit those;      *)
(* classid is the hash of a name.                                          *)
(***************************************************************************)
EXTENDS Naturals, Sequences, SequencesExt

CONSTANTS Class,
          ClassName,  \* names of classes, and others
          NameOf,     \* the name of a class
          NULL

Infra == {[infra |-> c] : c \in Class}

Meta == {[meta |-> c] : c \in Class}

Instances == {[instance |-> c] : c \in Class}

Receivers == Instances \cup Infra

ClassOf(cls) == IF cls \in Infra THEN cls.infra ELSE cls.meta

\* mulle_objc_object_get_isa(): of nil it is NULL, of a class its metaclass.
GetIsa(obj) ==
    IF obj = NULL THEN NULL
    ELSE IF obj \in Infra THEN [meta |-> obj.infra] ELSE [infra |-> obj.instance]

GetSuperclass(h, cls) ==
    LET super == h.super[ClassOf(cls)]
    IN  IF super = NULL
        THEN IF cls \in Meta /\ h.rooted THEN [infra |-> ClassOf(cls)] ELSE NULL
        ELSE IF cls \in Meta THEN [meta |-> super] ELSE [infra |-> super]

\* A class and its superclasses, in the order in which loops visit them.
Lineage(h, cls) ==
    LET line[c \in Infra \cup Meta \cup {NULL}] ==
            IF c = NULL THEN <<>> ELSE <<c>> \o line[GetSuperclass(h, c)]
    IN  line[cls]
-----------------------------------------------------------------------------
(* Is it a class, is it an instance?  nil is neither. *)

MulleObjCClassMetaClass(cls) == cls \in Meta

MulleObjCObjectIsClass(obj) == GetIsa(obj) \in Meta

MulleObjCObjectIsClassOrNil(obj) == GetIsa(obj) \notin Infra

MulleObjCObjectIsInstance(obj) == GetIsa(obj) \in Infra

MulleObjCObjectIsInstanceOrNil(obj) == GetIsa(obj) \notin Meta
-----------------------------------------------------------------------------
(* The class of an object and its superclasses. *)

MulleObjCObjectGetClass(obj) == IF obj = NULL THEN NULL ELSE GetIsa(obj)

MulleObjCInstanceGetClass(obj) == MulleObjCObjectGetClass(obj)

NSClassFromObject(obj) == MulleObjCObjectGetClass(obj)

MulleObjCClassIsSubclassOfClass(h, self, otherClass) ==
    otherClass \in ToSet(Lineage(h, self))

NSObjectIsKindOfClass(h, self, otherClass) ==
    otherClass \in ToSet(Lineage(h, GetIsa(self)))

MulleObjCInstanceIsMemberOfClass(self, otherClass) == GetIsa(self) = otherClass
-----------------------------------------------------------------------------
(* Class ids and names.  Both classes of a pair have the id of the name. *)

NoClassID == 0

MulleObjCClassGetClassID(h, cls) ==
    IF cls = NULL THEN NoClassID ELSE h.classid[NameOf[ClassOf(cls)]]

MulleObjCClassGetID(h, cls) ==
    IF cls = NULL THEN NoClassID ELSE h.classid[NameOf[ClassOf(cls)]]

MulleObjCInstanceGetClassID(h, obj) ==
    IF obj = NULL THEN NoClassID ELSE h.classid[NameOf[ClassOf(GetIsa(obj))]]

MulleObjCClassGetNameUTF8String(cls) == IF cls = NULL THEN NULL ELSE NameOf[ClassOf(cls)]

MulleObjCClassUTF8String(cls) == MulleObjCClassGetNameUTF8String(cls)

MulleObjCInstanceGetClassNameUTF8String(obj) ==
    MulleObjCClassGetNameUTF8String(MulleObjCObjectGetClass(obj))

\* The name is only hashed, and never compared.
MulleObjCLookupClassByNameUTF8String(h, name) ==
    LET hashed == {c \in Class : h.classid[NameOf[c]] = h.classid[name]}
    IN  IF hashed = {} THEN NULL ELSE [infra |-> CHOOSE c \in hashed : TRUE]

\* The runtime does not load two classes with one id.
Loadable(h) == \A c, d \in Class : h.classid[NameOf[c]] = h.classid[NameOf[d]] => c = d
-----------------------------------------------------------------------------
(* +initialize, +deinitialize and +finalize are sent to each class once;   *)
(* a class that has none inherits the one of its superclass.               *)

\* Whose method a class runs, if there is any.
Implementor(h, cls) ==
    LET Implements(c) == c.infra \in h.implements
    IN  SelectSeq(Lineage(h, cls), Implements)

\* if( MulleObjCClassGetClassID( self) == __MULLE_OBJC_CLASSID__)
MulleObjCClassInitializeOnceDo(h, self, method) ==
    MulleObjCClassGetClassID(h, self) = MulleObjCClassGetClassID(h, method)

\* The classes for which the body of a method runs.
BodyRunsFor(h, method) ==
    {self \in Infra : /\ Implementor(h, self) # <<>>
                      /\ Head(Implementor(h, self)) = method
                      /\ MulleObjCClassInitializeOnceDo(h, self, method)}
-----------------------------------------------------------------------------
(* Properties: the lists of categories, latest first, then the list of the *)
(* class, then those of the superclass.                                    *)

OwnLists(h, cls) ==
    LET lists == h.propertylists[cls.infra]
    IN  IF cls.infra \in h.withoutCategories THEN SubSeq(lists, 1, 1) ELSE Reverse(lists)

\* All properties that a walk can come by, with their class.
Walked(h, cls) ==
    LET Entries(c) == LET ids == FlattenSeq(OwnLists(h, c))
                      IN  [i \in DOMAIN ids |-> [class |-> c, id |-> ids[i]]]
        line == Lineage(h, cls)
    IN  FlattenSeq([i \in DOMAIN line |-> Entries(line[i])])

\* The callback returns non-zero for the ids in stops, and that ends it.
MulleObjCClassWalkProperties(h, cls, stops) ==
    LET all   == IF cls = NULL THEN <<>> ELSE Walked(h, cls)
        found == {i \in DOMAIN all : all[i].id \in stops}
        first == CHOOSE i \in found : \A j \in found : i <= j
    IN  IF found = {} THEN [visited |-> all, rval |-> 0]
        ELSE [visited |-> SubSeq(all, 1, first), rval |-> all[first].id]

MulleObjCInstanceWalkProperties(h, obj, stops) ==
    MulleObjCClassWalkProperties(h, MulleObjCObjectGetClass(obj), stops)

\* The runtime's search; the result is optional.
MulleObjCClassSearchProperty(h, cls, id) ==
    LET line == IF cls = NULL THEN <<>> ELSE Lineage(h, cls)
        Has(c) == id \in ToSet(FlattenSeq(OwnLists(h, c)))
        found == SelectSeq(line, Has)
    IN  IF found = <<>> THEN <<>> ELSE <<[class |-> Head(found), id |-> id]>>

MulleObjCInstanceSearchProperty(h, obj, id) ==
    MulleObjCClassSearchProperty(h, MulleObjCObjectGetClass(obj), id)
-----------------------------------------------------------------------------
(* The reference: c inherits from d if d is in every set that has c and is *)
(* closed under superclasses.                                              *)
Inherits(h, c, d) ==
    \A S \in SUBSET Class :
       c \in S /\ (\A x \in S : h.super[x] # NULL => h.super[x] \in S) => d \in S

Root(h, c) == CHOOSE d \in Class : Inherits(h, c, d) /\ h.super[d] = NULL

(***************************************************************************)
(* The questions about objects agree with each other and with inheritance: *)
(* an object is a class, an instance, or nil; an instance is a kind of     *)
(* exactly those classes that its class inherits from; a class is a kind   *)
(* of its root class if the runtime says so, and else of no class.         *)
(***************************************************************************)
KindsAgree(h) ==
    /\ \A obj \in Receivers \cup {NULL} :
          LET class == MulleObjCObjectIsClass(obj)
              inst  == MulleObjCObjectIsInstance(obj)
          IN  /\ ~(class /\ inst)
              /\ obj = NULL <=> ~class /\ ~inst
              /\ MulleObjCObjectIsClassOrNil(obj) <=> class \/ obj = NULL
              /\ MulleObjCObjectIsInstanceOrNil(obj) <=> inst \/ obj = NULL
              /\ obj # NULL => (class <=> MulleObjCClassMetaClass(NSClassFromObject(obj)))
              /\ MulleObjCInstanceGetClassID(h, obj)
                    = MulleObjCClassGetClassID(h, MulleObjCInstanceGetClass(obj))
    /\ \A obj \in Instances, cls \in Infra :
          /\ NSObjectIsKindOfClass(h, obj, cls) <=> Inherits(h, obj.instance, cls.infra)
          /\ NSObjectIsKindOfClass(h, obj, cls)
                <=> MulleObjCClassIsSubclassOfClass(h, MulleObjCObjectGetClass(obj), cls)
          /\ MulleObjCInstanceIsMemberOfClass(obj, cls)
                => /\ NSObjectIsKindOfClass(h, obj, cls)
                   /\ MulleObjCInstanceGetClassNameUTF8String(obj) = MulleObjCClassUTF8String(cls)
    /\ \A self, cls \in Infra :
          NSObjectIsKindOfClass(h, self, cls) <=> h.rooted /\ cls.infra = Root(h, self.infra)

(***************************************************************************)
(* The body of +initialize that every class inherits runs once: for the    *)
(* class that implements it.                                               *)
(***************************************************************************)
BodiesRunOnce(h) ==
    Loadable(h) => \A c \in h.implements : BodyRunsFor(h, [infra |-> c]) = {[infra |-> c]}

(***************************************************************************)
(* A class is found by its name; a name that finds a class of another name *)
(* has the same hash.                                                      *)
(***************************************************************************)
NamesFindClasses(h) ==
    Loadable(h) =>
       /\ \A cls \in Infra :
             /\ MulleObjCLookupClassByNameUTF8String(h, MulleObjCClassUTF8String(cls)) = cls
             /\ MulleObjCClassGetID(h, cls) = h.classid[MulleObjCClassUTF8String(cls)]
       /\ \A name \in ClassName :
             LET cls == MulleObjCLookupClassByNameUTF8String(h, name)
             IN  cls # NULL => MulleObjCClassGetID(h, cls) = h.classid[name]

(***************************************************************************)
(* A walk visits every property of a class and of its superclasses, unless *)
(* the callback ends it, which its result tells.  What a search finds is   *)
(* what a walk comes by first, and it belongs to the nearest class.        *)
(***************************************************************************)
PropertiesAreWalked(h, cls, id) ==
    LET all    == MulleObjCClassWalkProperties(h, cls, {})
        walk   == MulleObjCClassWalkProperties(h, cls, {id})
        search == MulleObjCClassSearchProperty(h, cls, id)
        Visible(c, i) == c \in h.withoutCategories => i = 1
    IN  /\ all.rval = 0
        /\ ToSet(all.visited) =
              UNION {UNION {{[class |-> [infra |-> c], id |-> p] : p \in ToSet(h.propertylists[c][i])} :
                            i \in {i \in DOMAIN h.propertylists[c] : Visible(c, i)}} :
                     c \in {c \in Class : Inherits(h, cls.infra, c)}}
        /\ IF search = <<>> THEN walk = all
           ELSE walk.rval = id /\ Last(walk.visited) = search[1]
        /\ MulleObjCInstanceWalkProperties(h, [instance |-> cls.infra], {id}) = walk
        /\ MulleObjCInstanceSearchProperty(h, [instance |-> cls.infra], id) = search
        /\ MulleObjCInstanceWalkProperties(h, NULL, {id}).visited = <<>>
=============================================================================
