---------------------------- MODULE MethodSearch ----------------------------
(***************************************************************************)
(* Finding the implementations of a method that others obscure: those of   *)
(* the categories of a class, of the class, of its mixins, and of the      *)
(* superclasses, in the order in which the runtime searches them.          *)
(*                                                                         *)
(* The implementations of one selector are a sequence in search order; an  *)
(* implementation has the level of its class (1 is the class of the        *)
(* object), its kind, and its class and category id.  Optional results are *)
(* sequences of at most one element.                                       *)
(***************************************************************************)
EXTENDS Naturals, Sequences, SequencesExt

\* The runtime's search visits these, starting with the class at start.  An
\* inheritance value is the set of what it excludes: "class", "protocols" and
\* "superclass" (MULLE_OBJC_CLASS_DONT_INHERIT_...).
Visible(order, start, inheritance) ==
    LET Allowed(impl) == /\ impl.level >= start
                         /\ "superclass" \in inheritance => impl.level = start
                         /\ "protocols" \in inheritance => impl.kind /= "mixin"
                         /\ "class" \in inheritance => impl.kind /= "class"
    IN  SelectSeq(order, Allowed)

First(seq) == IF seq = <<>> THEN <<>> ELSE <<Head(seq)>>

IsImplementation(impl, classid, categoryid) ==
    impl.class = classid /\ impl.category = categoryid

\* mulle_objc_class_search_method() with the arguments of "make_overridden":
\* what comes after the given implementation.
Overridden(seq, classid, categoryid) ==
    LET After(i) == SubSeq(seq, i + 1, Len(seq))
        found == {i \in 1 .. Len(seq) : IsImplementation(seq[i], classid, categoryid)}
    IN  IF found = {} THEN <<>> ELSE First(After(CHOOSE i \in found : TRUE))

\* The searches for an object whose class is at start.
MulleObjCObjectSearchOverriddenIMP(order, start, classid, categoryid) ==
    Overridden(Visible(order, start, {}), classid, categoryid)

OwnAndInherited == {"protocols"}

Own == {"superclass", "protocols"}

MulleObjCObjectSearchClobberedIMP(order, start, classid, categoryid) ==
    Overridden(Visible(order, start, Own), classid, categoryid)

MulleObjCObjectSearchSpecificIMP(order, start, classid, categoryid) ==
    LET Matches(impl) == IsImplementation(impl, classid, categoryid)
    IN  First(SelectSeq(Visible(order, start, {}), Matches))

\* The macros that an implementation, impl, uses: it searches for others.
MulleObjCClobberedIMP(order, start, impl) ==
    MulleObjCObjectSearchClobberedIMP(order, start, impl.class, impl.category)

MulleObjCOverriddenIMP(order, start, impl) ==
    MulleObjCObjectSearchOverriddenIMP(order, start, impl.class, impl.category)

MulleObjCClassCategoryIMP(order, start, class, category) ==
    MulleObjCObjectSearchSpecificIMP(order, start, class, category)

MulleObjCClassIMP(order, start, class) ==
    MulleObjCObjectSearchSpecificIMP(order, start, class, "none")

MulleObjCClassImplementsSelector(order, start) ==
    First(Visible(order, start, Own)) /= <<>>

\* The k-th implementation that the loop of the clobber chain finds.
ClobberStep(order, start) ==
    LET step[k \in 0 .. Len(order)] ==
          IF k = 0 THEN First(Visible(order, start, Own))
          ELSE IF step[k - 1] = <<>> THEN <<>>
          ELSE Overridden(Visible(order, start, Own),
                          Head(step[k - 1]).class, Head(step[k - 1]).category)
    IN  step

\* Returns how many there are; the first n are in the array.
SearchClobberChain(order, start, n) ==
    LET step == ClobberStep(order, start)
        count == CHOOSE c \in 0 .. Len(order) :
                    /\ step[c] = <<>>
                    /\ \A k \in 0 .. c - 1 : step[k] /= <<>>
    IN  [count |-> count,
         array |-> [k \in 1 .. (IF count < n THEN count ELSE n) |-> Head(step[k - 1])]]
-----------------------------------------------------------------------------
(* Collecting implementations, to call them all. *)

\* A stop level of 0 stands for no stop class.
MulleObjCCollectionInfoMake(stop, inheritance) ==
    [stop |-> stop, inheritance |-> inheritance]

MulleObjCCollectionInfoMakeCategories(stop) ==
    MulleObjCCollectionInfoMake(stop, {"protocols", "class"})

CollectWithStop(order, start, info, default) ==
    LET inheritance == IF info.inheritance = {} THEN default ELSE info.inheritance
        BeforeStop(impl) == info.stop = 0 \/ impl.level <= info.stop
    IN  SelectSeq(Visible(order, start, inheritance), BeforeStop)

\* No inheritance value selects that of the class.
CollectImplementations(order, start, info, default) ==
    LET inheritance == IF info.inheritance = {} THEN default ELSE info.inheritance
        BeforeStop(impl) == info.stop = 0 \/ impl.level < info.stop
    IN  SelectSeq(Visible(order, start, inheritance), BeforeStop)

IMPArrayInitCategoryOnly(order, start, default) ==
    CollectImplementations(order, start,
        MulleObjCCollectionInfoMake(0, {"protocols", "class", "superclass"}), default)

\* The calls in the order they are made, by the deallocating and the
\* initializing walk.
MulleObjCIMPArrayCall(imps) == imps

MulleObjCIMPArrayCallReverse(imps) == Reverse(imps)
-----------------------------------------------------------------------------
Elements(seq) == {seq[i] : i \in 1 .. Len(seq)}

OwnOf(order, start) ==
    {impl \in Elements(order) : impl.level = start /\ impl.kind /= "mixin"}

(***************************************************************************)
(* "You can trace back through all overridden implementations": whoever    *)
(* is called by the overridden call of an implementation comes later in    *)
(* the order, and only the last one has nobody to call.  So the chain      *)
(* visits everything once, and ends.                                       *)
(***************************************************************************)
OverriddenVisitsAll(order) ==
    \A i \in 1 .. Len(order) :
       MulleObjCOverriddenIMP(order, 1, order[i])
          = IF i = Len(order) THEN <<>> ELSE <<order[i + 1]>>

(***************************************************************************)
(* The clobber chain holds the implementations of the class and of its     *)
(* categories, and of nobody else.  The count does not depend on the size  *)
(* of the array, and nothing is written behind it.  The chain is empty     *)
(* exactly if the class does not implement the selector.  Each but the     *)
(* last element finds the next one as the implementation it clobbers.      *)
(***************************************************************************)
ClobberChainIsOwn(order, start, n) ==
    LET r == SearchClobberChain(order, start, n)
        full == SearchClobberChain(order, start, Len(order)).array
    IN  /\ r.count = Len(full)
        /\ Len(r.array) <= n
        /\ r.array = SubSeq(full, 1, Len(r.array))
        /\ Elements(full) = OwnOf(order, start)
        /\ MulleObjCClassImplementsSelector(order, start) <=> r.count > 0
        /\ \A i \in 1 .. Len(full) - 1 :
              MulleObjCClobberedIMP(order, start, full[i]) = <<full[i + 1]>>

(***************************************************************************)
(* Initializing calls the obscured implementations first, deallocating     *)
(* calls them last, and both call the same ones.  Collecting categories    *)
(* only finds exactly those of the class, a stop class ends the            *)
(* collection, and what is collected can also be found by its name.        *)
(***************************************************************************)
CollectedOnce(order, start, info, default) ==
    LET imps == CollectImplementations(order, start, info, default)
        only == IMPArrayInitCategoryOnly(order, start, default)
    IN  /\ \A i \in 1 .. Len(imps) :
              MulleObjCIMPArrayCallReverse(imps)[Len(imps) + 1 - i]
                 = MulleObjCIMPArrayCall(imps)[i]
        /\ Elements(only) = {impl \in OwnOf(order, start) : impl.kind = "category"}
        /\ \A impl \in Elements(imps) :
              /\ info.stop = 0 \/ impl.level < info.stop
              /\ MulleObjCClassCategoryIMP(order, start, impl.class, impl.category)
                    = <<impl>>
              /\ impl.kind /= "category" =>
                    MulleObjCClassIMP(order, start, impl.class) = <<impl>>
        /\ info = MulleObjCCollectionInfoMakeCategories(0) =>
              Elements(imps) = {impl \in Elements(order) :
                                   impl.level >= start /\ impl.kind = "category"}
=============================================================================
