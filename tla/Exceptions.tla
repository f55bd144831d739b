----------------------------- MODULE Exceptions ------------------------------
(***************************************************************************)
(* Errors that MulleObjC reports: the functions that throw for the         *)
(* universe that code was compiled for, those that the library calls for   *)
(* the universe of an object, and the casts that assert.  None of them     *)
(* comes back; each is a function to how the program goes on: an exception *)
(* that the table of a universe raises, or an abort, and with what message.*)
(***************************************************************************)
EXTENDS Naturals, FiniteSets

CONSTANTS
  UniverseId,
  DefaultUniverse,  \* MULLE_OBJC_DEFAULTUNIVERSEID
  None              \* nil, NULL and no message

ASSUME UniverseAssumption == DefaultUniverse \in UniverseId

-----------------------------------------------------------------------------
(* Universes and their configuration.                                      *)

Kind == {"errno_error", "internal_inconsistency", "invalid_argument",
         "invalid_index", "invalid_range"}
Formatted == {"errno_error", "internal_inconsistency", "invalid_argument"}

AbortingTable == [k \in Kind |-> "abort"]

\* What a foundation brings: its table, its handler, its string class.
_mulle_objc_universeconfiguration ==
  [exceptiontable : {AbortingTable} \cup {[k \in Kind |-> "raise"]} \cup
                    {[AbortingTable EXCEPT ![k] = "raise"] : k \in Kind},
   uncaughtexception : {None, "handler"},
   wrongthread : {None, "handler"},
   strings : BOOLEAN]

mulle_objc_global_get_default_universeconfiguration ==
  [exceptiontable |-> AbortingTable, uncaughtexception |-> None,
   wrongthread |-> None, strings |-> FALSE]

\* Without a foundation of its own, a universe makes no strings of characters.
ConfigureUniverse(id, config) ==
  [id |-> id, vectors |-> config.exceptiontable, objectfromchars |-> config.strings,
   uncaughtexception |-> config.uncaughtexception,
   wrongthread |-> IF config.wrongthread = None THEN "fails" ELSE config.wrongthread,
   initialized |-> TRUE]

\* The universe that code was compiled for, and that of an object.
MulleObjCGetUniverse(universes, code) == universes[code.universeid]

MulleObjCObjectGetUniverse(universes, code, x) ==
  IF x = None THEN MulleObjCGetUniverse(universes, code) ELSE universes[x.universe]

\* While it is set up or goes down, a universe has no usable table.
InCrunch(universe) == [universe EXCEPT !.initialized = FALSE]

HasHandlerTable(universe) == universe.initialized

_mulle_objc_universe_string(universe, s) ==
  IF s = None \/ ~universe.objectfromchars THEN None ELSE s

-----------------------------------------------------------------------------
(* The ends.                                                               *)

PrintAndAbort(universe, kind, message) ==
  [how |-> "abort", universe |-> universe.id, kind |-> kind, message |-> message]

Raised(universe, kind, message) ==
  [how |-> "raise", universe |-> universe.id, kind |-> kind, message |-> message]

\* [format UTF8String] of no string gives no message.
MulleObjCStringVPrintfAbort(universe, kind, string) == PrintAndAbort(universe, kind, string)

Call(universe, kind, argument) ==
  IF universe.vectors[kind] = "abort"
  THEN MulleObjCStringVPrintfAbort(universe, kind, argument)
  ELSE Raised(universe, kind, argument)

-----------------------------------------------------------------------------
(* The library's own errors, in the universe of the object they are about. *)

raisev(universe, kind, format) ==
  LET s == IF HasHandlerTable(universe) THEN _mulle_objc_universe_string(universe, format) ELSE None
  IN  IF s # None THEN Call(universe, kind, s)
      ELSE PrintAndAbort(universe, kind, format)

\* The string is not looked at, here.
raisev_errno(universe, format) ==
  IF HasHandlerTable(universe)
  THEN Call(universe, "errno_error", _mulle_objc_universe_string(universe, format))
  ELSE PrintAndAbort(universe, "errno_error", format)

raise_invalidindex(universe, index) ==
  IF HasHandlerTable(universe) THEN Call(universe, "invalid_index", index)
  ELSE PrintAndAbort(universe, "invalid_index", index)

\* The variadic functions only collect the arguments of the format.
Raise(universe, kind, argument) ==
  IF kind = "errno_error" THEN raisev_errno(universe, argument)
  ELSE IF kind = "invalid_index" THEN raise_invalidindex(universe, argument)
  ELSE raisev(universe, kind, argument)

-----------------------------------------------------------------------------
(* Errors that compiled code throws, in the universe it was compiled for.  *)

_MulleObjCThrow(universes, universeid, kind, argument) ==
  Call(universes[universeid], kind, argument)

_MulleObjCThrowUTF8String(universes, universeid, kind, format) ==
  LET universe == universes[universeid]
  IN  IF universe.vectors[kind] = "abort" THEN PrintAndAbort(universe, kind, format)
      ELSE Call(universe, kind, IF universe.objectfromchars THEN format ELSE None)

\* The macros pass __MULLE_OBJC_UNIVERSEID__.
MulleObjCThrow(universes, code, kind, argument) ==
  _MulleObjCThrow(universes, code.universeid, kind, argument)

MulleObjCThrowUTF8String(universes, code, kind, format) ==
  _MulleObjCThrowUTF8String(universes, code.universeid, kind, format)

\* -raise, which does nothing if it is sent to nil.
Uncaught(universes, exception) == universes[exception.universe].uncaughtexception

NSSetUncaughtExceptionHandler(universes, handler) ==
  [universes EXCEPT ![DefaultUniverse].uncaughtexception = handler]

NSGetUncaughtExceptionHandler(universes) == universes[DefaultUniverse].uncaughtexception

\* The runtime finds an object in the wrong thread.
WrongThread(universes, x) == universes[x.universe].wrongthread

MulleObjCSetTAOFailureHandler(universes, handler) ==
  [universes EXCEPT ![DefaultUniverse].wrongthread = handler]

MulleObjCGetTAOFailureHandler(universes) == universes[DefaultUniverse].wrongthread

-----------------------------------------------------------------------------
(* Casts.  kinds: the classes, or protocols, of an object; nil has none.   *)

IsKind(x, k) == x # None /\ k \in x.kinds

Continues(x) == [how |-> "continues", value |-> x]
Fails        == [how |-> "abort", value |-> None]

CLASS_CAST(asserts, k, x) ==
  IF asserts /\ x # None /\ ~IsKind(x, k) THEN Fails ELSE Continues(x)

CLASS_CAST_OR_NIL(k, x) == Continues(IF IsKind(x, k) THEN x ELSE None)

CLASS_CAST_NON_NIL(asserts, k, x) ==
  IF asserts /\ ~IsKind(x, k) THEN Fails ELSE Continues(x)

PROTOCOL_CAST(asserts, p, x) == CLASS_CAST(asserts, p, x)
PROTOCOL_CAST_OR_NIL(p, x) == CLASS_CAST_OR_NIL(p, x)
PROTOCOL_CAST_NON_NIL(asserts, p, x) == CLASS_CAST_NON_NIL(asserts, p, x)

-----------------------------------------------------------------------------
(* An error ends up in the table of the universe it belongs to, and keeps  *)
(* what it says: not if a foundation raises exceptions and makes no        *)
(* strings, and not for errno in a universe without a foundation, where    *)
(* the table gets no string although it is there to print one.  Handlers   *)
(* that a program sets are for objects of the default universe, and none   *)
(* is lost when the other one is set.                                      *)
ErrorsArrive(universes, id, crunch, kind, argument) ==
  LET universe == IF crunch THEN InCrunch(universes[id]) ELSE universes[id]
      code     == [universeid |-> id]
      object   == [universe |-> id]
      raised   == Raise(universe, kind, argument)
      thrown   == MulleObjCThrow(universes, code, kind, argument)
      chars    == MulleObjCThrowUTF8String(universes, code, kind, argument)
  IN  /\ kind # "invalid_range" =>
           /\ raised.universe = id /\ raised.kind = kind
           /\ raised.how = "raise" => ~crunch /\ universe.vectors[kind] = "raise"
           /\ raised.message # argument =>
                kind = "errno_error" /\ ~crunch /\ ~universe.objectfromchars
      /\ thrown.universe = id /\ thrown.message = argument
      /\ thrown.how = universes[id].vectors[kind]
      /\ kind \in Formatted =>
           /\ chars.universe = id /\ chars.how = thrown.how
           /\ chars.message # argument => chars.how = "raise" /\ ~universe.objectfromchars
      /\ \A x \in {None, object} : MulleObjCObjectGetUniverse(universes, code, x).id = id
      /\ LET set == MulleObjCSetTAOFailureHandler(
                      NSSetUncaughtExceptionHandler(universes, "mine"), "my own")
             default == id = DefaultUniverse
         IN  /\ NSGetUncaughtExceptionHandler(set) = "mine"
             /\ MulleObjCGetTAOFailureHandler(set) = "my own"
             /\ Uncaught(set, object) = IF default THEN "mine" ELSE Uncaught(universes, object)
             /\ WrongThread(set, object) = IF default THEN "my own" ELSE WrongThread(universes, object)

(* A cast that comes back gives an object of the kind, or nil where it may *)
(* be nil; without assertions only the casts to "or nil" do.  The two      *)
(* kinds of assertion agree on everything that is not nil.                 *)
CastsAgree(asserts, k, x) ==
  LET cast == CLASS_CAST(asserts, k, x)
      orNil == CLASS_CAST_OR_NIL(k, x)
      nonNil == CLASS_CAST_NON_NIL(asserts, k, x)
  IN  /\ orNil.value # None => IsKind(x, k) /\ orNil = cast /\ orNil = nonNil
      /\ asserts => /\ cast.how = "continues" => cast.value = None \/ IsKind(cast.value, k)
                    /\ nonNil.how = "continues" => IsKind(nonNil.value, k)
                    /\ x # None => (cast = nonNil)
      /\ orNil.value = None /\ cast.how = "continues" /\ cast.value # None => ~asserts
      /\ <<PROTOCOL_CAST(asserts, k, x), PROTOCOL_CAST_OR_NIL(k, x),
           PROTOCOL_CAST_NON_NIL(asserts, k, x)>> = <<cast, orNil, nonNil>>
=============================================================================
