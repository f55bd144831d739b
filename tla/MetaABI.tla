------------------------------ MODULE MetaABI -------------------------------
(***************************************************************************)
(* How C code sends messages: the accessor shortcuts                       *)
(* MulleObjCObjectSet/Get..., the MulleObjCIMPCall... family and           *)
(* MulleObjCObjectPerformSelector....  A method has one parameter of the   *)
(* size of a pointer.  By the MetaABI of the compiler a lone argument or   *)
(* result that is an integer or an object, and fits, is that parameter;    *)
(* everything else is passed in a block that the parameter points to.      *)
(* Caller and callee decide on their own which way is used.                *)
(***************************************************************************)
EXTENDS Integers, Sequences, PowersOfTwo

CONSTANTS ByteBits,  \* bits in a byte
          Garbage    \* what is read if caller and callee disagree

\* What the sizes of C types depend on: 64-bit Unix, 64-bit Windows, 32 bit.
Platforms == {[pointer |-> 8, long |-> 8],
              [pointer |-> 8, long |-> 4],
              [pointer |-> 4, long |-> 4]}

NarrowTypes == {"char", "unsigned char", "short", "unsigned short", "int",
                "unsigned int", "BOOL", "NSInteger"}
WideTypes   == {"long", "unsigned long", "long long", "unsigned long long"}
FloatTypes  == {"float", "double", "long double"}
Types       == NarrowTypes \union WideTypes \union FloatTypes \union {"NSRange"}

Unsigned == {"unsigned char", "unsigned short", "unsigned int",
             "unsigned long", "unsigned long long"}

SizeOf(p, type) ==
    CASE type \in {"char", "unsigned char"}           -> 1
      [] type \in {"short", "unsigned short"}         -> 2
      [] type \in {"int", "unsigned int", "BOOL", "float"} -> 4
      [] type \in {"long", "unsigned long"}           -> p.long
      [] type = "NSInteger"                           -> p.pointer
      [] type \in {"long long", "unsigned long long", "double"} -> 8
      [] type = "long double"                         -> 16
      [] type = "NSRange"                             -> 2 * p.pointer

Bits(bytes) == bytes * ByteBits

\* The value of the lowest bytes of word, as a value of an integer type.
Cast(p, type, word) ==
    LET bits == Bits(SizeOf(p, type))
        u    == word % Pow(bits)
    IN  IF type \notin Unsigned /\ u >= Pow(bits - 1) THEN u - Pow(bits) ELSE u

IntegersOf(p, type) == {Cast(p, type, w) : w \in 0 .. Pow(Bits(SizeOf(p, type))) - 1}

\* The conversion to a pointer: sign or zero extended, as the type has it.
Word(p, value) == value % Pow(Bits(p.pointer))

(* A floating point value is a number of significant bits; a double keeps   *)
(* the lowest one only of a value that a double can hold.                   *)
Floats == 0 .. 3

AsDouble(value) == value - (value % 2)

Values(p, type) ==
    CASE type \in NarrowTypes \union WideTypes -> IntegersOf(p, type)
      [] type \in FloatTypes -> IF type = "long double" THEN Floats
                                ELSE {AsDouble(v) : v \in Floats}
      [] type = "NSRange" -> [location : 0 .. 1, length : 0 .. 1]
-----------------------------------------------------------------------------
(* Parameters. *)

Register(word) == [in |-> "register", word |-> word]

Block(fields) == [in |-> "block", fields |-> fields]

FitsPointer(p, type) == SizeOf(p, type) <= p.pointer

\* The rule of the compiler, for a method with one argument or result.
PassedInRegister(p, type) ==
    type \in NarrowTypes \union WideTypes /\ FitsPointer(p, type)

\* A compiled setter takes its argument, a compiled getter leaves its result.
CalleeTakes(p, type, param) ==
    IF PassedInRegister(p, type)
    THEN IF param.in = "register" THEN Cast(p, type, param.word) ELSE Garbage
    ELSE IF param.in = "block" THEN param.fields[1] ELSE Garbage

CalleeLeaves(p, type, value) ==
    IF PassedInRegister(p, type) THEN Register(Word(p, value)) ELSE Block(<<value>>)
-----------------------------------------------------------------------------
(* Accessor shortcuts and the calls for key value coding, by type family.  *)

SetNarrow(p, type, value) == Register(Word(p, value))

GetNarrow(p, type, result) ==
    IF result.in = "register" THEN Cast(p, type, result.word) ELSE Garbage

SetWide(p, type, value) ==
    IF FitsPointer(p, type) THEN Register(Word(p, value)) ELSE Block(<<value>>)

GetWideInBlock(p, type, result) ==
    IF SizeOf(p, type) < p.pointer
    THEN IF result.in = "register" THEN Cast(p, type, result.word) ELSE Garbage
    ELSE IF result.in = "block" THEN result.fields[1] ELSE Garbage

GetWide(p, type, result) ==
    IF FitsPointer(p, type)
    THEN IF result.in = "register" THEN Cast(p, type, result.word) ELSE Garbage
    ELSE IF result.in = "block" THEN result.fields[1] ELSE Garbage

SetInBlock(value) == Block(<<value>>)

GetFromBlock(result) == IF result.in = "block" THEN result.fields[1] ELSE Garbage

\* This one returns a double.
GetLongDouble(result) == LET v == GetFromBlock(result)
                         IN  IF v = Garbage THEN v ELSE AsDouble(v)

MulleObjCObjectSet(p, type, value) ==
    CASE type \in NarrowTypes -> SetNarrow(p, type, value)
      [] type \in WideTypes   -> SetWide(p, type, value)
      [] OTHER                -> SetInBlock(value)

MulleObjCObjectGet(p, type, result) ==
    CASE type \in NarrowTypes  -> GetNarrow(p, type, result)
      [] type \in WideTypes    -> GetWide(p, type, result)
      [] type = "long double"  -> GetLongDouble(result)
      [] OTHER                 -> GetFromBlock(result)

\* The types MulleObjCIMPCallWith... and ...Returning... exist for.
KVCTypes == FloatTypes \union WideTypes

MulleObjCIMPCallWith(p, type, value) ==
    IF type \in WideTypes /\ FitsPointer(p, type)
    THEN Register(Word(p, value)) ELSE Block(<<value>>)

MulleObjCIMPCall0Returning(p, type, result) ==
    IF type \in WideTypes /\ FitsPointer(p, type)
    THEN IF result.in = "register" THEN Cast(p, type, result.word) ELSE Garbage
    ELSE GetFromBlock(result)
-----------------------------------------------------------------------------
(* Calls with objects, or with doubles, as arguments. *)

\* The receiver stands in for an argument that is not there.
MulleObjCIMPCall(obj, args) ==
    CASE Len(args) = 0 -> Register(obj)
      [] Len(args) = 1 -> Register(args[1])
      [] OTHER         -> Block(args)

MulleObjCObjectPerformSelector(obj, args) ==
    CASE Len(args) = 0 -> Register(obj)
      [] Len(args) = 1 -> Register(args[1])
      [] OTHER         -> Block(args)

MulleObjCObjectPerformSelectorDoubleArgument(args) == Block(args)

\* A result that is a pointer, taken as a BOOL.
MulleObjCObjectPerformSelectorReturningBOOL(p, result) ==
    IF result.in = "register"
    THEN Cast(p, "BOOL", Cast(p, "NSInteger", result.word)) ELSE Garbage

\* What a method with n arguments of a kind finds them to be.
Arguments(kind, n, param) ==
    CASE n = 0 -> <<>>
      [] n = 1 /\ kind = "id" -> IF param.in = "register" THEN <<param.word>> ELSE Garbage
      [] OTHER -> IF param.in = "block" THEN SubSeq(param.fields, 1, n) ELSE Garbage
-----------------------------------------------------------------------------
(***************************************************************************)
(* A value that is set with an accessor shortcut or a KVC call is taken by *)
(* the compiled setter as it is, and comes back the same from the compiled *)
(* getter, for each type on each platform.  The exception is the shortcut  *)
(* MulleObjCObjectGetLongDouble(), which returns a double.                 *)
(***************************************************************************)
AccessorsRoundTrip(p, type, value) ==
    LET result == CalleeLeaves(p, type, value)
    IN  /\ CalleeTakes(p, type, MulleObjCObjectSet(p, type, value)) = value
        /\ MulleObjCObjectGet(p, type, result) =
              IF type = "long double" THEN AsDouble(value) ELSE value
        /\ type = "BOOL" =>
              MulleObjCObjectPerformSelectorReturningBOOL(p, result) = value
        /\ type \in KVCTypes =>
              /\ CalleeTakes(p, type, MulleObjCIMPCallWith(p, type, value)) = value
              /\ MulleObjCIMPCall0Returning(p, type, result) = value

(***************************************************************************)
(* A method finds the arguments in the order the caller gave them, whether *)
(* it is called by implementation or by selector.                          *)
(***************************************************************************)
CallsPassArguments(obj, args) ==
    LET n == Len(args)
    IN  /\ Arguments("id", n, MulleObjCIMPCall(obj, args)) = args
        /\ Arguments("id", n, MulleObjCObjectPerformSelector(obj, args)) = args
        /\ n \in 1 .. 4 =>
              Arguments("double", n, MulleObjCObjectPerformSelectorDoubleArgument(args)) = args
=============================================================================
