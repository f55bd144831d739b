----------------------------- MODULE ByteOrder ------------------------------
(***************************************************************************)
(* NSByteOrder.h: integers and floating point numbers between the order of *)
(* the host and a fixed one.  A number is the sequence of its bytes, the   *)
(* most significant first; a host keeps it in memory in this order or in   *)
(* the reverse one.  The mulle_swap functions are library code.            *)
(***************************************************************************)
EXTENDS Naturals, Sequences, SequencesExt

Hosts == [bigEndian : BOOLEAN, lp64 : BOOLEAN]

IntegerTypes == {"short", "int", "long", "long long"}

FloatingTypes == {"float", "double", "long double"}

\* A long double has 16 bytes, of which 10 or all are significant.
Width(h, type) ==
    CASE type = "short"                     -> 2
      [] type \in {"int", "float"}          -> 4
      [] type \in {"long long", "double"}   -> 8
      [] type = "long"                      -> IF h.lp64 THEN 8 ELSE 4
      [] type = "long double"               -> 16

\* A swap of a width takes that many low bytes.
SwapBytes(width, value) ==
    Reverse(SubSeq(value, Len(value) + 1 - width, Len(value)))

NSHostByteOrder(h) == IF h.bigEndian THEN "NS_BigEndian" ELSE "NS_LittleEndian"

SwapWidthOfInt(h, type) ==
    CASE type = "short" -> 2 [] type \in {"int", "long"} -> 4 [] type = "long long" -> 8

\* The width of the swap that each function calls.
SwapWidth(h, type) ==
    CASE type = "short"     -> 2
      [] type = "int"       -> 4
      [] type = "long long" -> 8
      [] type = "long"      -> IF h.lp64 THEN 8 ELSE 4

NSSwap(h, type, value) == SwapBytes(SwapWidth(h, type), value)

NSSwapBigToHost(h, type, value) ==
    IF NSHostByteOrder(h) = "NS_BigEndian" THEN value ELSE NSSwap(h, type, value)

NSSwapHostToBig(h, type, value) ==
    IF NSHostByteOrder(h) = "NS_BigEndian" THEN value ELSE NSSwap(h, type, value)

NSSwapLittleToHost(h, type, value) ==
    IF NSHostByteOrder(h) = "NS_BigEndian" THEN NSSwap(h, type, value) ELSE value

NSSwapHostToLittle(h, type, value) ==
    IF NSHostByteOrder(h) = "NS_BigEndian" THEN NSSwap(h, type, value) ELSE value

\* A floating point number that is not in host order has a type of its own,
\* an integer, so that it does not get into a floating point register.
NSConvertHostToSwapped(value) == [swapped |-> Reverse(value)]

NSConvertSwappedToHost(s) == Reverse(s.swapped)

NSSwapFloating(s) == [swapped |-> Reverse(s.swapped)]

NSSwapBigFloatingToHost(h, s) ==
    IF h.bigEndian THEN s.swapped ELSE NSConvertSwappedToHost(s)

NSSwapHostFloatingToBig(h, value) ==
    IF h.bigEndian THEN [swapped |-> value] ELSE NSConvertHostToSwapped(value)

NSSwapLittleFloatingToHost(h, s) ==
    IF h.bigEndian THEN NSConvertSwappedToHost(s) ELSE s.swapped

NSSwapHostFloatingToLittle(h, value) ==
    IF h.bigEndian THEN NSConvertHostToSwapped(value) ELSE [swapped |-> value]
-----------------------------------------------------------------------------
\* The bytes of a number by address.
InMemory(h, value) == IF h.bigEndian THEN value ELSE Reverse(value)

(***************************************************************************)
(* What a host converts to big or little endian and stores has its bytes   *)
(* in that order in memory, whatever the host and the size of its types;   *)
(* another host that loads these bytes and converts back has the number,   *)
(* if the type has the same size there.  Swapping twice is nothing.        *)
(***************************************************************************)
WireOrder(h, g, type, value) ==
    LET big    == InMemory(h, NSSwapHostToBig(h, type, value))
        little == InMemory(h, NSSwapHostToLittle(h, type, value))
    IN  /\ big = value
        /\ little = Reverse(value)
        /\ NSSwap(h, type, NSSwap(h, type, value)) = value
        /\ Width(g, type) = Width(h, type) =>
              /\ NSSwapBigToHost(g, type, InMemory(g, big)) = value
              /\ NSSwapLittleToHost(g, type, InMemory(g, little)) = value

(***************************************************************************)
(* The same for floating point numbers, by way of the swapped types.       *)
(***************************************************************************)
FloatingWireOrder(h, g, value) ==
    LET big    == InMemory(h, NSSwapHostFloatingToBig(h, value).swapped)
        little == InMemory(h, NSSwapHostFloatingToLittle(h, value).swapped)
        Loaded(bytes) == [swapped |-> InMemory(g, bytes)]
    IN  /\ big = value
        /\ little = Reverse(value)
        /\ NSSwapBigFloatingToHost(g, Loaded(big)) = value
        /\ NSSwapLittleFloatingToHost(g, Loaded(little)) = value
        /\ NSConvertSwappedToHost(NSConvertHostToSwapped(value)) = value
        /\ NSConvertSwappedToHost(NSSwapFloating(NSConvertHostToSwapped(value)))
              = Reverse(value)
=============================================================================
