----------------------------- MODULE EnumTables -----------------------------
(***************************************************************************)
(* Names of enum and option values: printing by a table, and parsing what  *)
(* was printed.  A table is a sequence of lines with a name and a value of *)
(* the width of the enum type; a text is a sequence of characters.  Table  *)
(* values are read unsigned; what is printed arrives as an unsigned long   *)
(* long.                                                                   *)
(***************************************************************************)
EXTENDS Integers, Sequences, SequencesExt

CONSTANT LongLongBits   \* bits of unsigned long long

NS_ENUM_ITEM(width, name, constant) == [s |-> name, value |-> constant % (2 ^ width)]

\* The bits of an unsigned long long as a set; | and & are \union and \cap.
BitsOf(value) ==
    {b \in 0 .. LongLongBits - 1 : ((value % (2 ^ LongLongBits)) \div (2 ^ b)) % 2 = 1}

Zero == <<"0">>

\* One character stands for the hexadecimal digits.
Hex == <<"0", "x", "?">>

\* A number at the start of a text; atoll() stops at the "x".
StartsWithDigit(s) == s /= <<>> /\ s[1] = "0"

Failed == [ok |-> FALSE, bits |-> {}]
-----------------------------------------------------------------------------
\* The name of the first line with the value, or nothing.
TableSearch(table, bits) ==
    LET i == SelectInSeq(table, LAMBDA line : BitsOf(line.value) = bits)
    IN  IF i = 0 THEN <<>> ELSE table[i].s

EnumZeroFirst(table, bits) ==
    LET s == TableSearch(table, bits)
    IN  IF bits = {} THEN Zero ELSE IF s /= <<>> THEN s ELSE Hex

EnumUTF8String(table, bits) ==
    LET s == TableSearch(table, bits)
    IN  IF s /= <<>> THEN s ELSE IF bits = {} THEN Zero ELSE Hex

OptionsAnyBit(table, bits) ==
    LET Joined(text, s) == IF text = <<>> THEN s ELSE text \o <<"|">> \o s
        AddLine(out, line) ==
          IF BitsOf(line.value) = {} THEN [out EXCEPT !.empty = line.s]
          ELSE IF BitsOf(line.value) \cap out.bits /= {}
          THEN [out EXCEPT !.text = Joined(@, line.s), !.bits = @ \ BitsOf(line.value)]
          ELSE out
        out == FoldLeft(AddLine, [text |-> <<>>, bits |-> bits, empty |-> Zero], table)
        text == IF out.bits = {} THEN out.text ELSE Joined(out.text, Hex)
    IN  IF text = <<>> THEN out.empty ELSE text

\* Names whose bits are all set, and the bits nobody has a name for.
OptionsUTF8String(table, bits) ==
    LET Joined(text, s) == IF text = <<>> THEN s ELSE text \o <<"|">> \o s
        AddLine(out, line) ==
          IF BitsOf(line.value) = {} THEN [out EXCEPT !.empty = line.s]
          ELSE IF BitsOf(line.value) \subseteq out.bits
          THEN [out EXCEPT !.text = Joined(@, line.s), !.bits = @ \ BitsOf(line.value)]
          ELSE out
        out == FoldLeft(AddLine, [text |-> <<>>, bits |-> bits, empty |-> Zero], table)
        text == IF out.bits = {} THEN out.text ELSE Joined(out.text, Hex)
    IN  IF text = <<>> THEN out.empty ELSE text

\* The first line whose name the text starts with, from position p on.
Matching(table, s, p) ==
    SelectInSeq(table, LAMBDA line : IsPrefix(line.s, SubSeq(s, p, Len(s))))

EnumParseStrict(table, s) ==
    LET i == Matching(table, s, 1)
    IN  IF i = 0 THEN Failed ELSE [ok |-> TRUE, bits |-> BitsOf(table[i].value)]

OptionsParseStrict(table, s) ==
    LET parse[p \in 1 .. Len(s) + 1] ==
          LET i    == Matching(table, s, p)
              q    == p + Len(table[i].s)
              next == IF q < Len(s) /\ s[q] = "|" THEN q + 1 ELSE q
          IN  IF p > Len(s) THEN [ok |-> TRUE, bits |-> {}]
              ELSE IF i = 0 THEN Failed
              ELSE [parse[next] EXCEPT !.bits = @ \union BitsOf(table[i].value)]
    IN  parse[1]

\* The lenient parsers know decimal numbers, and 0 if all else fails.
Lenient(s, strict) ==
    IF StartsWithDigit(s) \/ ~strict.ok THEN {} ELSE strict.bits

PrefixLength(table) ==
    LET first   == table[1].s
        Differs(j) == \E i \in 2 .. Len(table) : Len(table[i].s) < j \/ table[i].s[j] /= first[j]
        differ  == {j \in 1 .. Len(first) : Differs(j)}
    IN  IF table = <<>> THEN 0
        ELSE IF differ = {} THEN Len(first)
        ELSE (CHOOSE j \in differ : \A k \in differ : j <= k) - 1
-----------------------------------------------------------------------------
(* The macros: an enum constant is converted to unsigned long long.        *)

NS_ENUM_PRINT(table, item) == EnumUTF8String(table, BitsOf(item))

NS_ENUM_LOOKUP(table, item) == TableSearch(table, BitsOf(item))

NS_ENUM_PARSE(table, s) == Lenient(s, EnumParseStrict(table, s))

NS_ENUM_PARSE_STRICT(table, s) == EnumParseStrict(table, s)

NS_OPTIONS_PRINT(table, options) == OptionsUTF8String(table, BitsOf(options))

NS_OPTIONS_PARSE(table, s) == Lenient(s, OptionsParseStrict(table, s))

NS_OPTIONS_PARSE_STRICT(table, s) == OptionsParseStrict(table, s)
-----------------------------------------------------------------------------
\* No name is the beginning of a later one, which it would be taken for.
Distinguishable(table) ==
    \A i, j \in 1 .. Len(table) : i < j => ~IsPrefix(table[i].s, table[j].s)

\* The bits of options that names stand for; lines of several bits come off
\* as a whole, in table order.
Named(table, options) ==
    LET Take(bits, line) ==
          IF BitsOf(line.value) \subseteq bits THEN bits \ BitsOf(line.value) ELSE bits
    IN  BitsOf(options) \ FoldLeft(Take, BitsOf(options), table)

(***************************************************************************)
(* An enum constant of the table prints as a name of its value, and the    *)
(* name parses back to the value, unless the constant is negative and its  *)
(* type narrower than long long: its sign is extended on the way to the    *)
(* search, and not in the table, and it prints as a number.                *)
(***************************************************************************)
EnumRoundTrip(width, table, i, constant) ==
    LET s       == NS_ENUM_PRINT(table, constant)
        inRange == constant >= 0 \/ width = LongLongBits
    IN  table[i] = NS_ENUM_ITEM(width, table[i].s, constant) /\ Distinguishable(table) =>
          IF inRange
          THEN /\ NS_ENUM_LOOKUP(table, constant) = s
               /\ NS_ENUM_PARSE_STRICT(table, s) = [ok |-> TRUE, bits |-> BitsOf(constant)]
               /\ NS_ENUM_PARSE(table, s) = BitsOf(constant)
          ELSE s = Hex /\ NS_ENUM_LOOKUP(table, constant) = <<>>

(***************************************************************************)
(* Options that all have names parse back from what they print as.  A      *)
(* single bit without a name costs them all: the number that stands for it *)
(* is not understood, and 0 comes back.                                    *)
(***************************************************************************)
OptionsRoundTrip(table, options) ==
    LET s == NS_OPTIONS_PRINT(table, options)
    IN  Distinguishable(table) =>
          IF Named(table, options) = BitsOf(options)
          THEN /\ NS_OPTIONS_PARSE(table, s) = BitsOf(options)
               /\ s /= Zero => NS_OPTIONS_PARSE_STRICT(table, s).ok
          ELSE /\ NS_OPTIONS_PARSE(table, s) = {}
               /\ ~NS_OPTIONS_PARSE_STRICT(table, s).ok

(***************************************************************************)
(* The prefix length is that of the longest common prefix of the names.    *)
(***************************************************************************)
PrefixIsCommon(table) ==
    PrefixLength(table) = Len(LongestCommonPrefix({table[i].s : i \in 1 .. Len(table)}))
=============================================================================
