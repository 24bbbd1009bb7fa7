---------------------------- MODULE HtoolNumbers ----------------------------
(***************************************************************************)
(* How htool_cmd.c reads a number or a time from a word: parse_u32(),      *)
(* htool_get_param_u32_or_fourcc(), parse_u64() and parse_time_string_us() *)
(* on top of the C library's strtoul(), strtoull() and strtoll().  A text  *)
(* is a sequence of characters; widths and units are scaled down together. *)
(***************************************************************************)
EXTENDS Integers, SequencesExt

CONSTANTS
    Texts,          \* the words
    U32, U64,       \* 2^32 and 2^64: unsigned long has 64 bits
    Second, Milli   \* microseconds in a second and in a millisecond

\* The widths and the units are in their order.
WidthsAssumption ==
    /\ \A t \in Texts : t \in Seq(STRING)
    /\ {U32, U64, Second, Milli} \subseteq Nat \ {0}
    /\ U32 < U64 /\ Milli < Second /\ Second < U64 \div 2

VARIABLES
    text,       \* the word parsed
    parser,     \* the function that parsed it, "none" before
    ok,         \* it was accepted
    value       \* as this number

vars == <<text, parser, ok, value>>

-----------------------------------------------------------------------------
(* The C library                                                           *)

Decimal == <<"0", "1", "2", "3", "4", "5", "6", "7", "8", "9">>
Hex == <<"0", "1", "2", "3", "4", "5", "6", "7", "8", "9",
         "a", "b", "c", "d", "e", "f">>
Digits(base) == IF base = 16 THEN Hex ELSE Decimal

\* The length of the longest beginning of s made of characters of C.
Run(s, C) == Max({n \in 0..Len(s) : \A i \in 1..n : s[i] \in C})

Drop(s, n) == SubSeq(s, n + 1, Len(s))
HexPrefix(s) == Len(s) >= 2 /\ s[1] = "0" /\ s[2] = "x"

DigitValue(d, base) ==
    (CHOOSE i \in DOMAIN Digits(base) : Digits(base)[i] = d) - 1

\* The numbers that the first digits, and then one more of them, stand for.
Numbers(digits, base) ==
    LET numbers[i \in 0..Len(digits)] ==
            IF i = 0 THEN 0 ELSE base * numbers[i - 1] + DigitValue(digits[i], base)
    IN  numbers

Number(digits, base) == Numbers(digits, base)[Len(digits)]

\* Blanks, a sign, "0x" for base 16 if a digit follows, digits: the sign, the
\* magnitude and what is left; all of s is left when there is no digit.
Scan(s, base) ==
    LET blanks == Drop(s, Run(s, {" "}))
        sign == IF blanks # <<>> /\ blanks[1] \in {"-", "+"} THEN 1 ELSE 0
        signed == Drop(blanks, sign)
        prefix == IF /\ base = 16 /\ HexPrefix(signed)
                     /\ Run(Drop(signed, 2), ToSet(Hex)) > 0
                  THEN 2 ELSE 0
        body == Drop(signed, prefix)
        n == Run(body, ToSet(Digits(base)))
    IN  [any |-> n > 0,
         negative |-> sign = 1 /\ blanks[1] = "-",
         magnitude |-> Number(SubSeq(body, 1, n), base),
         rest |-> IF n > 0 THEN Drop(body, n) ELSE s]

\* strtoul() and strtoull(): a sign negates modulo 2^64, too much gives the
\* largest number and ERANGE.
strtoull(scan) ==
    CASE scan.magnitude >= U64 -> U64 - 1
      [] scan.negative /\ scan.magnitude < U64 -> (U64 - scan.magnitude) % U64
      [] OTHER -> scan.magnitude

Int64Max == U64 \div 2 - 1

strtoll(scan) ==
    IF scan.negative
    THEN -Min({scan.magnitude, Int64Max + 1})
    ELSE Min({scan.magnitude, Int64Max})

-----------------------------------------------------------------------------
(* htool_cmd.c                                                             *)

Accept(v) == [ok |-> TRUE, value |-> v]
Reject == [ok |-> FALSE, value |-> 0]

parse_u32(s) ==
    LET hex == HexPrefix(s) /\ Len(s) > 2
        scan == IF hex THEN Scan(Drop(s, 2), 16) ELSE Scan(s, 10)
    IN  IF s # <<>> /\ scan.rest = <<>> THEN Accept(strtoull(scan) % U32) ELSE Reject

\* htool_get_param_u32_or_fourcc(): four characters that are no number are a
\* name; which number it stands for is left out.
u32_or_fourcc(s) ==
    IF parse_u32(s).ok \/ Len(s) # 4 THEN parse_u32(s) ELSE Accept(0)

parse_u64(s) ==
    LET hex == HexPrefix(s)
        scan == IF hex THEN Scan(Drop(s, 2), 16) ELSE Scan(s, 10)
    IN  IF s # <<>> /\ s[1] # "-" /\ scan.any /\ scan.rest = <<>>
           /\ scan.magnitude < U64
        THEN Accept(strtoull(scan)) ELSE Reject

\* The unit, in microseconds, 0 if it is none.
Multiplier(unit) ==
    CASE unit \in {<<>>, <<"s">>} -> Second
      [] unit = <<"m", "s">> -> Milli
      [] unit = <<"u", "s">> -> 1
      [] OTHER -> 0

\* Mutant: the product is not checked.
parse_time_string_usUnchecked(s) ==
    LET scan == Scan(s, 10)
        v == strtoll(scan)
        unit == Multiplier(Drop(scan.rest, Run(scan.rest, {" "})))
    IN  IF s # <<>> /\ scan.any /\ v >= 0 /\ unit > 0
        THEN Accept((v * unit) % U64) ELSE Reject

\* INT64_MAX / multiplier is checked before the multiplication.
parse_time_string_us(s) ==
    LET scan == Scan(s, 10)
        v == strtoll(scan)
        unit == Multiplier(Drop(scan.rest, Run(scan.rest, {" "})))
    IN  IF s # <<>> /\ scan.any /\ v >= 0 /\ unit > 0 /\ v <= Int64Max \div unit
        THEN Accept(v * unit) ELSE Reject

-----------------------------------------------------------------------------

Init == text = <<>> /\ parser = "none" /\ ok = FALSE /\ value = 0

Parse(name, Function(_)) ==
    /\ parser = "none"
    /\ \E t \in Texts :
         /\ text' = t
         /\ ok' = Function(t).ok
         /\ value' = Function(t).value
    /\ parser' = name

Next ==
    \/ Parse("u32", parse_u32)
    \/ Parse("fourcc", u32_or_fourcc)
    \/ Parse("u64", parse_u64)
    \/ Parse("time", parse_time_string_us)

-----------------------------------------------------------------------------
(* Properties                                                              *)

\* A number as a reader understands it: decimal digits, or hexadecimal ones after
\* "0x".
Written(s) ==
    LET hex == HexPrefix(s)
        digits == IF hex THEN Drop(s, 2) ELSE s
        base == IF hex THEN 16 ELSE 10
        is == digits # <<>> /\ \A i \in DOMAIN digits : digits[i] \in ToSet(Digits(base))
    IN  [is |-> is, number |-> IF is THEN Number(digits, base) ELSE 0]

\* Every number that fits is accepted and taken for what it is, by the 32 and the
\* 64 bit parser alike.
NumbersAreRead ==
    parser \in {"u32", "fourcc", "u64"} /\ Written(text).is
    /\ Written(text).number < (IF parser = "u64" THEN U64 ELSE U32)
        => ok /\ value = Written(text).number

\* The 64 bit parser takes no number that does not fit, whatever its digits wrap
\* around to.
U64NeverWraps ==
    parser = "u64" /\ ok /\ Written(text).is => value = Written(text).number

\* The time a reader understands: a number up to e behind blanks and a sign, a unit
\* behind u; the longest there is if their product is longer.
IsTime(s, time) ==
    \E b \in 0..Len(s), e \in 1..Len(s), u \in 0..Len(s) :
        LET digits == SubSeq(s, b + 1, e)
            unit == Multiplier(Drop(s, u))
        IN  /\ b < e /\ e <= u
            /\ \A i \in 1..b : s[i] \in {" ", "+", "-"}
            /\ \A i \in DOMAIN digits : digits[i] \in ToSet(Decimal)
            /\ \A i \in (e + 1)..u : s[i] = " "
            /\ unit > 0
            /\ time = Min({Int64Max, Number(digits, 10) * unit})

\* A time is accepted only as the product of its number and its unit, or the
\* longest there is: checking before multiplying, it never wraps into a short one.
TimeIsExact == parser = "time" /\ ok => IsTime(text, value)

\* parse_u64() "Rejects negative numbers, overflow, and trailing characters."
RejectsNegative ==
    parser = "u64" /\ ok /\ value # 0 => "-" \notin ToSet(text)

\* A number that fits its type is read as itself, and a time too.  Of the numbers
\* that do not fit, those for parse_u64() and the times never become another one;
\* those for parse_u32() lose their upper bits without a word.
NumbersAreExact == NumbersAreRead /\ U64NeverWraps /\ TimeIsExact
=============================================================================
