------------------------------ MODULE FabdUtil ------------------------------
(***************************************************************************)
(* The conversions of strings in util.c.  A string is a sequence of pieces:*)
(* single characters and, for short, whole words.                          *)
(***************************************************************************)
EXTENDS Integers, Sequences, SequencesExt

Hexchars == <<"0", "1", "2", "3", "4", "5", "6", "7", "8", "9",
              "a", "b", "c", "d", "e", "f">>
UpperHex == <<"A", "B", "C", "D", "E", "F">>

\* Where in s the element e is.
Place(s, e) == CHOOSE i \in DOMAIN s : s[i] = e

\* _hex2bin_char, -1 for what is no digit.
HexDigit(c) ==
    CASE Contains(Hexchars, c) -> Place(Hexchars, c) - 1
      [] Contains(UpperHex, c) -> Place(UpperHex, c) + 9
      [] OTHER -> -1

\* The bytes of `in', two digits each.
bin2hex(in) ==
    [i \in 1..2 * Len(in) |->
        LET byte == in[(i + 1) \div 2]
        IN Hexchars[1 + (IF i % 2 = 1 THEN byte \div 16 ELSE byte % 16)]]

NotHex == [ok |-> FALSE, bytes |-> <<>>]

\* `len' bytes from the start of s, which is to end there.
hex2bin(s, len) ==
    IF Len(s) # 2 * len \/ \E i \in DOMAIN s : HexDigit(s[i]) = -1 THEN NotHex
    ELSE [ok |-> TRUE,
          bytes |-> [i \in 1..len |->
                       16 * HexDigit(s[2 * i - 1]) + HexDigit(s[2 * i])]]

\* The numerals of the C library.  " " is any blank.
At(s, i) == IF i \in DOMAIN s THEN s[i] ELSE ""

\* A numeral may have blanks before it, and then one sign.
Blanks(s) ==
    LET first == SelectInSubSeq(s, 1, Len(s), LAMBDA c : c # " ")
    IN IF first = 0 THEN Len(s) ELSE first - 1
SignEnd(s) ==
    LET blanks == Blanks(s)
    IN IF At(s, blanks + 1) \in {"-", "+"} THEN blanks + 1 ELSE blanks
WithSign(s, n) == IF At(s, SignEnd(s)) = "-" THEN -n ELSE n

HexPrefix(s, at) ==
    At(s, at + 1) = "0" /\ At(s, at + 2) \in {"x", "X"} /\ HexDigit(At(s, at + 3)) >= 0

Digits(s, first, base) ==
    LET stop == SelectInSubSeq(s, first, Len(s),
                               LAMBDA c : HexDigit(c) \notin 0..base - 1)
    IN SubSeq(s, first, IF stop = 0 THEN Len(s) ELSE stop - 1)

Magnitude(base, digits) == FoldLeft(LAMBDA n, c : base * n + HexDigit(c), 0, digits)

NoNumeral == [value |-> 0, taken |-> 0]

\* What the numeral that s begins with stands for, and how many pieces it is.  A base of
\* 0 goes by the prefix; `start' is where the digits are, after the prefix.
BaseOf(s, at) == CASE At(s, at + 1) # "0" -> 10
                   [] HexPrefix(s, at) -> 16
                   [] At(s, at + 1) = "0" /\ ~HexPrefix(s, at) -> 8

WholePart(s, start, base) ==
    LET digits == Digits(s, start + 1, base)
    IN IF digits = <<>> THEN NoNumeral
       ELSE [value |-> WithSign(s, Magnitude(base, digits)), taken |-> start + Len(digits)]

StartOf(at, base) == IF base = 16 THEN at + 2 ELSE at
InBase(s, at, base) == WholePart(s, StartOf(at, base), base)
strtol(s) == InBase(s, SignEnd(s), BaseOf(s, SignEnd(s)))

\* The same in halves, what is finer not told apart.  An octal prefix is none here.
\* Exponents, infinity, NaN and hexadecimal that begins with its point are left out.
HalvesFrom(s, start, base) ==
    LET whole == Digits(s, start + 1, base)
        point == start + Len(whole) + 1
        has == At(s, point) = "."
        part == IF has THEN Digits(s, point + 1, base) ELSE <<>>
        half == IF part # <<>> /\ 2 * HexDigit(part[1]) >= base THEN 1 ELSE 0
    IN IF whole = <<>> /\ part = <<>> THEN NoNumeral
       ELSE [value |-> WithSign(s, 2 * Magnitude(base, whole) + half),
             taken |-> start + Len(whole) + (IF has THEN 1 + Len(part) ELSE 0)]

strtod(s) ==
    LET at == SignEnd(s)
    IN IF HexPrefix(s, at) THEN HalvesFrom(s, at + 2, 16) ELSE HalvesFrom(s, at, 10)

Keywords == <<"false", "never", "none", "off", "no", "0",
              "always", "true", "yes", "on">>
FalseWords == 6

\* The keyword that s begins with, or 0.
Keyword(s) ==
    IF s # <<>> /\ Contains(Keywords, Head(s))
    THEN Place(Keywords, Head(s)) ELSE 0

\* What s says, and how much of it says so; the caller refuses what is left.
SaysTrue(word, digits) ==
    IF word # 0 THEN [value |-> word > FalseWords, taken |-> 1]
    ELSE [value |-> digits > 0, taken |-> digits]

fabd_strtobool(s) == SaysTrue(Keyword(s), strtol(s).taken)

\* A string that is a numeral as a whole.
IsNumeral(s) == s # <<>> /\ strtol(s).taken = Len(s)
=============================================================================
