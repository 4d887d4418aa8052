---------------------------- MODULE LibraryProof ----------------------------
(***************************************************************************)
(* What the programs take from the library, for every value of the         *)
(* constants: what is printed as hexadecimal digits or as JSON is read back*)
(* as it was, the two command line clients, and the two processes that find*)
(* each other by their configuration.                                      *)
(***************************************************************************)
EXTENDS FabdCli, Fabdcfg, SequenceTheorems, WellFoundedInduction, TLAPS

(* Numbers and recursive functions.                                        *)

\* The order of the natural numbers.
Less == {ss \in Nat \X Nat : ss[1] < ss[2]}

\* A set of numbers has a least one.
LEMMA Least ==
    ASSUME NEW S \in SUBSET Nat, S # {}
    PROVE  \E k \in S : \A j \in S : k <= j
<1>1. IsWellFoundedOn(Less, Nat)
  BY NatLessThanWellFounded DEF OpToRel, Less
<1>2. PICK k \in S : \A j \in S : <<j, k>> \notin Less
  BY <1>1, WFMin
<1>3. \A j \in S : k <= j
  <2> SUFFICES ASSUME NEW j \in S
               PROVE  k <= j
    OBVIOUS
  <2>1. j \in Nat /\ k \in Nat /\ <<j, k>> \notin Less
    BY <1>2
  <2>2. j < k => <<j, k>> \in Less
    BY <2>1 DEF Less
  <2> QED
    BY <2>1, <2>2
<1> QED
  BY <1>3

\* What holds of 0, and of the next number with each, holds up to n.
LEMMA UpToHold ==
    ASSUME NEW n \in Nat, NEW S, 0 \in S, \A i \in 0..n - 1 : i \in S => i + 1 \in S
    PROVE  \A i \in 0..n : i \in S
<1> DEFINE Rest == { i \in 0..n : i \notin S }
<1> SUFFICES ASSUME Rest # {}
             PROVE  FALSE
  OBVIOUS
<1>1. Rest \in SUBSET Nat
  OBVIOUS
<1>2. PICK k \in Rest : \A j \in Rest : k <= j
  <2> HIDE DEF Rest
  <2> QED
    BY <1>1, Least
<1>3. k \in 1..n /\ k - 1 \in 0..n - 1 /\ k - 1 \notin Rest
  BY <1>2
<1>4. k - 1 \in S
  BY <1>3
<1>5. (k - 1) + 1 \in S
  BY <1>3, <1>4
<1> QED
  BY <1>2, <1>3, <1>5

\* Each element is assigned to what there was before it.
OneByOne(a, f, has, elems, subs) ==
    /\ a[0] = [has |-> has, failed |-> FALSE]
    /\ \A i \in 1..Len(elems) :
          a[i] = AlsoFailed(j2p_assign_field(f, a[i - 1].has, elems[i], subs[i]),
                            a[i - 1].failed)

\* The function of AssignElements is there.
LEMMA Unfolded ==
    ASSUME NEW f, NEW has, NEW elems, NEW subs, Len(elems) \in Nat
    PROVE  OneByOne(AssignElements(f, has, elems, subs), f, has, elems, subs)
<1> DEFINE n == Len(elems)
           Step(acc, i) == AlsoFailed(j2p_assign_field(f, acc.has, elems[i], subs[i]), acc.failed)
           start == [has |-> has, failed |-> FALSE]
           Until(g, k) == g = [i \in 0..k |-> IF i = 0 THEN start ELSE Step(g[i - 1], i)]
           There == { k \in 0..n : \E g : Until(g, k) }
<1>1. AssignElements(f, has, elems, subs) = CHOOSE g : Until(g, n)
  BY DEF AssignElements
<1> HIDE DEF Step, start
<1>2. 0 \in There
  <2> DEFINE g == [i \in 0..0 |-> start]
  <2>1. Until(g, 0)
    OBVIOUS
  <2> HIDE DEF g
  <2> QED
    BY <2>1
<1>3. \A k \in 0..n - 1 : k \in There => k + 1 \in There
  <2> SUFFICES ASSUME NEW k \in 0..n - 1, k \in There
               PROVE  k + 1 \in There
    OBVIOUS
  <2>1. PICK g : Until(g, k)
    OBVIOUS
  <2> DEFINE h == [i \in 0..k + 1 |-> IF i <= k THEN g[i] ELSE Step(g[k], k + 1)]
  <2>2. \A i \in 0..k + 1 : h[i] = IF i = 0 THEN start ELSE Step(h[i - 1], i)
    <3> SUFFICES ASSUME NEW i \in 0..k + 1
                 PROVE  h[i] = IF i = 0 THEN start ELSE Step(h[i - 1], i)
      OBVIOUS
    <3>1. CASE i = 0
      BY <2>1, <3>1
    <3>2. CASE i \in 1..k
      <4>1. h[i] = g[i] /\ h[i - 1] = g[i - 1]
        BY <3>2
      <4>2. g[i] = Step(g[i - 1], i)
        BY <2>1, <3>2
      <4> QED
        BY <3>2, <4>1, <4>2
    <3>3. CASE i = k + 1
      BY <3>3
    <3> QED
      BY <3>1, <3>2, <3>3
  <2>3. Until(h, k + 1)
    BY <2>2
  <2> HIDE DEF h
  <2> QED
    BY <2>3
<1>4. n \in There
  <2>1. n \in Nat /\ n \in 0..n
    OBVIOUS
  <2> HIDE DEF There, n
  <2> QED
    BY <1>2, <1>3, <2>1, UpToHold
<1>5. PICK assigned : /\ Until(assigned, n)
                      /\ assigned = AssignElements(f, has, elems, subs)
  BY <1>1, <1>4
<1>6. assigned[0] = start /\ \A i \in 1..n : assigned[i] = Step(assigned[i - 1], i)
  BY <1>5
<1> QED
  BY <1>5, <1>6 DEF Step, start, OneByOne

\* And so is that of NotNull.
LEMMA NotNullUnfolded ==
    ASSUME NEW s, Len(s) \in Nat
    PROVE  \E upTo :
             /\ upTo[0] = <<>> /\ NotNull(s) = upTo[Len(s)]
             /\ \A i \in 1..Len(s) :
                   upTo[i] = IF Is(s[i], "null") THEN upTo[i - 1]
                             ELSE Append(upTo[i - 1], s[i])
<1> DEFINE n == Len(s)
           Step(acc, i) == IF Is(s[i], "null") THEN acc ELSE Append(acc, s[i])
           Until(g, k) == g = [i \in 0..k |-> IF i = 0 THEN <<>> ELSE Step(g[i - 1], i)]
           There == { k \in 0..n : \E g : Until(g, k) }
<1>1. NotNull(s) = (CHOOSE g : Until(g, n))[n]
  BY DEF NotNull
<1> HIDE DEF Step
<1>2. 0 \in There
  <2> DEFINE g == [i \in 0..0 |-> <<>>]
  <2>1. Until(g, 0)
    OBVIOUS
  <2> HIDE DEF g
  <2> QED
    BY <2>1
<1>3. \A k \in 0..n - 1 : k \in There => k + 1 \in There
  <2> SUFFICES ASSUME NEW k \in 0..n - 1, k \in There
               PROVE  k + 1 \in There
    OBVIOUS
  <2>1. PICK g : Until(g, k)
    OBVIOUS
  <2> DEFINE h == [i \in 0..k + 1 |-> IF i <= k THEN g[i] ELSE Step(g[k], k + 1)]
  <2>2. \A i \in 0..k + 1 : h[i] = IF i = 0 THEN <<>> ELSE Step(h[i - 1], i)
    <3> SUFFICES ASSUME NEW i \in 0..k + 1
                 PROVE  h[i] = IF i = 0 THEN <<>> ELSE Step(h[i - 1], i)
      OBVIOUS
    <3>1. CASE i = 0
      BY <2>1, <3>1
    <3>2. CASE i \in 1..k
      <4>1. h[i] = g[i] /\ h[i - 1] = g[i - 1]
        BY <3>2
      <4>2. g[i] = Step(g[i - 1], i)
        BY <2>1, <3>2
      <4> QED
        BY <3>2, <4>1, <4>2
    <3>3. CASE i = k + 1
      BY <3>3
    <3> QED
      BY <3>1, <3>2, <3>3
  <2>3. Until(h, k + 1)
    BY <2>2
  <2> HIDE DEF h
  <2> QED
    BY <2>3
<1>4. n \in There
  <2>1. n \in Nat /\ n \in 0..n
    OBVIOUS
  <2> HIDE DEF There, n
  <2> QED
    BY <1>2, <1>3, <2>1, UpToHold
<1>5. PICK upTo : Until(upTo, n) /\ NotNull(s) = upTo[n]
  BY <1>1, <1>4
<1>6. upTo[0] = <<>> /\ \A i \in 1..n : upTo[i] = Step(upTo[i - 1], i)
  BY <1>5
<1> QED
  BY <1>5, <1>6 DEF Step
----------------------------------------------------------------------------
(* Hexadecimal digits.                                                     *)

\* The characters of the digits are all different.
LEMMA HexcharsDiffer ==
    /\ DOMAIN Hexchars = 1..16 /\ Len(Hexchars) = 16
    /\ \A i, k \in 1..16 : Hexchars[i] = Hexchars[k] => i = k
BY DEF Hexchars

LEMMA UpperDiffer == \A i \in 1..16, k \in 1..6 : Hexchars[i] # UpperHex[k]
BY DEF Hexchars, UpperHex

\* Halving.
LEMMA Half ==
    ASSUME NEW i \in Nat
    PROVE  /\ (2 * i) \div 2 = i /\ (2 * i) % 2 = 0
           /\ (2 * i + 1) \div 2 = i /\ (2 * i + 1) % 2 = 1
<1>1. (2 * i) \div 2 = i /\ (2 * i) % 2 = 0
  BY SMT
<1>2. (2 * i + 1) \div 2 = i /\ (2 * i + 1) % 2 = 1
  BY SMT
<1> QED
  BY <1>1, <1>2

\* A byte is its two digits.
LEMMA Nibbles ==
    ASSUME NEW b \in 0..255
    PROVE  /\ b \div 16 \in 0..15 /\ b % 16 \in 0..15
           /\ 16 * (b \div 16) + (b % 16) = b
BY SMT

LEMMA DigitOf ==
    ASSUME NEW d \in 0..15
    PROVE  HexDigit(Hexchars[1 + d]) = d
<1> DEFINE c == Hexchars[1 + d]
<1>1. 1 + d \in 1..16 /\ Contains(Hexchars, c)
  BY HexcharsDiffer DEF Contains
<1>2. HexDigit(c) = Place(Hexchars, c) - 1
  <2>1. Len(UpperHex) = 6
    BY DEF UpperHex
  <2>2. ~Contains(UpperHex, c)
    BY <1>1, <2>1, UpperDiffer DEF Contains
  <2> QED
    BY <1>1, <2>2 DEF HexDigit
<1>3. Place(Hexchars, c) = 1 + d
  BY <1>1, HexcharsDiffer DEF Place
<1> QED
  BY <1>2, <1>3

\* A digit is one of sixteen.
LEMMA HexRange == \A c : HexDigit(c) \in 0..15 \/ HexDigit(c) = -1
<1> SUFFICES ASSUME NEW c
             PROVE  HexDigit(c) \in 0..15 \/ HexDigit(c) = -1
  OBVIOUS
<1>1. DOMAIN Hexchars = 1..16 /\ DOMAIN UpperHex = 1..6
  BY DEF Hexchars, UpperHex
<1>0. ~(Contains(Hexchars, c) /\ Contains(UpperHex, c))
  BY HexcharsDiffer, UpperDiffer DEF Contains, UpperHex
<1>2. CASE Contains(Hexchars, c)
  <2>1. \E i \in DOMAIN Hexchars : Hexchars[i] = c
    BY <1>1, <1>2 DEF Contains, Hexchars
  <2>2. Place(Hexchars, c) \in 1..16
    BY <1>1, <2>1 DEF Place
  <2> QED
    BY <1>0, <1>2, <2>2 DEF HexDigit
<1>3. CASE ~Contains(Hexchars, c) /\ Contains(UpperHex, c)
  <2>1. \E i \in DOMAIN UpperHex : UpperHex[i] = c
    BY <1>1, <1>3 DEF Contains, UpperHex
  <2>2. Place(UpperHex, c) \in 1..6
    BY <1>1, <2>1 DEF Place
  <2> QED
    BY <1>3, <2>2 DEF HexDigit
<1>4. CASE ~Contains(Hexchars, c) /\ ~Contains(UpperHex, c)
  BY <1>4 DEF HexDigit
<1> QED
  BY <1>2, <1>3, <1>4


\* The bytes that are printed are read back.
THEOREM HexRoundTrip ==
    ASSUME NEW bytes \in Seq(0..255)
    PROVE  /\ Len(bin2hex(bytes)) \div 2 = Len(bytes)
           /\ hex2bin(bin2hex(bytes), Len(bytes)) = [ok |-> TRUE, bytes |-> bytes]
<1> DEFINE n == Len(bytes)
           hex == bin2hex(bytes)
<1>1. n \in Nat /\ \A i \in 1..n : bytes[i] \in 0..255
  BY ElementOfSeq, LenProperties
<1>2. DOMAIN hex = 1..2 * n /\ Len(hex) = 2 * n
  BY <1>1 DEF bin2hex
<1>3. \A i \in 1..n : /\ 2 * i - 1 \in 1..2 * n /\ 2 * i \in 1..2 * n
                      /\ HexDigit(hex[2 * i - 1]) = bytes[i] \div 16
                      /\ HexDigit(hex[2 * i]) = bytes[i] % 16
  <2> SUFFICES ASSUME NEW i \in 1..n
               PROVE  /\ 2 * i - 1 \in 1..2 * n /\ 2 * i \in 1..2 * n
                      /\ HexDigit(hex[2 * i - 1]) = bytes[i] \div 16
                      /\ HexDigit(hex[2 * i]) = bytes[i] % 16
    OBVIOUS
  <2>1. 2 * i - 1 \in 1..2 * n /\ 2 * i \in 1..2 * n
    BY <1>1
  <2>2. /\ ((2 * i - 1) + 1) \div 2 = i /\ (2 * i - 1) % 2 = 1
        /\ (2 * i + 1) \div 2 = i /\ (2 * i) % 2 = 0
    <3>1. i \in Nat /\ i - 1 \in Nat /\ 2 * i - 1 = 2 * (i - 1) + 1 /\ (2 * i - 1) + 1 = 2 * i
      BY <1>1
    <3> QED
      BY <3>1, Half
  <2>3. bytes[i] \div 16 \in 0..15 /\ bytes[i] % 16 \in 0..15
    BY <1>1, Nibbles
  <2>4. hex[2 * i - 1] = Hexchars[1 + bytes[i] \div 16]
    BY <2>1, <2>2 DEF bin2hex
  <2>5. hex[2 * i] = Hexchars[1 + (bytes[i] % 16)]
    BY <2>1, <2>2 DEF bin2hex
  <2> HIDE DEF hex
  <2> QED
    BY <2>1, <2>3, <2>4, <2>5, DigitOf
<1>4. \A k \in 1..2 * n : HexDigit(hex[k]) # -1
  <2> SUFFICES ASSUME NEW k \in 1..2 * n
               PROVE  HexDigit(hex[k]) # -1
    OBVIOUS
  <2>1. PICK i \in 1..n : k = 2 * i - 1 \/ k = 2 * i
    <3>1. (k + 1) \div 2 \in 1..n /\ (k = 2 * ((k + 1) \div 2) - 1 \/ k = 2 * ((k + 1) \div 2))
      BY <1>1
    <3> QED
      BY <3>1
  <2>2. bytes[i] \div 16 \in 0..15 /\ bytes[i] % 16 \in 0..15
    BY <1>1, Nibbles
  <2> HIDE DEF hex
  <2> QED
    <3>1. HexDigit(hex[2 * i - 1]) \in 0..15 /\ HexDigit(hex[2 * i]) \in 0..15
      BY <1>3, <2>2
    <3>2. HexDigit(hex[k]) \in 0..15
      BY <2>1, <3>1
    <3> QED
      BY <3>2
<1>5. hex2bin(hex, n) = [ok |-> TRUE, bytes |-> [i \in 1..n |->
                            16 * HexDigit(hex[2 * i - 1]) + HexDigit(hex[2 * i])]]
  <2> HIDE DEF hex
  <2> QED
    BY <1>2, <1>4 DEF hex2bin
<1>6. \A i \in 1..n : 16 * HexDigit(hex[2 * i - 1]) + HexDigit(hex[2 * i]) = bytes[i]
  <2> HIDE DEF hex
  <2> QED
    BY <1>1, <1>3, Nibbles
<1>7. [i \in 1..n |-> 16 * HexDigit(hex[2 * i - 1]) + HexDigit(hex[2 * i])] = bytes
  <2> HIDE DEF hex
  <2>1. bytes = [i \in 1..n |-> bytes[i]]
    OBVIOUS
  <2> QED
    BY <1>6, <2>1
<1> HIDE DEF n, hex
<1>8. (2 * n) \div 2 = n
  BY <1>1, Half
<1> QED
  BY <1>2, <1>5, <1>7, <1>8 DEF n, hex
----------------------------------------------------------------------------
(* One value.                                                              *)

\* What a field may be that is no message.
\* What is shown of a value is one, not nothing, an array or an object.
IsScalar(j) == ~Is(j, "null") /\ ~Is(j, "arr") /\ ~Is(j, "obj")

LEMMA Scalars ==
    /\ \A n : IsScalar([int |-> n]) /\ Is([int |-> n], "int")
              /\ ~Is([int |-> n], "str") /\ ~Is([int |-> n], "real")
              /\ ~Is([int |-> n], "bool")
    /\ \A n : IsScalar([real |-> n]) /\ Is([real |-> n], "real")
              /\ ~Is([real |-> n], "str") /\ ~Is([real |-> n], "int")
              /\ ~Is([real |-> n], "bool")
    /\ \A b : IsScalar([bool |-> b]) /\ Is([bool |-> b], "bool")
              /\ ~Is([bool |-> b], "str") /\ ~Is([bool |-> b], "int")
              /\ ~Is([bool |-> b], "real")
    /\ \A s : IsScalar([str |-> s]) /\ Is([str |-> s], "str")
              /\ ~Is([str |-> s], "real") /\ ~Is([str |-> s], "int")
              /\ ~Is([str |-> s], "bool")
BY DEF IsScalar, Is

LEMMA IntRoundTrip ==
    ASSUME NEW f, f.type \in Ints, NEW n \in Sayable(f.type)
    PROVE  IsScalar(Shown(f, n)) /\ ValueOf(f, Shown(f, n)) = <<n>>
<1>1. n \in Int /\ Holds(f.type, n) /\ Holds("int64", n)
  BY DEF Sayable, Ints, Signed
<1>2. Shown(f, n) = [int |-> n]
  BY <1>1 DEF Shown, Ints, Signed
<1>3. IntegerOf([int |-> n]) = <<n>>
  BY Scalars DEF IntegerOf, NumberOf
<1>4. ValueOf(f, [int |-> n]) = IntOf(f.type, <<n>>)
  BY <1>3 DEF ValueOf, Ints, Signed
<1>5. IntOf(f.type, <<n>>) = <<n>>
  BY <1>1 DEF IntOf, Bad
<1> QED
  BY <1>2, <1>4, <1>5, Scalars

\* A number that JSON cannot say is refused by the reader, and not taken for another.
LEMMA IntsRefused ==
    ASSUME NEW f, f.type \in Ints, NEW n \in Int, Holds(f.type, n), ~Holds("int64", n)
    PROVE  ValueOf(f, Shown(f, n)) = Bad
<1>1. /\ 2^Narrow \in Nat /\ 2^Wide \in Nat
      /\ 2^(Narrow - 1) \in Nat /\ 2^(Wide - 1) \in Nat
      /\ 2^Narrow <= 2^(Wide - 1) /\ 2^(Narrow - 1) < 2^Narrow
  BY FabdJsonAssumption
<1>2. f.type = "uint64" /\ n < 2^Wide
  BY <1>1 DEF Holds, Bits, Ints, Signed
<1>3. Shown(f, n) = [int |-> n - 2^Wide]
  BY <1>2 DEF Shown, Ints, Signed
<1>4. IntegerOf([int |-> n - 2^Wide]) = <<n - 2^Wide>>
  BY Scalars DEF IntegerOf, NumberOf
<1>5. ValueOf(f, [int |-> n - 2^Wide]) = IntOf(f.type, <<n - 2^Wide>>)
  BY <1>2, <1>4 DEF ValueOf, Ints, Signed
<1>6. ~Holds("uint64", n - 2^Wide)
  BY <1>1, <1>2 DEF Holds, Signed
<1> QED
  BY <1>2, <1>3, <1>5, <1>6 DEF IntOf, Bad

LEMMA EnumRoundTrip ==
    ASSUME NEW f, f.type = "enum", f.of \in DOMAIN Enums, NEW n \in Sayable("enum")
    PROVE  IsScalar(Shown(f, n)) /\ ValueOf(f, Shown(f, n)) = <<n>>
<1> DEFINE names == Enums[f.of]
           named == { s \in DOMAIN names : names[s] = n }
<1>1. n \in Int /\ Holds("enum", n)
  BY DEF Sayable, Ints, Signed
<1>2. Shown(f, n) = IF named = {} THEN [int |-> n] ELSE [str |-> CHOOSE s \in named : TRUE]
  BY DEF Shown, Ints, Signed
<1>3. \A j : ValueOf(f, j) = EnumOf(names, j, NumberOf(j))
  BY DEF ValueOf, Ints, Signed
<1>4. CASE named = {}
  <2>1. NumberOf([int |-> n]) = <<n>>
    BY Scalars DEF NumberOf
  <2>2. EnumOf(names, [int |-> n], <<n>>) = <<n>>
    BY <1>1, Scalars DEF EnumOf, Bad
  <2> QED
    BY <1>2, <1>3, <1>4, <2>1, <2>2, Scalars
<1>5. CASE named # {}
  <2>1. PICK s : s = CHOOSE x \in named : TRUE
    OBVIOUS
  <2>2. s \in DOMAIN names /\ names[s] = n
    BY <1>5, <2>1
  <2>3. ~IsNumeral(s)
    BY <2>2, FabdJsonAssumption
  <2>4. NumberOf([str |-> s]) = Bad
    <3>1. PICK j : j = [str |-> s]
      OBVIOUS
    <3>2. NumberOf(j) = WholeNumber(j.str, strtol(j.str)) /\ j.str = s
      BY <3>1, Scalars DEF NumberOf
    <3>3. WholeNumber(s, strtol(s)) = Bad
      BY <2>3 DEF WholeNumber, IsNumeral, Bad
    <3> QED
      BY <3>1, <3>2, <3>3
  <2>5. EnumOf(names, [str |-> s], Bad) = <<n>>
    BY <2>2, Scalars DEF EnumOf
  <2> QED
    BY <1>2, <1>3, <1>5, <2>1, <2>4, <2>5, Scalars
<1> QED
  BY <1>4, <1>5

LEMMA RealRoundTrip ==
    ASSUME NEW f, f.type \in {"float", "double"}, NEW n \in Sayable(f.type)
    PROVE  IsScalar(Shown(f, n)) /\ ValueOf(f, Shown(f, n)) = <<n>>
<1>1. n \in Int /\ (f.type = "float" => 0 < n /\ n <= FltMax)
  BY FabdJsonAssumption DEF Sayable, Ints, Signed
<1>2. Shown(f, n) = [real |-> n]
  BY DEF Shown, Ints, Signed
<1>3. HalvesOf([real |-> n]) = <<n>>
  <2>1. PICK j : j = [real |-> n]
    OBVIOUS
  <2>2. HalvesOf(j) = <<j.real>> /\ j.real = n
    BY <2>1, Scalars DEF HalvesOf
  <2> QED
    BY <2>1, <2>2
<1>4. ValueOf(f, [real |-> n]) = RealOf(f.type, <<n>>)
  BY <1>3 DEF ValueOf, Ints, Signed
<1>5. RealOf(f.type, <<n>>) = <<n>>
  BY <1>1 DEF RealOf, Bad
<1> QED
  BY <1>2, <1>4, <1>5, Scalars

LEMMA BoolRoundTrip ==
    ASSUME NEW f, f.type = "bool", NEW b \in BOOLEAN
    PROVE  IsScalar(Shown(f, b)) /\ ValueOf(f, Shown(f, b)) = <<b>>
<1>1. Shown(f, b) = [bool |-> b]
  BY DEF Shown, Ints, Signed
<1>2. ValueOf(f, [bool |-> b]) = BoolOf([bool |-> b])
  BY DEF ValueOf, Ints, Signed
<1>3. BoolOf([bool |-> b]) = <<b>>
  <2>1. PICK j : j = [bool |-> b]
    OBVIOUS
  <2>2. BoolOf(j) = <<j.bool>> /\ j.bool = b
    BY <2>1, Scalars DEF BoolOf
  <2> QED
    BY <2>1, <2>2
<1> QED
  BY <1>1, <1>2, <1>3, Scalars

LEMMA BytesRoundTrip ==
    ASSUME NEW f, f.type = "bytes", NEW bytes \in Seq(0..255)
    PROVE  IsScalar(Shown(f, bytes)) /\ ValueOf(f, Shown(f, bytes)) = <<bytes>>
<1> DEFINE hex == bin2hex(bytes)
<1>1. Shown(f, bytes) = [str |-> hex]
  BY DEF Shown, Ints, Signed
<1>2. ValueOf(f, [str |-> hex]) = BytesOf(hex2bin(hex, Len(hex) \div 2))
  BY Scalars DEF ValueOf, Ints, Signed
<1>3. hex2bin(hex, Len(hex) \div 2) = [ok |-> TRUE, bytes |-> bytes]
  BY HexRoundTrip
<1>4. BytesOf([ok |-> TRUE, bytes |-> bytes]) = <<bytes>>
  BY DEF BytesOf
<1> QED
  BY <1>1, <1>2, <1>3, <1>4, Scalars

THEOREM ValueRoundTrip ==
    ASSUME NEW f, f.type \in PlainTypes, f.type = "enum" => f.of \in DOMAIN Enums,
           NEW v \in Sayable(f.type)
    PROVE  IsScalar(Shown(f, v)) /\ ValueOf(f, Shown(f, v)) = <<v>>
<1>1. CASE f.type \in Ints
  BY <1>1, IntRoundTrip
<1>2. CASE f.type = "enum"
  BY <1>2, EnumRoundTrip
<1>3. CASE f.type \in {"float", "double"}
  BY <1>3, RealRoundTrip
<1>4. CASE f.type = "bool"
  <2>1. v \in BOOLEAN
    BY <1>4 DEF Sayable, Ints, Signed
  <2> QED
    BY <1>4, <2>1, BoolRoundTrip
<1>5. CASE f.type = "bytes"
  <2>1. v \in Seq(0..255)
    BY <1>5 DEF Sayable, Ints, Signed
  <2> QED
    BY <1>5, <2>1, BytesRoundTrip
<1> QED
  BY <1>1, <1>2, <1>3, <1>4, <1>5 DEF PlainTypes
----------------------------------------------------------------------------
(* A message.                                                              *)

\* A field of a message is one of its schema's.
LEMMA FieldOfSchema ==
    ASSUME NEW m \in DOMAIN Schema, NEW name \in Names(m)
    PROVE  /\ Field(m, name).type = "enum" => Field(m, name).of \in DOMAIN Enums
           /\ \E i \in DOMAIN Schema[m] : Field(m, name) = Schema[m][i]
<1>1. \E i \in DOMAIN Schema[m] : Schema[m][i].name = name
  BY DEF Names
<1>2. PICK i \in DOMAIN Schema[m] : Field(m, name) = Schema[m][i]
  BY <1>1 DEF Field
<1> QED
  BY <1>2, FabdJsonAssumption

LEMMA BlankOptional ==
    ASSUME NEW m, NEW name \in Names(m), Field(m, name).label # "required"
    PROVE  Blank(m)[name] = <<>>
<1>1. Blank(m)[name] = Default(Field(m, name))
  BY DEF Blank
<1>2. PICK f : f = Field(m, name)
  OBVIOUS
<1>3. Default(f) = <<>>
  BY <1>2 DEF Default
<1> QED
  BY <1>1, <1>2, <1>3

\* A value that is taken.
Taken(f, e, sub, value) ==
    /\ ~Is(e, "null") /\ ~Is(e, "arr") /\ (Is(e, "obj") <=> f.type = "message")
    /\ IF f.type = "message" THEN sub = [pb |-> value, failed |-> FALSE]
       ELSE ValueOf(f, e) = <<value>>

\* An element that is taken becomes one more value, or the only one.
LEMMA OneTaken ==
    ASSUME NEW f, NEW has, NEW e, NEW sub, NEW value, Taken(f, e, sub, value),
           f.label = "optional" => has = <<>>
    PROVE  j2p_assign_field(f, has, e, sub)
             = [has |-> IF f.label = "repeated" THEN has \o <<value>> ELSE <<value>>,
                failed |-> FALSE]
<1>1. ~Refused(f, has, e)
  BY DEF Refused, Taken, Is
<1>2. Assigned(f, has, e, <<value>>, FALSE)
        = [has |-> IF f.label = "repeated" THEN has \o <<value>> ELSE <<value>>,
           failed |-> FALSE]
  BY <1>1 DEF Assigned, Bad, Taken
<1>3. CASE f.type = "message"
  <2>1. sub.pb = value /\ sub.failed = FALSE
    BY <1>3 DEF Taken
  <2> QED
    BY <1>2, <1>3, <2>1 DEF j2p_assign_field
<1>4. CASE f.type # "message"
  BY <1>2, <1>4 DEF j2p_assign_field, Taken
<1> QED
  BY <1>3, <1>4

LEMMA NoneFailed ==
    ASSUME NEW has
    PROVE  AlsoFailed([has |-> has, failed |-> FALSE], FALSE) = [has |-> has, failed |-> FALSE]
BY DEF AlsoFailed

\* A key whose elements are all taken gives the field their values.
LEMMA AllTaken ==
    ASSUME NEW f, NEW has, NEW S, NEW values \in Seq(S), NEW elems, NEW subs,
           Len(elems) = Len(values),
           \A i \in 1..Len(values) : Taken(f, elems[i], subs[i], values[i]),
           \/ f.label = "repeated" /\ has = <<>>
           \/ /\ f.label \in {"required", "optional"} /\ Len(values) = 1
              /\ f.label = "optional" => has = <<>>
    PROVE  AssignKey(f, has, elems, subs) = [has |-> values, failed |-> FALSE]
<1> DEFINE n == Len(values)
           a == AssignElements(f, has, elems, subs)
<1>1. n \in Nat /\ n = Len(elems) /\ AssignKey(f, has, elems, subs) = a[n]
  BY DEF AssignKey
<1>2. /\ a[0] = [has |-> has, failed |-> FALSE]
      /\ \A i \in 1..n : a[i] = AlsoFailed(j2p_assign_field(f, a[i - 1].has, elems[i], subs[i]),
                                           a[i - 1].failed)
  <2>1. OneByOne(a, f, has, elems, subs)
    BY <1>1, Unfolded
  <2> HIDE DEF a
  <2> QED
    BY <1>1, <2>1 DEF OneByOne
<1> HIDE DEF a
<1>3. ASSUME NEW i \in 1..n, a[i - 1].failed = FALSE, f.label = "optional" => a[i - 1].has = <<>>
      PROVE  a[i] = [has |-> IF f.label = "repeated" THEN a[i - 1].has \o <<values[i]>>
                             ELSE <<values[i]>>,
                     failed |-> FALSE]
  <2>1. PICK h, e, sub, value :
           h = a[i - 1].has /\ e = elems[i] /\ sub = subs[i] /\ value = values[i]
    OBVIOUS
  <2> DEFINE then == IF f.label = "repeated" THEN h \o <<value>> ELSE <<value>>
  <2>2. Taken(f, e, sub, value) /\ (f.label = "optional" => h = <<>>)
    BY <1>3, <2>1
  <2>3. j2p_assign_field(f, h, e, sub) = [has |-> then, failed |-> FALSE]
    BY <2>2, OneTaken
  <2>4. a[i] = AlsoFailed(j2p_assign_field(f, h, e, sub), FALSE)
    BY <1>2, <1>3, <2>1
  <2> HIDE DEF then
  <2>5. a[i] = [has |-> then, failed |-> FALSE]
    BY <2>3, <2>4, NoneFailed
  <2> QED
    BY <2>1, <2>5 DEF then
<1>4. CASE f.label = "repeated" /\ has = <<>>
  <2> DEFINE Done == { i \in 0..n : a[i] = [has |-> SubSeq(values, 1, i), failed |-> FALSE] }
  <2>1. 0 \in Done
    <3>1. SubSeq(values, 1, 0) = <<>>
      BY SubSeqEmpty
    <3>2. a[0] = [has |-> SubSeq(values, 1, 0), failed |-> FALSE]
      BY <1>2, <1>4, <3>1
    <3> QED
      BY <1>1, <3>2
  <2>2. ASSUME NEW i \in 0..n - 1, i \in Done
        PROVE  i + 1 \in Done
    <3>1. /\ i + 1 \in 1..n /\ (i + 1) - 1 = i
          /\ a[i].has = SubSeq(values, 1, i) /\ a[i].failed = FALSE
      BY <1>1, <2>2
    <3>2. a[i + 1] = [has |-> SubSeq(values, 1, i) \o <<values[i + 1]>>, failed |-> FALSE]
      BY <1>3, <1>4, <3>1
    <3>3. SubSeq(values, 1, i + 1) = SubSeq(values, 1, i) \o <<values[i + 1]>>
      BY <3>1, SubSeqRecursiveSecond
    <3>4. a[i + 1] = [has |-> SubSeq(values, 1, i + 1), failed |-> FALSE]
      BY <3>2, <3>3
    <3> QED
      BY <1>1, <3>1, <3>4
  <2>3. n \in Done
    <3>1. n \in 0..n
      BY <1>1
    <3> HIDE DEF Done, n
    <3> QED
      BY <1>1, <2>1, <2>2, <3>1, UpToHold
  <2> QED
    BY <1>1, <2>3, SubSeqFull
<1>5. CASE f.label \in {"required", "optional"} /\ Len(values) = 1
           /\ (f.label = "optional" => has = <<>>)
  <2>1. n = 1 /\ a[0].failed = FALSE /\ a[0].has = has
    BY <1>2, <1>5
  <2>2. a[1] = [has |-> <<values[1]>>, failed |-> FALSE]
    <3>1. 1 \in 1..n /\ a[1 - 1] = a[0]
      BY <2>1
    <3> QED
      BY <1>3, <1>5, <2>1, <3>1
  <2>3. values = <<values[1]>>
    BY <1>5
  <2> QED
    BY <1>1, <2>1, <2>2, <2>3
<1> QED
  BY <1>4, <1>5

\* What is printed of one value is taken for it.
LEMMA PrintedIsTaken ==
    ASSUME NEW f, NEW value, NEW shown1, NEW sub,
           IF f.type = "message"
           THEN DOMAIN shown1 = {"obj"} /\ sub = [pb |-> value, failed |-> FALSE]
           ELSE /\ f.type \in PlainTypes /\ value \in Sayable(f.type)
                /\ f.type = "enum" => f.of \in DOMAIN Enums
    PROVE  Taken(f, p2j_elem(f, value, shown1), sub, value)
<1>1. CASE f.type = "message"
  BY <1>1 DEF Taken, p2j_elem, Is
<1>2. CASE f.type # "message"
  <2>1. p2j_elem(f, value, shown1) = Shown(f, value)
    BY <1>2 DEF p2j_elem
  <2>2. IsScalar(Shown(f, value)) /\ ValueOf(f, Shown(f, value)) = <<value>>
    BY <1>2, ValueRoundTrip
  <2> QED
    BY <1>2, <2>1, <2>2 DEF Taken, IsScalar
<1> QED
  BY <1>1, <1>2

\* What is printed of a field.
PrintedField(f, values, sub) ==
    IF f.label = "repeated" THEN [arr |-> Elems(f, values, sub)]
    ELSE p2j_elem(f, values[1], sub[1])

\* What the messages in a field are printed as, and read back.
InnerForm(f, values, inner, subs) ==
    f.type = "message" =>
        \A i \in DOMAIN values : /\ DOMAIN inner[i] = {"obj"}
                                 /\ subs[i] = [pb |-> values[i], failed |-> FALSE]

\* And so is what is printed of a field.
LEMMA FieldReadBack ==
    ASSUME NEW f, NEW values, SayableField(f, values), values # <<>>,
           f.type = "enum" => f.of \in DOMAIN Enums,
           NEW inner, NEW subs, InnerForm(f, values, inner, subs),
           NEW has, f.label # "required" => has = <<>>
    PROVE  AssignKey(f, has, Elements(PrintedField(f, values, inner)), subs)
             = [has |-> values, failed |-> FALSE]
<1>1. PICK S : values \in Seq(S) /\ (f.type # "message" => S = Sayable(f.type))
  <2>1. CASE f.type = "message"
    <3>1. Len(values) \in Nat /\ values = [i \in 1..Len(values) |-> values[i]]
      BY <2>1 DEF SayableField
    <3>2. values \in Seq({ values[i] : i \in 1..Len(values) })
      BY <3>1
    <3> QED
      BY <2>1, <3>2
  <2>2. CASE f.type # "message"
    BY <2>2 DEF SayableField
  <2> QED
    BY <2>1, <2>2
<1>2. DOMAIN values = 1..Len(values) /\ Len(values) \in Nat
  BY <1>1
<1>3. \A i \in 1..Len(values) : Taken(f, p2j_elem(f, values[i], inner[i]), subs[i], values[i])
  <2> SUFFICES ASSUME NEW i \in 1..Len(values)
               PROVE  Taken(f, p2j_elem(f, values[i], inner[i]), subs[i], values[i])
    OBVIOUS
  <2>1. CASE f.type = "message"
    BY <1>2, <2>1, PrintedIsTaken DEF InnerForm
  <2>2. CASE f.type # "message"
    <3>1. values[i] \in Sayable(f.type)
      BY <1>1, <2>2, ElementOfSeq
    <3> QED
      BY <2>2, <3>1, PrintedIsTaken DEF SayableField
  <2> QED
    BY <2>1, <2>2
<1>4. CASE f.label = "repeated"
  <2> DEFINE elems == Elems(f, values, inner)
  <2>1. f.type # "bool" /\ has = <<>>
    BY <1>4 DEF SayableField
  <2>2. elems = [i \in 1..Len(values) |-> p2j_elem(f, values[i], inner[i])]
    BY <1>2, <2>1 DEF Elems
  <2>3. Len(elems) = Len(values)
    BY <1>2, <2>2
  <2>4. \A i \in 1..Len(values) : Taken(f, elems[i], subs[i], values[i])
    BY <1>3, <2>2
  <2> HIDE DEF elems
  <2>5. AssignKey(f, has, elems, subs) = [has |-> values, failed |-> FALSE]
    BY <1>1, <1>4, <2>1, <2>3, <2>4, AllTaken
  <2>6. Elements(PrintedField(f, values, inner)) = elems
    BY <1>4 DEF Elements, PrintedField, Is, elems
  <2> QED
    BY <2>5, <2>6
<1>5. CASE f.label # "repeated"
  <2> DEFINE e == p2j_elem(f, values[1], inner[1])
             elems == <<e>>
  <2>1. f.label \in {"required", "optional"} /\ Len(values) = 1
    BY <1>1, <1>5, EmptySeq DEF SayableField
  <2>2. Taken(f, e, subs[1], values[1])
    BY <1>3, <2>1
  <2> HIDE DEF e
  <2>3. Elements(PrintedField(f, values, inner)) = elems
    BY <1>5, <2>2 DEF Elements, PrintedField, Taken, e
  <2>4. Len(elems) = Len(values) /\ \A i \in 1..Len(values) : Taken(f, elems[i], subs[i], values[i])
    BY <2>1, <2>2
  <2> HIDE DEF elems
  <2>5. AssignKey(f, has, elems, subs) = [has |-> values, failed |-> FALSE]
    BY <1>1, <2>1, <2>4, AllTaken
  <2> QED
    BY <2>3, <2>5
<1> QED
  BY <1>4, <1>5

\* A message is read back if those in it are.
LEMMA ReadBack ==
    ASSUME NEW m \in DOMAIN Schema, NEW pb, SayableMessage(m, pb), NEW inner, NEW subs,
           \A name \in Names(m) :
              InnerForm(Field(m, name), pb[name], inner[name], subs[name])
    PROVE  Converted(m, ToJson(m, pb, inner), subs) = [pb |-> pb, failed |-> FALSE]
<1> DEFINE there == { x \in Names(m) : pb[x] # <<>> }
           printed == [name \in there |-> PrintedField(Field(m, name), pb[name], inner[name])]
           given == [name \in there |-> [has |-> pb[name], failed |-> FALSE]]
<1>1. ToJson(m, pb, inner) = [obj |-> printed]
  BY DEF ToJson, PrintedField
<1>2. \A name \in there :
         AssignKey(Field(m, name), Blank(m)[name], Elements(printed[name]), subs[name])
             = [has |-> pb[name], failed |-> FALSE]
  <2> SUFFICES ASSUME NEW name \in there
               PROVE  AssignKey(Field(m, name), Blank(m)[name], Elements(printed[name]),
                                subs[name])
                        = [has |-> pb[name], failed |-> FALSE]
    OBVIOUS
  <2>1. PICK f, values, mine, theirs, has :
            /\ f = Field(m, name) /\ values = pb[name] /\ mine = inner[name]
            /\ theirs = subs[name] /\ has = Blank(m)[name]
    OBVIOUS
  <2>2. SayableField(f, values) /\ values # <<>>
    BY <2>1 DEF SayableMessage
  <2>3. f.type = "enum" => f.of \in DOMAIN Enums
    BY <2>1, FieldOfSchema
  <2>4. f.label # "required" => has = <<>>
    BY <2>1, BlankOptional
  <2>5. InnerForm(f, values, mine, theirs)
    BY <2>1
  <2>6. printed[name] = PrintedField(f, values, mine)
    BY <2>1
  <2> HIDE DEF printed
  <2>7. AssignKey(f, has, Elements(PrintedField(f, values, mine)), theirs)
          = [has |-> values, failed |-> FALSE]
    BY <2>2, <2>3, <2>4, <2>5, FieldReadBack
  <2> QED
    BY <2>1, <2>6, <2>7
<1>3. Converted(m, [obj |-> printed], subs) = Message(m, {}, given)
  <2>1. Keys([obj |-> printed]) = there
    BY DEF Keys, Is
  <2>2. there \ Names(m) = {} /\ there \cap Names(m) = there
    OBVIOUS
  <2>3. Converted(m, [obj |-> printed], subs)
          = Message(m, {}, [name \in there |->
                               AssignKey(Field(m, name), Blank(m)[name],
                                         Elements(printed[name]), subs[name])])
    BY <2>1, <2>2 DEF Converted
  <2>4. [name \in there |-> AssignKey(Field(m, name), Blank(m)[name],
                                      Elements(printed[name]), subs[name])] = given
    BY <1>2
  <2> HIDE DEF printed, given, there
  <2> QED
    BY <2>3, <2>4
<1>4. Message(m, {}, given) = [pb |-> pb, failed |-> FALSE]
  <2>1. \A name \in Names(m) :
           (IF name \in DOMAIN given THEN given[name].has ELSE Blank(m)[name]) = pb[name]
    <3> SUFFICES ASSUME NEW name \in Names(m), name \notin there
                 PROVE  Blank(m)[name] = pb[name]
      OBVIOUS
    <3>1. pb[name] = <<>> /\ SayableField(Field(m, name), pb[name])
      BY DEF SayableMessage
    <3>2. Len(pb[name]) = 0
      BY <3>1
    <3>3. Field(m, name).label # "required"
      BY <3>1, <3>2 DEF SayableField
    <3> QED
      BY <3>1, <3>3, BlankOptional
  <2>2. pb = [name \in Names(m) |-> pb[name]]
    BY DEF SayableMessage
  <2>3. ~ \E name \in DOMAIN given : given[name].failed
    OBVIOUS
  <2> HIDE DEF given
  <2> QED
    BY <2>1, <2>2, <2>3 DEF Message
<1> HIDE DEF printed, given
<1> QED
  BY <1>1, <1>3, <1>4

LEMMA PlainSayable ==
    ASSUME NEW m \in DOMAIN Schema, NEW pb, Plain(m), PlainMessage(m, pb)
    PROVE  /\ SayableMessage(m, pb)
           /\ \A name \in Names(m) : Field(m, name).type # "message"
<1>1. \A name \in Names(m) : SayableField(Field(m, name), pb[name])
  BY DEF Plain, PlainMessage, SayableField, PlainTypes, Ints, Signed
<1> QED
  BY <1>1 DEF SayableMessage, PlainMessage, Plain, PlainTypes, Ints, Signed

\* A message in a message is printed, read back and the same.
LEMMA InnerReadBack ==
    ASSUME NEW m \in DOMAIN Schema, NEW pb, Plain(m), PlainMessage(m, pb)
    PROVE  /\ ConvertedInner(m, ToJsonInner(m, pb)) = [pb |-> pb, failed |-> FALSE]
           /\ json_to_protobuf(m, ToJsonInner(m, pb)) = [pb |-> pb, failed |-> FALSE]
<1>1. PICK inner : ToJsonInner(m, pb) = ToJson(m, pb, inner)
  BY DEF ToJsonInner
<1>2. \A subs : Converted(m, ToJson(m, pb, inner), subs) = [pb |-> pb, failed |-> FALSE]
  BY PlainSayable, ReadBack DEF InnerForm
<1> QED
  BY <1>1, <1>2 DEF ConvertedInner, json_to_protobuf

\* A message that is printed is read back as it was, whatever its fields are and are
\* not given, but for numbers above the largest signed one, floats that are not above
\* zero and arrays of booleans (json.c:60-660).
THEOREM MessageRoundTrip ==
    ASSUME NEW m \in DOMAIN Schema, NEW pb, SayableMessage(m, pb)
    PROVE  json_to_protobuf(m, protobuf_to_json(m, pb)) = [pb |-> pb, failed |-> FALSE]
<1> DEFINE inner == [name \in Names(m) |->
                       [i \in DOMAIN pb[name] |-> ToJsonInner(Field(m, name).of, pb[name][i])]]
           j == ToJson(m, pb, inner)
           subs == [name \in Keys(j) \cap Names(m) |->
                      LET elems == Elements(j.obj[name])
                      IN [i \in DOMAIN elems |->
                            ConvertedInner(Field(m, name).of, elems[i])]]
<1>1. /\ protobuf_to_json(m, pb) = j
      /\ json_to_protobuf(m, j) = Converted(m, j, subs)
  BY DEF protobuf_to_json, json_to_protobuf
<1>2. ASSUME NEW name \in Names(m), Field(m, name).type = "message", NEW i \in DOMAIN pb[name]
      PROVE  /\ DOMAIN inner[name][i] = {"obj"}
             /\ subs[name][i] = [pb |-> pb[name][i], failed |-> FALSE]
  <2> DEFINE f == Field(m, name)
             values == pb[name]
  <2>1. /\ SayableField(f, values) /\ f.type = "message" /\ i \in DOMAIN values
        /\ Plain(f.of) /\ f.of \in DOMAIN Schema /\ PlainMessage(f.of, values[i])
        /\ DOMAIN values = 1..Len(values)
    BY <1>2 DEF SayableMessage, SayableField
  <2>2. inner[name][i] = ToJsonInner(f.of, values[i])
    BY <1>2
  <2>3. DOMAIN inner[name][i] = {"obj"}
    BY <2>2 DEF ToJsonInner, ToJson
  <2>4. j = [obj |-> [x \in { x \in Names(m) : pb[x] # <<>> } |->
                         PrintedField(Field(m, x), pb[x], inner[x])]]
    BY DEF ToJson, PrintedField
  <2>5. values # <<>>
    BY <2>1
  <2> HIDE DEF j, inner
  <2>6. name \in Keys(j) /\ j.obj[name] = PrintedField(f, values, inner[name])
    BY <2>4, <2>5, <1>2 DEF Keys, Is
  <2>7. /\ DOMAIN Elements(PrintedField(f, values, inner[name])) = DOMAIN values
        /\ Elements(PrintedField(f, values, inner[name]))[i] = inner[name][i]
    <3>1. CASE f.label = "repeated"
      <4>1. PrintedField(f, values, inner[name]) = [arr |-> Elems(f, values, inner[name])]
        BY <3>1 DEF PrintedField
      <4>2. Elements(PrintedField(f, values, inner[name])) = Elems(f, values, inner[name])
        BY <4>1 DEF Elements, Is
      <4> QED
        BY <2>1, <4>2 DEF Elems, p2j_elem
    <3>2. CASE f.label # "repeated"
      <4>1. Len(values) = 1
        BY <2>1, <3>2 DEF SayableField
      <4>2. i = 1 /\ DOMAIN values = {1}
        BY <2>1, <4>1
      <4>3. PrintedField(f, values, inner[name]) = inner[name][1]
        BY <2>1, <3>2 DEF PrintedField, p2j_elem
      <4>4. Elements(inner[name][1]) = <<inner[name][1]>>
        BY <2>3, <4>2 DEF Elements, Is
      <4> QED
        BY <4>2, <4>3, <4>4
    <3> QED
      BY <3>1, <3>2
  <2>8. subs[name][i] = ConvertedInner(f.of, inner[name][i])
    BY <1>2, <2>1, <2>6, <2>7
  <2>9. ConvertedInner(f.of, ToJsonInner(f.of, values[i])) = [pb |-> values[i], failed |-> FALSE]
    BY <2>1, InnerReadBack
  <2> QED
    BY <2>2, <2>3, <2>8, <2>9
<1>3. PICK above, below : above = inner /\ below = subs
  OBVIOUS
<1>4. Converted(m, ToJson(m, pb, above), below) = [pb |-> pb, failed |-> FALSE]
  <2>1. \A name \in Names(m) :
           InnerForm(Field(m, name), pb[name], above[name], below[name])
    BY <1>2, <1>3 DEF InnerForm
  <2> QED
    BY <2>1, ReadBack
<1> QED
  BY <1>1, <1>3, <1>4

\* The same of any message that the programs may be given to print
\* (SayableMessage says which those are): for all schemas, enums and widths.
THEOREM MessagesComeBack == SayingSpec => []RoundTrip
<1>1. saying \in Sayings => RoundTrip
  BY SayingsAssumption, MessageRoundTrip DEF RoundTrip
<1>2. saying \in Sayings /\ [UNCHANGED saying]_saying => (saying \in Sayings)'
  OBVIOUS
<1> QED
  BY <1>1, <1>2, PTL DEF SayingSpec

----------------------------------------------------------------------------
(* What is sent.                                                           *)

\* A number that is read is one number, and so is any value.
LEMMA NumbersAreOne ==
    ASSUME NEW j
    PROVE  NumberOf(j) = Bad \/ \E n : NumberOf(j) = <<n>>
BY DEF NumberOf, WholeNumber, Bad

LEMMA ValuesAreOne ==
    ASSUME NEW f, f.type \in PlainTypes, NEW j
    PROVE  ValueOf(f, j) = Bad \/ \E v : ValueOf(f, j) = <<v>>
<1> DEFINE n == NumberOf(j)
<1>1. n = Bad \/ \E k : n = <<k>>
  BY NumbersAreOne
<1>2. IntegerOf(j) = Bad \/ \E k : IntegerOf(j) = <<k>>
  BY <1>1 DEF IntegerOf, IntegerIn, Bad
<1> HIDE DEF n
<1>3. CASE f.type \in Ints
  <2>1. ValueOf(f, j) = IntOf(f.type, IntegerOf(j))
    BY <1>3 DEF ValueOf, Ints, Signed
  <2> QED
    BY <1>2, <2>1 DEF IntOf, Bad
<1>4. CASE f.type \in {"float", "double"}
  <2>1. ValueOf(f, j) = RealOf(f.type, HalvesOf(j))
    BY <1>4 DEF ValueOf, Ints, Signed
  <2>2. HalvesOf(j) = Bad \/ \E h : HalvesOf(j) = <<h>>
    BY <1>1 DEF HalvesOf, Doubled, WholeNumber, Bad, n
  <2> QED
    BY <2>1, <2>2 DEF RealOf
<1>5. CASE f.type = "bool"
  <2>1. ValueOf(f, j) = BoolOf(j)
    BY <1>5 DEF ValueOf, Ints, Signed
  <2> QED
    BY <2>1 DEF BoolOf, WholeBool, Bad
<1>6. CASE f.type = "enum"
  <2>1. ValueOf(f, j) = EnumOf(Enums[f.of], j, n)
    BY <1>6 DEF ValueOf, Ints, Signed, n
  <2> QED
    BY <1>1, <2>1 DEF EnumOf, Bad
<1>7. CASE f.type = "bytes"
  BY <1>7 DEF ValueOf, BytesOf, Bad, Ints, Signed
<1> QED
  BY <1>3, <1>4, <1>5, <1>6, <1>7 DEF PlainTypes

\* An element that was given, and the value it was taken for.
Accepted(f, e, sub, value) ==
    /\ ~Is(e, "null") /\ ~Is(e, "arr") /\ (Is(e, "obj") <=> f.type = "message")
    /\ IF f.type = "message" THEN value = sub.pb /\ ~sub.failed
       ELSE ValueOf(f, e) = <<value>>

\* The values with one more, or that one.
With(f, has, value) == IF f.label = "repeated" THEN has \o <<value>> ELSE <<value>>

\* A null is not given, and what does not fail is accepted.
LEMMA OneElement ==
    ASSUME NEW f, f.type \in PlainTypes \cup {"message"}, NEW has, NEW e, NEW sub,
           ~j2p_assign_field(f, has, e, sub).failed
    PROVE  LET then == j2p_assign_field(f, has, e, sub).has
           IN IF Is(e, "null") THEN then = has
              ELSE \E value :
                      /\ Accepted(f, e, sub, value)
                      /\ then = With(f, has, value)
                      /\ f.label = "optional" => has = <<>>
<1>1. CASE Is(e, "null")
  BY <1>1 DEF j2p_assign_field, Assigned
<1>2. CASE ~Is(e, "null") /\ f.type = "message"
  <2>1. j2p_assign_field(f, has, e, sub) = Assigned(f, has, e, <<sub.pb>>, sub.failed)
    BY <1>2 DEF j2p_assign_field
  <2>2. ~Refused(f, has, e)
    BY <1>2, <2>1 DEF Assigned
  <2>3. Assigned(f, has, e, <<sub.pb>>, sub.failed)
          = [has |-> With(f, has, sub.pb),
             failed |-> sub.failed]
    BY <1>2, <2>2 DEF Assigned, Bad, With
  <2>4. ~sub.failed
    BY <2>1, <2>3
  <2>5. Accepted(f, e, sub, sub.pb)
    BY <1>2, <2>2, <2>4 DEF Accepted, Refused, Is
  <2>6. f.label = "optional" => has = <<>>
    BY <2>2 DEF Refused
  <2>7. j2p_assign_field(f, has, e, sub).has
          = With(f, has, sub.pb)
    BY <2>1, <2>3
  <2> QED
    BY <1>2, <2>5, <2>6, <2>7
<1>3. CASE ~Is(e, "null") /\ f.type # "message"
  <2>1. j2p_assign_field(f, has, e, sub) = Assigned(f, has, e, ValueOf(f, e), FALSE)
    BY <1>3 DEF j2p_assign_field
  <2>2. ~Refused(f, has, e) /\ ValueOf(f, e) # Bad
    BY <1>3, <2>1 DEF Assigned
  <2>3. PICK value : ValueOf(f, e) = <<value>>
    BY <1>3, <2>2, ValuesAreOne
  <2>4. j2p_assign_field(f, has, e, sub) = [has |-> With(f, has, value), failed |-> FALSE]
    BY <1>3, <2>2, <2>3 DEF j2p_assign_field, Assigned, Bad, With
  <2>5. Accepted(f, e, sub, value)
    BY <1>3, <2>2, <2>3 DEF Accepted, Refused, Is
  <2>6. f.label = "optional" => has = <<>>
    BY <2>2 DEF Refused
  <2>7. j2p_assign_field(f, has, e, sub).has
          = With(f, has, value)
    BY <2>4
  <2> QED
    BY <1>3, <2>5, <2>6, <2>7
<1> QED
  BY <1>1, <1>2, <1>3

LEMMA NeitherFailed ==
    ASSUME NEW r, NEW failed, ~AlsoFailed(r, failed).failed
    PROVE  ~r.failed /\ ~failed /\ AlsoFailed(r, failed).has = r.has
BY DEF AlsoFailed

\* An element that was given became a value.
Became(f, elems, subs, e, value) ==
    \E i \in 1..Len(elems) : e = elems[i] /\ Accepted(f, e, subs[i], value)

\* An array has a value for every element, in their order, if nothing failed.
LEMMA ArrayAssigned ==
    ASSUME NEW f, f.type = "message", f.label = "repeated",
           NEW elems, NEW T, elems \in Seq(T), NEW subs,
           ~AssignKey(f, <<>>, elems, subs).failed
    PROVE  LET given == NotNull(elems)
               has == AssignKey(f, <<>>, elems, subs).has
           IN /\ given \in Seq(T) /\ Len(has) = Len(given)
              /\ \A k \in 1..Len(given) : Became(f, elems, subs, given[k], has[k])
<1> DEFINE n == Len(elems)
           S == { subs[i].pb : i \in 1..n }
<1>1. PICK a : /\ a = AssignElements(f, <<>>, elems, subs)
               /\ AssignKey(f, <<>>, elems, subs) = a[n]
  BY DEF AssignKey
<1>2. n \in Nat /\ n \in 0..n
  OBVIOUS
<1>3. /\ a[0] = [has |-> <<>>, failed |-> FALSE]
      /\ \A i \in 1..n : a[i] = AlsoFailed(j2p_assign_field(f, a[i - 1].has, elems[i], subs[i]),
                                           a[i - 1].failed)
  <2>1. Len(elems) \in Nat
    BY <1>2
  <2>2. OneByOne(a, f, <<>>, elems, subs)
    BY <1>1, <2>1, Unfolded
  <2> QED
    BY <2>2 DEF OneByOne
<1>4. PICK upTo : /\ upTo[0] = <<>> /\ NotNull(elems) = upTo[n]
                  /\ \A i \in 1..n : upTo[i] = IF Is(elems[i], "null") THEN upTo[i - 1]
                                               ELSE Append(upTo[i - 1], elems[i])
  BY <1>2, NotNullUnfolded
<1> DEFINE Done(has, given) ==
             /\ has \in Seq(S) /\ given \in Seq(T) /\ Len(has) = Len(given)
             /\ \A k \in 1..Len(given) : Became(f, elems, subs, given[k], has[k])
           Good == { i \in 0..n : a[i].failed \/ Done(a[i].has, upTo[i]) }
<1>5. 0 \in Good
  <2>1. Done(<<>>, <<>>)
    OBVIOUS
  <2> HIDE DEF Done
  <2> QED
    BY <1>2, <1>3, <1>4, <2>1
<1>6. ASSUME NEW i \in 0..n - 1, i \in Good
      PROVE  i + 1 \in Good
  <2>1. i + 1 \in 0..n /\ i + 1 \in 1..n /\ (i + 1) - 1 = i
    BY <1>2
  <2> SUFFICES ASSUME ~a[i + 1].failed
               PROVE  Done(a[i + 1].has, upTo[i + 1])
    BY <2>1
  <2>2. PICK has, e, sub, given :
           has = a[i].has /\ e = elems[i + 1] /\ sub = subs[i + 1] /\ given = upTo[i]
    OBVIOUS
  <2>3. PICK r : r = j2p_assign_field(f, has, e, sub)
    OBVIOUS
  <2>4. a[i + 1] = AlsoFailed(r, a[i].failed)
    BY <1>3, <2>1, <2>2, <2>3
  <2>5. ~r.failed /\ ~a[i].failed /\ a[i + 1].has = r.has
    BY <2>4, NeitherFailed
  <2>6. Done(has, given)
    BY <1>6, <2>2, <2>5
  <2>7. upTo[i + 1] = IF Is(e, "null") THEN given ELSE Append(given, e)
    BY <1>4, <2>1, <2>2
  <2>8. CASE Is(e, "null")
    <3>1. r.has = has
      BY <2>3, <2>5, <2>8, OneElement
    <3> HIDE DEF Done
    <3> QED
      BY <2>5, <2>6, <2>7, <2>8, <3>1
  <2>9. CASE ~Is(e, "null")
    <3>0. f.type \in PlainTypes \cup {"message"}
      OBVIOUS
    <3>1. PICK value : Accepted(f, e, sub, value) /\ r.has = With(f, has, value)
      BY <2>3, <2>5, <2>9, <3>0, OneElement
    <3>6. r.has = has \o <<value>>
      BY <3>1 DEF With
    <3>2. value \in S
      BY <2>1, <2>2, <3>1 DEF Accepted
    <3>3. e \in T
      BY <2>1, <2>2, ElementOfSeq
    <3>4. Became(f, elems, subs, e, value)
      BY <2>1, <2>2, <3>1 DEF Became
    <3> HIDE DEF S
    <3>5. Done(has \o <<value>>, Append(given, e))
      <4>1. /\ has \in Seq(S) /\ given \in Seq(T) /\ Len(has) = Len(given)
            /\ \A k \in 1..Len(given) : Became(f, elems, subs, given[k], has[k])
        BY <2>6
      <4>2. has \o <<value>> = Append(has, value)
        BY <3>2, <4>1
      <4>3. /\ Append(has, value) \in Seq(S) /\ Append(given, e) \in Seq(T)
            /\ Len(Append(has, value)) = Len(has) + 1
            /\ Len(Append(given, e)) = Len(given) + 1
        BY <3>2, <3>3, <4>1
      <4>4. \A k \in 1..Len(given) + 1 :
               /\ Append(given, e)[k] = IF k <= Len(given) THEN given[k] ELSE e
               /\ Append(has, value)[k] = IF k <= Len(given) THEN has[k] ELSE value
        BY <3>2, <3>3, <4>1
      <4>5. \A k \in 1..Len(given) + 1 :
               Became(f, elems, subs, Append(given, e)[k], Append(has, value)[k])
        BY <3>4, <4>1, <4>4
      <4> QED
        BY <4>1, <4>2, <4>3, <4>5
    <3> HIDE DEF Done
    <3> QED
      BY <2>5, <2>7, <2>9, <3>6, <3>5
  <2> QED
    BY <2>8, <2>9
<1>7. n \in Good
  <2> HIDE DEF Good, n
  <2> QED
    BY <1>2, <1>5, <1>6, UpToHold
<1>8. Done(a[n].has, upTo[n])
  <2> HIDE DEF Done
  <2> QED
    BY <1>1, <1>7
<1> QED
  BY <1>1, <1>4, <1>8

\* Of what a field that is no array is given, the last counts.
LEMMA LastAssigned ==
    ASSUME NEW f, f.type \in PlainTypes \cup {"message"}, f.label \in {"required", "optional"},
           NEW first, f.label = "optional" => first = <<>>,
           NEW elems, NEW T, elems \in Seq(T), NEW subs,
           ~AssignKey(f, first, elems, subs).failed
    PROVE  LET given == NotNull(elems)
               has == AssignKey(f, first, elems, subs).has
           IN /\ given \in Seq(T)
              /\ given = <<>> => has = first
              /\ given # <<>> => /\ Len(has) = 1
                                 /\ Became(f, elems, subs, given[Len(given)], has[1])
              /\ f.label = "optional" => Len(given) <= 1
<1> DEFINE n == Len(elems)
<1>1. PICK a : /\ a = AssignElements(f, first, elems, subs)
               /\ AssignKey(f, first, elems, subs) = a[n]
  BY DEF AssignKey
<1>2. n \in Nat /\ n \in 0..n
  OBVIOUS
<1>3. /\ a[0] = [has |-> first, failed |-> FALSE]
      /\ \A i \in 1..n : a[i] = AlsoFailed(j2p_assign_field(f, a[i - 1].has, elems[i], subs[i]),
                                           a[i - 1].failed)
  <2>1. Len(elems) \in Nat
    BY <1>2
  <2>2. OneByOne(a, f, first, elems, subs)
    BY <1>1, <2>1, Unfolded
  <2> QED
    BY <2>2 DEF OneByOne
<1>4. PICK upTo : /\ upTo[0] = <<>> /\ NotNull(elems) = upTo[n]
                  /\ \A i \in 1..n : upTo[i] = IF Is(elems[i], "null") THEN upTo[i - 1]
                                               ELSE Append(upTo[i - 1], elems[i])
  BY <1>2, NotNullUnfolded
<1> DEFINE Done(has, given) ==
             /\ given \in Seq(T)
             /\ given = <<>> => has = first
             /\ given # <<>> => /\ Len(has) = 1
                                /\ Became(f, elems, subs, given[Len(given)], has[1])
             /\ f.label = "optional" => Len(given) <= 1
           Good == { i \in 0..n : a[i].failed \/ Done(a[i].has, upTo[i]) }
<1>5. 0 \in Good
  <2>1. Done(first, <<>>)
    OBVIOUS
  <2> HIDE DEF Done
  <2> QED
    BY <1>2, <1>3, <1>4, <2>1
<1>6. ASSUME NEW i \in 0..n - 1, i \in Good
      PROVE  i + 1 \in Good
  <2>1. i + 1 \in 0..n /\ i + 1 \in 1..n /\ (i + 1) - 1 = i
    BY <1>2
  <2> SUFFICES ASSUME ~a[i + 1].failed
               PROVE  Done(a[i + 1].has, upTo[i + 1])
    BY <2>1
  <2>2. PICK has, e, sub, given :
           has = a[i].has /\ e = elems[i + 1] /\ sub = subs[i + 1] /\ given = upTo[i]
    OBVIOUS
  <2>3. PICK r : r = j2p_assign_field(f, has, e, sub)
    OBVIOUS
  <2>4. a[i + 1] = AlsoFailed(r, a[i].failed)
    BY <1>3, <2>1, <2>2, <2>3
  <2>5. ~r.failed /\ ~a[i].failed /\ a[i + 1].has = r.has
    BY <2>4, NeitherFailed
  <2>6. Done(has, given)
    BY <1>6, <2>2, <2>5
  <2>7. upTo[i + 1] = IF Is(e, "null") THEN given ELSE Append(given, e)
    BY <1>4, <2>1, <2>2
  <2>8. CASE Is(e, "null")
    <3>1. r.has = has
      BY <2>3, <2>5, <2>8, OneElement
    <3> HIDE DEF Done
    <3> QED
      BY <2>5, <2>6, <2>7, <2>8, <3>1
  <2>9. CASE ~Is(e, "null")
    <3>1. PICK value : /\ Accepted(f, e, sub, value) /\ r.has = <<value>>
                       /\ f.label = "optional" => has = <<>>
      BY <2>3, <2>5, <2>9, OneElement DEF With
    <3>2. e \in T
      BY <2>1, <2>2, ElementOfSeq
    <3>3. Became(f, elems, subs, e, value)
      BY <2>1, <2>2, <3>1 DEF Became
    <3>4. f.label = "optional" => given = <<>>
      BY <2>6, <3>1
    <3>5. Done(<<value>>, Append(given, e))
      <4>1. given \in Seq(T)
        BY <2>6
      <4>2. PICK more : more = Append(given, e)
        OBVIOUS
      <4>3. /\ more \in Seq(T) /\ more # <<>>
            /\ Len(more) = Len(given) + 1 /\ more[Len(more)] = e
        BY <3>2, <4>1, <4>2
      <4>4. f.label = "optional" => Len(more) <= 1
        BY <3>4, <4>3
      <4>5. Len(<<value>>) = 1 /\ <<value>>[1] = value
        OBVIOUS
      <4>6. Done(<<value>>, more)
        BY <3>3, <4>3, <4>4, <4>5
      <4> QED
        BY <4>2, <4>6
    <3> HIDE DEF Done
    <3> QED
      BY <2>5, <2>7, <2>9, <3>1, <3>5
  <2> QED
    BY <2>8, <2>9
<1>7. n \in Good
  <2> HIDE DEF Good, n
  <2> QED
    BY <1>2, <1>5, <1>6, UpToHold
<1>8. Done(a[n].has, upTo[n])
  <2> HIDE DEF Done
  <2> QED
    BY <1>1, <1>7
<1> QED
  BY <1>1, <1>4, <1>8

\* What a string says as a boolean when nothing of it is left.
LEMMA WordsMean ==
    ASSUME NEW s \in Seq(STRING), fabd_strtobool(s).taken = Len(s)
    PROVE  LET b == fabd_strtobool(s).value
           IN \/ b /\ s \in {<<"always">>, <<"true">>, <<"yes">>, <<"on">>}
              \/ b /\ IsNumeral(s) /\ s # <<"0">>
              \/ ~b /\ s \in {<<>>, <<"0">>, <<"no">>, <<"off">>, <<"none">>,
                             <<"never">>, <<"false">>}
<1> DEFINE word == Keyword(s)
           digits == strtol(s).taken
<1>1. fabd_strtobool(s) = IF word # 0 THEN [value |-> word > FalseWords, taken |-> 1]
                          ELSE [value |-> digits > 0, taken |-> digits]
  BY DEF fabd_strtobool, SaysTrue
<1>2. /\ DOMAIN Keywords = 1..10 /\ Len(Keywords) = 10
      /\ Keywords[1] = "false" /\ Keywords[2] = "never" /\ Keywords[3] = "none"
      /\ Keywords[4] = "off" /\ Keywords[5] = "no" /\ Keywords[6] = "0"
      /\ Keywords[7] = "always" /\ Keywords[8] = "true" /\ Keywords[9] = "yes"
      /\ Keywords[10] = "on"
  BY DEF Keywords
<1>3. s # <<>> /\ Contains(Keywords, Head(s)) =>
         word \in 1..10 /\ Keywords[word] = Head(s)
  <2> SUFFICES ASSUME s # <<>>, Contains(Keywords, Head(s))
               PROVE  word \in 1..10 /\ Keywords[word] = Head(s)
    OBVIOUS
  <2>1. word = CHOOSE i \in DOMAIN Keywords : Keywords[i] = Head(s)
    BY DEF Keyword, Place
  <2>2. \E i \in DOMAIN Keywords : Keywords[i] = Head(s)
    BY <1>2 DEF Contains
  <2> HIDE DEF word
  <2> QED
    BY <1>2, <2>1, <2>2
<1>4. ~(s # <<>> /\ Contains(Keywords, Head(s))) => word = 0
  BY DEF Keyword
<1> HIDE DEF word, digits
<1>5. CASE word # 0
  <2>1. word \in 1..10 /\ Keywords[word] = Head(s) /\ Len(s) = 1
    BY <1>1, <1>3, <1>4, <1>5
  <2>2. s = <<Keywords[word]>>
    BY <2>1
  <2>3. fabd_strtobool(s).value = (word > 6)
    BY <1>1, <1>5 DEF FalseWords
  <2>4. CASE word \in 1..6
    <3>0. ~(word > 6)
      BY <2>4
    <3>1. ~fabd_strtobool(s).value
      BY <2>3, <3>0, Zenon
    <3>2. s \in {<<>>, <<"0">>, <<"no">>, <<"off">>, <<"none">>, <<"never">>, <<"false">>}
      BY <1>2, <2>2, <2>4
    <3> QED
      BY <3>1, <3>2
  <2>5. CASE word \in 7..10
    <3>0. word > 6
      BY <2>5
    <3>1. fabd_strtobool(s).value
      BY <2>3, <3>0, Zenon
    <3>2. s \in {<<"always">>, <<"true">>, <<"yes">>, <<"on">>}
      BY <1>2, <2>2, <2>5
    <3> QED
      BY <3>1, <3>2
  <2> QED
    BY <2>1, <2>4, <2>5
<1>6. CASE word = 0
  <2>1. digits = Len(s) /\ fabd_strtobool(s).value = (digits > 0)
    BY <1>1, <1>6
  <2>2. CASE s = <<>>
    <3>0. ~(digits > 0)
      BY <2>1, <2>2
    <3>1. ~fabd_strtobool(s).value
      BY <2>1, <3>0, Zenon
    <3> QED
      BY <2>2, <3>1
  <2>3. CASE s # <<>>
    <3>1. Len(s) > 0
      BY <2>3, EmptySeq
    <3>0. digits > 0
      BY <2>1, <3>1
    <3>2. fabd_strtobool(s).value
      BY <2>1, <3>0, Zenon
    <3>3. IsNumeral(s)
      BY <2>1, <2>3 DEF IsNumeral, digits
    <3>4. s # <<"0">>
      <4> SUFFICES ASSUME s = <<"0">>
                   PROVE  FALSE
        OBVIOUS
      <4>1. Contains(Keywords, Head(s))
        BY <1>2 DEF Contains
      <4> QED
        BY <1>3, <1>6, <2>3, <4>1
    <3> QED
      BY <3>2, <3>3, <3>4
  <2> QED
    BY <2>2, <2>3
<1> QED
  BY <1>5, <1>6

\* Of the numbers that fit in P, only 0 is 0 once it was cut to P.
LEMMA CutToZero ==
    ASSUME NEW P \in Nat, NEW a \in Int, -P < a, a < P, a % P = 0
    PROVE  a = 0
<1>1. CASE a >= 0
  <2>1. a % P = a
    BY <1>1
  <2> QED
    BY <2>1
<1>2. CASE a < 0
  <2>1. a % P = a + P
    BY <1>2
  <2> QED
    BY <1>2, <2>1
<1> QED
  BY <1>1, <1>2

\* What is not cut is a number as it stands.
LEMMA PlainUnderstood ==
    ASSUME NEW j \in Json, NEW v, NumberOf(j) = <<v>>, ~Is(j, "str")
    PROVE  MeansPlain(j, v)
<1>1. \/ DOMAIN j = {"bool"} /\ j.bool \in BOOLEAN
      \/ DOMAIN j = {"int"}
      \/ DOMAIN j = {"real"}
  BY JsonAssumption DEF Is, NumberOf, Bad
<1> QED
  BY <1>1 DEF MeansPlain, NumberOf, Is

LEMMA IntegerUnderstood ==
    ASSUME NEW j \in Json, NEW v, IntegerOf(j) = <<v>>
    PROVE  MeansInteger(j, v)
<1>1. CASE ~Is(j, "str")
  BY <1>1, PlainUnderstood DEF IntegerOf, MeansInteger
<1>2. CASE Is(j, "str")
  <2> DEFINE size == strtol(Unsigned(j.str)).value
  <2>1. IntegerIn(j.str) = <<v>>
    BY <1>2 DEF IntegerOf
  <2>2. /\ IsNumeral(Unsigned(j.str))
        /\ v = IF Negative(j.str) THEN -Wrapped(size) ELSE Wrapped(size)
    BY <2>1 DEF IntegerIn, Bad
  <2>3. 0 <= size => Wrapped(size) = size
    BY DEF Wrapped
  <2> HIDE DEF size
  <2> QED
    BY <1>2, <2>2, <2>3 DEF MeansInteger, size
<1> QED
  BY <1>1, <1>2

LEMMA BoolUnderstood ==
    ASSUME NEW j \in Json, NEW v, BoolOf(j) = <<v>>
    PROVE  MeansBool(j, v)
<1>1. \/ DOMAIN j = {"bool"} /\ j.bool \in BOOLEAN
      \/ DOMAIN j = {"int"} /\ j.int \in Int
      \/ DOMAIN j = {"real"} /\ j.real \in Int
      \/ DOMAIN j = {"str"} /\ j.str \in Seq(STRING)
  <2>1. Is(j, "bool") \/ Is(j, "int") \/ Is(j, "real") \/ Is(j, "str")
    BY DEF BoolOf, Bad
  <2> QED
    BY <2>1, JsonAssumption DEF Is
<1>2. CASE DOMAIN j = {"bool"}
  BY <1>2 DEF BoolOf, MeansBool, Is
<1>3. CASE DOMAIN j = {"int"} /\ j.int \in Int
  <2> DEFINE P == 2^Narrow
  <2>1. P \in Nat /\ 1 < P /\ 2^(Narrow - 1) \in Nat /\ 2^(Narrow - 1) < P
    BY FabdJsonAssumption
  <2>2. v = (j.int % P # 0)
    BY <1>3 DEF BoolOf, Is
  <2>3. ASSUME v PROVE j.int # 0
    <3>1. j.int % P # 0
      BY <2>2, <2>3
    <3> HIDE DEF P
    <3>2. 0 % P = 0
      BY <2>1
    <3> QED
      BY <3>1, <3>2
  <2>4. ASSUME Holds("int32", j.int), j.int # 0 PROVE v
    <3>1. -P < j.int /\ j.int < P
      BY <1>3, <2>1, <2>4 DEF Holds, Signed, Bits
    <3> HIDE DEF P
    <3>2. j.int % P # 0
      BY <1>3, <2>1, <2>4, <3>1, CutToZero
    <3> QED
      BY <2>2, <3>2, Zenon
  <2> QED
    BY <1>3, <2>3, <2>4 DEF MeansBool, Is
<1>4. CASE DOMAIN j = {"real"}
  BY <1>4 DEF BoolOf, MeansBool, Is
<1>5. CASE DOMAIN j = {"str"} /\ j.str \in Seq(STRING)
  <2>1. PICK b : b = fabd_strtobool(j.str)
    OBVIOUS
  <2>2. <<v>> = WholeBool(j.str, b)
    BY <1>5, <2>1 DEF BoolOf, Is
  <2>3. b.taken = Len(j.str) /\ v = b.value
    BY <2>2 DEF WholeBool, Bad
  <2>4. \/ v /\ j.str \in {<<"always">>, <<"true">>, <<"yes">>, <<"on">>}
        \/ v /\ IsNumeral(j.str) /\ j.str # <<"0">>
        \/ ~v /\ j.str \in {<<>>, <<"0">>, <<"no">>, <<"off">>, <<"none">>,
                           <<"never">>, <<"false">>}
    BY <1>5, <2>1, <2>3, WordsMean
  <2> QED
    BY <1>5, <2>4 DEF MeansBool, Is
<1> QED
  BY <1>1, <1>2, <1>3, <1>4, <1>5

LEMMA NameUnderstood ==
    ASSUME NEW names, \A word \in DOMAIN names : ~IsNumeral(word),
           NEW j \in Json, NEW v, EnumOf(names, j, NumberOf(j)) = <<v>>
    PROVE  MeansName(names, j, v)
<1> DEFINE n == NumberOf(j)
<1>1. n = Bad \/ \E k : n = <<k>>
  BY NumbersAreOne
<1>2. CASE Is(j, "str")
  <2>1. n = WholeNumber(j.str, strtol(j.str))
    <3>1. DOMAIN j = {"str"}
      BY <1>2, JsonAssumption DEF Is
    <3> QED
      BY <3>1 DEF NumberOf, Is
  <2> HIDE DEF n
  <2>2. CASE n # Bad /\ Holds("enum", n[1])
    <3>1. IsNumeral(j.str) /\ n = <<strtol(j.str).value>>
      BY <2>1, <2>2 DEF WholeNumber, IsNumeral
    <3>2. n = <<v>>
      BY <1>1, <1>2, <2>2 DEF EnumOf, Is, Bad, n
    <3> QED
      BY <1>2, <3>1, <3>2 DEF MeansName
  <2>3. CASE ~(n # Bad /\ Holds("enum", n[1]))
    <3>1. j.str \in DOMAIN names /\ v = names[j.str]
      BY <1>2, <2>3 DEF EnumOf, Bad, n
    <3> QED
      BY <1>2, <3>1 DEF MeansName
  <2> QED
    BY <2>2, <2>3
<1>3. CASE ~Is(j, "str")
  <2>1. n = <<v>>
    BY <1>1, <1>3 DEF EnumOf, Bad
  <2> QED
    BY <1>3, <2>1, PlainUnderstood DEF MeansName
<1> QED
  BY <1>2, <1>3

LEMMA RealUnderstood ==
    ASSUME NEW j \in Json, NEW v, HalvesOf(j) = <<v>>
    PROVE  MeansReal(j, v)
<1>1. \/ DOMAIN j = {"bool"} /\ j.bool \in BOOLEAN
      \/ DOMAIN j = {"int"} /\ j.int \in Int
      \/ DOMAIN j = {"real"}
      \/ DOMAIN j = {"str"}
  <2>1. Is(j, "bool") \/ Is(j, "int") \/ Is(j, "real") \/ Is(j, "str")
    BY DEF HalvesOf, NumberOf, Doubled, Bad
  <2> QED
    BY <2>1, JsonAssumption DEF Is
<1>2. CASE DOMAIN j = {"bool"} /\ j.bool \in BOOLEAN
  <2>1. NumberOf(j) = <<IF j.bool THEN 1 ELSE 0>>
    BY <1>2 DEF NumberOf, Is
  <2>2. v = 2 * (IF j.bool THEN 1 ELSE 0)
    BY <1>2, <2>1 DEF HalvesOf, Doubled, Is, Bad
  <2> QED
    BY <1>2, <2>2 DEF MeansReal, Is
<1>3. CASE DOMAIN j = {"int"}
  BY <1>3 DEF HalvesOf, Doubled, NumberOf, MeansReal, Is, Bad
<1>4. CASE DOMAIN j = {"real"}
  BY <1>4 DEF HalvesOf, MeansReal, Is
<1>5. CASE DOMAIN j = {"str"}
  <2>1. WholeNumber(j.str, strtod(j.str)) = <<v>>
    BY <1>5 DEF HalvesOf, Is
  <2>2. strtod(j.str).value = v /\ strtod(j.str).taken = Len(j.str)
    BY <2>1 DEF WholeNumber, Bad
  <2> QED
    BY <1>5, <2>2 DEF MeansReal, Is
<1> QED
  BY <1>1, <1>2, <1>3, <1>4, <1>5

LEMMA BytesUnderstood ==
    ASSUME NEW s \in Seq(STRING), NEW v, BytesOf(hex2bin(s, Len(s) \div 2)) = <<v>>
    PROVE  /\ Len(s) = 2 * Len(v)
           /\ \A i \in DOMAIN v :
                 LET high == HexDigit(s[2 * i - 1])
                     low == HexDigit(s[2 * i])
                 IN high \in 0..15 /\ low \in 0..15 /\ v[i] = 16 * high + low
<1> DEFINE n == Len(s) \div 2
<1>1. n \in Nat
  OBVIOUS
<1>2. hex2bin(s, n).ok
  BY DEF BytesOf, Bad
<1>3. /\ Len(s) = 2 * n /\ \A i \in DOMAIN s : HexDigit(s[i]) # -1
      /\ v = [i \in 1..n |-> 16 * HexDigit(s[2 * i - 1]) + HexDigit(s[2 * i])]
  BY <1>2 DEF hex2bin, NotHex, BytesOf
<1>4. ASSUME NEW k \in DOMAIN s PROVE HexDigit(s[k]) \in 0..15
  <2>1. HexDigit(s[k]) # -1
    BY <1>3
  <2> QED
    BY <2>1, HexRange, Zenon
<1> HIDE DEF n
<1>5. Len(v) = n /\ DOMAIN v = 1..n
  BY <1>1, <1>3
<1> SUFFICES ASSUME NEW i \in 1..n
             PROVE  /\ HexDigit(s[2 * i - 1]) \in 0..15 /\ HexDigit(s[2 * i]) \in 0..15
                    /\ v[i] = 16 * HexDigit(s[2 * i - 1]) + HexDigit(s[2 * i])
  BY <1>3, <1>5
<1>6. 2 * i - 1 \in DOMAIN s /\ 2 * i \in DOMAIN s
  BY <1>1, <1>3
<1>7. HexDigit(s[2 * i - 1]) \in 0..15 /\ HexDigit(s[2 * i]) \in 0..15
  BY <1>4, <1>6
<1>8. v[i] = 16 * HexDigit(s[2 * i - 1]) + HexDigit(s[2 * i])
  BY <1>3
<1> QED
  BY <1>7, <1>8

\* What a value is taken for is what is meant by it.
LEMMA Understood ==
    ASSUME NEW f, f.type \in PlainTypes, f.type = "enum" => f.of \in DOMAIN Enums,
           NEW j \in Json, NEW v, ValueOf(f, j) = <<v>>
    PROVE  Means(f, j, v)
<1>1. CASE f.type \in Ints
  <2>1. IntOf(f.type, IntegerOf(j)) = <<v>>
    BY <1>1 DEF ValueOf, Ints, Signed
  <2>2. IntegerOf(j) = <<v>>
    BY <2>1 DEF IntOf, Bad
  <2> QED
    BY <1>1, <2>2, IntegerUnderstood DEF Means, Ints, Signed
<1>2. CASE f.type \in {"float", "double"}
  <2>1. RealOf(f.type, HalvesOf(j)) = <<v>>
    BY <1>2 DEF ValueOf, Ints, Signed
  <2>2. HalvesOf(j) = <<v>>
    BY <2>1 DEF RealOf, Bad
  <2> QED
    BY <1>2, <2>2, RealUnderstood DEF Means, Ints, Signed
<1>3. CASE f.type = "bool"
  <2>1. BoolOf(j) = <<v>>
    BY <1>3 DEF ValueOf, Ints, Signed
  <2> QED
    BY <1>3, <2>1, BoolUnderstood DEF Means, Ints, Signed
<1>4. CASE f.type = "enum"
  <2>1. EnumOf(Enums[f.of], j, NumberOf(j)) = <<v>>
    BY <1>4 DEF ValueOf, Ints, Signed
  <2>2. \A word \in DOMAIN Enums[f.of] : ~IsNumeral(word)
    BY <1>4, FabdJsonAssumption
  <2>3. MeansName(Enums[f.of], j, v)
    BY <2>1, <2>2, NameUnderstood
  <2> QED
    BY <1>4, <2>3 DEF Means, Ints, Signed
<1>5. CASE f.type = "bytes"
  <2>1. Is(j, "str") /\ BytesOf(hex2bin(j.str, Len(j.str) \div 2)) = <<v>>
    BY <1>5 DEF ValueOf, Ints, Signed, Bad
  <2>2. j.str \in Seq(STRING)
    BY <2>1, JsonAssumption DEF Is
  <2>3. MeansBytes(j, v)
    BY <2>1, <2>2, BytesUnderstood DEF MeansBytes
  <2> QED
    BY <1>5, <2>3 DEF Means, Ints, Signed
<1> QED
  BY <1>1, <1>2, <1>3, <1>4, <1>5 DEF PlainTypes

\* What did not fail has no unknown key, and each field is what its key gave.
LEMMA KeysAssigned ==
    ASSUME NEW m, NEW j, NEW inner, ~Converted(m, j, inner).failed
    PROVE  /\ Keys(j) \subseteq Names(m)
           /\ \A name \in Names(m) :
                 LET r == AssignKey(Field(m, name), Blank(m)[name], Elements(j.obj[name]),
                                    inner[name])
                     has == Converted(m, j, inner).pb[name]
                 IN IF name \in Keys(j) THEN ~r.failed /\ has = r.has
                    ELSE has = Blank(m)[name]
<1> DEFINE given == [name \in Keys(j) \cap Names(m) |->
                       AssignKey(Field(m, name), Blank(m)[name], Elements(j.obj[name]),
                                 inner[name])]
<1>1. Converted(m, j, inner) = Message(m, Keys(j) \ Names(m), given)
  BY DEF Converted
<1>2. DOMAIN given = Keys(j) \cap Names(m)
  OBVIOUS
<1>3. \A name \in Keys(j) \cap Names(m) :
         given[name] = AssignKey(Field(m, name), Blank(m)[name], Elements(j.obj[name]),
                                 inner[name])
  OBVIOUS
<1> HIDE DEF given
<1>4. /\ Keys(j) \ Names(m) = {}
      /\ \A name \in DOMAIN given : ~given[name].failed
  <2>1. PICK unknown, c : unknown = Keys(j) \ Names(m) /\ c = Converted(m, j, inner)
    OBVIOUS
  <2>2. c.failed = (unknown # {} \/ \E name \in DOMAIN given : given[name].failed)
    BY <1>1, <2>1 DEF Message
  <2>3. ~(unknown # {} \/ \E name \in DOMAIN given : given[name].failed)
    BY <2>1, <2>2, Zenon
  <2> QED
    BY <2>1, <2>3
<1>5. \A name \in Names(m) :
         Converted(m, j, inner).pb[name] = IF name \in DOMAIN given THEN given[name].has
                                           ELSE Blank(m)[name]
  BY <1>1 DEF Message
<1> QED
  BY <1>2, <1>3, <1>4, <1>5

LEMMA NoMoreThanOne ==
    ASSUME NEW n \in Nat, n # 0, n <= 1
    PROVE  n = 1
OBVIOUS

LEMMA ElementsOfKey ==
    ASSUME NEW j \in Json, Is(j, "obj"), NEW key \in DOMAIN j.obj
    PROVE  Elements(j.obj[key]) \in Seq(Json)
<1>1. j.obj[key] \in Json
  BY JsonAssumption DEF Is
<1>2. PICK e \in Json : e = j.obj[key]
  BY <1>1
<1>3. Elements(e) \in Seq(Json)
  BY JsonAssumption DEF Elements, Is
<1> QED
  BY <1>2, <1>3

\* A message of plain values says what the object says.
LEMMA SaysWhatIsGiven ==
    ASSUME NEW m \in DOMAIN Schema, Plain(m), NEW j \in Json, Is(j, "obj"), NEW inner,
           ~Converted(m, j, inner).failed
    PROVE  Says(m, j.obj, Converted(m, j, inner).pb)
<1> DEFINE pb == Converted(m, j, inner).pb
<1>1. Keys(j) = DOMAIN j.obj /\ DOMAIN j.obj \subseteq Names(m)
  BY KeysAssigned DEF Keys
<1>2. ASSUME NEW name \in Names(m)
      PROVE  LET f == Field(m, name)
                 given == Given(j.obj, name)
             IN /\ f.label = "optional" => Len(given) <= 1 /\ Len(pb[name]) = Len(given)
                /\ given # <<>> => Means(f, given[Len(given)], pb[name][1])
  <2>1. PICK f : f = Field(m, name)
    OBVIOUS
  <2>2. /\ f.type \in PlainTypes /\ f.label \in {"required", "optional"}
        /\ f.type = "enum" => f.of \in DOMAIN Enums
    BY <2>1, FieldOfSchema DEF Plain
  <2>3. PICK first : first = Blank(m)[name]
    OBVIOUS
  <2>4. f.label = "optional" => first = <<>>
    BY <2>1, <2>3, BlankOptional
  <2>5. PICK has, given : has = pb[name] /\ given = Given(j.obj, name)
    OBVIOUS
  <2> HIDE DEF pb
  <2>6. CASE name \notin DOMAIN j.obj
    <3>1. has = first
      BY <1>1, <2>3, <2>5, <2>6, KeysAssigned DEF pb
    <3>2. given = <<>> /\ Len(given) = 0
      BY <2>5, <2>6 DEF Given
    <3> QED
      BY <2>1, <2>4, <2>5, <3>1, <3>2
  <2>7. CASE name \in DOMAIN j.obj
    <3>1. PICK elems, subs : elems = Elements(j.obj[name]) /\ subs = inner[name]
      OBVIOUS
    <3>2. elems \in Seq(Json)
      BY <2>7, <3>1, ElementsOfKey
    <3>3. given = NotNull(elems)
      BY <2>5, <2>7, <3>1 DEF Given
    <3>4. ~AssignKey(f, first, elems, subs).failed /\ has = AssignKey(f, first, elems, subs).has
      BY <1>1, <2>1, <2>3, <2>5, <2>7, <3>1, KeysAssigned DEF pb
    <3>5. /\ given \in Seq(Json)
          /\ given = <<>> => has = first
          /\ given # <<>> => /\ Len(has) = 1
                             /\ Became(f, elems, subs, given[Len(given)], has[1])
          /\ f.label = "optional" => Len(given) <= 1
      <4>1. f.type \in PlainTypes \cup {"message"}
        BY <2>2
      <4> QED
        BY <2>2, <2>4, <3>2, <3>3, <3>4, <4>1, LastAssigned
    <3>6. f.label = "optional" => Len(has) = Len(given)
      <4>1. CASE given = <<>>
        BY <2>4, <3>5, <4>1
      <4>2. CASE given # <<>>
        <5>1. Len(given) \in Nat /\ Len(given) # 0
          BY <3>5, <4>2, EmptySeq
        <5>2. Len(has) = 1 /\ (f.label = "optional" => Len(given) <= 1)
          BY <3>5, <4>2
        <5> QED
          BY <5>1, <5>2, NoMoreThanOne
      <4> QED
        BY <4>1, <4>2
    <3>7. ASSUME given # <<>>
          PROVE  Means(f, given[Len(given)], has[1])
      <4>1. PICK e, v : e = given[Len(given)] /\ v = has[1]
        OBVIOUS
      <4>2. PICK i \in 1..Len(elems) : e = elems[i] /\ Accepted(f, e, subs[i], v)
        BY <3>5, <3>7, <4>1 DEF Became
      <4>3. e \in Json
        BY <3>2, <4>2, ElementOfSeq
      <4>4. f.type # "message"
        BY <2>2 DEF PlainTypes, Ints, Signed
      <4>5. /\ ~Is(e, "null") /\ ~Is(e, "arr") /\ ~Is(e, "obj") /\ ValueOf(f, e) = <<v>>
        BY <4>2, <4>4 DEF Accepted
      <4> QED
        BY <2>2, <4>1, <4>3, <4>5, Understood
    <3> QED
      BY <2>1, <2>5, <3>5, <3>6, <3>7
  <2> QED
    BY <2>6, <2>7
<1> QED
  BY <1>1, <1>2 DEF Says

\* So does a message in a message.
LEMMA InnerSays ==
    ASSUME NEW f, f.type = "message", f.of \in DOMAIN Schema, Plain(f.of),
           NEW elems \in Seq(Json), NEW subs,
           \A i \in 1..Len(elems) : subs[i] = ConvertedInner(f.of, elems[i]),
           NEW e, NEW v, Became(f, elems, subs, e, v)
    PROVE  Says(f.of, e.obj, v)
<1>1. PICK i \in 1..Len(elems) : e = elems[i] /\ Accepted(f, e, subs[i], v)
  BY DEF Became
<1>2. e \in Json
  BY <1>1, ElementOfSeq
<1>3. PICK sub : sub = Converted(f.of, e, NoneOf(e))
  OBVIOUS
<1>4. subs[i] = sub
  BY <1>1, <1>3 DEF ConvertedInner
<1>5. Is(e, "obj") /\ v = sub.pb /\ ~sub.failed
  BY <1>1, <1>4 DEF Accepted
<1> QED
  BY <1>2, <1>3, <1>5, SaysWhatIsGiven

\* The fields of a request.
CommandsField == F("SetHVACWire", "message", "repeated", "PbSetHVACWireRequest")
GoalsField == F("HVACGoals", "message", "optional", "PbHVACGoals")

LEMMA RequestFields ==
    /\ "PbRequest" \in DOMAIN Schema
    /\ Names("PbRequest") = {"SetHVACWire", "HVACGoals"}
    /\ Field("PbRequest", "SetHVACWire") = CommandsField
    /\ Field("PbRequest", "HVACGoals") = GoalsField
<1> DEFINE fields == Schema["PbRequest"]
<1>1. fields = <<CommandsField, GoalsField>>
  BY FabdCliAssumption DEF CommandsField, GoalsField
<1>2. CommandsField.name = "SetHVACWire" /\ GoalsField.name = "HVACGoals"
  BY DEF CommandsField, GoalsField, F
<1>3. /\ DOMAIN fields = {1, 2} /\ fields[1] = CommandsField /\ fields[2] = GoalsField
  BY <1>1
<1> HIDE DEF fields
<1>4. Names("PbRequest") = {"SetHVACWire", "HVACGoals"}
  BY <1>2, <1>3 DEF Names, fields
<1>5. \A i \in DOMAIN fields : /\ fields[i].name = "SetHVACWire" <=> i = 1
                               /\ fields[i].name = "HVACGoals" <=> i = 2
  BY <1>2, <1>3
<1>6. (CHOOSE i \in DOMAIN fields : fields[i].name = "SetHVACWire") = 1
  BY <1>3, <1>5
<1>7. (CHOOSE i \in DOMAIN fields : fields[i].name = "HVACGoals") = 2
  BY <1>3, <1>5
<1> QED
  BY <1>3, <1>4, <1>6, <1>7, FabdCliAssumption DEF Field, fields

\* A request that did not fail says what the JSON says.
LEMMA RequestSays ==
    ASSUME NEW j \in Json, Is(j, "obj"), ~json_to_protobuf("PbRequest", j).failed
    PROVE  SaysRequest(j.obj, json_to_protobuf("PbRequest", j).pb)
<1> DEFINE inside == [name \in Keys(j) \cap Names("PbRequest") |->
                        LET elems == Elements(j.obj[name])
                        IN [i \in DOMAIN elems |->
                              ConvertedInner(Field("PbRequest", name).of, elems[i])]]
<1>1. PICK inner : inner = inside
  OBVIOUS
<1>2. json_to_protobuf("PbRequest", j) = Converted("PbRequest", j, inner)
  BY <1>1 DEF json_to_protobuf
<1>3. \A name \in Keys(j) \cap Names("PbRequest") :
         \A i \in DOMAIN Elements(j.obj[name]) :
            inner[name][i] = ConvertedInner(Field("PbRequest", name).of,
                                            Elements(j.obj[name])[i])
  BY <1>1
<1> HIDE DEF inside
<1>4. PICK pb : pb = Converted("PbRequest", j, inner).pb
  OBVIOUS
<1>5. ~Converted("PbRequest", j, inner).failed
  BY <1>2
<1>6. /\ Keys(j) = DOMAIN j.obj
      /\ DOMAIN j.obj \subseteq {"SetHVACWire", "HVACGoals"}
  BY <1>5, KeysAssigned, RequestFields DEF Keys
<1>7. /\ CommandsField.type = "message" /\ CommandsField.label = "repeated"
      /\ CommandsField.of = "PbSetHVACWireRequest"
      /\ GoalsField.type = "message" /\ GoalsField.label = "optional"
      /\ GoalsField.of = "PbHVACGoals"
  BY DEF CommandsField, GoalsField, F
<1>8. /\ "PbSetHVACWireRequest" \in DOMAIN Schema /\ Plain("PbSetHVACWireRequest")
      /\ "PbHVACGoals" \in DOMAIN Schema /\ Plain("PbHVACGoals")
  BY FabdCliAssumption
<1>9. /\ Blank("PbRequest")["SetHVACWire"] = <<>> /\ Blank("PbRequest")["HVACGoals"] = <<>>
  BY <1>7, BlankOptional, RequestFields
<1>10. LET cmds == Given(j.obj, "SetHVACWire")
       IN /\ Len(pb.SetHVACWire) = Len(cmds)
          /\ \A i \in DOMAIN cmds :
                Says("PbSetHVACWireRequest", cmds[i].obj, pb.SetHVACWire[i])
  <2>1. PICK has, cmds : has = pb.SetHVACWire /\ cmds = Given(j.obj, "SetHVACWire")
    OBVIOUS
  <2>2. CASE "SetHVACWire" \notin DOMAIN j.obj
    <3>1. cmds = <<>>
      BY <2>1, <2>2 DEF Given
    <3>2. has = <<>>
      BY <1>4, <1>5, <1>6, <1>9, <2>1, <2>2, KeysAssigned, RequestFields
    <3> QED
      BY <2>1, <3>1, <3>2
  <2>3. CASE "SetHVACWire" \in DOMAIN j.obj
    <3>1. PICK elems, subs : elems = Elements(j.obj["SetHVACWire"]) /\ subs = inner["SetHVACWire"]
      OBVIOUS
    <3>2. elems \in Seq(Json) /\ DOMAIN elems = 1..Len(elems)
      BY <2>3, <3>1, ElementsOfKey
    <3>3. cmds = NotNull(elems)
      BY <2>1, <2>3, <3>1 DEF Given
    <3>4. LET r == AssignKey(CommandsField, <<>>, elems, subs)
          IN ~r.failed /\ has = r.has
      BY <1>4, <1>5, <1>6, <1>9, <2>1, <2>3, <3>1, KeysAssigned, RequestFields
    <3>5. /\ cmds \in Seq(Json) /\ Len(has) = Len(cmds)
          /\ \A k \in 1..Len(cmds) : Became(CommandsField, elems, subs, cmds[k], has[k])
      BY <1>7, <3>2, <3>3, <3>4, ArrayAssigned
    <3>6. \A i \in 1..Len(elems) : subs[i] = ConvertedInner(CommandsField.of, elems[i])
      BY <1>3, <1>6, <2>3, <3>1, <3>2, RequestFields
    <3>7. \A k \in 1..Len(cmds) : Says(CommandsField.of, cmds[k].obj, has[k])
      BY <1>7, <1>8, <3>2, <3>5, <3>6, InnerSays
    <3> QED
      BY <1>7, <2>1, <3>5, <3>7
  <2> QED
    BY <2>2, <2>3
<1>11. LET goals == Given(j.obj, "HVACGoals")
       IN /\ Len(goals) <= 1 /\ Len(pb.HVACGoals) = Len(goals)
          /\ goals # <<>> => Says("PbHVACGoals", goals[1].obj, pb.HVACGoals[1])
  <2>1. PICK has, goals : has = pb.HVACGoals /\ goals = Given(j.obj, "HVACGoals")
    OBVIOUS
  <2>2. CASE "HVACGoals" \notin DOMAIN j.obj
    <3>1. goals = <<>> /\ Len(goals) = 0
      BY <2>1, <2>2 DEF Given
    <3>2. has = <<>>
      BY <1>4, <1>5, <1>6, <1>9, <2>1, <2>2, KeysAssigned, RequestFields
    <3> QED
      BY <2>1, <3>1, <3>2
  <2>3. CASE "HVACGoals" \in DOMAIN j.obj
    <3>1. PICK elems, subs : elems = Elements(j.obj["HVACGoals"]) /\ subs = inner["HVACGoals"]
      OBVIOUS
    <3>2. elems \in Seq(Json) /\ DOMAIN elems = 1..Len(elems)
      BY <2>3, <3>1, ElementsOfKey
    <3>3. goals = NotNull(elems)
      BY <2>1, <2>3, <3>1 DEF Given
    <3>4. LET r == AssignKey(GoalsField, <<>>, elems, subs)
          IN ~r.failed /\ has = r.has
      BY <1>4, <1>5, <1>6, <1>9, <2>1, <2>3, <3>1, KeysAssigned, RequestFields
    <3>5. /\ goals \in Seq(Json) /\ Len(goals) <= 1
          /\ goals = <<>> => has = <<>>
          /\ goals # <<>> => /\ Len(has) = 1
                             /\ Became(GoalsField, elems, subs, goals[Len(goals)], has[1])
      <4>1. GoalsField.type \in PlainTypes \cup {"message"}
        BY <1>7
      <4> QED
        BY <1>7, <3>2, <3>3, <3>4, <4>1, LastAssigned
    <3>6. \A i \in 1..Len(elems) : subs[i] = ConvertedInner(GoalsField.of, elems[i])
      BY <1>3, <1>6, <2>3, <3>1, <3>2, RequestFields
    <3>7. CASE goals = <<>>
      <4>1. Len(goals) = 0 /\ Len(has) = 0
        BY <3>5, <3>7
      <4> QED
        BY <2>1, <3>7, <4>1
    <3>8. CASE goals # <<>>
      <4>1. Len(goals) \in Nat /\ Len(goals) # 0
        BY <3>5, <3>8, EmptySeq
      <4>2. Len(goals) <= 1 /\ Len(has) = 1
        BY <3>5, <3>8
      <4>3. Len(goals) = 1
        BY <4>1, <4>2, NoMoreThanOne
      <4>4. Became(GoalsField, elems, subs, goals[1], has[1])
        BY <3>5, <3>8, <4>3
      <4>5. Says("PbHVACGoals", goals[1].obj, has[1])
        BY <1>7, <1>8, <3>2, <3>6, <4>4, InnerSays
      <4> QED
        BY <2>1, <4>2, <4>3, <4>5
    <3> QED
      BY <3>7, <3>8
  <2> QED
    BY <2>2, <2>3
<1> QED
  BY <1>2, <1>4, <1>6, <1>10, <1>11 DEF SaysRequest

----------------------------------------------------------------------------
(* The two programs.                                                       *)

\* What a reply is like.
ReplyForm(r) ==
    /\ r = [SetHVACWireSuccess |-> r.SetHVACWireSuccess, HVACGoals |-> r.HVACGoals]
    /\ r.SetHVACWireSuccess \in Seq(BOOLEAN) /\ r.HVACGoals \in Goals

\* What remctl has sent, and when it ends well.
Remctl ==
    program = "remctl" =>
        /\ arg[2] \in ValueArgs
        /\ at = "waiting" \/ reply # <<>> => request # <<>>
        /\ request # <<>> =>
              request[1].SetHVACWire = <<[wire |-> <<Wire(arg[1])>>,
                                          connect |-> <<arg[2] = <<"1">>>>]>>
        /\ reply # <<>> => Len(reply[1].SetHVACWireSuccess) \in {0, 1}
        /\ at = "exit" /\ status = 0 =>
              /\ reply # <<>> /\ request # <<>> /\ reply[1].SetHVACWireSuccess # <<>>
              /\ reply[1].SetHVACWireSuccess[1]

\* What was printed, and of what.
Printed ==
    shown # <<>> => reply # <<>> /\ shown[1] = protobuf_to_json("PbRequestReply", reply[1])

CliInv ==
    /\ reply # <<>> => ReplyForm(reply[1])
    /\ Remctl /\ Printed

\* The field of a reply with the results.
ResultsField == F("SetHVACWireSuccess", "bool", "repeated", "")

LEMMA ReplyFields ==
    /\ Names("PbRequestReply") = {"SetHVACWireSuccess", "HVACGoals"}
    /\ Field("PbRequestReply", "SetHVACWireSuccess") = ResultsField
    /\ Field("PbRequestReply", "HVACGoals") = GoalsField
<1> DEFINE fields == Schema["PbRequestReply"]
<1>1. fields = <<ResultsField, GoalsField>>
  BY FabdCliAssumption DEF ResultsField, GoalsField
<1>2. ResultsField.name = "SetHVACWireSuccess" /\ GoalsField.name = "HVACGoals"
  BY DEF ResultsField, GoalsField, F
<1>3. /\ DOMAIN fields = {1, 2} /\ fields[1] = ResultsField /\ fields[2] = GoalsField
  BY <1>1
<1> HIDE DEF fields
<1>4. Names("PbRequestReply") = {"SetHVACWireSuccess", "HVACGoals"}
  BY <1>2, <1>3 DEF Names, fields
<1>5. \A i \in DOMAIN fields : /\ fields[i].name = "SetHVACWireSuccess" <=> i = 1
                               /\ fields[i].name = "HVACGoals" <=> i = 2
  BY <1>2, <1>3
<1>6. (CHOOSE i \in DOMAIN fields : fields[i].name = "SetHVACWireSuccess") = 1
  BY <1>3, <1>5
<1>7. (CHOOSE i \in DOMAIN fields : fields[i].name = "HVACGoals") = 2
  BY <1>3, <1>5
<1> QED
  BY <1>3, <1>4, <1>6, <1>7 DEF Field, fields

\* The results of up to two commands are printed as they are.
LEMMA ResultsShown ==
    ASSUME NEW results \in Seq(BOOLEAN), Len(results) <= 2, NEW subs
    PROVE  Elems(ResultsField, results, subs)
             = [i \in DOMAIN results |-> [bool |-> results[i]]]
<1>1. ResultsField.type = "bool"
  BY DEF ResultsField, F
<1>2. DOMAIN results \subseteq {1, 2}
  OBVIOUS
<1>3. StrideOf(0) = 0 /\ StrideOf(1) = 1
  BY DEF StrideOf
<1>4. \A i \in DOMAIN results : results[1 + StrideOf(i - 1)] = results[i]
  BY <1>2, <1>3
<1>5. \A b, sub : p2j_elem(ResultsField, b, sub) = [bool |-> b]
  BY <1>1 DEF p2j_elem, Shown, Ints, Signed
<1> QED
  BY <1>1, <1>4, <1>5 DEF Elems

\* A sequence of one element.
LEMMA OnlyOne ==
    ASSUME NEW S, NEW s \in Seq(S), NEW e, Len(s) = 1, s[1] = e
    PROVE  s = <<e>>
OBVIOUS

LEMMA CliImplies == CliInv => ShownIsReplied /\ RemctlTellsTruth
<1> SUFFICES ASSUME CliInv
             PROVE  ShownIsReplied /\ RemctlTellsTruth
  OBVIOUS
<1>1. ASSUME shown # <<>>, Len(reply[1].SetHVACWireSuccess) <= 2
      PROVE  LET results == reply[1].SetHVACWireSuccess
                 printed == shown[1].obj
             IN /\ IF results = <<>> THEN "SetHVACWireSuccess" \notin DOMAIN printed
                   ELSE printed["SetHVACWireSuccess"].arr
                            = [i \in DOMAIN results |-> [bool |-> results[i]]]
                /\ reply[1].HVACGoals # <<>> =>
                      json_to_protobuf("PbHVACGoals", printed["HVACGoals"])
                          = [pb |-> reply[1].HVACGoals[1], failed |-> FALSE]
  <2> PICK r : r = reply[1]
    OBVIOUS
  <2> DEFINE results == r.SetHVACWireSuccess
             printed == shown[1].obj
             there == { x \in Names("PbRequestReply") : r[x] # <<>> }
  <2>1. /\ shown[1] = protobuf_to_json("PbRequestReply", r)
        /\ results \in Seq(BOOLEAN) /\ Len(results) <= 2 /\ r.HVACGoals \in Goals
    BY <1>1 DEF CliInv, Printed, ReplyForm
  <2> DEFINE inner == [name \in Names("PbRequestReply") |->
                         [i \in DOMAIN r[name] |->
                            ToJsonInner(Field("PbRequestReply", name).of, r[name][i])]]
  <2>2. printed = [name \in there |->
                      IF Field("PbRequestReply", name).label = "repeated"
                      THEN [arr |-> Elems(Field("PbRequestReply", name), r[name], inner[name])]
                      ELSE p2j_elem(Field("PbRequestReply", name), r[name][1], inner[name][1])]
    BY <2>1 DEF protobuf_to_json, ToJson
  <2>3. DOMAIN printed = there
    BY <2>2
  <2>4. ASSUME results = <<>>
        PROVE  "SetHVACWireSuccess" \notin DOMAIN printed
    BY <2>3, <2>4
  <2>5. ASSUME results # <<>>
        PROVE  printed["SetHVACWireSuccess"].arr = [i \in DOMAIN results |-> [bool |-> results[i]]]
    <3>1. "SetHVACWireSuccess" \in there
      BY <2>5, ReplyFields
    <3>2. ResultsField.label = "repeated"
      BY DEF ResultsField, F
    <3>3. printed["SetHVACWireSuccess"] = [arr |-> Elems(ResultsField, results,
                                                             inner["SetHVACWireSuccess"])]
      BY <2>2, <3>1, <3>2, ReplyFields
    <3> QED
      BY <2>1, <3>3, ResultsShown
  <2>6. ASSUME r.HVACGoals # <<>>
        PROVE  json_to_protobuf("PbHVACGoals", printed["HVACGoals"])
                 = [pb |-> r.HVACGoals[1], failed |-> FALSE]
    <3>1. "HVACGoals" \in there
      BY <2>6, ReplyFields
    <3>2. /\ GoalsField.label = "optional" /\ GoalsField.type = "message"
          /\ GoalsField.of = "PbHVACGoals"
      BY DEF GoalsField, F
    <3>3. printed["HVACGoals"] = p2j_elem(GoalsField, r.HVACGoals[1], inner["HVACGoals"][1])
      BY <2>2, <3>1, <3>2, ReplyFields
    <3>4. printed["HVACGoals"] = inner["HVACGoals"][1]
      BY <3>2, <3>3 DEF p2j_elem
    <3>7. r.HVACGoals = <<r.HVACGoals[1]>>
      BY <2>1, <2>6, FabdCliAssumption
    <3>8. inner["HVACGoals"][1] = ToJsonInner("PbHVACGoals", r.HVACGoals[1])
      BY <3>2, <3>7, ReplyFields
    <3>5. "PbHVACGoals" \in DOMAIN Schema /\ Plain("PbHVACGoals")
      BY FabdCliAssumption
    <3>6. PlainMessage("PbHVACGoals", r.HVACGoals[1])
      BY <2>1, <2>6, FabdCliAssumption
    <3> QED
      BY <3>4, <3>5, <3>6, <3>8, InnerReadBack
  <2> HIDE DEF printed
  <2> QED
    BY <2>4, <2>5, <2>6 DEF printed
<1>2. ASSUME program = "remctl", at = "exit", status = 0
      PROVE  /\ reply[1].SetHVACWireSuccess = <<TRUE>>
             /\ request[1].SetHVACWire = <<[wire |-> <<Wire(arg[1])>>,
                                            connect |-> <<arg[2] = <<"1">>>>]>>
  <2>1. PICK results : results = reply[1].SetHVACWireSuccess
    OBVIOUS
  <2>2. /\ results \in Seq(BOOLEAN) /\ Len(results) \in {0, 1}
        /\ results # <<>> /\ results[1]
    BY <1>2, <2>1 DEF CliInv, Remctl, ReplyForm
  <2>3. Len(results) = 1
    BY <2>2, EmptySeq
  <2>4. results[1] = TRUE
    <3>1. results[1] \in BOOLEAN
      BY <2>2, <2>3, ElementOfSeq
    <3> QED
      BY <2>2, <3>1
  <2>5. results = <<TRUE>>
    BY <2>2, <2>3, <2>4, OnlyOne
  <2> QED
    BY <1>2, <2>1, <2>5 DEF CliInv, Remctl
<1> QED
  BY <1>1, <1>2 DEF ShownIsReplied, RemctlTellsTruth

\* A value that is understood is "1" or not, and atoi says which.
LEMMA OneDigit ==
    ASSUME NEW value \in Seq(STRING), ValueUnderstood(value)
    PROVE  (HexDigit(value[1]) # 0) = (value = <<"1">>)
<1>1. Len(value) = 1 /\ value[1] \in {"0", "1"}
  BY DEF ValueUnderstood
<1>2. value = <<value[1]>>
  BY <1>1
<1>3. HexDigit("0") = 0 /\ HexDigit("1") = 1
  <2>1. Hexchars[1 + 0] = "0" /\ Hexchars[1 + 1] = "1"
    BY DEF Hexchars
  <2> QED
    BY <2>1, DigitOf
<1>4. "0" # "1"
  OBVIOUS
<1>5. CASE value[1] = "0"
  <2>1. value # <<"1">>
    BY <1>4, <1>5
  <2> QED
    BY <1>3, <1>5, <2>1
<1>6. CASE value[1] = "1"
  BY <1>2, <1>3, <1>6
<1> QED
  BY <1>1, <1>5, <1>6

LEMMA CliInitially == CliInit => CliInv
<1> SUFFICES ASSUME CliInit
             PROVE  CliInv
  OBVIOUS
<1>1. program = "remctl" => arg[2] \in ValueArgs
  BY DEF CliInit
<1> QED
  BY <1>1 DEF CliInit, CliInv, Remctl, Printed

LEMMA CliStep == CliInv /\ [CliNext]_cliVars => CliInv'
<1> SUFFICES ASSUME CliInv, [CliNext]_cliVars
             PROVE  CliInv'
  OBVIOUS
<1>1. CASE SendJson
  BY <1>1 DEF CliInv, Remctl, Printed, ReplyForm, SendJson, Exit
<1>2. CASE SendWire
  <2>1. /\ program = "remctl" /\ arg[2] \in ValueArgs
        /\ UNCHANGED <<program, arg, reply, shown>>
    BY <1>2 DEF CliInv, Remctl, SendWire
  <2>2. CASE at' = "exit" /\ status' = 1 /\ UNCHANGED request
    BY <2>1, <2>2 DEF CliInv, Remctl, Printed, ReplyForm
  <2>3. CASE /\ ValueUnderstood(arg[2]) /\ at' = "waiting"
             /\ request' = <<[Blank("PbRequest") EXCEPT !.SetHVACWire =
                               <<[wire |-> <<Wire(arg[1])>>,
                                  connect |-> <<HexDigit(arg[2][1]) # 0>>]>>]>>
    <3>1. arg[2] \in Seq(STRING)
      BY <2>1, FabdCliAssumption
    <3>2. PICK connect : connect = (HexDigit(arg[2][1]) # 0)
      OBVIOUS
    <3>3. connect = (arg[2] = <<"1">>)
      BY <2>3, <3>1, <3>2, OneDigit
    <3>4. "SetHVACWire" \in DOMAIN Blank("PbRequest")
      <4>1. /\ Schema["PbRequest"][1].name = "SetHVACWire"
            /\ 1 \in DOMAIN Schema["PbRequest"]
        <5>1. PICK one, two :
                 /\ one = F("SetHVACWire", "message", "repeated", "PbSetHVACWireRequest")
                 /\ Schema["PbRequest"] = <<one, two>>
          BY FabdCliAssumption
        <5>2. one.name = "SetHVACWire"
          BY <5>1 DEF F
        <5> QED
          BY <5>1, <5>2
      <4> QED
        BY <4>1 DEF Blank, Names
    <3>5. request' = <<[Blank("PbRequest") EXCEPT !.SetHVACWire =
                          <<[wire |-> <<Wire(arg[1])>>, connect |-> <<connect>>]>>]>>
      BY <2>3, <3>2
    <3>6. /\ request' # <<>>
          /\ request'[1].SetHVACWire = <<[wire |-> <<Wire(arg[1])>>,
                                          connect |-> <<connect>>]>>
      BY <3>4, <3>5
    <3> QED
      BY <2>1, <2>3, <3>3, <3>6 DEF CliInv, Remctl, Printed, ReplyForm
  <2> QED
    BY <1>2, <2>2, <2>3 DEF SendWire, Exit
<1>3. CASE Server
  <2>1. PICK results \in Results, goals \in Goals :
           /\ Len(results) \in {0, Len(request[1].SetHVACWire)}
           /\ reply' = <<[SetHVACWireSuccess |-> results, HVACGoals |-> goals]>>
    BY <1>3 DEF Server
  <2>2. /\ at = "waiting" /\ reply = <<>>
        /\ UNCHANGED <<program, at, arg, request, shown, status>>
    BY <1>3 DEF Server
  <2>3. /\ reply' # <<>>
        /\ reply'[1] = [SetHVACWireSuccess |-> results, HVACGoals |-> goals]
    BY <2>1
  <2>4. ReplyForm(reply'[1])
    <3>1. results \in Seq(BOOLEAN)
      BY FabdCliAssumption
    <3> QED
      BY <2>3, <3>1 DEF ReplyForm
  <2>5. shown' = <<>>
    BY <2>2 DEF CliInv, Printed
  <2>6. ASSUME program = "remctl"
        PROVE  Len(results) \in {0, 1}
    <3>1. PICK cmd : request[1].SetHVACWire = <<cmd>>
      BY <2>2, <2>6 DEF CliInv, Remctl
    <3>2. Len(request[1].SetHVACWire) = 1
      BY <3>1
    <3> QED
      BY <2>1, <3>2
  <2> QED
    BY <2>2, <2>3, <2>4, <2>5, <2>6 DEF CliInv, Remctl, Printed
<1>4. CASE ShowReply
  BY <1>4 DEF CliInv, Remctl, Printed, ReplyForm, ShowReply, Exit
<1>5. CASE ExitWithResult
  <2>1. /\ program = "remctl" /\ at = "waiting" /\ reply # <<>> /\ at' = "exit"
        /\ UNCHANGED <<program, arg, request, reply, shown>>
    BY <1>5 DEF ExitWithResult, Exit
  <2>2. PICK results : results = reply[1].SetHVACWireSuccess
    OBVIOUS
  <2>3. status' = CASE results = <<>> -> -1
                    [] results # <<>> /\ results[1] -> 0
                    [] OTHER -> 1
    BY <1>5, <2>2 DEF ExitWithResult, Exit
  <2>4. status' = 0 => results # <<>> /\ results[1]
    BY <2>3
  <2> QED
    BY <2>1, <2>2, <2>4 DEF CliInv, Remctl, Printed, ReplyForm
<1>6. CASE UNCHANGED cliVars
  BY <1>6 DEF CliInv, Remctl, Printed, ReplyForm, cliVars
<1> QED
  BY <1>1, <1>2, <1>3, <1>4, <1>5, <1>6 DEF CliNext

\* What the two programs know of what they sent and received.
THEOREM CliInvariant == CliSpec => []CliInv
<1> QED
  BY CliInitially, CliStep, PTL DEF CliSpec

\* What fabd-cli prints says what was replied: the results of up to two commands
\* (json.c:544-550 steps over more of them wrongly), and the goals, which are read
\* back from what was printed as they are.
THEOREM ReplyIsShown == CliSpec => []ShownIsReplied
<1>1. CliInv => ShownIsReplied
  BY CliImplies
<1> QED
  BY CliInvariant, <1>1, PTL

\* remctl ends well only when the one command it sent, for the wire and the value of
\* its command line, was carried out (remctl.c:20-64).
THEOREM TruthOfRemctl == CliSpec => []RemctlTellsTruth
<1>1. CliInv => RemctlTellsTruth
  BY CliImplies
<1> QED
  BY CliInvariant, <1>1, PTL

\* What fabd-cli has sent.
Understanding ==
    program = "fabd-cli" =>
        /\ arg \in Requests
        /\ request # <<>> => SentMeansWhatIsAsked

LEMMA UnderstandingStep == Understanding /\ [CliNext]_cliVars => Understanding'
<1> SUFFICES ASSUME Understanding, [CliNext]_cliVars
             PROVE  Understanding'
  OBVIOUS
<1>1. CASE SendJson
  <2>1. PICK converted : converted = json_to_protobuf("PbRequest", arg)
    OBVIOUS
  <2>2. /\ program = "fabd-cli" /\ program' = program /\ arg' = arg
        /\ IF converted.failed THEN request' = request ELSE request' = <<converted.pb>>
    BY <1>1, <2>1 DEF SendJson, Exit
  <2>3. arg \in Requests /\ arg \in Json
    BY <2>2, FabdCliAssumption DEF Understanding
  <2>4. CASE converted.failed
    BY <2>2, <2>4 DEF Understanding, SentMeansWhatIsAsked
  <2>5. CASE ~converted.failed
    <3>1. Is(arg, "obj") => SaysRequest(arg.obj, converted.pb)
      BY <2>1, <2>3, <2>5, RequestSays
    <3>2. request' = <<converted.pb>>
      BY <2>2, <2>5
    <3>3. request'[1] = converted.pb
      BY <3>2
    <3> QED
      BY <2>2, <2>3, <3>1, <3>3 DEF Understanding, SentMeansWhatIsAsked
  <2> QED
    BY <2>4, <2>5
<1>2. CASE SendWire
  BY <1>2 DEF Understanding, SendWire
<1>3. CASE UNCHANGED <<program, arg, request>>
  BY <1>3 DEF Understanding, SentMeansWhatIsAsked
<1> QED
  BY <1>1, <1>2, <1>3 DEF CliNext, cliVars, Server, ShowReply, ExitWithResult, Exit

\* Whatever JSON fabd-cli is given, it sends a request only when every key, element and
\* value of it was understood, and the request then has a command for each element in
\* its order, and the goals, with the values that were meant (cli.c:40-50,
\* json.c:60-506).
THEOREM RequestIsUnderstood == CliSpec => []SentMeansWhatIsAsked
<1>1. CliInit => Understanding
  BY DEF CliInit, Understanding
<1>2. Understanding => SentMeansWhatIsAsked
  BY DEF Understanding, SentMeansWhatIsAsked
<1> QED
  BY <1>1, <1>2, UnderstandingStep, PTL DEF CliSpec
----------------------------------------------------------------------------
(***************************************************************************)
(* Fabdcfg for all files, devices and endpoints: a client reaches the      *)
(* server it is to.                                                        *)
(***************************************************************************)

\* What the server's process finds to bind to, and what may be connected to.
ServantsList == BindList(fabdcfg_server_get(Servant, Servant, "events"))

\* The files are of those there are, and stay.
FilesAsGiven ==
    /\ \A devid \in DOMAIN directory.devices : WellFormed(directory.devices[devid])
    /\ WellFormed(directory.defaults)
    /\ \A me \in {Servant, Visitor} : WellFormed(own[me])

\* A server that is up is bound to its whole list.
ServerBound ==
    serverAt = "up" =>
        /\ ServantsList # Null /\ bound = ToSet(ServantsList)
        /\ \A e \in ToSet(ServantsList) : Bindable(e)

\* A client goes through its list, and stops at what leads nowhere.
ClientConnects ==
    /\ next \in Nat
    /\ Uris # Null => next <= Len(Uris)
    /\ \A c \in connected : /\ c.uri \in Endpoint
                            /\ c.endpoint = Resolved(Visitor, c.uri) /\ c.endpoint # Null
    /\ clientAt = "dead" /\ Uris # Null =>
          \/ Uris[next + 1] = NotString
          \/ Resolved(Visitor, Uris[next + 1]) = Null

\* The options are set before the first connection, and stay.
Heartbeat ==
    /\ \/ ivl = 0 /\ timeout = -1
       \/ ivl = 60000 /\ timeout = 10000
    /\ zmqBeats => \A c \in connected : c.ivl = 60000 /\ c.timeout = 10000

CfgInv == FilesAsGiven /\ ServerBound /\ ClientConnects /\ Heartbeat
----------------------------------------------------------------------------
(* Look-ups.                                                               *)

\* The least number of a set is one of it.
LEMMA LeastChosen ==
    ASSUME NEW S \in SUBSET Nat, S # {}
    PROVE  (CHOOSE k \in S : \A j \in S : k <= j) \in S
BY Least

\* What is found is what some file says.
LEMMA Found ==
    ASSUME FilesAsGiven, NEW me \in {Servant, Visitor}, NEW devid, NEW key,
           fabdcfg_device_get(me, devid, key) # Null
    PROVE  \E object : /\ WellFormed(object) /\ key \in DOMAIN object
                       /\ fabdcfg_device_get(me, devid, key) = object[key]
<1> DEFINE mine == IF devid = me THEN Get(own[me], key) ELSE Null
           shared == IF devid \in DOMAIN directory.devices
                     THEN Get(directory.devices[devid], key) ELSE Null
           default == Get(directory.defaults, key)
           found == <<mine, shared, default>>
           there == { i \in DOMAIN found : found[i] # Null }
           first == CHOOSE i \in there : \A j \in there : i <= j
<1>1. fabdcfg_device_get(me, devid, key) = IF there = {} THEN Null ELSE found[first]
  BY DEF fabdcfg_device_get
<1>2. \A object : Get(object, key) # Null
                  => key \in DOMAIN object /\ Get(object, key) = object[key]
  BY DEF Get
<1>3. \A value \in {mine, shared, default} :
          value # Null => \E object : /\ WellFormed(object) /\ key \in DOMAIN object
                                      /\ value = object[key]
  <2>1. mine # Null => \E object : /\ WellFormed(object) /\ key \in DOMAIN object
                                   /\ mine = object[key]
    BY <1>2 DEF FilesAsGiven
  <2>2. shared # Null => \E object : /\ WellFormed(object) /\ key \in DOMAIN object
                                     /\ shared = object[key]
    BY <1>2 DEF FilesAsGiven
  <2>3. default # Null => \E object : /\ WellFormed(object) /\ key \in DOMAIN object
                                      /\ default = object[key]
    BY <1>2 DEF FilesAsGiven
  <2> QED
    BY <2>1, <2>2, <2>3
<1> HIDE DEF mine, shared, default
<1>4. there # {}
  BY <1>1
<1>5. there \subseteq Nat
  BY DEF found
<1>6. first \in there
  <2> HIDE DEF there
  <2> QED
    BY <1>4, <1>5, LeastChosen
<1>7. first \in 1..3 /\ found[first] # Null
  <2> HIDE DEF first
  <2> QED
    BY <1>6
<1>8. found[first] \in {mine, shared, default}
  <2> HIDE DEF first
  <2> QED
    BY <1>7
<1> HIDE DEF found, first, there
<1> QED
  BY <1>1, <1>3, <1>4, <1>7, <1>8

\* What the look-ups give has the form of what the files say.
LEMMA NodeForm ==
    ASSUME FilesAsGiven, NEW me \in {Servant, Visitor}, NEW devid
    PROVE  fabdcfg_device_get(me, devid, "node") \in {Null, NotString} \cup STRING
BY Found DEF WellFormed

LEMMA ServerForm ==
    ASSUME FilesAsGiven, NEW me \in {Servant, Visitor}, NEW devid, NEW servername,
           fabdcfg_server_get(me, devid, servername) # Null
    PROVE  LET server == fabdcfg_server_get(me, devid, servername)
           IN /\ "connect" \in DOMAIN server => server.connect \in Lists
              /\ BindList(server) \in Lists \cup {Null}
<1> DEFINE servers == fabdcfg_device_get(me, devid, "servers")
           server == fabdcfg_server_get(me, devid, servername)
<1>1. servers # Null /\ servername \in DOMAIN servers /\ server = servers[servername]
  BY DEF fabdcfg_server_get, Get
<1>2. PICK object : /\ WellFormed(object) /\ "servers" \in DOMAIN object
                    /\ servers = object["servers"]
  BY <1>1, Found
<1>3. \A key \in DOMAIN server \cap {"list", "bind", "connect"} : server[key] \in Lists
  BY <1>1, <1>2 DEF WellFormed
<1> HIDE DEF server
<1>4. BindList(server) \in Lists \cup {Null}
  BY <1>3 DEF BindList, Get
<1>5. "connect" \in DOMAIN server => server.connect \in Lists
  BY <1>3
<1> QED
  BY <1>4, <1>5 DEF server

LEMMA ClientsUris ==
    ASSUME FilesAsGiven
    PROVE  Uris \in Lists \cup {Null}
<1> DEFINE clients == fabdcfg_device_get(Visitor, Visitor, "clients")
<1>1. CASE clients = Null \/ "weather" \notin DOMAIN clients
  BY <1>1 DEF Uris, Get
<1>2. CASE clients # Null /\ "weather" \in DOMAIN clients
  <2>1. PICK object : /\ WellFormed(object) /\ "clients" \in DOMAIN object
                      /\ clients = object["clients"]
    BY <1>2, Found
  <2>2. Uris = clients["weather"]
    BY <1>2 DEF Uris, Get
  <2> QED
    BY <1>2, <2>1, <2>2 DEF WellFormed
<1> QED
  BY <1>1, <1>2
----------------------------------------------------------------------------
(* The choice of an endpoint.                                              *)

\* An element of a list is an endpoint, or what is no string.
LEMMA ElementsForm ==
    ASSUME NEW list \in Lists
    PROVE  /\ ToSet(list) \subseteq Endpoint \cup {NotString}
           /\ Strings(list) \subseteq Endpoint
           /\ DOMAIN list \subseteq Nat
<1>1. list \in Seq(Endpoint \cup {NotString})
  BY DEF Lists
<1>2. /\ \A i \in DOMAIN list : list[i] \in Endpoint \cup {NotString}
      /\ DOMAIN list \subseteq Nat
  BY <1>1
<1> QED
  BY <1>2 DEF ToSet, Strings

\* The first that applies is one that applies; there is none only if none does.
LEMMA FirstFits ==
    ASSUME NEW list \in Lists, NEW applicable \in SUBSET Strings(list)
    PROVE  /\ First(list, applicable) # Null => First(list, applicable) \in applicable
           /\ applicable # {} => First(list, applicable) # Null
<1> DEFINE fit == { i \in DOMAIN list : list[i] \in applicable }
           first == CHOOSE i \in fit : \A j \in fit : i <= j
<1>1. First(list, applicable) = IF fit = {} THEN Null ELSE list[first]
  BY DEF First
<1>2. fit # {} => list[first] \in applicable
  <2>1. fit \subseteq Nat
    BY ElementsForm
  <2>2. ASSUME fit # {}
        PROVE  first \in fit
    <3> HIDE DEF fit
    <3> QED
      BY <2>1, <2>2, LeastChosen
  <2> HIDE DEF first
  <2> QED
    BY <2>2
<1>3. applicable # {} => fit # {}
  BY DEF Strings, ToSet
<1>4. Null \notin applicable
  BY ElementsForm, FabdcfgAssumption
<1> HIDE DEF fit, first
<1> QED
  BY <1>1, <1>2, <1>3, <1>4

\* From `connect' comes one of its strings.
LEMMA Connected ==
    ASSUME NEW me, NEW devid, NEW list \in Lists, FromConnect(me, devid, list) # Null
    PROVE  /\ FromConnect(me, devid, list) \in Strings(list)
           /\ FromConnect(me, devid, list).tr = "ipc" => IsLocal(me, devid)
<1> DEFINE applicable == { e \in Strings(list) : e.tr # "ipc" \/ IsLocal(me, devid) }
<1>1. FromConnect(me, devid, list) \in applicable
  <2>1. FromConnect(me, devid, list) = First(list, applicable)
    BY DEF FromConnect
  <2>2. applicable \in SUBSET Strings(list)
    OBVIOUS
  <2> HIDE DEF applicable
  <2> QED
    BY <2>1, <2>2, FirstFits
<1> QED
  BY <1>1

\* From `bind' comes one of its strings, with the node in the place of a '*'.
LEMMA Bound ==
    ASSUME FilesAsGiven, NEW me \in {Servant, Visitor}, NEW devid, NEW list \in Lists
    PROVE  LET node == fabdcfg_device_get(me, devid, "node")
               hasNode == node \notin {Null, NotString}
           IN /\ FromBind(me, devid, list) # Null =>
                    \E x \in Strings(list) :
                       \/ /\ x.host = "*" /\ hasNode
                          /\ FromBind(me, devid, list) = [x EXCEPT !.host = node]
                       \/ /\ x.host # "*" /\ IsLocal(me, devid)
                          /\ FromBind(me, devid, list) = x
              /\ (\E b \in Strings(list) : b.host = "*") /\ hasNode
                    => FromBind(me, devid, list) # Null
<1> DEFINE node == fabdcfg_device_get(me, devid, "node")
           hasNode == node \notin {Null, NotString}
           applicable == { x \in Strings(list) :
                             IF x.host = "*" THEN hasNode ELSE IsLocal(me, devid) }
           e == First(list, applicable)
<1>1. FromBind(me, devid, list) = IF e # Null /\ e.host = "*"
                                  THEN [e EXCEPT !.host = node] ELSE e
  BY DEF FromBind
<1>2. /\ e # Null => e \in applicable
      /\ applicable # {} => e # Null
  <2>1. applicable \in SUBSET Strings(list)
    OBVIOUS
  <2> HIDE DEF applicable
  <2> QED
    BY <2>1, FirstFits
<1>3. node \in {Null, NotString} \cup STRING
  BY NodeForm
<1>4. (\E b \in Strings(list) : b.host = "*") /\ hasNode => applicable # {}
  OBVIOUS
<1>5. e # Null => /\ e \in Strings(list)
                  /\ IF e.host = "*" THEN hasNode ELSE IsLocal(me, devid)
  <2> HIDE DEF e
  <2> QED
    BY <1>2
<1> HIDE DEF node, applicable, e
<1>6. e # Null /\ e.host = "*" => [e EXCEPT !.host = node] # Null
  <2> SUFFICES ASSUME e # Null, e.host = "*"
               PROVE  [e EXCEPT !.host = node] # Null
    OBVIOUS
  <2>1. e \in Endpoint /\ node \in STRING
    BY <1>3, <1>5, ElementsForm
  <2>2. e.tr # "ipc"
    BY <2>1 DEF Endpoint
  <2>3. [e EXCEPT !.host = node] \in Endpoint
    BY <2>1, <2>2 DEF Endpoint
  <2> QED
    BY <2>3, FabdcfgAssumption
<1>7. FromBind(me, devid, list) # Null => e # Null
  BY <1>1
<1>8. (\E b \in Strings(list) : b.host = "*") /\ hasNode
        => FromBind(me, devid, list) # Null
  BY <1>1, <1>2, <1>4, <1>6
<1> QED
  BY <1>1, <1>5, <1>7, <1>8 DEF node
----------------------------------------------------------------------------
(* Where a connection leads.                                               *)
\* Of the server's device both processes find the same, for its own file, that the
\* other does not read, says nothing of it.
LEMMA SameFound ==
    ASSUME Truthful, NEW key \in {"servers", "node"}
    PROVE  fabdcfg_device_get(Visitor, Servant, key)
             = fabdcfg_device_get(Servant, Servant, key)
<1> DEFINE FirstOf(a, b, d) ==
             LET found == <<a, b, d>>
                 there == { i \in DOMAIN found : found[i] # Null }
             IN IF there = {} THEN Null
                ELSE found[CHOOSE i \in there : \A j \in there : i <= j]
           shared == IF Servant \in DOMAIN directory.devices
                     THEN Get(directory.devices[Servant], key) ELSE Null
           default == Get(directory.defaults, key)
<1>1. Get(own[Servant], key) = Null
  BY DEF Truthful, Get
<1>2. fabdcfg_device_get(Servant, Servant, key)
        = FirstOf(IF Servant = Servant THEN Get(own[Servant], key) ELSE Null,
                  shared, default)
  BY DEF fabdcfg_device_get
<1>3. fabdcfg_device_get(Visitor, Servant, key)
        = FirstOf(IF Servant = Visitor THEN Get(own[Visitor], key) ELSE Null,
                  shared, default)
  BY DEF fabdcfg_device_get
<1> HIDE DEF FirstOf, shared, default
<1> QED
  BY <1>1, <1>2, <1>3, FabdcfgAssumption

LEMMA SameServer ==
    ASSUME Truthful, NEW servername
    PROVE  fabdcfg_server_get(Visitor, Servant, servername)
             = fabdcfg_server_get(Servant, Servant, servername)
BY SameFound DEF fabdcfg_server_get

\* A node that is known is where the server runs, and `local' is there too.
LEMMA Places ==
    ASSUME Truthful
    PROVE  LET node == fabdcfg_device_get(Visitor, Servant, "node")
           IN /\ node \notin {Null, NotString} => node = nodeOf[Servant]
              /\ IsLocal(Visitor, Servant) => nodeOf[Visitor] = nodeOf[Servant]
<1>1. fabdcfg_device_get(Visitor, Servant, "node")
        = fabdcfg_device_get(Servant, Servant, "node")
  BY SameFound
<1>2. \A me \in {Servant, Visitor} :
          fabdcfg_device_get(me, me, "node") \in {Null, NotString, nodeOf[me]}
  BY DEF Truthful
<1> QED
  BY <1>1, <1>2 DEF IsLocal

\* Ways to reach a bound endpoint.
LEMMA SameIpc ==
    ASSUME NEW e \in bound, e.tr = "ipc", nodeOf[Visitor] = nodeOf[Servant]
    PROVE  Reaches(e)
BY DEF Reaches

LEMMA ReachesNode ==
    ASSUME NEW b \in bound, NEW e, e.tr = b.tr, e.port = b.port, e.tr # "ipc",
           b.host \in {"*", e.host},
           \/ e.host = nodeOf[Servant]
           \/ e.host = "localhost" /\ nodeOf[Visitor] = nodeOf[Servant]
    PROVE  Reaches(e)
BY DEF Reaches

\* The endpoint that is chosen for the server leads to one that is bound.
LEMMA Leads ==
    ASSUME CfgInv, serverAt = "up", Truthful, Resolved(Visitor, Wanted) # Null
    PROVE  Reaches(Resolved(Visitor, Wanted))
<1> DEFINE server == fabdcfg_server_get(Visitor, Servant, "events")
           list == BindList(server)
           chosen == Resolved(Visitor, Wanted)
<1>0. chosen = Resolved(Visitor, Wanted)
  OBVIOUS
<1>1. chosen = fabdcfg_server_get_connect(Visitor, Servant, "events")
  BY DEF Resolved, Wanted
<1>2. server = fabdcfg_server_get(Servant, Servant, "events")
  BY SameServer
<1>3. server # Null
  BY <1>1 DEF fabdcfg_server_get_connect
<1>4. /\ "connect" \in DOMAIN server => server.connect \in Lists
      /\ list \in Lists \cup {Null}
  BY <1>3, ServerForm DEF CfgInv
<1>5. /\ list # Null => bound = ToSet(list)
      /\ \A e \in ToSet(list) : Bindable(e)
  BY <1>2 DEF CfgInv, ServerBound, ServantsList
<1>6. IsLocal(Visitor, Servant) => nodeOf[Visitor] = nodeOf[Servant]
  BY Places
<1>7. CASE "connect" \in DOMAIN server
  <2>1. chosen = FromConnect(Visitor, Servant, server.connect)
    BY <1>1, <1>3, <1>7 DEF fabdcfg_server_get_connect
  <2>2. chosen \in Strings(server.connect) /\ (chosen.tr = "ipc" => IsLocal(Visitor, Servant))
    BY <1>4, <1>7, <2>1, Connected
  <2>3. \A e \in Strings(server.connect) : IF e.tr = "ipc" THEN e \in bound ELSE Reaches(e)
    BY <1>2, <1>3, <1>7 DEF Truthful
  <2> HIDE DEF chosen
  <2> QED
    BY <1>0, <1>6, <2>2, <2>3, SameIpc
<1>8. CASE "connect" \notin DOMAIN server
  <2>1. list # Null /\ chosen = FromBind(Visitor, Servant, list)
    BY <1>1, <1>3, <1>8 DEF fabdcfg_server_get_connect
  <2> DEFINE node == fabdcfg_device_get(Visitor, Servant, "node")
  <2>2. PICK x \in Strings(list) :
            \/ /\ x.host = "*" /\ node \notin {Null, NotString}
               /\ chosen = [x EXCEPT !.host = node]
            \/ x.host # "*" /\ IsLocal(Visitor, Servant) /\ chosen = x
    BY <1>4, <2>1, Bound DEF CfgInv
  <2>3. x \in Endpoint /\ x \in bound /\ Bindable(x)
    BY <1>4, <1>5, <2>1, ElementsForm DEF Strings
  <2>4. node \notin {Null, NotString} => node = nodeOf[Servant]
    BY Places
  <2> HIDE DEF chosen, node
  <2>5. CASE /\ x.host = "*" /\ node \notin {Null, NotString}
             /\ chosen = [x EXCEPT !.host = node]
    <3>1. x.tr # "ipc"
      BY <2>3, <2>5 DEF Endpoint
    <3>2. chosen.tr = x.tr /\ chosen.port = x.port /\ chosen.host = nodeOf[Servant]
      BY <2>3, <2>4, <2>5 DEF Endpoint
    <3> QED
      BY <1>0, <2>3, <2>5, <3>1, <3>2, ReachesNode
  <2>6. CASE x.host # "*" /\ IsLocal(Visitor, Servant) /\ chosen = x
    <3>1. chosen.tr # "ipc" => chosen.host \in {"localhost", nodeOf[Servant]}
      BY <2>3, <2>6 DEF Bindable
    <3> QED
      BY <1>0, <1>6, <2>3, <2>6, <3>1, SameIpc, ReachesNode
  <2> QED
    BY <2>2, <2>5, <2>6
<1> QED
  BY <1>7, <1>8

\* A server bound on every interface of a node that is given always has an endpoint.
LEMMA HasEndpoint ==
    ASSUME CfgInv, BoundOnNode(fabdcfg_server_get(Visitor, Servant, "events"))
    PROVE  Resolved(Visitor, Wanted) # Null
<1> DEFINE server == fabdcfg_server_get(Visitor, Servant, "events")
           list == BindList(server)
<1>1. /\ server # Null /\ "connect" \notin DOMAIN server /\ list # Null
      /\ \E b \in Strings(list) : b.host = "*"
      /\ fabdcfg_device_get(Visitor, Servant, "node") \notin {Null, NotString}
  BY DEF BoundOnNode
<1>2. list \in Lists
  BY <1>1, ServerForm DEF CfgInv
<1>3. Resolved(Visitor, Wanted) = FromBind(Visitor, Servant, list)
  BY <1>1 DEF Resolved, Wanted, fabdcfg_server_get_connect
<1> HIDE DEF list
<1> QED
  BY <1>1, <1>2, <1>3, Bound DEF CfgInv

LEMMA InvImplies == CfgInv => ClientsReachServers
<1> SUFFICES ASSUME CfgInv
             PROVE  ClientsReachServers
  OBVIOUS
<1>1. ASSUME serverAt = "up", Truthful, NEW c \in connected, c.uri = Wanted
      PROVE  Reaches(c.endpoint)
  BY <1>1, Leads DEF CfgInv, ClientConnects
<1>2. ASSUME clientAt = "dead", Uris # Null, Uris[next + 1] = Wanted,
             BoundOnNode(fabdcfg_server_get(Visitor, Servant, "events"))
      PROVE  FALSE
  <2>1. Wanted \in Endpoint
    BY FabdcfgAssumption
  <2> QED
    BY <1>2, <2>1, HasEndpoint, FabdcfgAssumption DEF CfgInv, ClientConnects
<1>3. zmqBeats => \A c \in connected : c.timeout > 0 /\ c.timeout < c.ivl
  BY DEF CfgInv, Heartbeat
<1> QED
  BY <1>1, <1>2, <1>3 DEF ClientsReachServers
----------------------------------------------------------------------------
(* The steps.                                                              *)

\* While the files stay, so does what is found in them.
LEMMA FoundStays ==
    ASSUME UNCHANGED files, NEW me, NEW devid, NEW key
    PROVE  fabdcfg_device_get(me, devid, key)' = fabdcfg_device_get(me, devid, key)
<1> DEFINE FirstOf(a, b, d) ==
             LET found == <<a, b, d>>
                 there == { i \in DOMAIN found : found[i] # Null }
             IN IF there = {} THEN Null
                ELSE found[CHOOSE i \in there : \A j \in there : i <= j]
           mine == IF devid = me THEN Get(own[me], key) ELSE Null
           shared == IF devid \in DOMAIN directory.devices
                     THEN Get(directory.devices[devid], key) ELSE Null
           default == Get(directory.defaults, key)
<1>1. fabdcfg_device_get(me, devid, key) = FirstOf(mine, shared, default)
  BY DEF fabdcfg_device_get
<1>2. fabdcfg_device_get(me, devid, key)' = FirstOf(mine', shared', default')
  BY DEF fabdcfg_device_get
<1>3. mine' = mine /\ shared' = shared /\ default' = default
  BY DEF files, Get
<1> HIDE DEF FirstOf, mine, shared, default
<1> QED
  BY <1>1, <1>2, <1>3

LEMMA ServerStays ==
    ASSUME UNCHANGED files, NEW me, NEW devid, NEW servername
    PROVE  fabdcfg_server_get(me, devid, servername)'
             = fabdcfg_server_get(me, devid, servername)
BY FoundStays DEF fabdcfg_server_get, Get

LEMMA LocalStays ==
    ASSUME UNCHANGED files, NEW me, NEW devid
    PROVE  IsLocal(me, devid)' <=> IsLocal(me, devid)
BY FoundStays DEF IsLocal

LEMMA ConnectStays ==
    ASSUME UNCHANGED files, NEW me, NEW devid, NEW list
    PROVE  /\ FromConnect(me, devid, list)' = FromConnect(me, devid, list)
           /\ FromBind(me, devid, list)' = FromBind(me, devid, list)
<1>1. IsLocal(me, devid)' <=> IsLocal(me, devid)
  BY LocalStays
<1>2. fabdcfg_device_get(me, devid, "node")' = fabdcfg_device_get(me, devid, "node")
  BY FoundStays
<1>3. FromConnect(me, devid, list)' = FromConnect(me, devid, list)
  BY <1>1 DEF FromConnect
<1>4. FromBind(me, devid, list)' = FromBind(me, devid, list)
  BY <1>1, <1>2 DEF FromBind
<1> QED
  BY <1>3, <1>4

LEMMA ResolvedStays ==
    ASSUME UNCHANGED files, NEW me, NEW uri
    PROVE  Resolved(me, uri)' = Resolved(me, uri)
<1> DEFINE devid == uri.host
           servername == uri.port
<1>1. fabdcfg_server_get(me, devid, servername)' = fabdcfg_server_get(me, devid, servername)
  BY ServerStays
<1>2. PICK server : server = fabdcfg_server_get(me, devid, servername)
  OBVIOUS
<1>3. fabdcfg_server_get_connect(me, devid, servername)
        = IF server = Null THEN Null
          ELSE IF "connect" \in DOMAIN server
          THEN FromConnect(me, devid, server.connect)
          ELSE IF BindList(server) = Null THEN Null
          ELSE FromBind(me, devid, BindList(server))
  BY <1>2 DEF fabdcfg_server_get_connect
<1>4. fabdcfg_server_get_connect(me, devid, servername)'
        = IF server = Null THEN Null
          ELSE IF "connect" \in DOMAIN server
          THEN FromConnect(me, devid, server.connect)'
          ELSE IF BindList(server) = Null THEN Null
          ELSE FromBind(me, devid, BindList(server))'
  BY <1>1, <1>2 DEF fabdcfg_server_get_connect
<1>5. /\ FromConnect(me, devid, server.connect)' = FromConnect(me, devid, server.connect)
      /\ FromBind(me, devid, BindList(server))' = FromBind(me, devid, BindList(server))
  BY ConnectStays
<1> QED
  BY <1>3, <1>4, <1>5 DEF Resolved

LEMMA UrisStay ==
    ASSUME UNCHANGED files
    PROVE  Uris' = Uris
BY FoundStays DEF Uris, Get

LEMMA ServantsListStays ==
    ASSUME UNCHANGED files
    PROVE  ServantsList' = ServantsList
BY ServerStays DEF ServantsList, BindList, Get

LEMMA GivenStays ==
    ASSUME UNCHANGED files, FilesAsGiven
    PROVE  FilesAsGiven'
BY DEF files, FilesAsGiven
LEMMA InitInv == CfgInit => CfgInv
<1> SUFFICES ASSUME CfgInit
             PROVE  CfgInv
  OBVIOUS
<1>1. FilesAsGiven
  BY FabdcfgAssumption DEF CfgInit, FilesAsGiven
<1>2. Uris # Null => Len(Uris) \in Nat
  BY <1>1, ClientsUris DEF Lists
<1>3. ClientConnects
  BY <1>2 DEF CfgInit, ClientConnects
<1>4. ServerBound /\ Heartbeat
  BY DEF CfgInit, ServerBound, Heartbeat
<1> QED
  BY <1>1, <1>3, <1>4 DEF CfgInv

\* What the parts of the invariant say of the client stays when the client does.
LEMMA ClientStays ==
    ASSUME CfgInv, UNCHANGED <<files, clientAt, next, ivl, timeout, connected>>
    PROVE  FilesAsGiven' /\ ClientConnects' /\ Heartbeat'
<1>1. UNCHANGED files
  OBVIOUS
<1>2. Uris' = Uris /\ \A uri : Resolved(Visitor, uri)' = Resolved(Visitor, uri)
  BY <1>1, UrisStay, ResolvedStays
<1>3. FilesAsGiven'
  BY <1>1, GivenStays DEF CfgInv
<1>4. ClientConnects'
  <2>1. \A c \in connected' : Resolved(Visitor, c.uri)' = Resolved(Visitor, c.uri)
    BY <1>2
  <2>2. \A c \in connected' : /\ c.uri \in Endpoint
                              /\ c.endpoint = Resolved(Visitor, c.uri)'
                              /\ c.endpoint # Null
    BY <2>1 DEF CfgInv, ClientConnects
  <2>3. PICK uri : uri = Uris[next + 1]
    OBVIOUS
  <2>4. Resolved(Visitor, uri)' = Resolved(Visitor, uri) /\ Uris'[next' + 1] = uri
    BY <1>2, <2>3
  <2>5. Resolved(Visitor, Uris[next + 1])' = Resolved(Visitor, uri)
    BY <2>4
  <2> QED
    BY <1>2, <2>2, <2>3, <2>4, <2>5 DEF CfgInv, ClientConnects
<1>5. Heartbeat'
  BY <1>1 DEF CfgInv, Heartbeat, files
<1> QED
  BY <1>3, <1>4, <1>5

LEMMA BindStep ==
    ASSUME CfgInv, ZmqBind
    PROVE  CfgInv'
<1>1. /\ UNCHANGED <<files, clientAt, next, ivl, timeout, connected>>
      /\ UNCHANGED files
  BY DEF ZmqBind
<1>2. FilesAsGiven' /\ ClientConnects' /\ Heartbeat'
  BY <1>1, ClientStays
<1>3. ServantsList' = ServantsList
  BY <1>1, ServantsListStays
<1>4. \A e : Bindable(e)' <=> Bindable(e)
  BY <1>1 DEF Bindable, files
<1>5. serverAt' = "up" =>
          /\ ServantsList # Null /\ bound' = ToSet(ServantsList)
          /\ \A e \in ToSet(ServantsList) : Bindable(e)
  BY DEF ZmqBind, ServantsList
<1>6. ServerBound'
  BY <1>3, <1>4, <1>5 DEF ServerBound
<1> QED
  BY <1>2, <1>6 DEF CfgInv

LEMMA ConnectStep ==
    ASSUME CfgInv, ZmqConnect
    PROVE  CfgInv'
<1>1. UNCHANGED files /\ UNCHANGED <<bound, serverAt>>
  BY DEF ZmqConnect
<1>2. FilesAsGiven'
  BY <1>1, GivenStays DEF CfgInv
<1>3. ServerBound'
  <2>1. ServantsList' = ServantsList
    BY <1>1, ServantsListStays
  <2>2. \A e : Bindable(e)' <=> Bindable(e)
    BY <1>1 DEF Bindable, files
  <2> QED
    BY <1>1, <2>1, <2>2 DEF CfgInv, ServerBound
<1>4. Uris' = Uris /\ \A uri : Resolved(Visitor, uri)' = Resolved(Visitor, uri)
  BY <1>1, UrisStay, ResolvedStays
<1>5. zmqBeats' = zmqBeats
  BY <1>1 DEF files
<1>6. CASE UNCHANGED <<next, ivl, timeout, connected>> /\ (Uris = Null \/ clientAt' # "dead")
  <2>1. ClientConnects'
    <3>1. \A c \in connected' : Resolved(Visitor, c.uri)' = Resolved(Visitor, c.uri)
      BY <1>4
    <3> QED
      BY <1>4, <1>6, <3>1 DEF CfgInv, ClientConnects
  <2>2. Heartbeat'
    BY <1>5, <1>6 DEF CfgInv, Heartbeat
  <2> QED
    BY <1>2, <1>3, <2>1, <2>2 DEF CfgInv
<1>7. CASE Uris # Null /\ next # Len(Uris)
  <2> DEFINE uri0 == Uris[next + 1]
             endpoint0 == IF uri0 = NotString THEN Null ELSE Resolved(Visitor, uri0)
  <2>1. PICK uri, endpoint : uri = uri0 /\ endpoint = endpoint0
    OBVIOUS
  <2>2. /\ InitHeartbeat
        /\ \/ /\ endpoint = Null /\ clientAt' = "dead" /\ UNCHANGED <<next, connected>>
           \/ /\ endpoint # Null
              /\ connected' = connected \cup {[uri |-> uri, endpoint |-> endpoint,
                                               ivl |-> ivl', timeout |-> timeout']}
              /\ next' = next + 1 /\ clientAt' = clientAt /\ clientAt = "start"
    BY <1>7, <2>1 DEF ZmqConnect
  <2>3. /\ \/ ivl' = 0 /\ timeout' = -1
           \/ ivl' = 60000 /\ timeout' = 10000
        /\ zmqBeats => ivl' = 60000 /\ timeout' = 10000
    BY <2>2 DEF InitHeartbeat, CfgInv, Heartbeat
  <2>4. Heartbeat'
    BY <1>5, <2>2, <2>3 DEF CfgInv, Heartbeat
  <2>5. Uris \in Seq(Endpoint \cup {NotString}) /\ next \in Nat /\ next < Len(Uris)
    BY <1>7, ClientsUris DEF CfgInv, ClientConnects, Lists
  <2>6. uri \in Endpoint \cup {NotString}
    BY <2>1, <2>5
  <2>7. Resolved(Visitor, uri)' = Resolved(Visitor, uri)
    BY <1>4
  <2>8. endpoint = IF uri = NotString THEN Null ELSE Resolved(Visitor, uri)
    BY <2>1
  <2>9. /\ next' \in Nat
        /\ Uris' # Null => next' <= Len(Uris')
    BY <1>4, <2>2, <2>5
  <2>10. \A c \in connected' : /\ c.uri \in Endpoint
                               /\ c.endpoint = Resolved(Visitor, c.uri)
                               /\ c.endpoint # Null
    BY <2>2, <2>6, <2>8 DEF CfgInv, ClientConnects
  <2>11. \A c \in connected' : Resolved(Visitor, c.uri)' = Resolved(Visitor, c.uri)
    BY <1>4
  <2>12. ASSUME clientAt' = "dead"
         PROVE  \/ (Uris[next + 1])' = NotString
                \/ Resolved(Visitor, Uris[next + 1])' = Null
    <3>1. endpoint = Null /\ next' = next
      BY <2>2, <2>12
    <3>2. (Uris[next + 1])' = uri
      BY <1>4, <2>1, <3>1
    <3>3. Resolved(Visitor, Uris[next + 1])' = Resolved(Visitor, uri)'
      BY <3>2
    <3> QED
      BY <2>7, <2>8, <3>1, <3>2, <3>3
  <2>13. ClientConnects'
    BY <2>9, <2>10, <2>11, <2>12 DEF ClientConnects
  <2> QED
    BY <1>2, <1>3, <2>4, <2>13 DEF CfgInv
<1>8. CASE Uris = Null
  BY <1>6, <1>8 DEF ZmqConnect
<1>9. CASE Uris # Null /\ next = Len(Uris)
  BY <1>6, <1>9 DEF ZmqConnect
<1> QED
  BY <1>7, <1>8, <1>9

\* A client reaches the server that its URI names, one whose server has an endpoint
\* everywhere never dies of it, and every connection has a heartbeat: for all files,
\* devices, nodes and lists of endpoints (fabdcfg.c:131-322).
THEOREM ServersAreReached == CfgSpec => []ClientsReachServers
<1>1. CfgInv /\ [CfgNext]_cfgVars => CfgInv'
  <2> SUFFICES ASSUME CfgInv, [CfgNext]_cfgVars
               PROVE  CfgInv'
    OBVIOUS
  <2>1. CASE UNCHANGED cfgVars
    <3>1. /\ UNCHANGED <<files, clientAt, next, ivl, timeout, connected>>
          /\ UNCHANGED files /\ UNCHANGED <<bound, serverAt>>
      BY <2>1 DEF cfgVars
    <3>2. ServantsList' = ServantsList
      BY <3>1, ServantsListStays
    <3>3. \A e : Bindable(e)' <=> Bindable(e)
      BY <3>1 DEF Bindable, files
    <3>4. ServerBound'
      BY <3>1, <3>2, <3>3 DEF CfgInv, ServerBound
    <3> QED
      BY <3>1, <3>4, ClientStays DEF CfgInv
  <2> QED
    BY <2>1, BindStep, ConnectStep DEF CfgNext
<1> QED
  BY <1>1, InitInv, InvImplies, PTL DEF CfgSpec
=============================================================================
