------------------------------ MODULE FabdJson ------------------------------
(***************************************************************************)
(* json.c: JSON to protobuf messages and back, by the descriptors of the   *)
(* messages.                                                               *)
(*                                                                         *)
(* A JSON value is a record with one field, its kind: null, bool, int, real*)
(* (in halves), str (pieces), arr (a sequence) or obj (a function from its *)
(* keys).  A message is a function from its fields to sequences of values: *)
(* an optional field that is not there has none, a required one has its    *)
(* default until it is given.                                              *)
(***************************************************************************)
EXTENDS FabdUtil, FiniteSetsExt

CONSTANTS Narrow,   \* bits of an int and of an int32_t
          Wide,     \* bits of a long, of an int64_t and of a JSON integer
          FltMax,   \* the largest float, in halves
          Json,     \* the JSON values there are
          Schema,   \* [message -> sequence of its fields]
          Enums,    \* [enum -> [name -> number]]
          Sayings   \* the messages that are printed and read back: [type, pb]

VARIABLE saying

\* The types have their usual widths, no name of an enum is a numeral, and what a
\* message holds are plain values or messages that hold no messages.
ASSUME FabdJsonAssumption ==
    /\ {2^Narrow, 2^Wide, 2^(Narrow - 1), 2^(Wide - 1), FltMax} \subseteq Nat
    /\ 2^(Narrow - 1) < 2^Narrow /\ 1 < 2^Narrow /\ 2^Narrow <= 2^(Wide - 1)
    /\ \A enum \in DOMAIN Enums : \A word \in DOMAIN Enums[enum] : ~IsNumeral(word)
    /\ \A m \in DOMAIN Schema : \A i \in DOMAIN Schema[m] :
          LET f == Schema[m][i]
          IN /\ f.type = "enum" => f.of \in DOMAIN Enums
             /\ f.type = "message" =>
                   \A k \in DOMAIN Schema[f.of] : Schema[f.of][k].type # "message"

Is(j, kind) == kind \in DOMAIN j

Signed == {"int32", "int64"}
Ints == Signed \cup {"uint32", "uint64"}
Bits(type) == IF type \in {"int32", "uint32", "enum"} THEN Narrow ELSE Wide

\* The numbers a type holds; ASSIGN_FIELD compares magnitudes.
Holds(type, n) ==
    IF type \in Signed \cup {"enum"}
    THEN -(2^(Bits(type) - 1)) <= n /\ n < 2^(Bits(type) - 1)
    ELSE 0 <= n /\ n < 2^Bits(type)

Bad == <<>>
Truncated(halves) == IF halves < 0 THEN -((-halves) \div 2) ELSE halves \div 2

\* A value is of one kind, and has values in it.  What jansson reads is an integer of
\* Wide bits; a real beyond an unsigned long, which C does not convert, is left out.
ASSUME JsonAssumption ==
    \A j \in Json :
        \/ DOMAIN j = {"null"}
        \/ DOMAIN j = {"bool"} /\ j.bool \in BOOLEAN
        \/ DOMAIN j = {"int"} /\ j.int \in Int /\ Holds("int64", j.int)
        \/ /\ DOMAIN j = {"real"} /\ j.real \in Int
           /\ Holds("uint64", Truncated(j.real)) \/ Holds("uint64", -Truncated(j.real))
        \/ DOMAIN j = {"str"} /\ j.str \in Seq(STRING)
        \/ DOMAIN j = {"arr"} /\ j.arr \in Seq(Json)
        \/ DOMAIN j = {"obj"} /\ \A key \in DOMAIN j.obj : j.obj[key] \in Json
----------------------------------------------------------------------------
(* One value of a field from JSON: <<value>>, or Bad.                      *)

WholeNumber(s, n) == IF s # <<>> /\ n.taken = Len(s) THEN <<n.value>> ELSE Bad

\* A number, a string being read as an enum does.
NumberOf(j) ==
    CASE Is(j, "str")  -> WholeNumber(j.str, strtol(j.str))
      [] Is(j, "int")  -> <<j.int>>
      [] Is(j, "real") -> <<Truncated(j.real)>>
      [] Is(j, "bool") -> <<IF j.bool THEN 1 ELSE 0>>
      [] OTHER -> Bad

\* An integer takes a minus sign off a string first, and strtoull may find another
\* after it or after blanks; that one wraps.
Negative(s) == At(s, 1) = "-"
Unsigned(s) == IF Negative(s) THEN Tail(s) ELSE s
Wrapped(n) == IF 0 <= n THEN n ELSE n + 2^Wide
IntegerIn(s) ==
    LET n == strtol(Unsigned(s)).value
    IN IF IsNumeral(Unsigned(s)) /\ -(2^Wide) < n /\ n < 2^Wide
       THEN <<IF Negative(s) THEN -Wrapped(n) ELSE Wrapped(n)>> ELSE Bad
IntegerOf(j) == IF Is(j, "str") THEN IntegerIn(j.str) ELSE NumberOf(j)

\* In these two, n is IntegerOf a value.
\* Mutant of IntOf: the least number of a signed type is not one.
IntOfNotLeast(type, n) ==
    IF n # Bad /\ Holds(type, n[1]) /\ (type \in Signed => Holds(type, -n[1])) THEN n ELSE Bad

IntOf(type, n) == IF n # Bad /\ Holds(type, n[1]) THEN n ELSE Bad

\* A float or a double, in halves.
Doubled(n) == IF n = Bad THEN Bad ELSE <<2 * n[1]>>
HalvesOf(j) ==
    CASE Is(j, "str")  -> WholeNumber(j.str, strtod(j.str))
      [] Is(j, "real") -> <<j.real>>
      [] OTHER -> Doubled(NumberOf(j))

\* FLT_MIN, the least of a float, is the smallest above zero.
RealOf(type, h) ==
    IF h = Bad \/ (type = "float" /\ ~(0 < h[1] /\ h[1] <= FltMax)) THEN Bad ELSE h

\* Mutant of WholeBool: what is left of a string is not looked at.
BoolOfStart(s, b) == <<b.value>>

WholeBool(s, b) == IF b.taken = Len(s) THEN <<b.value>> ELSE Bad

\* A number goes through an int: an integer is cut to one, a real to its whole part,
\* and one beyond an int, where C has no answer, becomes some int that is not 0.
BoolOf(j) ==
    CASE Is(j, "str")  -> WholeBool(j.str, fabd_strtobool(j.str))
      [] Is(j, "int")  -> <<j.int % 2^Narrow # 0>>
      [] Is(j, "real") -> <<Truncated(j.real) # 0>>
      [] Is(j, "bool") -> <<j.bool>>
      [] OTHER -> Bad

\* Numbers need not have a name; n is NumberOf(j).  A negative real has d - fabs(d) # 0, and what
\* comes after its point is not looked at but at the limit.
EnumOf(names, j, n) ==
    LET fits == n # Bad /\ Holds("enum", n[1])
    IN CASE Is(j, "str") /\ ~fits -> IF j.str \in DOMAIN names THEN <<names[j.str]>> ELSE Bad
         [] Is(j, "real") /\ ~(0 <= j.real /\ Holds("enum", (j.real + 1) \div 2)) -> Bad
         [] OTHER -> IF fits THEN n ELSE Bad

BytesOf(hex) == IF hex.ok THEN <<hex.bytes>> ELSE Bad

ValueOf(f, j) ==
    CASE f.type \in Ints -> IntOf(f.type, IntegerOf(j))
      [] f.type \in {"float", "double"} -> RealOf(f.type, HalvesOf(j))
      [] f.type = "bool" -> BoolOf(j)
      [] f.type = "enum" -> EnumOf(Enums[f.of], j, NumberOf(j))
      [] f.type = "bytes" ->
           IF Is(j, "str") THEN BytesOf(hex2bin(j.str, Len(j.str) \div 2)) ELSE Bad
----------------------------------------------------------------------------
(* Messages.                                                               *)

Default(f) ==
    IF f.label # "required" \/ f.type = "message" THEN <<>>
    ELSE CASE f.type = "bool" -> <<FALSE>>
           [] f.type = "enum" -> <<Min(Range(Enums[f.of]))>>
           [] f.type = "bytes" -> <<<<>>>>
           [] OTHER -> <<0>>

Names(m) == { Schema[m][i].name : i \in DOMAIN Schema[m] }
Field(m, name) == Schema[m][CHOOSE i \in DOMAIN Schema[m] : Schema[m][i].name = name]
Blank(m) == [name \in Names(m) |-> Default(Field(m, name))]

\* Refused whatever the value.  A required field cannot be told from its default,
\* and may be given twice.
Refused(f, has, j) ==
    \/ Is(j, "arr")
    \/ (Is(j, "obj")) # (f.type = "message")
    \/ f.label = "optional" /\ has # <<>>

\* The values a field that had `has' has once it was given j, and whether that
\* failed.
Assigned(f, has, j, got, failed) ==
    CASE Is(j, "null") -> [has |-> has, failed |-> FALSE]
      [] ~Is(j, "null") /\ (Refused(f, has, j) \/ got = Bad) ->
           [has |-> has, failed |-> TRUE]
      [] OTHER -> [has |-> IF f.label = "repeated" THEN has \o got ELSE got,
                   failed |-> failed]

\* sub is what json_to_protobuf makes of j, where that is to be a message.
j2p_assign_field(f, has, j, sub) ==
    IF f.type = "message" THEN Assigned(f, has, j, <<sub.pb>>, sub.failed)
    ELSE Assigned(f, has, j, ValueOf(f, j), FALSE)

\* A key's value, or the elements of it.
Elements(j) == IF Is(j, "arr") THEN j.arr ELSE <<j>>

\* The field after each of the elements; one that fails does not stop the rest.
AlsoFailed(r, failed) == [has |-> r.has, failed |-> r.failed \/ failed]
AssignElements(f, has, elems, subs) ==
    LET assigned[i \in 0..Len(elems)] ==
            IF i = 0 THEN [has |-> has, failed |-> FALSE]
            ELSE AlsoFailed(j2p_assign_field(f, assigned[i - 1].has, elems[i], subs[i]),
                            assigned[i - 1].failed)
    IN assigned
AssignKey(f, has, elems, subs) == AssignElements(f, has, elems, subs)[Len(elems)]

\* The message, and whether anything failed, when each key gave what `given' says.
Message(m, unknown, given) ==
    [pb |-> [name \in Names(m) |->
                IF name \in DOMAIN given THEN given[name].has ELSE Blank(m)[name]],
     failed |-> unknown # {} \/ \E name \in DOMAIN given : given[name].failed]

\* What is no object has no keys.
Keys(j) == IF Is(j, "obj") THEN DOMAIN j.obj ELSE {}

\* inner has what the messages in it became.
Converted(m, j, inner) ==
    Message(m, Keys(j) \ Names(m),
            [name \in Keys(j) \cap Names(m) |->
                AssignKey(Field(m, name), Blank(m)[name], Elements(j.obj[name]), inner[name])])

\* A message in a message has none in it.
NoneOf(j) == [key \in Keys(j) |-> [i \in DOMAIN Elements(j.obj[key]) |-> <<>>]]
ConvertedInner(m, j) == Converted(m, j, NoneOf(j))

json_to_protobuf(m, j) ==
    Converted(m, j, [name \in Keys(j) \cap Names(m) |->
                        LET elems == Elements(j.obj[name])
                        IN [i \in DOMAIN elems |-> ConvertedInner(Field(m, name).of, elems[i])]])
----------------------------------------------------------------------------
(* And back.                                                               *)

\* Mutant of StrideOf: offsets cut to whole ints.
StrideOfCut(k) == k \div 4

\* The element of an array of ints seen at offset k: booleans are stepped over as
\* if they were bytes, and the low byte of an int comes first.
StrideOf(k) == (k + 3) \div 4

\* One value of a field that is no message.  A JSON integer is signed.
Shown(f, value) ==
    CASE f.type \in Ints ->
           [int |-> IF Holds("int64", value) THEN value ELSE value - 2^Wide]
      [] f.type \in {"float", "double"} -> [real |-> value]
      [] f.type = "bool" -> [bool |-> value]
      [] f.type = "enum" ->
           LET named == { s \in DOMAIN Enums[f.of] : Enums[f.of][s] = value }
           IN IF named = {} THEN [int |-> value]
              ELSE [str |-> CHOOSE s \in named : TRUE]
      [] f.type = "bytes" -> [str |-> bin2hex(value)]

\* sub is what protobuf_to_json makes of the value, where that is a message.
p2j_elem(f, value, sub) == IF f.type = "message" THEN sub ELSE Shown(f, value)

\* What of a field is shown.
Elems(f, values, subs) ==
    [i \in DOMAIN values |->
        p2j_elem(f, IF f.type = "bool" THEN values[1 + StrideOf(i - 1)] ELSE values[i],
                 subs[i])]

ToJson(m, pb, inner) ==
    [obj |-> [name \in { x \in Names(m) : pb[x] # <<>> } |->
                    IF Field(m, name).label = "repeated"
                    THEN [arr |-> Elems(Field(m, name), pb[name], inner[name])]
                    ELSE p2j_elem(Field(m, name), pb[name][1], inner[name][1])]]

ToJsonInner(m, pb) ==
    ToJson(m, pb, [name \in Names(m) |-> [i \in DOMAIN pb[name] |-> <<>>]])

protobuf_to_json(m, pb) ==
    ToJson(m, pb, [name \in Names(m) |->
                      [i \in DOMAIN pb[name] |-> ToJsonInner(Field(m, name).of, pb[name][i])]])
----------------------------------------------------------------------------
(* Messages that JSON says as they are.                                    *)

\* The values of a type: a JSON integer is signed, a float is to be above zero.
Sayable(type) ==
    CASE type \in Ints -> { n \in Int : Holds(type, n) /\ Holds("int64", n) }
      [] type = "enum" -> { n \in Int : Holds(type, n) }
      [] type = "float" -> 1..FltMax
      [] type = "double" -> Int
      [] type = "bool" -> BOOLEAN
      [] type = "bytes" -> Seq(0..255)

PlainTypes == Ints \cup {"enum", "float", "double", "bool", "bytes"}

\* Neither an array nor a message is in it.
Plain(m) ==
    \A name \in Names(m) : /\ Field(m, name).label \in {"required", "optional"}
                           /\ Field(m, name).type \in PlainTypes

PlainMessage(m, pb) ==
    /\ pb = [name \in Names(m) |-> pb[name]]
    /\ \A name \in Names(m) :
          /\ pb[name] \in Seq(Sayable(Field(m, name).type))
          /\ \/ Len(pb[name]) = 1
             \/ Len(pb[name]) = 0 /\ Field(m, name).label = "optional"

\* A field that has plain values or plain messages, and is no array of booleans.
SayableField(f, values) ==
    /\ IF f.type = "message"
       THEN /\ f.of \in DOMAIN Schema /\ Plain(f.of)
            /\ Len(values) \in Nat /\ values = [i \in 1..Len(values) |-> values[i]]
            /\ \A i \in DOMAIN values : PlainMessage(f.of, values[i])
       ELSE f.type \in PlainTypes /\ values \in Seq(Sayable(f.type))
    /\ \/ f.label = "repeated" /\ f.type # "bool"
       \/ f.label \in {"required", "optional"} /\ Len(values) = 1
       \/ f.label = "optional" /\ Len(values) = 0

SayableMessage(m, pb) ==
    /\ pb = [name \in Names(m) |-> pb[name]]
    /\ \A name \in Names(m) : SayableField(Field(m, name), pb[name])

ASSUME SayingsAssumption ==
    \A s \in Sayings : s.type \in DOMAIN Schema /\ SayableMessage(s.type, s.pb)

\* Any of them may be the one.
SayingSpec == saying \in Sayings /\ [][UNCHANGED saying]_saying

\* A message that is printed and read back is the same, for every type and label;
\* but for numbers above the largest signed one, floats that are not above zero
\* and repeated booleans (json.c:60-660).
RoundTrip ==
    json_to_protobuf(saying.type, protobuf_to_json(saying.type, saying.pb))
        = [pb |-> saying.pb, failed |-> FALSE]
=============================================================================
