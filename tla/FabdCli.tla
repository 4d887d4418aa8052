------------------------------ MODULE FabdCli ------------------------------
(***************************************************************************)
(* The two command line clients of a control socket: fabd-cli, which sends *)
(* a JSON argument as a PbRequest and prints the PbRequestReply as JSON,   *)
(* and remctl, which sends one wire command and exits with its result.     *)
(***************************************************************************)
EXTENDS FabdJson, TLC

CONSTANTS Requests,   \* the JSON arguments of fabd-cli
          Results,    \* bound: the results a server may reply with
          Goals,      \* bound: the goals, if any
          WireArgs,   \* the wire arguments of remctl
          ValueArgs   \* its values

\* A field of a message.
F(name, type, label, of) == [name |-> name, type |-> type, label |-> label, of |-> of]

\* The messages are those of freeabode.proto, as far as the two programs need them;
\* every goal in a reply has a value of its type, if any.
ASSUME FabdCliAssumption ==
    /\ Requests \subseteq Json
    /\ {"PbRequest", "PbSetHVACWireRequest", "PbHVACGoals"} \subseteq DOMAIN Schema
    /\ Schema["PbRequest"] = << F("SetHVACWire", "message", "repeated", "PbSetHVACWireRequest"),
                                F("HVACGoals", "message", "optional", "PbHVACGoals") >>
    /\ Plain("PbSetHVACWireRequest") /\ Plain("PbHVACGoals")
    /\ Schema["PbRequestReply"] = << F("SetHVACWireSuccess", "bool", "repeated", ""),
                                     F("HVACGoals", "message", "optional", "PbHVACGoals") >>
    /\ Results \subseteq Seq(BOOLEAN)
    /\ \A goals \in Goals : \/ goals = <<>>
                            \/ goals = <<goals[1]>> /\ PlainMessage("PbHVACGoals", goals[1])
    /\ ValueArgs \subseteq Seq(STRING)

VARIABLES program,   \* "fabd-cli" or "remctl"
          at,        \* "start", "waiting" for the reply, or "exit"
          arg,       \* the command line
          request,   \* the PbRequest sent, <<>> before
          reply,     \* the PbRequestReply received, <<>> before
          shown,     \* the JSON printed by fabd-cli, <<>> before
          status     \* how the process ended, -1 when an assertion fails

cliVars == <<program, at, arg, request, reply, shown, status>>

CliInit ==
    /\ at = "start" /\ request = <<>> /\ reply = <<>> /\ shown = <<>> /\ status = 0
    /\ \/ program = "fabd-cli" /\ arg \in Requests
       \/ program = "remctl" /\ arg \in WireArgs \X ValueArgs

Exit(code) == at' = "exit" /\ status' = code

\* Nothing is sent when anything in the JSON is not understood.
SendJson ==
    /\ program = "fabd-cli" /\ at = "start"
    /\ LET converted == json_to_protobuf("PbRequest", arg)
       IN IF converted.failed
          THEN Exit(1) /\ UNCHANGED request
          ELSE request' = <<converted.pb>> /\ at' = "waiting" /\ UNCHANGED status
    /\ UNCHANGED <<program, arg, reply, shown>>

Wire(arg1) == Enums["PbHVACWires"][<<arg1>>]

\* Mutant of ValueUnderstood: any digit is taken.
ValueUnderstoodAny(value) == Len(value) = 1

\* One character, 0 or 1.
ValueUnderstood(value) == Len(value) = 1 /\ value[1] \in {"0", "1"}

\* atoi of the one digit.
SendWire ==
    /\ program = "remctl" /\ at = "start"
    /\ IF ~(<<arg[1]>> \in DOMAIN Enums["PbHVACWires"] /\ ValueUnderstood(arg[2]))
       THEN Exit(1) /\ UNCHANGED request
       ELSE /\ request' = <<[Blank("PbRequest") EXCEPT !.SetHVACWire =
                               <<[wire |-> <<Wire(arg[1])>>,
                                  connect |-> <<HexDigit(arg[2][1]) # 0>>]>>]>>
            /\ at' = "waiting" /\ UNCHANGED status
    /\ UNCHANGED <<program, arg, reply, shown>>

\* A result for each command from a hardware controller; the thermostat gives none.
Server ==
    /\ at = "waiting" /\ reply = <<>>
    /\ \E results \in Results :
          /\ Len(results) \in {0, Len(request[1].SetHVACWire)}
          /\ \E goals \in Goals :
                reply' = <<[SetHVACWireSuccess |-> results, HVACGoals |-> goals]>>
    /\ UNCHANGED <<program, at, arg, request, shown, status>>

ShowReply ==
    /\ program = "fabd-cli" /\ at = "waiting" /\ reply # <<>>
    /\ shown' = <<protobuf_to_json("PbRequestReply", reply[1])>>
    /\ Exit(0)
    /\ UNCHANGED <<program, arg, request, reply>>

ExitWithResult ==
    /\ program = "remctl" /\ at = "waiting" /\ reply # <<>>
    /\ LET results == reply[1].SetHVACWireSuccess
       IN Exit(CASE results = <<>> -> -1
                 [] results # <<>> /\ results[1] -> 0
                 [] OTHER -> 1)
    /\ UNCHANGED <<program, arg, request, reply, shown>>

CliNext == SendJson \/ SendWire \/ Server \/ ShowReply \/ ExitWithResult

CliSpec == CliInit /\ [][CliNext]_cliVars
----------------------------------------------------------------------------
(* Properties.                                                             *)

\* The elements of s that are not null, in their order.
NotNull(s) ==
    LET upTo[i \in 0..Len(s)] == IF i = 0 THEN <<>>
                                 ELSE IF Is(s[i], "null") THEN upTo[i - 1]
                                 ELSE Append(upTo[i - 1], s[i])
    IN upTo[Len(s)]

\* What a key is given.
Given(obj, key) == IF key \in DOMAIN obj THEN NotNull(Elements(obj[key])) ELSE <<>>

\* What a user means by a value.  A number is itself, and a real its whole part where
\* a whole number is wanted.
MeansPlain(j, n) ==
    CASE Is(j, "int")  -> n = j.int
      [] Is(j, "real") -> n = Truncated(j.real)
      [] Is(j, "bool") -> n = IF j.bool THEN 1 ELSE 0

\* A string is a whole numeral, but for a second minus sign that wraps.
MeansInteger(j, n) ==
    IF ~Is(j, "str") THEN MeansPlain(j, n)
    ELSE LET size == strtol(Unsigned(j.str)).value
         IN /\ IsNumeral(Unsigned(j.str))
            /\ 0 <= size => n = IF Negative(j.str) THEN -size ELSE size

\* No number is true but one that is not 0, and every such int is.
MeansBool(j, b) ==
    CASE Is(j, "bool") -> b = j.bool
      [] Is(j, "int")  -> /\ b => j.int # 0
                          /\ Holds("int32", j.int) /\ j.int # 0 => b
      [] Is(j, "real") -> b = (Truncated(j.real) # 0)
      [] Is(j, "str")  ->
           \/ b /\ j.str \in {<<"always">>, <<"true">>, <<"yes">>, <<"on">>}
           \/ b /\ IsNumeral(j.str) /\ j.str # <<"0">>
           \/ ~b /\ j.str \in {<<>>, <<"0">>, <<"no">>, <<"off">>, <<"none">>,
                               <<"never">>, <<"false">>}
MeansName(names, j, n) ==
    CASE ~Is(j, "str") -> MeansPlain(j, n)
      [] Is(j, "str") /\ IsNumeral(j.str) -> n = strtol(j.str).value
      [] Is(j, "str") /\ ~IsNumeral(j.str) -> j.str \in DOMAIN names /\ n = names[j.str]

\* In halves.
MeansReal(j, h) ==
    CASE Is(j, "str")  -> h = strtod(j.str).value /\ Len(j.str) = strtod(j.str).taken
      [] Is(j, "real") -> h = j.real
      [] Is(j, "int")  -> h = 2 * j.int
      [] Is(j, "bool") -> h = IF j.bool THEN 2 ELSE 0
MeansBytes(j, bytes) ==
    /\ Is(j, "str") /\ Len(j.str) = 2 * Len(bytes)
    /\ \A i \in DOMAIN bytes :
          LET high == HexDigit(j.str[2 * i - 1])
              low == HexDigit(j.str[2 * i])
          IN high \in 0..15 /\ low \in 0..15 /\ bytes[i] = 16 * high + low
Means(f, j, v) ==
    CASE f.type \in Ints -> MeansInteger(j, v)
      [] f.type \in {"float", "double"} -> MeansReal(j, v)
      [] f.type = "bool" -> MeansBool(j, v)
      [] f.type = "enum" -> MeansName(Enums[f.of], j, v)
      [] f.type = "bytes" -> MeansBytes(j, v)

\* The message has what the object says: for a required field the last of what it
\* is given counts, and an optional one has no more than that.
Says(m, obj, pb) ==
    /\ DOMAIN obj \subseteq Names(m)
    /\ \A name \in Names(m) :
          LET f == Field(m, name)
              given == Given(obj, name)
          IN /\ f.label = "optional" => Len(given) <= 1 /\ Len(pb[name]) = Len(given)
             /\ given # <<>> => Means(f, given[Len(given)], pb[name][1])

\* A command for every element, in its order, and the goals that were given, each once.
SaysRequest(obj, pb) ==
    /\ DOMAIN obj \subseteq {"SetHVACWire", "HVACGoals"}
    /\ LET cmds == Given(obj, "SetHVACWire")
       IN /\ Len(pb.SetHVACWire) = Len(cmds)
          /\ \A i \in DOMAIN cmds :
                Says("PbSetHVACWireRequest", cmds[i].obj, pb.SetHVACWire[i])
    /\ LET goals == Given(obj, "HVACGoals")
       IN /\ Len(goals) <= 1 /\ Len(pb.HVACGoals) = Len(goals)
          /\ goals # <<>> => Says("PbHVACGoals", goals[1].obj, pb.HVACGoals[1])

\* A request is sent only when all of it was understood, and then says what the
\* JSON says, with no word half read and no number cut to a width; but for an integer
\* beyond an int given for a boolean (json.c:314), and the wrapping minus sign
\* (cli.c:40-50, json.c:60-506).
SentMeansWhatIsAsked ==
    program = "fabd-cli" /\ request # <<>> /\ Is(arg, "obj") =>
        SaysRequest(arg.obj, request[1])

\* What is printed says what was replied, as far as booleans are printed rightly
\* (json.c:544-550): the results of up to two commands, and every goal.
ShownIsReplied ==
    shown # <<>> /\ Len(reply[1].SetHVACWireSuccess) <= 2 =>
        LET results == reply[1].SetHVACWireSuccess
            printed == shown[1].obj
        IN /\ IF results = <<>> THEN "SetHVACWireSuccess" \notin DOMAIN printed
              ELSE printed["SetHVACWireSuccess"].arr
                       = [i \in DOMAIN results |-> [bool |-> results[i]]]
           /\ reply[1].HVACGoals # <<>> =>
                 json_to_protobuf("PbHVACGoals", printed["HVACGoals"])
                     = [pb |-> reply[1].HVACGoals[1], failed |-> FALSE]

\* remctl sends a command only for a wire it knows and a value of 0 or 1, and
\* ends with success only when that command was carried out (remctl.c:20-64).
RemctlTellsTruth ==
    program = "remctl" /\ at = "exit" /\ status = 0 =>
        /\ reply[1].SetHVACWireSuccess = <<TRUE>>
        /\ request[1].SetHVACWire = <<[wire |-> <<Wire(arg[1])>>,
                                       connect |-> <<arg[2] = <<"1">>>>]>>
=============================================================================
