----------------------------- MODULE MCLibrary -----------------------------
(***************************************************************************)
(* Small instances of what the programs take from the library: the clients *)
(* of the command line with their JSON (FabdCli), a message of every type  *)
(* turned to JSON and back (FabdJson), or two processes that find each     *)
(* other by their configuration (Fabdcfg).  An int has 5 bits and a long 7.*)
(***************************************************************************)
EXTENDS FabdCli, Fabdcfg

VARIABLE part   \* "cli", "message" or "config"

MCSchema == [
    PbRequest |-> << F("SetHVACWire", "message", "repeated", "PbSetHVACWireRequest"),
                     F("HVACGoals", "message", "optional", "PbHVACGoals") >>,
    PbRequestReply |-> << F("SetHVACWireSuccess", "bool", "repeated", ""),
                          F("HVACGoals", "message", "optional", "PbHVACGoals") >>,
    PbSetHVACWireRequest |-> << F("wire", "enum", "required", "PbHVACWires"),
                                F("connect", "bool", "required", "") >>,
    PbHVACGoals |-> << F("temp_high", "int32", "optional", ""),
                       F("temp_low", "int32", "optional", ""),
                       F("fan_mode", "enum", "optional", "PbFanMode") >>,
    EveryType |-> << F("i", "int32", "optional", ""), F("u", "uint32", "required", ""),
                     F("l", "int64", "repeated", ""), F("w", "uint64", "optional", ""),
                     F("f", "float", "optional", ""), F("e", "enum", "required", "PbFanMode"),
                     F("b", "bytes", "optional", ""), F("t", "bool", "optional", ""),
                     F("m", "message", "repeated", "PbHVACGoals") >>]

MCEnums == [
    PbHVACWires |-> (<<"W1">> :> 0 @@ <<"Y1">> :> 1 @@ <<"G">> :> 2 @@ <<"Star">> :> 11),
    PbFanMode |-> (<<"AlwaysOff">> :> 0 @@ <<"AlwaysOn">> :> 1 @@ <<"Auto">> :> 2)]

\* JSON values, and objects with or without each of their keys.
S(pieces) == [str |-> pieces]
I(n) == [int |-> n]
Arr(seq) == [arr |-> seq]
O(object) == [obj |-> object]
Objects(keys, values) == { O(o) : o \in UNION {[ks -> values] : ks \in SUBSET keys} }
Cmd(wire, connect) == O([wire |-> wire, connect |-> connect])
Off == Cmd(S(<<"G">>), [bool |-> FALSE])

Words == { <<>>, <<"on">>, <<"off">>, <<"no">>, <<"never">>, <<"none">>, <<"0">>, <<"7">>,
           <<"on", "7">>, <<"0", "0">>, <<"0", "x", "0">>, <<"-", "0">>, <<"?">>,
           <<" ", "7">>, <<"+", "7">>, <<"-", " ", "7">>, <<"-", "-", "7">>, <<"1", ".", "5">>,
           <<" ", "-", "1", "2", "0">>, <<"-", "-", "1", "2", "0">> }
Scalars == { S(w) : w \in Words } \cup { I(n) : n \in {-17, -16, -1, 0, 1, 15, 16, 32} }
           \cup { [real |-> h] : h \in {-1, 1, 3, 64} } \cup { [bool |-> TRUE], [null |-> 0] }

GoalArgs == Objects({"temp_high"}, Scalars) \cup Objects({"fan_mode"}, Scalars \cup {S(<<"Auto">>)})
         \cup { O([temp_low |-> Arr(ns)]) : ns \in {<<I(1), I(2)>>, <<[null |-> 0], I(1)>>} }
         \cup {I(1), Arr(<<O(<<>>)>>), Arr(<<O(<<>>), O(<<>>)>>)}
Commands == { Cmd(S(<<"Y1">>), x) : x \in Scalars }
            \cup { Cmd(x, I(1)) : x \in Scalars \cup {S(<<"Star">>)} }
            \cup { Arr(<<>>), O([connect |-> I(1)]), Cmd(Arr(<<S(<<"Y1">>), S(<<"G">>)>>), I(1)) }
MCRequests ==
    { O([HVACGoals |-> g]) : g \in GoalArgs }
    \cup { O([SetHVACWire |-> c]) : c \in Commands }
    \cup { O([SetHVACWire |-> Arr(cs)]) :
              cs \in { <<c, Off>> : c \in Commands } \cup { <<Off, Off, Off>> } }
    \cup { O([wires |-> I(1)]), O(<<>>), Arr(<<I(1)>>) }

\* What is in values, down to a value in a list of a goal's.
PartsOf(j) == CASE Is(j, "arr") -> Range(j.arr)
                [] Is(j, "obj") -> Range(j.obj)
                [] OTHER -> {}
AndParts(js) == js \cup UNION { PartsOf(j) : j \in js }
MCJson == AndParts(AndParts(AndParts(AndParts(MCRequests))))

GoalsOf(n) == [Blank("PbHVACGoals") EXCEPT !.temp_low = <<n>>]
MCResults == UNION { [1..n -> BOOLEAN] : n \in 0..3 }
MCGoals == {<<>>, <<GoalsOf(-1)>>, <<[temp_high |-> <<15>>, temp_low |-> <<>>, fan_mode |-> <<2>>]>>}
MCWireArgs == {"Y1", "Star", "X9"}
MCValueArgs == {<<"0">>, <<"1">>, <<"7">>, <<"1", "1">>, <<>>}

\* Messages of every type with the numbers at the types' ends.
OptionalOf(values) == {<<>>} \cup { <<v>> : v \in values }
Lows == [type |-> "PbHVACGoals", pb |-> GoalsOf(-1)]
MCSayings ==
    {Lows} \cup [type : {"EveryType"}, pb :
        [i : OptionalOf({-16, 15}), u : {<<0>>, <<31>>}, l : {<<>>, <<-64, 63>>},
         w : OptionalOf({0, 63}), f : OptionalOf({1}), e : {<<2>>, <<7>>},
         b : OptionalOf({<<>>, <<5, 171>>}), t : OptionalOf({TRUE}),
         m : {<<>>, <<Blank("PbHVACGoals"), GoalsOf(-1)>>}]]

\* What the C library makes of some strings.
ASSUME Readings ==
    /\ \A r \in { <<<<" ", "-", "5">>, -5>>, <<<<"+", "7">>, 7>>, <<<<"0", "1", "1">>, 9>>,
                  <<<<"0", "X", "1", "F">>, 31>>, <<<<"-", "0">>, 0>> } :
          strtol(r[1]) = [value |-> r[2], taken |-> Len(r[1])]
    /\ \A r \in { <<<<>>, 0>>, <<<<" ", "-">>, 0>>, <<<<"0", "9">>, 1>>, <<<<"0", "x">>, 1>>,
                  <<<<"7", " ">>, 1>>, <<<<"-", "-", "7">>, 0>> } :
          strtol(r[1]).taken = r[2]
    /\ \A r \in { <<<<"-", "1", ".", "5">>, -3>>, <<<<".", "5">>, 1>>, <<<<"5", ".">>, 10>>,
                  <<<<"0", "1", "0">>, 20>>, <<<<"0", "x", "1", ".", "8">>, 3>> } :
          strtod(r[1]) = [value |-> r[2], taken |-> Len(r[1])]
    /\ strtod(<<".">>).taken = 0 /\ strtod(<<"1", "?">>).taken = 1
    \* In a uint64_t and an int64_t of 7 bits.
    /\ IntegerIn(<<" ", "-", "5">>) = <<123>> /\ IntegerIn(<<"-", "-", "5">>) = <<-123>>
    /\ IntegerIn(<<"-", " ", "5">>) = <<-5>> /\ IntegerIn(<<"-">>) = Bad
    /\ IntegerIn(<<"1", "2", "8">>) = Bad /\ IntegerIn(<<"-", "6", "4">>) = <<-64>>

\* "Any number other than "0" is intentionally considered true, including 0x0"
\* (util.c:103): a command to connect that says a number says so.
SwitchY1(word) == O([SetHVACWire |-> Cmd(S(<<"Y1">>), S(word))])
NumbersAreTrue ==
    program = "fabd-cli" /\ at # "start" =>
        \A word \in Words :
            IsNumeral(word) /\ word # <<"0">> /\ arg = SwitchY1(word)
                => /\ request # <<>>
                   /\ request[1].SetHVACWire[1].connect = <<TRUE>>

\* The configuration of the README, and its variations.
Ep(tr, host, port) == [tr |-> tr, host |-> host, port |-> port]
Ipc == Ep("ipc", "weather.ipc", "")
Wild == Ep("tcp", "*", "2929")
Local == Ep("tcp", "localhost", "2929")
AtServer == Ep("tcp", "n1", "2929")
Uri == Ep("fabd", "nbp", "events")

MCPlacements == { [nbp |-> "n1", wallknob |-> n] : n \in {"n1", "n2"} }

Endpoints == {Ipc, Wild, Local, AtServer}
Binds == { <<a, b>> : a, b \in Endpoints } \cup { <<a>> : a \in Endpoints } \cup {<<NotString, Wild>>}
Connects == {<<Ipc, AtServer>>, <<AtServer>>, <<NotString, Ipc>>}
MCServers ==
    { [list |-> b] : b \in Binds }
    \cup { [bind |-> <<Ipc, Wild>>, connect |-> c] : c \in Connects }
    \cup { [bind |-> <<Wild>>], [connect |-> <<AtServer>>] }

\* An object with `key', if there is a value for it.
With(key, value) == IF value = Null THEN <<>> ELSE key :> value
Nbps == { With("node", n) @@ With("servers", [events |-> s])
          : n \in {Null, NotString, "n1"}, s \in MCServers }
MCDirectories ==
    { [devices |-> [nbp |-> d, wallknob |-> With("node", n)], defaults |-> With("node", x)]
      : d \in Nbps, n \in {Null, "n1", "n2"}, x \in {Null, "n1"} }
    \cup { [devices |-> <<>>, defaults |-> <<>>] }

MCOwnFiles ==
    { [nbp |-> o, wallknob |-> With("node", n) @@ With("clients", [weather |-> u])]
      : o \in {<<>>, With("servers", [events |-> [list |-> <<Local>>]])},
        n \in {Null, "n2"}, u \in {<<Uri>>, <<AtServer, Uri>>, <<NotString>>} }

\* What a behaviour is not about has not begun.
NoCli ==
    /\ program = "none" /\ arg = "none" /\ at = "start"
    /\ request = <<>> /\ reply = <<>> /\ shown = <<>> /\ status = 0

NoConfig ==
    /\ nodeOf = "none" /\ directory = "none" /\ own = "none" /\ zmqBeats = FALSE
    /\ bound = {} /\ serverAt = "start" /\ clientAt = "start"
    /\ next = 0 /\ ivl = 0 /\ timeout = -1 /\ connected = {}

MCInit ==
    \/ part = "cli" /\ CliInit /\ NoConfig /\ saying = Lows
    \/ part = "message" /\ NoCli /\ NoConfig /\ saying \in Sayings
    \/ part = "config" /\ NoCli /\ CfgInit /\ saying = Lows

MCNext ==
    \/ part = "cli" /\ CliNext /\ UNCHANGED <<part, saying, cfgVars>>
    \/ part = "config" /\ CfgNext /\ UNCHANGED <<part, saying, cliVars>>

MCSpec == MCInit /\ [][MCNext]_<<part, saying, cliVars, cfgVars>>
=============================================================================
