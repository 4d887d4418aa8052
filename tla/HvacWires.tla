----------------------------- MODULE HvacWires -----------------------------
(***************************************************************************)
(* The vocabulary of the HVAC modules: the wires of PbHVACWires the        *)
(* programs act on, the levels a wire is set to, the commands of a         *)
(* PbRequest, and the one REQ/REP exchange a client may have under way     *)
(* with a hardware controller.                                             *)
(***************************************************************************)
EXTENDS Naturals, Sequences

Wires == {"Y1", "W2", "OB", "G"}

\* The compressor and the second heat stage: what needs rest and a fan.
HeatSources == {"Y1", "W2"}

Level == {"on", "off"}
Tristate == Level \cup {"unknown"}

\* A wire outside the four has no safety controls; one stands for them all.
AnyWire == Wires \cup {"other"}
Command == [wire : AnyWire, connect : Level]
Cmd(w, level) == [wire |-> w, connect |-> level]

\* An exchange is idle; sent, with the commands on their way; taken by the
\* controller; replied, with the results on their way; or lost.
Idle == [st |-> "idle", cmds |-> <<>>, results |-> <<>>]
Sent(cmds) == [st |-> "sent", cmds |-> cmds, results |-> <<>>]
Taken == [st |-> "taken", cmds |-> <<>>, results |-> <<>>]
Lost == [st |-> "lost", cmds |-> <<>>, results |-> <<>>]
Replied(results) == [st |-> "replied", cmds |-> <<>>, results |-> results]

Exchange == [st : {"idle", "sent", "taken", "lost", "replied"},
             cmds : Seq(Command), results : Seq(BOOLEAN)]
=============================================================================
