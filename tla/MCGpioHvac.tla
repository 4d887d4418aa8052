---------------------------- MODULE MCGpioHvac ----------------------------
(***************************************************************************)
(* Small instances of GpioHvac: one client that may die and come back, so  *)
(* that requests overtake the replies it no longer waits for; batches of up*)
(* to two commands, so that one command can undo another; a lockout of two *)
(* ticks and a tolerance of one, so that every comparison of an age falls  *)
(* on both sides.                                                          *)
(***************************************************************************)
EXTENDS GpioHvac

CONSTANT c1

MCClients == {c1}

HeatPump == {"Y1", "OB", "G"}
NoCompressor == {"OB", "G", "W2"}

\* Every single command on a wire there is, and the pairs in which one command
\* meets another's guard or undoes its effect, or that are refused throughout.
Singles(wires) == {<<Cmd(w, l)>> : w \in wires, l \in Level}
HeatPumpBatches ==
    Singles(HeatPump) \cup
    { <<Cmd("Y1", "on"), Cmd("OB", "on")>>,
      <<Cmd("G", "off"), Cmd("Y1", "on")>>,
      <<Cmd("other", "on"), Cmd("W2", "on")>> }
NoCompressorBatches == Singles(Wires)

=============================================================================
