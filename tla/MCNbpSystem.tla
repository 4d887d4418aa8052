---------------------------- MODULE MCNbpSystem ----------------------------
(***************************************************************************)
(* A small instance of NbpSystem: two ticks may go by before a command is  *)
(* carried out, so that the valve is turned off a tick or two after the    *)
(* clock was read for the thermostat's own lockout.                        *)
(***************************************************************************)
EXTENDS NbpSystem

CoolTemps == {2, 4}
MCGoals == {[low |-> 1, high |-> 3, hyst |-> 0]}
HeatPump == {"Y1", "OB", "G"}
MCBatches == {<<Cmd(w, l)>> : w \in HeatPump, l \in Level}

=============================================================================
