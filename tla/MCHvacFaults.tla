---------------------------- MODULE MCHvacFaults ----------------------------
(***************************************************************************)
(* A small instance of HvacSystem with one kind of fault at a time: the    *)
(* processes crash and come back, each without the other, or another client*)
(* turns the compressor off behind the thermostat's back.  The lockout is  *)
(* longer than the time between two clock readings, as the real one is.    *)
(***************************************************************************)
EXTENDS HvacSystem

CoolTemps == {2, 4}
MCGoals == {[low |-> 1, high |-> 3, hyst |-> 0]}
HeatPump == {"Y1", "OB", "G"}
MCBatches == {<<Cmd(w, l)>> : w \in HeatPump, l \in Level}
MeddlingBatches == {<<Cmd("Y1", "off")>>}

\* What `RunsTheWantedWay' depends on.
ASSUME WayAssumption

VARIABLE fault

FaultInit == Init /\ fault \in {"crash", "cli"}

FaultNext ==
    /\ \/ Tstat \/ Message \/ GpioHvac \/ Tick
       \/ fault = "crash" /\ Crash
       \/ fault = "cli" /\ CliRequest
    /\ UNCHANGED fault

\* The processes run, and time passes; the REP socket of gpio_hvac takes the
\* requests of its clients in turn.
FairFaults ==
    /\ FaultInit /\ [][FaultNext]_<<vars, fault>>
    /\ WF_vars(Tstat) /\ WF_vars(GpioHvac) /\ WF_vars(Tick)
    /\ SF_vars(G!HandleReq(Me) /\ UNCHANGED tstatOnly)

=============================================================================
