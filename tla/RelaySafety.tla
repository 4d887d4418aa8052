---------------------------- MODULE RelaySafety ----------------------------
(***************************************************************************)
(* What an HVAC relay controller promises to the equipment behind its      *)
(* relays, whatever commands it is sent: the abstract specification that   *)
(* gpio_hvac implements (module GpioHvac).                                 *)
(*                                                                         *)
(* Only the equipment is visible: the level of every relay line and, for   *)
(* the two heat sources (compressor Y1 and second stage W2), the time since*)
(* the line last switched.  Time is counted in ticks and saturates at      *)
(* Forever, past every delay the controller compares it with.              *)
(***************************************************************************)
EXTENDS HvacWires

CONSTANTS ShutoffDelay,   \* least rest of a heat source before it may run again
          Tolerance,      \* how long after a compressor start OB may still turn
          Forever,        \* the age at which time since a switch saturates
          Wired           \* the wires that have a relay line

VARIABLES alive,    \* whether a controller is in charge of the lines
          line,     \* the level of every relay line
          since     \* ticks since a heat source's line last switched

relayVars == <<alive, line, since>>

Older(t) == IF t < Forever THEN t + 1 ELSE Forever

\* The ages after the lines took the levels `new'.
Switched(new) ==
    [w \in HeatSources |-> IF new[w] = line[w] THEN since[w] ELSE 0]

FanCovers(l) == (\E w \in HeatSources : l[w] = "on") /\ "G" \in Wired
                    => l["G"] = "on"

AbsInit ==
    /\ alive = FALSE
    /\ line = [w \in Wires |-> "off"]
    /\ since = [w \in HeatSources |-> 0]

\* The lines take new levels: a heat source starts only when it has rested,
\* never without the fan, and the valve turns under a running compressor only
\* within the tolerance.
Relay ==
    \E new \in [Wires -> Level] :
        /\ alive
        /\ \A w \in HeatSources :
              line[w] = "off" /\ new[w] = "on" => since[w] >= ShutoffDelay
        /\ FanCovers(new)
        /\ line["Y1"] = "on" /\ new["Y1"] = "on" /\ new["OB"] # line["OB"]
              => since["Y1"] <= Tolerance
        /\ line' = new
        /\ since' = Switched(new)
        /\ UNCHANGED alive

\* The controller dies; a line keeps its level or drops out.
Abandon ==
    \E new \in [Wires -> Level] :
        /\ alive
        /\ \A w \in Wires : new[w] = "on" => line[w] = "on"
        /\ alive' = FALSE
        /\ line' = new
        /\ since' = Switched(new)

\* A controller takes charge, with every line low.
TakeCharge ==
    /\ ~alive
    /\ alive' = TRUE
    /\ line' = [w \in Wires |-> "off"]
    /\ since' = Switched([w \in Wires |-> "off"])

TimePasses ==
    /\ since' = [w \in HeatSources |-> Older(since[w])]
    /\ UNCHANGED <<alive, line>>

AbsNext == Relay \/ Abandon \/ TakeCharge \/ TimePasses

AbsSpec == AbsInit /\ [][AbsNext]_relayVars
=============================================================================
