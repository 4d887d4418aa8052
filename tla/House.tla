------------------------------- MODULE House -------------------------------
(***************************************************************************)
(* A house: the thermostat with the one hardware controller its "hwctl"    *)
(* client is configured with, gpio_hvac (module HvacSystem) or nbp (module *)
(* NbpSystem).  The thermostat does not know which one it talks to, so what*)
(* it means for the equipment is stated here once for both.                *)
(***************************************************************************)
EXTENDS HvacWires, Integers

CONSTANTS FanBefore, FanAfter, ShutoffDelay, Retry, MaxLag, Temps, Goals,
          FanModes, MayCrash, Forever, Batches,
          Tolerance, Wired, GpioFails, GpioMayCrash, CliBatches,
          Fets, Installed, MaxReports, SendFails

\* A heat pump, whose equipment does what it is told.
ASSUME HouseAssumption ==
    /\ {"Y1", "OB"} \subseteq Wired /\ ~GpioFails
    /\ {"Y1", "OB"} \subseteq Installed /\ ~SendFails
    /\ Installed \subseteq Fets /\ Fets \subseteq Wires
    /\ ShutoffDelay \in Nat \ {0} /\ FanBefore \in Nat /\ FanAfter \in Nat

\* The fan has a wire of its own, whichever controller it is.
FanHasLine == "G" \in Wired /\ "G" \in Fets

VARIABLES hw,        \* the controller: "gpio_hvac" or "nbp"
          pc, mode, fanAlways, goal, earliest, fanOn, compOn, fanOff, timeout,
          lag, success, reqReady, acked, ctl,
          age, phase, batch, done, serving, sub, told,   \* of the controller
          line, since, value,                            \* of gpio_hvac
          fet, rest, reports, asserted, present, unsent  \* of nbp

Gpio == INSTANCE HvacSystem
Nest == INSTANCE NbpSystem

\* The constants are such as the parts are given.
ASSUME PartsAssumption ==
    Gpio!SystemAssumption /\ Gpio!PartsAssumption /\ Nest!NbpSystemAssumption

gpioOwn == <<line, since, value>>
nestOwn == <<fet, rest, reports, asserted, present, unsent>>
vars == <<hw, Gpio!vars, nestOwn>>

\* What there is not.
Aside == "none"

Init ==
    \/ /\ hw = "gpio_hvac" /\ Gpio!Init
       /\ fet = Aside /\ rest = Aside /\ reports = Aside
       /\ asserted = Aside /\ present = Aside /\ unsent = Aside
    \/ /\ hw = "nbp" /\ Nest!Init
       /\ line = Aside /\ since = Aside /\ value = Aside

With(controller, gpioStep, nestStep) ==
    \/ controller = "gpio_hvac" /\ gpioStep /\ UNCHANGED <<hw, nestOwn>>
    \/ controller = "nbp" /\ nestStep /\ UNCHANGED <<hw, gpioOwn>>

Tstat == With(hw, Gpio!Tstat, Nest!Tstat)
Message == With(hw, Gpio!Message, Nest!Message)
Report == With(hw, FALSE, Nest!Report)
Controller == With(hw, Gpio!GpioHvac, Nest!Nbp)
Tick == With(hw, Gpio!Tick, Nest!Tick)

Next == Tstat \/ Message \/ Report \/ Controller \/ Tick

\* As in the two systems: messages need not arrive.
FairSpec ==
    /\ Init /\ [][Next]_vars
    /\ WF_vars(Tstat) /\ SF_vars(Report) /\ WF_vars(Controller) /\ WF_vars(Tick)
----------------------------------------------------------------------------
(* Properties.                                                             *)

Conducts(w) == (IF hw = "nbp" THEN fet[w] ELSE line[w]) = "on"

\* The valve of the heat pump is on the wanted side.
ValveFits == Conducts("OB") <=> mode = "cool"

\* The equipment does what the thermostat means: the compressor runs only while
\* heat or cold is wanted, and with the valve on the wanted side, in every state
\* of the exchanges between the two; nbp, which knows no valve, lets a wrong one
\* through for as long as the thermostat takes to undo it (tstat.c:134-147,
\* 341-354).
CompressorFollowsMode ==
    phase # "down" /\ Conducts("Y1") =>
        /\ mode # "off"
        /\ ValveFits \/ (hw = "nbp" /\ pc \in {"on.Y1", "undo.Y1"})

\* A command of the thermostat's is carried out and its result is that it failed.
Refuses == serving = Gpio!Me /\ done' = Append(done, FALSE)

\* The interlocks agree with the thermostat's plan: it is refused nothing but the
\* turning on of a wire that has not rested yet, by the clock the controller
\* started for that wire, and being refused does not start it again; gpio_hvac
\* refuses it no fan and no valve, a fan that is to be automatic again included,
\* and nobody refuses to turn anything off (tstat.c:104-105, gpio_hvac.c:98-140,
\* nest.c:276-285).
RefusedOnlyForRest ==
    [][Refuses =>
          LET cmd == batch[Len(done')]
          IN /\ cmd.connect = "on" /\ (hw = "gpio_hvac" => cmd.wire = "Y1")
             /\ age[cmd.wire] < ShutoffDelay /\ age'[cmd.wire] = age[cmd.wire]]_vars

\* Wanted cold or heat arrives: the compressor ends up running the wanted way
\* unless the want goes away first, through lockouts and retries; with nbp, when
\* the start begins with the fan.
WantIsServed ==
    \A m \in {"cool", "heat"} :
        mode = m /\ (hw = "gpio_hvac" \/ fanOn # Gpio!T!Unset)
            ~> (Conducts("Y1") /\ ValveFits) \/ mode # m

\* The fan that is due to stop after the last want, that is asked to be automatic
\* again, or that was started for a compressor, stops, unless the compressor runs
\* after all or the fan is wanted for itself.
FanIsToStop ==
    \/ mode = "off" /\ (fanOff # Gpio!T!Unset \/ pc = "goals.off")
    \/ compOn # Gpio!T!Unset

FanStops ==
    FanIsToStop
        ~> ~Conducts("G") \/ fanAlways \/ (mode # "off" /\ compOn = Gpio!T!Unset)
=============================================================================
