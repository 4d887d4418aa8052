----------------------------- MODULE HvacSystem -----------------------------
(***************************************************************************)
(* The thermostat and the relay controller together: tstat's blocking wire *)
(* commands are the requests gpio_hvac takes from its REP socket, beside   *)
(* those of another client (fabd-cli), and one clock runs for both.  Each  *)
(* process may die and come back without the other.                        *)
(***************************************************************************)
EXTENDS HvacWires, Integers

CONSTANTS FanBefore, FanAfter, ShutoffDelay, Retry, MaxLag, Temps, Goals,
          FanModes, MayCrash, Tolerance, Forever, Wired, Batches, GpioFails,
          GpioMayCrash,   \* whether gpio_hvac may die and restart
          CliBatches      \* the requests of the other client

Me == "tstat"
Cli == "cli"
Clients == {Me, Cli}

\* The requests tstat sends: one command each, to one of three wires.
TstatBatches == {<<Cmd(w, level)>> : w \in {"Y1", "OB", "G"}, level \in Level}

ASSUME SystemAssumption ==
    /\ TstatBatches \cup CliBatches \subseteq Batches
    /\ Batches \subseteq Seq(Command)
    /\ GpioMayCrash \in BOOLEAN

VARIABLES pc, mode, fanAlways, goal, earliest, fanOn, compOn, fanOff, timeout,
          lag, success, reqReady, acked,
          line, since, value, age, phase, batch, done, serving, sub, told,
          ctl

T == INSTANCE Tstat
G == INSTANCE GpioHvac

tstatOnly == <<pc, mode, fanAlways, goal, earliest, fanOn, compOn, fanOff,
               timeout, lag, success, reqReady, acked>>
gpioOnly == <<line, since, value, age, phase, batch, done, serving, sub, told>>
vars == <<tstatOnly, gpioOnly, ctl>>

Init == T!Init /\ G!Init

Tstat == T!Thread /\ UNCHANGED gpioOnly

\* A weather report arrives, or a request for the thermostat.
Message == T!PollReady /\ UNCHANGED gpioOnly

GpioHvac == G!Server /\ UNCHANGED tstatOnly

CliRequest ==
    /\ \/ \E cmds \in CliBatches : G!SendRequest(Cli, cmds)
       \/ G!ReceiveReply(Cli)
       \/ G!ClientRestart(Cli)
    /\ UNCHANGED <<tstatOnly, gpioOnly>>

Crash ==
    \/ T!Crash /\ UNCHANGED gpioOnly
    \/ GpioMayCrash /\ G!Crash /\ UNCHANGED tstatOnly

Tick == T!TstatTick /\ G!Tick

Next == Tstat \/ Message \/ GpioHvac \/ CliRequest \/ Crash \/ Tick

Spec == Init /\ [][Next]_vars
----------------------------------------------------------------------------
(* Properties.                                                             *)

\* What each module assumes of its environment is what the other does: the
\* system is a behaviour of tstat with some controller, and of gpio_hvac with
\* some clients.
OwnCtl == [c \in {Me} |-> ctl[c]]
Thermostat == INSTANCE Tstat WITH Clients <- {Me}, ctl <- OwnCtl

\* The constants are such as each of them is given.
ASSUME PartsAssumption == G!GpioAssumption /\ Thermostat!TstatAssumption

ImplementsTstat == Thermostat!Spec
ImplementsGpio == G!Spec

\* Whoever has crashed and come back, and whatever another client turned off, a
\* compressor that the thermostat takes to be running does not run the other
\* way: not one that a restart of the thermostat left running, and not one whose
\* valve a restart of the controller let go (tstat.c:292, gpio_hvac.c:240).
RunsTheWantedWay ==
    /\ mode # "off" /\ fanOn = T!Unset /\ compOn = T!Unset
    /\ phase # "down" /\ line["Y1"] = "on"
    => (line["OB"] = "on" <=> mode = "cool")

\* What it depends on: relays that do what they are told, a lockout longer than the
\* time between two clock readings, in which a restarted controller would forget
\* the valve, and a client that leaves the valve alone and starts no compressor.
Modest(cmd) == cmd.wire # "OB" /\ (cmd.wire = "Y1" => cmd.connect = "off")

WayAssumption ==
    /\ ~GpioFails
    /\ MaxLag \in Nat /\ ShutoffDelay \in Nat /\ MaxLag < ShutoffDelay
    /\ Forever \in Nat /\ FanBefore \in Nat /\ FanAfter \in Nat
    /\ \A cmds \in CliBatches : \A i \in DOMAIN cmds : Modest(cmds[i])

\* A start that is planned is carried out or given up, whoever has crashed and
\* come back: no refusal is retried for ever, and no retry is forgotten, unless
\* the controller dies with the thermostat's request.
PlanCompletes ==
    fanOn # T!Unset \/ compOn # T!Unset
        ~> \/ fanOn = T!Unset /\ compOn = T!Unset
           \/ phase = "down" \/ ctl[Me].st = "lost"
=============================================================================
