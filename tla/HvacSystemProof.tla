-------------------------- MODULE HvacSystemProof --------------------------
(***************************************************************************)
(* HvacSystem for every value of its constants: whatever the thermostat    *)
(* does to the controller's socket is something a client may do, and       *)
(* whatever the controller does to the thermostat's exchange is something  *)
(* a controller may do.  The first needs that the thermostat asks only when*)
(* nothing is under way, the second that each of its requests gets one     *)
(* result, of which module Tstat reads the first.  So what is proved of    *)
(* either part alone holds of it here.                                     *)
(*                                                                         *)
(* Then the valve of a running compressor, through restarts of either.     *)
(* What the thread may conclude from an answer is stated at the place where*)
(* it waits for it.  The hard case is a controller that restarts while the *)
(* thread holds a `yes' about the valve: the lockout after the restart,    *)
(* longer than the thread goes without reading its clock, then refuses the *)
(* compressor.                                                             *)
(***************************************************************************)
EXTENDS HvacSystem, TLAPS

\* The places of the thread where no exchange is under way.
AtRest == {"down"} \cup T!Running

\* What is exchanged has its type.
Typed ==
    /\ ctl \in [Clients -> Exchange]
    /\ batch \in Seq(Command) /\ done \in Seq(BOOLEAN)
    /\ Len(done) <= Len(batch)
    /\ serving \in Clients \cup {G!None}

\* The thermostat's requests are of one command each, also once taken.
OneCommand ==
    /\ ctl[Me].st = "sent" => Len(ctl[Me].cmds) = 1
    /\ phase # "serving" => serving = G!None
    /\ serving = Me => Len(batch) = 1

\* It asks nothing while an exchange is under way, and waits for what it asked.
OneExchange ==
    /\ ctl[Me].st = "idle" => ctl[Me] = Idle
    /\ ctl[Me].st = "lost" => ctl[Me] = Lost
    /\ pc \in AtRest => ctl[Me].st = "idle"

Inv == Typed /\ OneCommand /\ OneExchange
----------------------------------------------------------------------------
(* What a step of the thread does to its exchange.                         *)

Asks ==
    /\ ctl[Me].st \in {"idle", "replied"}
    /\ \E cmds \in TstatBatches : ctl' = [ctl EXCEPT ![Me] = Sent(cmds)]
    /\ pc' \notin AtRest

Reads == ctl[Me].st = "replied" /\ ctl' = [ctl EXCEPT ![Me] = Idle]

Stays == ctl' = ctl /\ pc \in AtRest

\* A call from a place at rest, or on a reply, is a request.
LEMMA CallAsks ==
    ASSUME NEW w \in {"Y1", "OB", "G"}, NEW level \in Level, NEW place \in T!Waiting,
           ctl[Me].st \in {"idle", "replied"}, T!Call(w, level, place)
    PROVE  Asks
<1>1. <<Cmd(w, level)>> \in TstatBatches
  BY DEF TstatBatches
<1>2. ctl' = [ctl EXCEPT ![Me] = Sent(<<Cmd(w, level)>>)] /\ pc' = place
  BY DEF T!Call, T!Sent, T!Cmd, Sent, Cmd
<1>3. place \notin AtRest
  BY DEF AtRest, T!Running, T!Waiting
<1> QED
  BY <1>1, <1>2, <1>3 DEF Asks

\* Each step of the thread asks, reads a reply, or leaves the exchange alone.
LEMMA ThreadExchange ==
    ASSUME Inv, T!Thread
    PROVE  Asks \/ Reads \/ Stays
<1>1. ctl[Me].st = "idle" \/ pc \notin AtRest
  BY DEF Inv, OneExchange
<1>0. /\ "on" \in Level /\ "off" \in Level
      /\ T!ValveLevel \in Level
  BY DEF Level, T!ValveLevel
<1> USE DEF T!Return, T!Idle, Reads, Idle, T!Replies
<1>2. CASE T!Start
  BY <1>0, <1>1, <1>2, CallAsks, Zenon DEF T!Start, Stays, AtRest, T!Waiting
<1>3. CASE T!Started
  BY <1>3 DEF T!Started
<1>4. CASE T!FanOnTimer
  BY <1>0, <1>1, <1>4, CallAsks, Zenon
     DEF T!FanOnTimer, Stays, AtRest, T!Running, T!Waiting
<1>5. CASE T!FanTurnedOn
  BY <1>5 DEF T!FanTurnedOn
<1>6. CASE T!CompressorTimer
  BY <1>0, <1>1, <1>6, CallAsks, Zenon
     DEF T!CompressorTimer, Stays, AtRest, T!Running, T!Waiting
<1>7. CASE T!ReversingSet
  BY <1>0, <1>7, CallAsks DEF T!ReversingSet, T!Waiting
<1>8. CASE T!CompressorTurnedOn
  BY <1>0, <1>8, CallAsks DEF T!CompressorTurnedOn, T!Waiting
<1>9. CASE T!CompressorUndone
  BY <1>0, <1>9, CallAsks DEF T!CompressorUndone, T!Waiting
<1>10. CASE T!ReversingUndone
  BY <1>10 DEF T!ReversingUndone
<1>11. CASE T!FanOffTimer
  BY <1>0, <1>1, <1>11, CallAsks, Zenon
     DEF T!FanOffTimer, Stays, AtRest, T!Running, T!Waiting
<1>12. CASE T!FanTurnedOff
  BY <1>12 DEF T!FanTurnedOff
<1>13. CASE T!PollTimedOut
  BY <1>13 DEF T!PollTimedOut, Stays, AtRest, T!Running
<1>14. CASE T!ReadWeather
  <2>1. pc = "weather" /\ pc \in AtRest /\ ctl[Me].st = "idle"
    BY <1>1, <1>14 DEF T!ReadWeather, AtRest, T!Running
  <2>2. UNCHANGED ctl \/ T!Call("Y1", "off", "off.Y1")
    BY <1>14, Zenon DEF T!ReadWeather, T!CompressorOn, T!CompressorOff
  <2> QED
    BY <1>0, <2>1, <2>2, CallAsks DEF Stays, T!Waiting
<1>15. CASE T!CompressorTurnedOff
  BY <1>0, <1>15, CallAsks DEF T!CompressorTurnedOff, T!Waiting
<1>16. CASE T!ReversingTurnedOff
  BY <1>16 DEF T!ReversingTurnedOff
<1>17. CASE T!HandleReq
  BY <1>0, <1>1, <1>17, CallAsks, Zenon
     DEF T!HandleReq, Stays, AtRest, T!Running, T!Waiting
<1>18. CASE T!FanSetOn
  BY <1>18 DEF T!FanSetOn
<1>19. CASE T!FanSetOff
  BY <1>19 DEF T!FanSetOff
<1> QED
  BY <1>2, <1>3, <1>4, <1>5, <1>6, <1>7, <1>8, <1>9, <1>10, <1>11, <1>12, <1>13, <1>14,
     <1>15, <1>16, <1>17, <1>18, <1>19 DEF T!Thread

\* Requests are of commands.
LEMMA BatchTypes ==
    \A cmds \in Batches : Sent(cmds) \in Exchange /\ cmds \in Seq(Command)
  BY SystemAssumption DEF Exchange, Sent

\* tstat's are of one command, and among those the controller is asked.
LEMMA TstatBatchTypes ==
    \A cmds \in TstatBatches : Len(cmds) = 1 /\ cmds \in Batches
  BY SystemAssumption DEF TstatBatches

\* The other states of an exchange have their type.
LEMMA FixedTypes ==
    /\ Idle \in Exchange /\ Lost \in Exchange /\ Taken \in Exchange
    /\ \A results \in Seq(BOOLEAN) : Replied(results) \in Exchange
  BY DEF Exchange, Idle, Lost, Taken, Replied

\* The thermostat keeps the invariant.
LEMMA ThreadKeepsInv ==
    ASSUME Inv, T!Thread, UNCHANGED gpioOnly
    PROVE  Inv'
<1> USE DEF Inv, gpioOnly
<1>1. Me \in Clients
  BY DEF Clients
<1>2. CASE Asks
  <2>1. PICK cmds \in TstatBatches : ctl' = [ctl EXCEPT ![Me] = Sent(cmds)]
    BY <1>2 DEF Asks
  <2>2. ctl'[Me] = Sent(cmds) /\ ctl' \in [Clients -> Exchange]
    BY <1>1, <2>1, BatchTypes, TstatBatchTypes DEF Typed
  <2>3. ctl'[Me].st = "sent" /\ Len(ctl'[Me].cmds) = 1
    BY <2>2, TstatBatchTypes DEF Sent
  <2> QED
    BY <1>2, <2>2, <2>3 DEF Typed, OneCommand, OneExchange, Asks
<1>3. CASE Reads
  <2>1. ctl'[Me] = Idle /\ ctl' \in [Clients -> Exchange]
    BY <1>1, <1>3, FixedTypes DEF Reads, Typed
  <2> QED
    BY <2>1 DEF Typed, OneCommand, OneExchange, Idle
<1>4. CASE Stays
  BY <1>4 DEF Stays, Typed, OneCommand, OneExchange
<1> QED
  BY <1>2, <1>3, <1>4, ThreadExchange

\* However control_wire_safe ends, it answers once.
LEMMA CommandAnswers ==
    ASSUME NEW cmd, G!ControlWireSafe(cmd)
    PROVE  \E ok \in BOOLEAN : done' = Append(done, ok)
  BY Zenon
     DEF G!ControlWireSafe, G!ControlHeat, G!ControlReversing, G!ControlFan,
         G!Drive,
         G!Refuse, G!Set

\* The controller keeps the invariant.
LEMMA ServerKeepsInv ==
    ASSUME Inv, G!Server, UNCHANGED tstatOnly
    PROVE  Inv'
<1> USE DEF Inv, tstatOnly
<1>1. Me \in Clients /\ Me # G!None /\ G!None \notin Clients
  BY DEF Clients, Me, Cli, G!None
<1>2. CASE G!Start
  <2>1. G!StartupBatch \in Seq(Command) /\ Len(G!StartupBatch) = 4
    BY DEF G!StartupBatch, Command, AnyWire, Wires, Level
  <2>2. /\ UNCHANGED <<serving, ctl>> /\ serving = G!None
        /\ batch' = G!StartupBatch /\ done' = <<>>
    BY <1>2 DEF G!Start, OneCommand
  <2> QED
    BY <1>1, <2>1, <2>2 DEF Typed, OneCommand, OneExchange
<1>3. CASE G!ControlWire
  <2>1. PICK ok \in BOOLEAN : done' = Append(done, ok)
    BY <1>3, CommandAnswers DEF G!ControlWire
  <2>2. Len(done') <= Len(batch) /\ done' \in Seq(BOOLEAN)
    BY <1>3, <2>1 DEF Typed, G!ControlWire
  <2> QED
    BY <1>3, <2>2 DEF Typed, OneCommand, OneExchange, G!ControlWire
<1>4. CASE G!Serve
  BY <1>1, <1>4 DEF G!Serve, G!EndBatch, Typed, OneCommand, OneExchange
<1>5. ASSUME NEW c \in Clients, G!HandleReq(c)
      PROVE  Inv'
  <2>1. /\ ctl' = [ctl EXCEPT ![c] = Taken] /\ ctl[c].st = "sent"
        /\ serving' = c /\ batch' = ctl[c].cmds /\ done' = <<>> /\ phase = "serving"
        /\ UNCHANGED phase
    BY <1>5 DEF G!HandleReq, G!Polling, G!Taken, Taken
  <2>2. /\ ctl' \in [Clients -> Exchange] /\ ctl[c].cmds \in Seq(Command)
    BY <2>1, FixedTypes DEF Typed, Exchange
  <2>3. ctl'[Me] = IF c = Me THEN Taken ELSE ctl[Me]
    BY <1>1, <2>1 DEF Typed
  <2>4. Typed'
    BY <2>1, <2>2 DEF Typed
  <2>5. OneCommand'
    BY <2>1, <2>3 DEF OneCommand, Taken
  <2>6. OneExchange'
    BY <2>1, <2>3 DEF OneExchange, Taken
  <2> QED
    BY <2>4, <2>5, <2>6
<1>6. CASE G!SendReply
  <2>1. /\ serving # G!None /\ serving' = G!None /\ batch' = <<>> /\ done' = <<>>
        /\ UNCHANGED phase
        /\ ctl' = [ctl EXCEPT ![serving] = IF @.st = "taken" THEN Replied(done) ELSE @]
    BY <1>6 DEF G!SendReply, G!EndBatch, G!Reply, G!Replied, Replied
  <2>2. ctl' \in [Clients -> Exchange]
    BY <2>1, FixedTypes DEF Typed
  <2>3. ctl'[Me] = IF serving = Me /\ ctl[Me].st = "taken" THEN Replied(done) ELSE ctl[Me]
    BY <1>1, <2>1 DEF Typed
  <2> QED
    BY <1>1, <2>1, <2>2, <2>3 DEF Typed, OneCommand, OneExchange, Replied
<1>7. CASE G!GotNewSubscriber
  BY <1>7 DEF G!GotNewSubscriber, Typed, OneCommand, OneExchange
<1> QED
  BY <1>2, <1>3, <1>4, <1>5, <1>6, <1>7 DEF G!Server

\* Its death keeps it.
LEMMA GpioCrashKeepsInv ==
    ASSUME Inv, G!Crash, UNCHANGED tstatOnly
    PROVE  Inv'
<1> USE DEF Inv, tstatOnly
<1>1. Me \in Clients /\ Me # G!None
  BY DEF Clients, Me, Cli, G!None
<1>2. PICK lost \in SUBSET Clients :
        /\ \A c \in lost : ctl[c].st # "idle"
        /\ ctl' = [c \in Clients |-> IF c \in lost THEN Lost ELSE ctl[c]]
  BY DEF G!Crash, G!Lost, Lost
<1>3. /\ serving' = G!None /\ batch' = <<>> /\ done' = <<>> /\ phase' = "down"
  BY DEF G!Crash, G!EndBatch
<1>4. ctl' \in [Clients -> Exchange]
  BY <1>2, FixedTypes DEF Typed
<1>5. ctl'[Me] = IF Me \in lost THEN Lost ELSE ctl[Me]
  BY <1>1, <1>2
<1>6. Me \in lost => pc \notin AtRest
  BY <1>2 DEF OneExchange
<1> QED
  BY <1>1, <1>3, <1>4, <1>5, <1>6 DEF Typed, OneCommand, OneExchange, Lost

\* Messages, the other client, a death of the thermostat and time keep it.
LEMMA OthersKeepInv ==
    ASSUME Inv, Message \/ CliRequest \/ (T!Crash /\ UNCHANGED gpioOnly) \/ Tick
    PROVE  Inv'
<1> USE DEF Inv
<1>1. Me \in Clients /\ Cli \in Clients /\ Me # Cli
  BY DEF Clients, Me, Cli
<1>2. CASE Message
  <2>1. pc \in AtRest
    BY <1>2 DEF Message, T!PollReady, AtRest, T!Running
  <2> QED
    BY <1>2, <2>1 DEF Message, T!PollReady, gpioOnly, Typed, OneCommand, OneExchange
<1>3. CASE CliRequest
  <2>1. PICK x \in Exchange : ctl' = [ctl EXCEPT ![Cli] = x]
    BY <1>3, FixedTypes, BatchTypes, SystemAssumption
       DEF CliRequest, G!SendRequest, G!ReceiveReply, G!ClientRestart, G!Idle, Idle,
           G!Sent, Sent
  <2>2. ctl' \in [Clients -> Exchange] /\ ctl'[Me] = ctl[Me]
    BY <1>1, <2>1 DEF Typed
  <2> QED
    BY <1>3, <2>2
       DEF CliRequest, tstatOnly, gpioOnly, Typed, OneCommand, OneExchange
<1>4. CASE T!Crash /\ UNCHANGED gpioOnly
  <2>1. ctl' \in [Clients -> Exchange] /\ ctl'[Me] = Idle
    BY <1>1, <1>4, FixedTypes DEF Typed, T!Crash, T!Idle, Idle
  <2> QED
    BY <1>4, <2>1 DEF gpioOnly, Typed, OneCommand, OneExchange, Idle
<1>5. CASE Tick
  BY <1>5 DEF Tick, T!TstatTick, G!Tick, Typed, OneCommand, OneExchange
<1> QED
  BY <1>2, <1>3, <1>4, <1>5

\* Nothing is exchanged at first.
LEMMA InitInv == Init => Inv
<1> SUFFICES ASSUME Init PROVE Inv
  OBVIOUS
<1>1. /\ pc = "down" /\ ctl = [c \in Clients |-> Idle]
      /\ batch = <<>> /\ done = <<>> /\ serving = G!None /\ phase = "down"
  BY DEF Init, T!Init, G!Init, T!Idle, Idle
<1>2. Me \in Clients /\ Me # G!None
  BY DEF Clients, Me, Cli, G!None
<1> QED
  BY <1>1, <1>2, FixedTypes DEF Inv, Typed, OneCommand, OneExchange, Idle

\* The invariant holds.
LEMMA InvHolds == Spec => []Inv
<1>1. Init => Inv
  BY InitInv
<1>2. Inv /\ [Next]_vars => Inv'
  <2> SUFFICES ASSUME Inv, [Next]_vars PROVE Inv'
    OBVIOUS
  <2>1. CASE Tstat
    BY <2>1, ThreadKeepsInv DEF Tstat
  <2>2. CASE GpioHvac
    BY <2>2, ServerKeepsInv DEF GpioHvac
  <2>3. CASE Message \/ CliRequest \/ Tick
    BY <2>3, OthersKeepInv
  <2>4. CASE Crash
    BY <2>4, OthersKeepInv, GpioCrashKeepsInv DEF Crash
  <2>5. CASE UNCHANGED vars
    BY <2>5 DEF vars, tstatOnly, gpioOnly, Inv, Typed, OneCommand, OneExchange
  <2> QED
    BY <2>1, <2>2, <2>3, <2>4, <2>5 DEF Next
<1> QED
  BY <1>1, <1>2, PTL DEF Spec

\* The thermostat, with its crashes, and the other client are clients of gpio_hvac
\* as module GpioHvac allows them, so what is proved there holds in the system
\* (gpio_hvac.c:156-169 against tstat.c:69-89).
THEOREM SystemImplementsGpio == Spec => ImplementsGpio
<1>1. Init => G!Init
  BY DEF Init
<1>2. Inv /\ [Next]_vars => [G!Next]_(G!gpioVars)
  <2> SUFFICES ASSUME Inv, [Next]_vars PROVE [G!Next]_(G!gpioVars)
    OBVIOUS
  <2>1. Me \in Clients /\ Cli \in Clients
    BY DEF Clients
  <2>2. CASE Tstat
    <3>1. CASE Asks
      <4>1. G!Client(Me)
        BY <2>2, <3>1, TstatBatchTypes
           DEF Asks, Tstat, G!Client, G!SendRequest, gpioOnly, G!Sent, Sent
      <4> QED
        BY <2>1, <4>1 DEF G!Next
    <3>2. CASE Reads
      <4>1. G!Client(Me)
        BY <2>2, <3>2 DEF Reads, Tstat, G!Client, G!ReceiveReply, gpioOnly, G!Idle, Idle
      <4> QED
        BY <2>1, <4>1 DEF G!Next
    <3>3. CASE Stays
      BY <2>2, <3>3 DEF Stays, Tstat, gpioOnly, G!gpioVars
    <3> QED
      BY <2>2, <3>1, <3>2, <3>3, ThreadExchange DEF Tstat
  <2>3. CASE Message
    BY <2>3 DEF Message, T!PollReady, gpioOnly, G!gpioVars
  <2>4. CASE GpioHvac
    BY <2>4 DEF GpioHvac, G!Next
  <2>5. CASE CliRequest
    <3>1. G!Client(Cli)
      BY <2>5, SystemAssumption DEF CliRequest, G!Client, gpioOnly
    <3> QED
      BY <2>1, <3>1 DEF G!Next
  <2>6. CASE T!Crash /\ UNCHANGED gpioOnly
    <3>1. ctl' = [ctl EXCEPT ![Me] = Idle]
      BY <2>6 DEF T!Crash, T!Idle, Idle
    <3>2. CASE ctl[Me].st = "idle"
      <4>1. ctl' = ctl
        BY <2>1, <3>1, <3>2 DEF Inv, Typed, OneExchange
      <4> QED
        BY <2>6, <4>1 DEF gpioOnly, G!gpioVars
    <3>3. CASE ctl[Me].st # "idle"
      <4>1. G!Client(Me)
        BY <2>6, <3>1, <3>3 DEF G!Client, G!ClientRestart, gpioOnly, G!Idle, Idle
      <4> QED
        BY <2>1, <4>1 DEF G!Next
    <3> QED
      BY <3>2, <3>3
  <2>7. CASE G!Crash
    BY <2>7 DEF G!Next
  <2>8. CASE Tick
    BY <2>8 DEF Tick, G!Next
  <2>9. CASE UNCHANGED vars
    BY <2>9 DEF vars, gpioOnly, G!gpioVars
  <2> QED
    BY <2>2, <2>3, <2>4, <2>5, <2>6, <2>7, <2>8, <2>9 DEF Next, Crash
<1> QED
  BY <1>1, <1>2, InvHolds, PTL DEF Spec, ImplementsGpio, G!Spec

\* What happens to the thermostat's own exchange, seen without the other client.
LEMMA OwnExchange ==
    /\ OwnCtl[Me] = ctl[Me]
    /\ UNCHANGED ctl => UNCHANGED OwnCtl
    /\ Inv /\ ctl'[Me] = ctl[Me] => UNCHANGED OwnCtl
    /\ \A x : Inv /\ ctl' = [ctl EXCEPT ![Me] = x] => OwnCtl' = [OwnCtl EXCEPT ![Me] = x]
<1>1. Me \in Clients
  BY DEF Clients
<1> QED
  BY <1>1 DEF OwnCtl, Inv, Typed

\* What module Tstat computes does not depend on who else is a client.
LEMMA SameOperators ==
    /\ \A m, temp, g : Thermostat!Wanted(m, temp, g) = T!Wanted(m, temp, g)
    /\ \A t, d : Thermostat!Later(t, d) = T!Later(t, d)
    /\ \A t, timer : Thermostat!TakeIn(t, timer) = T!TakeIn(t, timer)
    /\ \A t : Thermostat!IsSet(t) = T!IsSet(t) /\ Thermostat!Passed(t) = T!Passed(t)
    /\ Thermostat!ValveLevel = T!ValveLevel
    /\ Thermostat!Unset = T!Unset
  BY DEF T!Wanted, Thermostat!Wanted, T!Later, Thermostat!Later, T!TakeIn,
         Thermostat!TakeIn, T!IsSet, Thermostat!IsSet, T!Passed, Thermostat!Passed,
         T!ValveLevel, Thermostat!ValveLevel, T!Unset, Thermostat!Unset,
         T!Overdue, Thermostat!Overdue

\* Nor does what the thread does to its own exchange.
LEMMA SameExchange ==
    ASSUME Inv
    PROVE  /\ \A w, level, place :
                  T!Call(w, level, place) => Thermostat!Call(w, level, place)
           /\ \A place : T!Return(place) => Thermostat!Return(place)
           /\ \A place, w, level :
                  T!Replies(place, w, level) => Thermostat!Replies(place, w, level)
           /\ Thermostat!Ok = T!Ok
           /\ ctl' = [ctl EXCEPT ![Me] = T!Idle]
                  => OwnCtl' = [OwnCtl EXCEPT ![Me] = Thermostat!Idle]
  BY OwnExchange
     DEF T!Call, Thermostat!Call, T!Return, Thermostat!Return, T!Replies,
         Thermostat!Replies, T!Ok, Thermostat!Ok, T!Sent, Thermostat!Sent, T!Cmd,
         Thermostat!Cmd, T!Idle, Thermostat!Idle

\* Each step of the thread is the same step with its exchange alone.
LEMMA ThreadRefines ==
    ASSUME Inv, T!Thread
    PROVE  Thermostat!Thread
<1> USE OwnExchange, SameOperators, SameExchange
   DEF T!timers, Thermostat!timers, T!settings, Thermostat!settings
<1>1. T!Start => Thermostat!Start
  BY DEF T!Start, Thermostat!Start
<1>2. T!Started => Thermostat!Started
  BY DEF T!Started, Thermostat!Started
<1>3. T!FanOnTimer => Thermostat!FanOnTimer
  BY DEF T!FanOnTimer, Thermostat!FanOnTimer, T!ReadClock, Thermostat!ReadClock,
         T!TimersLater, Thermostat!TimersLater
<1>4. T!FanTurnedOn => Thermostat!FanTurnedOn
  BY DEF T!FanTurnedOn, Thermostat!FanTurnedOn, T!RetryUnless, Thermostat!RetryUnless
<1>5. T!CompressorTimer => Thermostat!CompressorTimer
  BY DEF T!CompressorTimer, Thermostat!CompressorTimer
<1>6. T!ReversingSet => Thermostat!ReversingSet
  BY DEF T!ReversingSet, Thermostat!ReversingSet
<1>7. T!CompressorTurnedOn => Thermostat!CompressorTurnedOn
  BY DEF T!CompressorTurnedOn, Thermostat!CompressorTurnedOn, T!CompressorDone,
         Thermostat!CompressorDone
<1>8. T!CompressorUndone => Thermostat!CompressorUndone
  BY DEF T!CompressorUndone, Thermostat!CompressorUndone
<1>9. T!ReversingUndone => Thermostat!ReversingUndone
  BY DEF T!ReversingUndone, Thermostat!ReversingUndone, T!RetryLater,
         Thermostat!RetryLater
<1>10. T!FanOffTimer => Thermostat!FanOffTimer
  BY DEF T!FanOffTimer, Thermostat!FanOffTimer, T!KeepFanOn, Thermostat!KeepFanOn
<1>11. T!FanTurnedOff => Thermostat!FanTurnedOff
  BY DEF T!FanTurnedOff, Thermostat!FanTurnedOff, T!RetryUnless, Thermostat!RetryUnless
<1>12. T!PollTimedOut => Thermostat!PollTimedOut
  BY DEF T!PollTimedOut, Thermostat!PollTimedOut
<1>13. T!ReadWeather => Thermostat!ReadWeather
  BY DEF T!ReadWeather, Thermostat!ReadWeather, T!CompressorOn,
         Thermostat!CompressorOn, T!CompressorOff, Thermostat!CompressorOff,
         T!Handled, Thermostat!Handled, T!KeepFanOn, Thermostat!KeepFanOn,
         T!CancelCompressor, Thermostat!CancelCompressor
<1>14. T!CompressorTurnedOff => Thermostat!CompressorTurnedOff
  BY DEF T!CompressorTurnedOff, Thermostat!CompressorTurnedOff
<1>15. T!ReversingTurnedOff => Thermostat!ReversingTurnedOff
  BY DEF T!ReversingTurnedOff, Thermostat!ReversingTurnedOff, T!Handled,
         Thermostat!Handled
<1>16. T!HandleReq => Thermostat!HandleReq
  BY DEF T!HandleReq, Thermostat!HandleReq, T!FanNotNeeded, Thermostat!FanNotNeeded
<1>17. T!FanSetOn => Thermostat!FanSetOn
  BY DEF T!FanSetOn, Thermostat!FanSetOn
<1>18. T!FanSetOff => Thermostat!FanSetOff
  BY DEF T!FanSetOff, Thermostat!FanSetOff
<1> QED
  BY <1>1, <1>2, <1>3, <1>4, <1>5, <1>6, <1>7, <1>8, <1>9, <1>10, <1>11, <1>12, <1>13,
     <1>14, <1>15, <1>16, <1>17, <1>18
     DEF T!Thread, Thermostat!Thread

\* The controller does to it what module Tstat's controller may do.
LEMMA ServerRefines ==
    ASSUME Inv, G!Server, UNCHANGED tstatOnly
    PROVE  Thermostat!HwStep \/ UNCHANGED OwnCtl
<1> USE DEF Inv
<1>1. Me \in Clients
  BY DEF Clients
<1>2. CASE G!Start \/ G!ControlWire \/ G!Serve \/ G!GotNewSubscriber
  BY <1>2, OwnExchange DEF G!Start, G!ControlWire, G!Serve, G!GotNewSubscriber
<1>3. ASSUME NEW c \in Clients, G!HandleReq(c)
      PROVE  Thermostat!HwStep \/ UNCHANGED OwnCtl
  <2>1. ctl' = [ctl EXCEPT ![c] = Taken] /\ ctl[c].st = "sent"
    BY <1>3 DEF G!HandleReq, G!Taken, Taken
  <2>2. CASE c = Me
    BY <2>1, <2>2, OwnExchange
       DEF Thermostat!HwStep, Thermostat!Taken, Taken, tstatOnly, Thermostat!settings,
           Thermostat!timers
  <2>3. CASE c # Me
    <3>1. ctl'[Me] = ctl[Me]
      BY <1>1, <2>1, <2>3 DEF Typed
    <3> QED
      BY <3>1, OwnExchange
  <2> QED
    BY <2>2, <2>3
<1>4. CASE G!SendReply
  <2>1. /\ serving \in Clients /\ Len(done) = Len(batch)
        /\ ctl' = [ctl EXCEPT ![serving] = IF @.st = "taken" THEN Replied(done) ELSE @]
    BY <1>4 DEF G!SendReply, G!Reply, G!Replied, Replied, Typed
  <2>2. CASE serving = Me /\ ctl[Me].st = "taken"
    <3>1. PICK ok \in BOOLEAN : done = <<ok>>
      <4>1. done \in Seq(BOOLEAN) /\ Len(done) = 1
        BY <2>1, <2>2 DEF Typed, OneCommand
      <4> QED
        BY <4>1
    <3>2. ctl' = [ctl EXCEPT ![Me] = Replied(<<ok>>)]
      BY <1>1, <2>1, <2>2, <3>1 DEF Typed
    <3>3. OwnCtl' = [OwnCtl EXCEPT ![Me] = Thermostat!Replied(<<ok>>)]
      BY <3>2, OwnExchange DEF Replied, Thermostat!Replied
    <3> QED
      BY <2>2, <3>3, OwnExchange
         DEF Thermostat!HwStep, tstatOnly, Thermostat!settings, Thermostat!timers
  <2>3. CASE ~(serving = Me /\ ctl[Me].st = "taken")
    <3>1. ctl'[Me] = ctl[Me]
      BY <1>1, <2>1, <2>3 DEF Typed
    <3> QED
      BY <3>1, OwnExchange
  <2> QED
    BY <2>2, <2>3
<1> QED
  BY <1>2, <1>3, <1>4 DEF G!Server

\* So does its death.
LEMMA GpioCrashRefines ==
    ASSUME Inv, G!Crash, UNCHANGED tstatOnly
    PROVE  Thermostat!HwStep \/ UNCHANGED OwnCtl
<1> USE DEF Inv
<1>1. Me \in Clients
  BY DEF Clients
<1>2. PICK lost \in SUBSET Clients :
        /\ \A c \in lost : ctl[c].st # "idle"
        /\ ctl' = [c \in Clients |-> IF c \in lost THEN Lost ELSE ctl[c]]
  BY DEF G!Crash, G!Lost, Lost
<1>3. CASE Me \in lost /\ ctl[Me].st # "lost"
  <2>1. ctl[Me].st \in {"sent", "taken", "replied"}
    BY <1>1, <1>2, <1>3 DEF Typed, Exchange
  <2>2. OwnCtl' = [OwnCtl EXCEPT ![Me] = Thermostat!Lost]
    BY <1>1, <1>2, <1>3 DEF OwnCtl, Thermostat!Lost, Lost
  <2> QED
    BY <2>1, <2>2, OwnExchange
       DEF Thermostat!HwStep, tstatOnly, Thermostat!settings, Thermostat!timers
<1>4. CASE ~(Me \in lost /\ ctl[Me].st # "lost")
  <2>1. ctl'[Me] = ctl[Me]
    BY <1>1, <1>2, <1>4 DEF OneExchange
  <2> QED
    BY <2>1, OwnExchange
<1> QED
  BY <1>3, <1>4

\* gpio_hvac, with its crashes and with another client served in between, is a
\* controller as module Tstat allows it, so what is proved there holds in the
\* system (tstat.c:69-89 against gpio_hvac.c:156-169).
THEOREM SystemImplementsTstat == Spec => ImplementsTstat
<1>1. Init => Thermostat!Init
  <2> SUFFICES ASSUME Init PROVE Thermostat!Init
    OBVIOUS
  <2>1. OwnCtl = [c \in {Me} |-> Thermostat!Idle]
    BY DEF Init, T!Init, T!Idle, Thermostat!Idle, OwnCtl, Clients
  <2> QED
    BY <2>1 DEF Init, T!Init, Thermostat!Init, T!Unset, Thermostat!Unset, T!Wires,
            Thermostat!Wires
<1>2. Inv /\ [Next]_vars => [Thermostat!Next]_(Thermostat!tstatVars)
  <2> SUFFICES ASSUME Inv, [Next]_vars
               PROVE  [Thermostat!Next]_(Thermostat!tstatVars)
    OBVIOUS
  <2>1. CASE Tstat
    BY <2>1, ThreadRefines DEF Tstat, Thermostat!Next
  <2>2. CASE Message
    <3>1. Thermostat!PollReady
      BY <2>2, OwnExchange, SameOperators
         DEF Message, T!PollReady, Thermostat!PollReady, T!ReadClock,
             Thermostat!ReadClock, T!TimersLater, Thermostat!TimersLater, T!settings,
             Thermostat!settings
    <3> QED
      BY <3>1 DEF Thermostat!Next
  <2>3. CASE GpioHvac
    BY <2>3, ServerRefines
       DEF GpioHvac, Thermostat!Next, Thermostat!tstatVars, tstatOnly
  <2>4. CASE CliRequest
    <3>1. ctl'[Me] = ctl[Me]
      BY <2>4
         DEF CliRequest, G!SendRequest, G!ReceiveReply, G!ClientRestart, Inv,
             Typed,
              Clients, Me, Cli
    <3> QED
      BY <2>4, <3>1, OwnExchange DEF CliRequest, Thermostat!tstatVars, tstatOnly
  <2>5. CASE T!Crash /\ UNCHANGED gpioOnly
    <3>1. Thermostat!Crash
      BY <2>5, SameExchange, SameOperators
         DEF T!Crash, Thermostat!Crash, T!Blank, Thermostat!Blank
    <3> QED
      BY <3>1 DEF Thermostat!Next
  <2>6. CASE G!Crash /\ UNCHANGED tstatOnly
    BY <2>6, GpioCrashRefines DEF Thermostat!Next, Thermostat!tstatVars, tstatOnly
  <2>7. CASE Tick
    <3>1. UNCHANGED ctl
      BY <2>7 DEF Tick, G!Tick
    <3>2. Thermostat!Stuck <=> T!Stuck
      BY OwnExchange DEF T!Stuck, Thermostat!Stuck
    <3>3. Thermostat!TstatTick
      BY <2>7, <3>2, SameOperators
         DEF Tick, T!TstatTick, Thermostat!TstatTick, T!TimersLater,
             Thermostat!TimersLater, T!timers, Thermostat!timers, T!settings,
             Thermostat!settings
    <3> QED
      BY <3>1, <3>3, OwnExchange DEF Thermostat!Next
  <2>8. CASE UNCHANGED vars
    BY <2>8, OwnExchange DEF vars, tstatOnly, Thermostat!tstatVars
  <2> QED
    BY <2>1, <2>2, <2>3, <2>4, <2>5, <2>6, <2>7, <2>8 DEF Next, Crash
<1> QED
  BY <1>1, <1>2, InvHolds, PTL DEF Spec, ImplementsTstat, Thermostat!Spec
----------------------------------------------------------------------------
(* What is proved of each of the two, taken over to the system: their      *)
(* proofs are instances too, of the same definitions under another name.   *)

GP == INSTANCE GpioHvacProof
TP == INSTANCE TstatProof WITH Clients <- {Me}, ctl <- OwnCtl

\* The controller of the proofs is the one of the system.
LEMMA SameGpio == Spec => GP!Spec
<1>1. (G!Init <=> GP!Init) /\ (G!Next <=> GP!Next)
  BY Zenon
     DEF G!Init, GP!Init, G!AllLow, GP!AllLow, G!Wires, GP!Wires, G!HeatSources,
         GP!HeatSources, G!None, GP!None, G!Idle, GP!Idle, G!Next, GP!Next,
         G!Server, GP!Server, G!Start, GP!Start, G!Switched, GP!Switched,
         G!StartupBatch, GP!StartupBatch, G!ControlWire, GP!ControlWire,
         G!ControlWireSafe, GP!ControlWireSafe, G!ControlHeat, GP!ControlHeat,
         G!LockedOut, GP!LockedOut, G!Refuse, GP!Refuse, G!Set, GP!Set, G!Drive,
         GP!Drive, G!ControlReversing, GP!ControlReversing, G!ControlFan,
         GP!ControlFan, G!HeatMayRun, GP!HeatMayRun, G!Serve, GP!Serve,
         G!EndBatch, GP!EndBatch, G!HandleReq, GP!HandleReq, G!Polling,
         GP!Polling, G!Taken, GP!Taken, G!SendReply, GP!SendReply, G!Reply,
         GP!Reply, G!Replied, GP!Replied, G!GotNewSubscriber,
         GP!GotNewSubscriber, G!Snapshot, GP!Snapshot, G!Crash, GP!Crash,
         G!Lost, GP!Lost, G!Client, GP!Client, G!SendRequest, GP!SendRequest,
         G!Sent, GP!Sent, G!ReceiveReply, GP!ReceiveReply, G!ClientRestart,
         GP!ClientRestart, G!Subscribe, GP!Subscribe, G!Tick, GP!Tick, G!Older,
         GP!Older
<1>2. [G!Next]_(G!gpioVars) => [GP!Next]_(GP!gpioVars)
  BY <1>1 DEF G!gpioVars, GP!gpioVars
<1> QED
  BY <1>1, <1>2, SystemImplementsGpio, PTL DEF ImplementsGpio, G!Spec, GP!Spec

\* So is its thermostat.
LEMMA SameThermostat == Spec => TP!Spec
<1>1. (Thermostat!Init <=> TP!Init) /\ (Thermostat!Next <=> TP!Next)
  BY Zenon
     DEF Thermostat!Init, TP!Init, Thermostat!Unset, TP!Unset, Thermostat!Idle,
         TP!Idle, Thermostat!Wires, TP!Wires, Thermostat!Next, TP!Next,
         Thermostat!Thread, TP!Thread, Thermostat!Start, TP!Start,
         Thermostat!Call, TP!Call, Thermostat!Sent, TP!Sent, Thermostat!Cmd,
         TP!Cmd, Thermostat!Started, TP!Started, Thermostat!Replies, TP!Replies,
         Thermostat!Ok, TP!Ok, Thermostat!Return, TP!Return, Thermostat!timers,
         TP!timers, Thermostat!FanOnTimer, TP!FanOnTimer, Thermostat!ReadClock,
         TP!ReadClock, Thermostat!TimersLater, TP!TimersLater, Thermostat!Later,
         TP!Later, Thermostat!Overdue, TP!Overdue, Thermostat!TakeIn, TP!TakeIn,
         Thermostat!IsSet, TP!IsSet, Thermostat!Passed, TP!Passed,
         Thermostat!settings, TP!settings, Thermostat!FanTurnedOn,
         TP!FanTurnedOn, Thermostat!RetryUnless, TP!RetryUnless,
         Thermostat!CompressorTimer, TP!CompressorTimer, Thermostat!ValveLevel,
         TP!ValveLevel, Thermostat!ReversingSet, TP!ReversingSet,
         Thermostat!CompressorTurnedOn, TP!CompressorTurnedOn,
         Thermostat!CompressorDone, TP!CompressorDone,
         Thermostat!CompressorUndone, TP!CompressorUndone,
         Thermostat!ReversingUndone, TP!ReversingUndone, Thermostat!RetryLater,
         TP!RetryLater, Thermostat!FanOffTimer, TP!FanOffTimer,
         Thermostat!KeepFanOn, TP!KeepFanOn, Thermostat!FanTurnedOff,
         TP!FanTurnedOff, Thermostat!PollTimedOut, TP!PollTimedOut,
         Thermostat!ReadWeather, TP!ReadWeather, Thermostat!Wanted, TP!Wanted,
         Thermostat!CompressorOn, TP!CompressorOn, Thermostat!Handled,
         TP!Handled, Thermostat!CompressorOff, TP!CompressorOff,
         Thermostat!CancelCompressor, TP!CancelCompressor,
         Thermostat!CompressorTurnedOff, TP!CompressorTurnedOff,
         Thermostat!ReversingTurnedOff, TP!ReversingTurnedOff,
         Thermostat!HandleReq, TP!HandleReq, Thermostat!FanNotNeeded,
         TP!FanNotNeeded, Thermostat!FanSetOn, TP!FanSetOn,
         Thermostat!FanSetOff, TP!FanSetOff, Thermostat!PollReady, TP!PollReady,
         Thermostat!Crash, TP!Crash, Thermostat!Blank, TP!Blank,
         Thermostat!HwStep, TP!HwStep, Thermostat!Taken, TP!Taken,
         Thermostat!Replied, TP!Replied, Thermostat!Lost, TP!Lost,
         Thermostat!TstatTick, TP!TstatTick, Thermostat!Stuck, TP!Stuck
<1>2. [Thermostat!Next]_(Thermostat!tstatVars) => [TP!Next]_(TP!tstatVars)
  BY <1>1 DEF Thermostat!tstatVars, TP!tstatVars
<1> QED
  BY <1>1, <1>2, SystemImplementsTstat, PTL DEF ImplementsTstat, Thermostat!Spec, TP!Spec

\* The constants are such as the proofs are about.
LEMMA SameConstants == GP!GpioAssumption /\ TP!TstatAssumption
BY PartsAssumption
   DEF G!GpioAssumption, GP!GpioAssumption, Thermostat!TstatAssumption, TP!TstatAssumption,
       G!Wires, GP!Wires, G!Command, GP!Command, G!AnyWire, GP!AnyWire, G!Level, GP!Level

\* Whatever the thermostat does, and whichever of the two dies, the equipment is
\* safe: a heat source rests before it runs and never runs without the fan, and the
\* valve of a running compressor is not turned late (gpio_hvac.c:90-146).
THEOREM SystemKeepsRelaysSafe == Spec => G!KeepsRelaysSafe
<1>1. (GP!Relays!AbsInit <=> G!Relays!AbsInit) /\ (GP!Relays!AbsNext <=> G!Relays!AbsNext)
  BY Zenon
     DEF G!Relays!AbsInit, GP!Relays!AbsInit, G!Relays!Wires, GP!Relays!Wires,
         G!Relays!HeatSources, GP!Relays!HeatSources, G!Relays!AbsNext,
         GP!Relays!AbsNext, G!Relays!Relay, GP!Relays!Relay, G!Relays!Level,
         GP!Relays!Level, G!Relays!FanCovers, GP!Relays!FanCovers,
         G!Relays!Switched, GP!Relays!Switched, G!Relays!Abandon,
         GP!Relays!Abandon, G!Relays!TakeCharge, GP!Relays!TakeCharge,
         G!Relays!TimePasses, GP!Relays!TimePasses, G!Relays!Older,
         GP!Relays!Older
<1>2. [GP!Relays!AbsNext]_(GP!Relays!relayVars) => [G!Relays!AbsNext]_(G!Relays!relayVars)
  BY <1>1 DEF GP!Relays!relayVars, G!Relays!relayVars
<1>3. GP!Spec => GP!KeepsRelaysSafe
  BY SameConstants, GP!Refinement
<1> QED
  BY <1>1, <1>2, <1>3, SameGpio, PTL
     DEF GP!KeepsRelaysSafe, G!KeepsRelaysSafe, GP!Relays!AbsSpec, G!Relays!AbsSpec

\* The thermostat is told the truth about its commands, a subscriber the level of
\* every line, and no heat source runs without the fan (gpio_hvac.c:60-169).
THEOREM SystemRelaysAreKnown ==
    Spec => [](G!FanRunsWithHeat /\ G!AckedCommandsHold /\ G!SubscriberKnowsLines)
<1>1. GP!Spec => [](GP!FanRunsWithHeat /\ GP!AckedCommandsHold /\ GP!SubscriberKnowsLines)
  BY SameConstants, GP!FanSafety, GP!AckSafety, GP!SubscriberSafety, PTL
<1>2. GP!FanRunsWithHeat => G!FanRunsWithHeat
  BY DEF GP!FanRunsWithHeat, G!FanRunsWithHeat, GP!HeatSources, G!HeatSources
<1>3. GP!AckedCommandsHold => G!AckedCommandsHold
  BY Zenon DEF GP!AckedCommandsHold, G!AckedCommandsHold, GP!None, G!None, GP!Disturbs,
               G!Disturbs, GP!HeatSources, G!HeatSources
<1>4. GP!SubscriberKnowsLines => G!SubscriberKnowsLines
  BY DEF GP!SubscriberKnowsLines, G!SubscriberKnowsLines, GP!Wires, G!Wires
<1> QED
  BY <1>1, <1>2, <1>3, <1>4, SameGpio, PTL

\* With gpio_hvac as its controller, the thermostat has one plan at a time, sleeps
\* past no timer, and asks for the compressor only when the fan was last confirmed to
\* be on (tstat.c:115-164, 323-381).
THEOREM SystemKeepsPlan ==
    Spec => []( /\ Thermostat!TimersMatchMode
                /\ Thermostat!NoLostWakeup
                /\ Thermostat!CompressorNeedsFan )
<1>1. TP!Spec => [](TP!TimersMatchMode /\ TP!NoLostWakeup /\ TP!CompressorNeedsFan)
  BY SameConstants, TP!TimersAreOnePlan, TP!NoTimerIsSleptPast, TP!CompressorWaitsForFan, PTL
<1>2. /\ TP!TimersMatchMode => Thermostat!TimersMatchMode
      /\ TP!NoLostWakeup => Thermostat!NoLostWakeup
      /\ TP!CompressorNeedsFan => Thermostat!CompressorNeedsFan
  BY DEF TP!TimersMatchMode, Thermostat!TimersMatchMode, TP!NoLostWakeup,
         Thermostat!NoLostWakeup, TP!CompressorNeedsFan, Thermostat!CompressorNeedsFan,
         TP!IsSet, Thermostat!IsSet, TP!Unset, Thermostat!Unset
<1> QED
  BY <1>1, <1>2, SameThermostat, PTL
----------------------------------------------------------------------------
(* The valve of a running compressor, whoever crashes.                     *)

\* A timer that is not set, the thermostat's exchange, a compressor that the
\* controller lets run, a valve on the wanted side.
U == T!Unset
Own == ctl[Me]
Runs == phase # "down" /\ line["Y1"] = "on"
ValveFits == line["OB"] = "on" <=> mode = "cool"

\* The controller has restarted since the thread read its clock, so that it lets no
\* compressor run before the thread has done what it is at.
Fresh ==
    phase # "down" =>
        line["Y1"] = "off" /\ value["Y1"] # "on" /\ age["Y1"] <= lag

\* The command the thread waits for at its place.
Asked(cmd) ==
    /\ cmd \in [wire : {"Y1", "OB", "G"}, connect : Level]
    /\ pc \in {"start.G", "fan_on.G", "goals.on", "fan_off.G", "goals.off"}
          => cmd.wire = "G"
    /\ pc = "on.OB" => cmd.wire = "OB" /\ cmd.connect = T!ValveLevel
    /\ pc \in {"undo.OB", "off.OB"} => cmd.wire = "OB"
    /\ pc = "on.Y1" => cmd.wire = "Y1"
    /\ pc \in {"undo.Y1", "off.Y1"} => cmd.wire = "Y1" /\ cmd.connect = "off"

\* What an answer to it says of the equipment.
Told(ok) ==
    /\ ok \in BOOLEAN
    /\ pc = "off.Y1" => ~Runs
    /\ pc = "on.OB" /\ ok => ValveFits \/ Fresh

\* A waiting thread's command is sent, or taken and perhaps carried out, or answered.
Waits ==
    \E cmd : /\ Asked(cmd)
             /\ \/ Own = Sent(<<cmd>>)
                \/ /\ Own = Taken /\ serving = Me /\ batch = <<cmd>>
                   /\ done = <<>> \/ \E ok : done = <<ok>> /\ Told(ok)
                \/ \E ok : Own = Replied(<<ok>>) /\ Told(ok)

\* Unless it is lost.
Exchanges ==
    /\ pc \in AtRest \cup T!Waiting
    /\ pc \in T!Waiting => Own = Lost \/ Waits

\* The other client does nothing to the valve and starts no compressor.
OtherIsModest ==
    /\ ctl[Cli].st = "sent" => \A i \in DOMAIN ctl[Cli].cmds : Modest(ctl[Cli].cmds[i])
    /\ serving = Cli => \A i \in DOMAIN batch : Modest(batch[i])

\* The thread's timers and mode.
Plan ==
    /\ earliest \in Int /\ fanOn \in Int /\ compOn \in Int /\ fanOff \in Int
    /\ lag \in 0..MaxLag
    /\ pc = "down" => mode = "off"
    /\ pc # "down" => earliest # U
    /\ fanOn # U => compOn = U
    /\ mode = "off" => fanOn = U /\ compOn = U
    /\ pc = "fan_on.G" => fanOn # U
    /\ pc = "fan_off.G" => fanOff # U
    /\ pc \in {"on.OB", "on.Y1", "undo.Y1", "undo.OB"} => compOn # U
    /\ pc \in {"off.Y1", "off.OB"} => mode # "off" /\ fanOn = U /\ compOn = U

\* While the controller still serves a request of the thread's earlier life, the
\* thread has had no answer in this one.
Young ==
    serving = Me /\ Own.st # "taken" =>
        /\ Own.st \in {"idle", "sent"}
        /\ fanOff = U /\ compOn = U /\ (mode = "off" \/ fanOn # U)

\* What the controller knows of the compressor's line.
Lines ==
    /\ line \in [Wires -> Level] /\ value \in [Wires -> Tristate]
    /\ age \in [HeatSources -> Nat]
    /\ phase \in {"down", "starting", "serving"}
    /\ phase # "down" => /\ line["Y1"] = "on" => value["Y1"] = "on" /\ "Y1" \in Wired
                         /\ value["Y1"] = "on" => line["Y1"] = "on"
    /\ phase = "starting" => /\ line["Y1"] = "off" /\ line["OB"] = "off"
                             /\ batch = G!StartupBatch
    /\ phase = "serving" /\ serving = G!None => batch = <<>>

\* The property, with what it rests on at the two places where it is at stake.
Way ==
    /\ RunsTheWantedWay
    /\ pc = "off.OB" => ~Runs
    /\ pc = "on.Y1" /\ success /\ Own # Lost => ValveFits \/ Fresh

WayInv == Inv /\ Exchanges /\ OtherIsModest /\ Plan /\ Young /\ Lines /\ Way
----------------------------------------------------------------------------
\* A timer that is set stays set as time passes (overdue ones included).
LEMMA LaterStaysSet ==
    \A t \in Int, d \in Nat : T!Later(t, d) \in Int /\ (T!Later(t, d) = U <=> t = U)
  BY DEF T!Later, U, T!Unset, T!Overdue

\* A waiting thread is not at rest, nor at any of the places that count.
LEMMA Places ==
    /\ \A place \in T!Waiting : place \notin AtRest
    /\ \A place \in AtRest : place \notin T!Waiting
  BY DEF AtRest, T!Running, T!Waiting

\* What the thread leaves alone, and what of the controller's depends on that.
LEMMA EquipmentStays ==
    ASSUME WayInv, UNCHANGED gpioOnly
    PROVE  /\ Runs' <=> Runs
           /\ mode' = mode => (ValveFits' <=> ValveFits)
           /\ lag' = lag => (Fresh' <=> Fresh)
           /\ Lines'
           /\ ctl'[Cli] = ctl[Cli] => OtherIsModest'
  BY DEF WayInv, gpioOnly, Runs, ValveFits, Fresh, Lines, OtherIsModest

\* A call from rest, or on a reply, is an exchange begun.
LEMMA Called ==
    ASSUME WayInv, UNCHANGED gpioOnly, NEW w \in {"Y1", "OB", "G"}, NEW level \in Level,
           NEW place \in T!Waiting, T!Call(w, level, place),
           pc \in AtRest \/ Own.st = "replied",
           Asked(Cmd(w, level))'
    PROVE  /\ Exchanges' /\ (Own.st = "sent" /\ Own # Lost)'
           /\ serving = Me => Own.st = "idle"
<1>1. ctl' = [ctl EXCEPT ![Me] = Sent(<<Cmd(w, level)>>)] /\ pc' = place
  BY DEF T!Call, T!Sent, Sent, T!Cmd, Cmd
<1>2. Own' = Sent(<<Cmd(w, level)>>)
  BY <1>1 DEF WayInv, Inv, Typed, Clients, Own
<1>3. Waits'
  BY <1>2 DEF Waits
<1>4. serving = Me => Own.st = "idle"
  BY DEF WayInv, Inv, OneExchange, Young, Own
<1> QED
  BY <1>1, <1>2, <1>3, <1>4, Places DEF Exchanges, Sent, Lost

\* A reply that is read ends the exchange.
LEMMA Returned ==
    ASSUME WayInv, UNCHANGED gpioOnly, pc' \in AtRest, Own.st = "replied",
           ctl' = [ctl EXCEPT ![Me] = T!Idle]
    PROVE  Exchanges' /\ serving # Me
<1> QED
  BY Places DEF WayInv, Young, Exchanges, Own

\* Where no exchange begins or ends.
LEMMA Undisturbed ==
    ASSUME WayInv, UNCHANGED <<gpioOnly, ctl>>, pc \in AtRest, pc' \in AtRest
    PROVE  Exchanges' /\ (Own.st = "idle")'
  BY Places DEF WayInv, Inv, OneExchange, Exchanges, Own

\* The reply that is in says what `Told' says of it.
LEMMA Reply ==
    ASSUME WayInv, Own.st = "replied", pc \in T!Waiting
    PROVE  Told(T!Ok) /\ serving # Me
<1>0. Own # Taken /\ Own # Lost /\ \A cmds : Own # Sent(cmds)
  BY DEF Sent, Taken, Lost
<1>1. PICK ok : Own = Replied(<<ok>>) /\ Told(ok)
  BY <1>0, Zenon DEF WayInv, Exchanges, Waits
<1>2. T!Ok = ok
  BY <1>1 DEF T!Ok, Own, Replied
<1> QED
  BY <1>1, <1>2 DEF WayInv, Young, Replied

\* The thread's steps, one by one.
LEMMA ThreadKeepsWay ==
    ASSUME WayInv, WayAssumption, T!Thread, UNCHANGED gpioOnly
    PROVE  Exchanges' /\ Plan' /\ Young' /\ Way'
<1> USE EquipmentStays
        DEF WayInv, WayAssumption, T!Replies, T!Return, T!timers, T!settings, Own,
            RunsTheWantedWay, Way
<1>0. /\ "on" \in Level /\ "off" \in Level /\ T!ValveLevel \in Level
      /\ Runs <=> Runs'
      /\ Runs <=> phase # "down" /\ line["Y1"] = "on"
      /\ ValveFits <=> (line["OB"] = "on" <=> mode = "cool")
      /\ UNCHANGED <<serving, phase, line>>
  BY DEF Level, T!ValveLevel, gpioOnly, Runs, ValveFits
<1>1. CASE T!Start
  <2>1. CASE T!Call("G", "on", "start.G")
    <3>1. Exchanges' /\ (Own.st = "sent")'
          /\ (serving = Me => Own.st = "idle") /\ pc' = "start.G" /\ pc = "down"
      BY <1>0, <1>1, <2>1, Called DEF T!Start, T!Call, Asked, Cmd, AtRest, T!Waiting
    <3> QED
      BY <1>0, <1>1, <3>1 DEF T!Start, Plan, Young, U, T!Unset
  <2>2. CASE pc' = "loop" /\ UNCHANGED ctl
    BY <1>0, <1>1, <2>2, Undisturbed
       DEF T!Start, AtRest, T!Running, Plan, Young, U, T!Unset
  <2> QED
    BY <1>1, <2>1, <2>2 DEF T!Start
<1>2. CASE T!Started
  BY <1>0, <1>2, Returned DEF T!Started, AtRest, T!Running, Plan, Young
<1>3. CASE T!FanOnTimer
  <2>1. /\ fanOn' = U <=> fanOn = U
        /\ compOn' = U <=> compOn = U
        /\ fanOff' = U <=> fanOff = U
        /\ earliest' = U <=> earliest = U
        /\ earliest' \in Int /\ fanOn' \in Int /\ compOn' \in Int /\ fanOff' \in Int
        /\ lag' \in 0..MaxLag
    BY <1>3, LaterStaysSet DEF T!FanOnTimer, T!ReadClock, T!TimersLater, Plan
  <2>2. CASE T!Passed(fanOn') /\ T!Call("G", "on", "fan_on.G")
    <3>1. Exchanges' /\ (Own.st = "sent")'
          /\ (serving = Me => Own.st = "idle") /\ pc' = "fan_on.G" /\ pc = "loop"
      BY <1>0, <1>3, <2>2, Called
         DEF T!FanOnTimer, T!Call, Asked, Cmd, AtRest, T!Running, T!Waiting
    <3> QED
      BY <1>0, <1>3, <2>1, <2>2, <3>1
         DEF T!FanOnTimer, T!Passed, T!IsSet, U, Plan, Young
  <2>3. CASE pc' = "compressor" /\ UNCHANGED ctl
    BY <1>0, <1>3, <2>1, <2>3, Undisturbed
       DEF T!FanOnTimer, AtRest, T!Running, Plan, Young
  <2> QED
    BY <1>3, <2>2, <2>3 DEF T!FanOnTimer
<1>4. CASE T!FanTurnedOn
  BY <1>0, <1>4, Returned
     DEF T!FanTurnedOn, AtRest, T!Running, Plan, Young, U, T!Unset
<1>5. CASE T!CompressorTimer
  <2>1. CASE T!Passed(compOn) /\ T!Call("OB", T!ValveLevel, "on.OB")
    <3>1. Exchanges' /\ (Own.st = "sent")'
          /\ (serving = Me => Own.st = "idle") /\ pc' = "on.OB" /\ pc = "compressor"
      BY <1>0, <1>5, <2>1, Called
         DEF T!CompressorTimer, T!Call, Asked, Cmd, AtRest, T!Running, T!Waiting,
             T!ValveLevel
    <3> QED
      BY <1>0, <1>5, <2>1, <3>1
         DEF T!CompressorTimer, T!Passed, T!IsSet, U, Plan, Young
  <2>2. CASE pc' = "fan_off" /\ UNCHANGED ctl
    BY <1>0, <1>5, <2>2, Undisturbed
       DEF T!CompressorTimer, AtRest, T!Running, Plan, Young
  <2> QED
    BY <1>5, <2>1, <2>2 DEF T!CompressorTimer
<1>6. CASE T!ReversingSet
  <2>1. Exchanges' /\ pc' = "on.Y1"
    BY <1>0, <1>6, Called DEF T!ReversingSet, T!Call, Asked, Cmd, T!Waiting
  <2>2. Told(T!Ok) /\ serving # Me
    BY <1>6, Reply DEF T!ReversingSet, T!Waiting
  <2> QED
    BY <1>0, <1>6, <2>1, <2>2 DEF T!ReversingSet, Told, Plan, Young
<1>7. CASE T!CompressorTurnedOn
  <2>1. CASE success /\ T!Ok
    <3>1. Exchanges' /\ serving # Me /\ pc' = "fan_off"
      BY <1>0, <1>7, <2>1, Returned DEF T!CompressorTurnedOn, AtRest, T!Running
    <3>2. ValveFits \/ Fresh
      BY <1>7, <2>1 DEF T!CompressorTurnedOn, Lost
    <3> QED
      BY <1>0, <1>7, <2>1, <3>1, <3>2
         DEF T!CompressorTurnedOn, T!CompressorDone, Plan, Young, U, Fresh, T!Unset
  <2>2. CASE ~(success /\ T!Ok)
    <3>1. Exchanges' /\ serving # Me /\ pc' = "undo.Y1"
      BY <1>0, <1>7, <2>2, Called, Reply, Places
         DEF T!CompressorTurnedOn, T!Call, Asked, Cmd, T!Waiting
    <3> QED
      BY <1>0, <1>7, <2>2, <3>1
         DEF T!CompressorTurnedOn, T!CompressorDone, Plan, Young
  <2> QED
    BY <2>1, <2>2
<1>8. CASE T!CompressorUndone
  <2>1. Exchanges' /\ serving # Me /\ pc' = "undo.OB"
    BY <1>0, <1>8, Called, Reply, Places
       DEF T!CompressorUndone, T!Call, Asked, Cmd, T!Waiting
  <2> QED
    BY <1>0, <1>8, <2>1 DEF T!CompressorUndone, Plan, Young
<1>9. CASE T!ReversingUndone
  BY <1>0, <1>9, Returned
     DEF T!ReversingUndone, T!RetryLater, AtRest, T!Running, Plan, Young
<1>10. CASE T!FanOffTimer
  <2>1. CASE /\ T!Passed(fanOff) /\ earliest' = ShutoffDelay /\ UNCHANGED fanOff
             /\ T!Call("G", "off", "fan_off.G")
    <3>1. Exchanges' /\ (Own.st = "sent")'
          /\ (serving = Me => Own.st = "idle") /\ pc' = "fan_off.G" /\ pc = "fan_off"
      BY <1>0, <1>10, <2>1, Called
         DEF T!FanOffTimer, T!Call, Asked, Cmd, AtRest, T!Running, T!Waiting
    <3> QED
      BY <1>0, <1>10, <2>1, <3>1
         DEF T!FanOffTimer, T!Passed, T!IsSet, U, T!Unset, Plan, Young
  <2>2. CASE /\ pc' \in {"loop", "poll"} /\ UNCHANGED <<earliest, ctl>>
             /\ fanOff' \in {fanOff, U}
    BY <1>0, <1>10, <2>2, Undisturbed
       DEF T!FanOffTimer, AtRest, T!Running, Plan, Young, U, T!Unset
  <2> QED
    BY <1>10, <2>1, <2>2 DEF T!FanOffTimer, T!KeepFanOn, U
<1>11. CASE T!FanTurnedOff
  BY <1>0, <1>11, Returned
     DEF T!FanTurnedOff, AtRest, T!Running, Plan, Young, U, T!Unset
<1>12. CASE T!PollTimedOut
  BY <1>0, <1>12, Undisturbed DEF T!PollTimedOut, AtRest, T!Running, Plan, Young
<1>13. CASE T!ReadWeather
  <2>1. pc = "weather" /\ pc \in AtRest
    BY <1>13 DEF T!ReadWeather, AtRest, T!Running
  <2>2. CASE \E m : m # "off" /\ mode = "off" /\ T!CompressorOn(m)
    BY <1>0, <1>13, <2>1, <2>2, Undisturbed
       DEF T!ReadWeather, T!CompressorOn, T!Handled, T!KeepFanOn, T!IsSet, AtRest,
           T!Running, Plan, Young, U, T!Unset
  <2>3. CASE mode # "off" /\ T!CompressorOff
    <3>1. CASE fanOn = U /\ compOn = U /\ T!Call("Y1", "off", "off.Y1")
      <4>1. Exchanges' /\ (Own.st = "sent")'
          /\ (serving = Me => Own.st = "idle") /\ pc' = "off.Y1"
        BY <1>0, <2>1, <3>1, Called DEF T!Call, Asked, Cmd, T!Waiting
      <4>2. UNCHANGED <<mode, earliest, fanOn, compOn, fanOff, lag>>
        BY <1>13, <2>1, <2>3, <3>1
           DEF T!ReadWeather, T!CompressorOff, T!IsSet, U
      <4> QED
        BY <1>0, <2>1, <2>3, <3>1, <4>1, <4>2 DEF Plan, Young
    <3>2. CASE /\ T!Handled /\ fanOn' = U /\ mode' = "off" /\ UNCHANGED <<earliest, ctl>>
               /\ fanOn # U \/ compOn # U
               /\ IF fanOn # U THEN UNCHANGED <<compOn, fanOff>>
                               ELSE T!CancelCompressor
      BY <1>0, <1>13, <2>1, <2>3, <3>2, Undisturbed
         DEF T!ReadWeather, T!Handled, T!CancelCompressor, AtRest, T!Running, Plan,
             Young, U, T!Unset
    <3> QED
      BY <2>3, <3>1, <3>2 DEF T!CompressorOff, T!IsSet, U
  <2>4. CASE T!Handled /\ UNCHANGED <<mode, earliest, fanOn, compOn, fanOff, ctl>>
    BY <1>0, <1>13, <2>1, <2>4, Undisturbed
       DEF T!ReadWeather, T!Handled, AtRest, T!Running, Plan, Young
  <2> QED
    BY <1>13, <2>2, <2>3, <2>4, Zenon DEF T!ReadWeather
<1>14. CASE T!CompressorTurnedOff
  <2>1. Told(T!Ok) /\ serving # Me
    BY <1>14, Reply DEF T!CompressorTurnedOff, T!Waiting
  <2>2. Exchanges' /\ pc' = "off.OB"
    BY <1>0, <1>14, Called DEF T!CompressorTurnedOff, T!Call, Asked, Cmd, T!Waiting
  <2> QED
    BY <1>0, <1>14, <2>1, <2>2 DEF T!CompressorTurnedOff, Told, Plan, Young
<1>15. CASE T!ReversingTurnedOff
  <2>1. Exchanges' /\ serving # Me /\ pc' \in {"goals", "loop"}
    BY <1>0, <1>15, Returned DEF T!ReversingTurnedOff, T!Handled, AtRest, T!Running
  <2> QED
    BY <1>0, <1>15, <2>1
       DEF T!ReversingTurnedOff, Plan, Young, U, T!Unset
<1>16. CASE T!HandleReq
  <2>1. CASE T!Call("G", "on", "goals.on") \/ T!Call("G", "off", "goals.off")
    <3>1. Exchanges' /\ (Own.st = "sent")'
          /\ (serving = Me => Own.st = "idle")
          /\ pc' \in {"goals.on", "goals.off"} /\ pc = "goals"
      BY <1>0, <1>16, <2>1, Called
         DEF T!HandleReq, T!Call, Asked, Cmd, AtRest, T!Running, T!Waiting
    <3> QED
      BY <1>0, <1>16, <3>1 DEF T!HandleReq, Plan, Young
  <2>2. CASE pc' = "loop" /\ UNCHANGED ctl
    BY <1>0, <1>16, <2>2, Undisturbed DEF T!HandleReq, AtRest, T!Running, Plan, Young
  <2> QED
    BY <1>16, <2>1, <2>2 DEF T!HandleReq
<1>17. CASE T!FanSetOn
  BY <1>0, <1>17, Returned DEF T!FanSetOn, AtRest, T!Running, Plan, Young
<1>18. CASE T!FanSetOff
  BY <1>0, <1>18, Returned DEF T!FanSetOff, AtRest, T!Running, Plan, Young
<1> QED
  BY <1>1, <1>2, <1>3, <1>4, <1>5, <1>6, <1>7, <1>8, <1>9, <1>10, <1>11, <1>12, <1>13,
     <1>14, <1>15, <1>16, <1>17, <1>18 DEF T!Thread

\* Time moves the timers and changes nothing of the plan.
LEMMA LaterKeepsPlan ==
    ASSUME Plan, NEW d \in Nat, T!TimersLater(d), lag' \in 0..MaxLag, UNCHANGED mode,
           pc' = pc \/ (pc' \in T!Running /\ pc # "down")
    PROVE  Plan' /\ (fanOn' = U <=> fanOn = U) /\ (compOn' = U <=> compOn = U)
                 /\ (fanOff' = U <=> fanOff = U)
<1>1. /\ fanOn' = U <=> fanOn = U
      /\ compOn' = U <=> compOn = U
      /\ fanOff' = U <=> fanOff = U
      /\ earliest' = U <=> earliest = U
      /\ earliest' \in Int /\ fanOn' \in Int /\ compOn' \in Int /\ fanOff' \in Int
  BY LaterStaysSet DEF T!TimersLater, Plan
<1> QED
  BY <1>1 DEF Plan, T!Running

\* A message only brings the thread back from its poll.
LEMMA MessageKeepsWay ==
    ASSUME WayInv, WayAssumption, Message
    PROVE  Exchanges' /\ Plan' /\ Young' /\ Way'
<1>1. /\ pc = "poll" /\ pc' \in {"weather", "goals", "loop"}
      /\ UNCHANGED <<mode, success, ctl, gpioOnly>>
      /\ T!TimersLater(lag) /\ lag' = 0
  BY DEF Message, T!PollReady, T!ReadClock, T!settings
<1>2. Exchanges' /\ (Own.st = "idle")'
  BY <1>1, Undisturbed DEF AtRest, T!Running
<1>3. /\ Plan' /\ (fanOn' = U <=> fanOn = U) /\ (compOn' = U <=> compOn = U)
      /\ (fanOff' = U <=> fanOff = U)
  BY <1>1, LaterKeepsPlan DEF WayInv, WayAssumption, Plan, T!Running
<1>4. UNCHANGED <<serving, phase, line>>
  BY <1>1 DEF gpioOnly
<1>5. Young'
  BY <1>1, <1>2, <1>3, <1>4 DEF WayInv, Young, Own
<1>6. Way'
  BY <1>1, <1>3, <1>4 DEF WayInv, Way, RunsTheWantedWay, U
<1> QED
  BY <1>2, <1>3, <1>5, <1>6

\* The thermostat's death ends its exchange and its plans.
LEMMA CrashKeepsWay ==
    ASSUME WayInv, T!Crash, UNCHANGED gpioOnly, WayAssumption
    PROVE  Exchanges' /\ Plan' /\ Young' /\ Way'
<1>1. Own' = Idle
  BY DEF T!Crash, T!Idle, Idle, WayInv, Inv, Typed, Clients, Own
<1>2. /\ pc' = "down" /\ mode' = "off" /\ lag' = 0
      /\ earliest' = U /\ fanOn' = U /\ compOn' = U /\ fanOff' = U
  BY DEF T!Crash, T!Blank, U
<1>3. "down" \in AtRest /\ "down" \notin T!Waiting /\ U \in Int
  BY DEF AtRest, T!Waiting, U, T!Unset
<1> QED
  BY <1>1, <1>2, <1>3
     DEF Exchanges, Plan, Young, Way, RunsTheWantedWay, Idle, WayAssumption

\* The other client keeps to itself.
LEMMA CliKeepsWay ==
    ASSUME WayInv, WayAssumption, CliRequest
    PROVE  Exchanges' /\ OtherIsModest' /\ Plan' /\ Young' /\ Lines' /\ Way'
<1>1. UNCHANGED <<tstatOnly, gpioOnly>>
  BY DEF CliRequest
<1>2. /\ Own' = Own
      /\ ctl'[Cli].st = "sent" => \A i \in DOMAIN ctl'[Cli].cmds : Modest(ctl'[Cli].cmds[i])
  <2>1. CASE \E cmds \in CliBatches : ctl' = [ctl EXCEPT ![Cli] = Sent(cmds)]
    BY <2>1 DEF WayInv, WayAssumption, Inv, Typed, Clients, Own, Sent, Me, Cli
  <2>2. CASE ctl' = [ctl EXCEPT ![Cli] = Idle]
    BY <2>2 DEF WayInv, Inv, Typed, Clients, Own, Idle, Me, Cli
  <2> QED
    BY <2>1, <2>2, Zenon
       DEF CliRequest, G!SendRequest, G!ReceiveReply, G!ClientRestart, G!Idle, Idle,
           G!Sent, Sent
<1>3. \A x : (Asked(x)' <=> Asked(x)) /\ (Told(x)' <=> Told(x))
  BY <1>1 DEF Asked, Told, T!ValveLevel, Runs, ValveFits, Fresh, tstatOnly, gpioOnly
<1>4. Waits => Waits'
  BY <1>1, <1>2, <1>3 DEF Waits, gpioOnly
<1>5. Exchanges' /\ OtherIsModest' /\ Lines' /\ Plan' /\ Young'
  BY <1>1, <1>2, <1>4
     DEF WayInv, Exchanges, OtherIsModest, Lines, Plan, Young, tstatOnly, gpioOnly
<1>6. Way'
  BY <1>1, <1>2
     DEF WayInv, Way, RunsTheWantedWay, Runs, ValveFits, Fresh, tstatOnly, gpioOnly
<1> QED
  BY <1>5, <1>6

\* A step starts no compressor and turns no valve away, as far as these count.
Spares ==
    /\ Runs' => Runs /\ (ValveFits => ValveFits')
    /\ ValveFits \/ Fresh => ValveFits' \/ Fresh'

\* Such a step keeps what the thread is told, and the property.
LEMMA SparedWay ==
    ASSUME WayInv, UNCHANGED <<pc, mode, success>>, Spares, Own = Lost => Own' = Lost,
           fanOn' = U <=> fanOn = U, compOn' = U <=> compOn = U
    PROVE  Way' /\ \A x : (Asked(x)' <=> Asked(x)) /\ (Told(x) => Told(x)')
<1>1. \A x : (Asked(x)' <=> Asked(x)) /\ (Told(x) => Told(x)')
  BY DEF Asked, Told, T!ValveLevel, Spares
<1>2. Way'
  BY DEF WayInv, Way, RunsTheWantedWay, Runs, ValveFits, Spares, U
<1> QED
  BY <1>1, <1>2

\* An age that grows grows by a tick.
LEMMA OlderIsNat ==
    ASSUME Forever \in Nat
    PROVE  \A t \in Nat : G!Older(t) \in Nat /\ G!Older(t) <= t + 1
  BY DEF G!Older

\* Time passes for both: a thread that is not stuck counts it as well.
LEMMA TickKeepsWay ==
    ASSUME WayInv, WayAssumption, Tick
    PROVE  Exchanges' /\ OtherIsModest' /\ Plan' /\ Young' /\ Lines' /\ Way'
<1>1. /\ UNCHANGED <<pc, mode, success, line, value, phase, batch, done, serving, ctl>>
      /\ age' = [w \in HeatSources |-> G!Older(age[w])]
  BY DEF Tick, T!TstatTick, T!settings, G!Tick, G!HeatSources, HeatSources
<1>2. /\ Plan' /\ (fanOn' = U <=> fanOn = U) /\ (compOn' = U <=> compOn = U)
      /\ (fanOff' = U <=> fanOff = U)
  <2>1. CASE T!TimersLater(1) /\ UNCHANGED lag
    <3>1. 1 \in Nat /\ lag' \in 0..MaxLag /\ Plan /\ UNCHANGED mode /\ pc' = pc
      BY <1>1, <2>1 DEF WayInv, Plan
    <3> QED
      BY <2>1, <3>1, LaterKeepsPlan
  <2>2. CASE UNCHANGED <<earliest, fanOn, compOn, fanOff>>
             /\ (lag' = lag \/ (lag < MaxLag /\ lag' = lag + 1))
    BY <1>1, <2>2 DEF WayInv, Plan, WayAssumption
  <2> QED
    BY <2>1, <2>2 DEF Tick, T!TstatTick, T!timers
<1>3. "Y1" \in HeatSources /\ \A w \in HeatSources : age[w] \in Nat
  BY DEF HeatSources, WayInv, Lines
<1>4. Lines'
  BY <1>1, <1>3, OlderIsNat DEF WayInv, Lines, WayAssumption
<1>5. OtherIsModest' /\ Young'
  BY <1>1, <1>2 DEF WayInv, OtherIsModest, Young, Own
<1>6. CASE pc \in T!Waiting /\ Own # Lost
  <2>1. lag' = lag + 1
    BY <1>6 DEF Tick, T!TstatTick, T!Stuck, T!Waiting, WayInv, Inv, OneExchange, Own
  <2>2. age'["Y1"] \in Nat /\ age'["Y1"] <= age["Y1"] + 1
    BY <1>1, <1>3, OlderIsNat DEF WayAssumption
  <2>3. Fresh => Fresh'
    BY <1>1, <1>3, <2>1, <2>2 DEF Fresh, WayInv, Plan
  <2>4. Spares
    BY <1>1, <2>3 DEF Spares, Runs, ValveFits
  <2>5. Way' /\ \A x : (Asked(x)' <=> Asked(x)) /\ (Told(x) => Told(x)')
    BY <1>1, <1>2, <2>4, SparedWay DEF Own
  <2>6. Waits => Waits'
    BY <1>1, <2>5 DEF Waits, Own
  <2> QED
    BY <1>1, <1>2, <1>4, <1>5, <2>5, <2>6 DEF WayInv, Exchanges, Own
<1>7. CASE ~(pc \in T!Waiting /\ Own # Lost)
  <2>1. Exchanges'
    BY <1>1, <1>7 DEF WayInv, Exchanges, Own
  <2>2. Way'
    BY <1>1, <1>2, <1>7 DEF WayInv, Way, RunsTheWantedWay, Runs, U, Own, T!Waiting
  <2> QED
    BY <1>2, <1>4, <1>5, <2>1, <2>2
<1> QED
  BY <1>6, <1>7
----------------------------------------------------------------------------
(* The controller.                                                         *)

\* What a command does to the compressor and the valve, with relays that do as told.
Does(cmd, ok) ==
    /\ done' = Append(done, ok)
    /\ line' \in [Wires -> Level] /\ value' \in [Wires -> Tristate]
    /\ age' \in [HeatSources -> Nat] /\ age'["Y1"] \in {0, age["Y1"]}
    /\ cmd.wire # "OB" => line'["OB"] = line["OB"]
    /\ cmd.connect = "off" /\ line["OB"] = "off" => line'["OB"] = "off"
    /\ cmd.wire = "OB" /\ ok => line'["OB"] = cmd.connect
    /\ line["Y1"] = "off" =>
          \/ line'["Y1"] = "off"
          \/ /\ cmd.wire = "Y1" /\ cmd.connect = "on"
             /\ value["Y1"] = "on" \/ age["Y1"] >= ShutoffDelay
    /\ value["Y1"] # "on" =>
          \/ value'["Y1"] # "on"
          \/ /\ cmd.wire = "Y1" /\ cmd.connect = "on" /\ age["Y1"] >= ShutoffDelay
    /\ cmd.wire = "Y1" /\ cmd.connect = "off" /\ "Y1" \in Wired => line'["Y1"] = "off"
    /\ (line["Y1"] = "on" => value["Y1"] = "on" /\ "Y1" \in Wired)
          => (line'["Y1"] = "on" => value'["Y1"] = "on" /\ "Y1" \in Wired)
    /\ (value["Y1"] = "on" => line["Y1"] = "on")
          => (value'["Y1"] = "on" => line'["Y1"] = "on")

\* Lines that are driven are driven all, and believed so.
LEMMA SetDoes ==
    ASSUME NEW ws \in SUBSET Wires, NEW level \in Level, NEW ok, G!Set(ws, level, ok),
           line \in [Wires -> Level], value \in [Wires -> Tristate],
           age \in [HeatSources -> Nat]
    PROVE  /\ done' = Append(done, ok)
           /\ line' \in [Wires -> Level] /\ value' \in [Wires -> Tristate]
           /\ age' \in [HeatSources -> Nat] /\ age'["Y1"] \in {0, age["Y1"]}
           /\ \A w \in Wires : /\ line'[w] = IF w \in ws THEN level ELSE line[w]
                               /\ value'[w] = IF w \in ws THEN level ELSE value[w]
  BY DEF G!Set, G!Wires, Wires, G!HeatSources, HeatSources, Tristate

\* Which lines a command drives, to which level, and when.
Drives(cmd, ws, level, ok) ==
    /\ G!Set(ws, level, ok)
    /\ "OB" \in ws => cmd.wire = "OB" /\ level = cmd.connect
    /\ cmd.wire = "OB" /\ ok => "OB" \in ws
    /\ "Y1" \in ws /\ level = "on" =>
          /\ cmd.wire = "Y1" /\ cmd.connect = "on"
          /\ value["Y1"] = "on" \/ age["Y1"] >= ShutoffDelay
    /\ "Y1" \in ws => "Y1" \in Wired
    /\ cmd.wire = "Y1" /\ cmd.connect = "off" /\ "Y1" \in Wired
          => "Y1" \in ws /\ level = "off"

\* Each of the control functions keeps that promise.
LEMMA CommandDoes ==
    ASSUME NEW cmd \in Command, G!ControlWireSafe(cmd), WayAssumption,
           line \in [Wires -> Level], value \in [Wires -> Tristate],
           age \in [HeatSources -> Nat]
    PROVE  \E ok \in BOOLEAN : Does(cmd, ok)
<1>0. /\ "Y1" \in Wires /\ "OB" \in Wires /\ "G" \in Wires /\ "W2" \in Wires
      /\ cmd.connect \in Level
      /\ "off" \in Level /\ "on" \in Level
      /\ ~GpioFails
      /\ "Y1" \in HeatSources /\ age["Y1"] \in Nat /\ ShutoffDelay \in Nat
  BY DEF Wires, Command, Level, WayAssumption, HeatSources
<1>1. \E ws \in SUBSET Wires, level \in Level, ok \in BOOLEAN : Drives(cmd, ws, level, ok)
  <2>1. CASE cmd.wire \in G!HeatSources /\ G!ControlHeat(cmd.wire, cmd.connect)
    <3>1. CASE cmd.wire = "W2"
      BY <1>0, <2>1, <3>1
         DEF Drives, G!ControlHeat, G!LockedOut, G!Drive, G!Refuse, Wires, Level
    <3>2. CASE cmd.wire = "Y1"
      <4>1. G!ControlHeat("Y1", cmd.connect)
        BY <2>1, <3>2
      <4>2. \/ G!Set({}, "off", FALSE) /\ (cmd.connect = "on" \/ "Y1" \notin Wired)
            \/ /\ G!Set({"G", "Y1"}, "on", TRUE) /\ "Y1" \in Wired
               /\ cmd.connect = "on" /\ ~(age["Y1"] < ShutoffDelay)
            \/ G!Set({"G"}, "on", FALSE) /\ cmd.connect = "on"
            \/ /\ G!Set({"Y1"}, cmd.connect, TRUE) /\ "Y1" \in Wired
               /\ \/ cmd.connect # "on" \/ value["Y1"] = "on"
                  \/ ~(age["Y1"] < ShutoffDelay)
        BY <1>0, <4>1, Zenon DEF G!ControlHeat, G!LockedOut, G!Drive, G!Refuse
      <4>3. ~(age["Y1"] < ShutoffDelay) => age["Y1"] >= ShutoffDelay
        BY <1>0
      <4> QED
        BY <1>0, <3>2, <4>2, <4>3 DEF Drives, Wires, Level
    <3> QED
      BY <2>1, <3>1, <3>2 DEF G!HeatSources
  <2>2. CASE cmd.wire = "OB" /\ G!ControlReversing(cmd.connect)
    BY <1>0, <2>2 DEF Drives, G!ControlReversing, G!Drive, G!Refuse, Wires, Level
  <2>3. CASE cmd.wire = "G" /\ G!ControlFan(cmd.connect)
    BY <1>0, <2>3 DEF Drives, G!ControlFan, G!Drive, G!Refuse, Wires, Level
  <2>4. CASE cmd.wire = "other" /\ G!Refuse
    BY <1>0, <2>4 DEF Drives, G!Refuse, Wires, Level
  <2> QED
    BY <2>1, <2>2, <2>3, <2>4 DEF G!ControlWireSafe
<1>2. PICK ws \in SUBSET Wires, level \in Level, ok \in BOOLEAN : Drives(cmd, ws, level, ok)
  BY <1>1
<1>3. /\ done' = Append(done, ok)
      /\ line' \in [Wires -> Level] /\ value' \in [Wires -> Tristate]
      /\ age' \in [HeatSources -> Nat] /\ age'["Y1"] \in {0, age["Y1"]}
      /\ line'["Y1"] = IF "Y1" \in ws THEN level ELSE line["Y1"]
      /\ line'["OB"] = IF "OB" \in ws THEN level ELSE line["OB"]
      /\ value'["Y1"] = IF "Y1" \in ws THEN level ELSE value["Y1"]
  <2>1. G!Set(ws, level, ok)
    BY <1>2 DEF Drives
  <2>2. /\ done' = Append(done, ok)
        /\ line' \in [Wires -> Level] /\ value' \in [Wires -> Tristate]
        /\ age' \in [HeatSources -> Nat] /\ age'["Y1"] \in {0, age["Y1"]}
        /\ \A w \in Wires : /\ line'[w] = IF w \in ws THEN level ELSE line[w]
                            /\ value'[w] = IF w \in ws THEN level ELSE value[w]
    BY <2>1, SetDoes
  <2> QED
    BY <1>0, <2>2
<1>4. Does(cmd, ok)
  BY <1>0, <1>2, <1>3 DEF Drives, Does, Level
<1> QED
  BY <1>4

\* What the controller leaves alone of the thread's.
LEMMA ThreadStays ==
    ASSUME WayInv, UNCHANGED tstatOnly
    PROVE  /\ UNCHANGED <<pc, mode, success, earliest, fanOn, compOn, fanOff, lag>>
           /\ Plan'
  BY DEF WayInv, tstatOnly, Plan

\* While the thread's request is taken, the thread waits for the result of its one
\* command.
LEMMA Serving ==
    ASSUME WayInv, Own.st = "taken"
    PROVE  /\ pc \in T!Waiting /\ pc \notin AtRest /\ Own = Taken /\ serving = Me
           /\ \E cmd : /\ Asked(cmd) /\ batch = <<cmd>>
                       /\ done = <<>> \/ \E ok : done = <<ok>> /\ Told(ok)
<1>1. pc \in T!Waiting /\ Own # Lost /\ \A x : Own # Sent(x) /\ Own # Replied(x)
  BY DEF WayInv, Inv, OneExchange, Exchanges, AtRest, Lost, Sent, Replied, Own
<1> QED
  BY <1>1, Places, Zenon DEF WayInv, Exchanges, Waits

\* An exchange that is sent or answered does not depend on what is being served.
LEMMA ExchangesStay ==
    ASSUME WayInv, UNCHANGED <<pc, mode, success>>,
           \A x : (Asked(x)' <=> Asked(x)) /\ (Told(x) => Told(x)'),
           Own' = Own \/ Own' = Lost, Own' = Taken => serving # Me
    PROVE  Exchanges'
<1>1. Waits => Waits' \/ Own' = Lost
  <2>1. ASSUME Waits, Own' # Lost
        PROVE  \E cmd : Asked(cmd) /\ (\/ Own = Sent(<<cmd>>)
                                       \/ \E ok : Own = Replied(<<ok>>) /\ Told(ok))
    BY <2>1, Zenon DEF Waits
  <2> QED
    BY <2>1 DEF Waits
<1> QED
  BY <1>1 DEF WayInv, Exchanges

\* The startup commands turn everything off.
LEMMA StartupCommands ==
    /\ Len(G!StartupBatch) = 4
    /\ \A n \in Nat : n < 4 => /\ G!StartupBatch[n + 1] \in Command
                               /\ G!StartupBatch[n + 1].connect = "off"
<1>1. /\ Len(G!StartupBatch) = 4
      /\ \A i \in 1..4 : G!StartupBatch[i] \in Command /\ G!StartupBatch[i].connect = "off"
  BY DEF G!StartupBatch, Command, AnyWire, Wires, Level
<1>2. \A n \in Nat : n < 4 => n + 1 \in 1..4
  OBVIOUS
<1> QED
  BY <1>1, <1>2

\* A command keeps what the controller knows, and a modest one, or one of the startup,
\* spares the compressor.
LEMMA DoesLines ==
    ASSUME WayInv, WayAssumption, NEW cmd \in Command, NEW ok \in BOOLEAN, Does(cmd, ok),
           UNCHANGED <<tstatOnly, phase, batch, serving>>, phase # "down",
           phase = "starting" => cmd.connect = "off"
    PROVE  /\ Lines'
           /\ Modest(cmd) \/ phase = "starting" => Spares
<1>0. /\ "Y1" \in Wires /\ "OB" \in Wires /\ "Y1" \in HeatSources
      /\ line["Y1"] \in Level /\ line["OB"] \in Level /\ line'["Y1"] \in Level
      /\ age["Y1"] \in Nat /\ age'["Y1"] \in {0, age["Y1"]}
      /\ cmd.connect \in Level /\ lag \in Nat
  BY DEF Wires, HeatSources, WayInv, Lines, Does, Command, Plan
<1>1. Lines'
  BY <1>0 DEF WayInv, Lines, Does, Level
<1>2. ASSUME Modest(cmd) \/ phase = "starting"
      PROVE  Spares
  <2>1. UNCHANGED <<mode, lag>>
    BY DEF tstatOnly
  <2>2. cmd.wire = "Y1" => cmd.connect = "off"
    BY <1>2 DEF Modest
  <2>3. line["Y1"] = "off" => line'["Y1"] = "off"
    BY <2>2 DEF Does
  <2>4. value["Y1"] # "on" => value'["Y1"] # "on"
    BY <2>2 DEF Does
  <2>5. line'["OB"] = line["OB"]
    BY <1>2 DEF Does, Modest, WayInv, Lines
  <2>6. Runs' => Runs
    BY <1>0, <2>3 DEF Runs, Level
  <2>7. ValveFits <=> ValveFits'
    BY <2>1, <2>5 DEF ValveFits
  <2>8. Fresh => Fresh'
    BY <1>0, <2>1, <2>3, <2>4 DEF Fresh
  <2> QED
    BY <2>6, <2>7, <2>8 DEF Spares
<1> QED
  BY <1>1, <1>2

\* A command of the startup, or of the other client.
LEMMA OtherCommand ==
    ASSUME WayInv, WayAssumption, G!ControlWire, UNCHANGED tstatOnly,
           phase = "starting" \/ serving = Cli
    PROVE  WayInv'
<1> DEFINE cmd == batch[Len(done) + 1]
<1>1. /\ phase # "down" /\ Len(done) < Len(batch) /\ G!ControlWireSafe(cmd)
      /\ UNCHANGED <<phase, batch, serving, ctl>>
  BY DEF G!ControlWire
<1>2. /\ Len(done) \in Nat /\ cmd \in Command /\ Len(done) + 1 \in DOMAIN batch
  BY <1>1 DEF WayInv, Inv, Typed
<1>3. phase = "starting" => cmd.connect = "off"
  BY <1>1, <1>2, StartupCommands DEF WayInv, Lines
<1>4. phase = "starting" \/ Modest(cmd)
  BY <1>2 DEF WayInv, OtherIsModest
<1>5. PICK ok \in BOOLEAN : Does(cmd, ok)
  BY <1>1, <1>2, CommandDoes DEF WayInv, Lines
<1>6. Lines' /\ Spares
  BY <1>1, <1>2, <1>3, <1>4, <1>5, DoesLines
<1>7. serving # Me
  BY DEF WayInv, Inv, OneCommand, Me, Cli, G!None
<1>8. Way' /\ Exchanges' /\ Plan'
  BY <1>1, <1>6, <1>7, ThreadStays, SparedWay, ExchangesStay DEF Own
<1>9. OtherIsModest' /\ Young'
  BY <1>1, <1>7, ThreadStays DEF WayInv, OtherIsModest, Young, Own
<1>10. Inv'
  BY ServerKeepsInv DEF WayInv, G!Server
<1> QED
  BY <1>6, <1>8, <1>9, <1>10 DEF WayInv

\* A command that an earlier life of the thermostat sent.
LEMMA StaleCommand ==
    ASSUME WayInv, WayAssumption, G!ControlWire, UNCHANGED tstatOnly,
           phase = "serving", serving = Me, Own.st # "taken"
    PROVE  WayInv'
<1> DEFINE cmd == batch[Len(done) + 1]
<1>1. /\ phase # "down" /\ Len(done) < Len(batch) /\ G!ControlWireSafe(cmd)
      /\ UNCHANGED <<phase, batch, serving, ctl>>
  BY DEF G!ControlWire
<1>2. /\ Len(done) \in Nat /\ cmd \in Command
  BY <1>1 DEF WayInv, Inv, Typed
<1>3. PICK ok \in BOOLEAN : Does(cmd, ok)
  BY <1>1, <1>2, CommandDoes DEF WayInv, Lines
<1>4. Lines'
  BY <1>1, <1>2, <1>3, DoesLines
<1>5. UNCHANGED <<pc, mode, success, earliest, fanOn, compOn, fanOff, lag>> /\ Plan'
  BY ThreadStays
<1>6. pc \notin {"on.OB", "on.Y1", "undo.Y1", "undo.OB", "fan_off.G", "off.Y1", "off.OB"}
  BY DEF WayInv, Young, Plan
<1>7. Way'
  BY <1>5, <1>6 DEF WayInv, Way, RunsTheWantedWay, Young, U
<1>8. \A x : (Asked(x)' <=> Asked(x)) /\ (Told(x) => Told(x)')
  BY <1>5, <1>6 DEF Asked, Told, T!ValveLevel
<1>9. Own' = Own /\ Own' # Taken
  BY <1>1 DEF Own, Taken
<1>10. Exchanges'
  BY <1>5, <1>8, <1>9, ExchangesStay
<1>11. OtherIsModest' /\ Young'
  BY <1>1, <1>5 DEF WayInv, OtherIsModest, Young, Own, Me, Cli
<1>12. Inv'
  BY ServerKeepsInv DEF WayInv, G!Server
<1> QED
  BY <1>4, <1>5, <1>7, <1>10, <1>11, <1>12 DEF WayInv

\* The command the thread waits for.
LEMMA OwnCommand ==
    ASSUME WayInv, WayAssumption, G!ControlWire, UNCHANGED tstatOnly,
           phase = "serving", Own.st = "taken"
    PROVE  WayInv'
<1>1. /\ phase # "down" /\ Len(done) < Len(batch)
      /\ G!ControlWireSafe(batch[Len(done) + 1])
      /\ UNCHANGED <<phase, batch, serving, ctl>>
  BY DEF G!ControlWire
<1>2. /\ pc \in T!Waiting /\ pc \notin AtRest /\ Own = Taken /\ serving = Me
      /\ UNCHANGED <<pc, mode, success, earliest, fanOn, compOn, fanOff, lag>> /\ Plan'
  BY Serving, ThreadStays
<1>3. PICK cmd : /\ Asked(cmd) /\ batch = <<cmd>>
                 /\ done = <<>> \/ \E ok : done = <<ok>>
  BY Serving, Zenon
<1>4. done = <<>> /\ cmd = batch[Len(done) + 1]
  <2>1. ASSUME NEW k, done = <<k>> PROVE FALSE
    BY <1>1, <1>3, <2>1
  <2> QED
    BY <1>3, <2>1
<1>5. cmd \in Command
  BY <1>3 DEF Asked, Command, AnyWire, Wires
<1>6. PICK ok \in BOOLEAN : Does(cmd, ok)
  BY <1>1, <1>4, <1>5, CommandDoes DEF WayInv, Lines
<1>7. Lines'
  BY <1>1, <1>2, <1>5, <1>6, DoesLines
<1>8. /\ "Y1" \in Wires /\ "OB" \in Wires /\ "Y1" \in HeatSources
      /\ line["Y1"] \in Level /\ line["OB"] \in Level /\ line'["Y1"] \in Level
      /\ age["Y1"] \in Nat /\ age'["Y1"] \in {0, age["Y1"]}
      /\ line["Y1"] = "on" => value["Y1"] = "on" /\ "Y1" \in Wired
      /\ lag \in 0..MaxLag
  BY <1>1, <1>6 DEF Wires, HeatSources, WayInv, Lines, Does, Plan
<1>9. cmd.wire = "Y1" /\ cmd.connect = "off" => ~Runs'
  BY <1>6, <1>8 DEF Does, Runs, Level
<1>10. cmd.wire # "Y1" => (Runs' => Runs)
  BY <1>1, <1>6, <1>8 DEF Does, Runs, Level
<1>11. cmd.wire # "OB" => (ValveFits' <=> ValveFits)
  BY <1>2, <1>6 DEF Does, ValveFits
<1>12. pc = "on.OB" /\ ok => ValveFits'
  BY <1>2, <1>3, <1>6 DEF Does, Asked, ValveFits, T!ValveLevel
<1>13. cmd.wire = "Y1" /\ Fresh => Fresh'
  <2>1. Fresh /\ phase # "down" => age["Y1"] < ShutoffDelay
    BY <1>8 DEF Fresh, WayAssumption
  <2>2. Fresh => ~(age["Y1"] >= ShutoffDelay)
    BY <1>1, <1>8, <2>1 DEF WayAssumption
  <2> QED
    BY <1>1, <1>2, <1>6, <1>8, <2>2 DEF Fresh, Does
<1>14. Told(ok)' /\ Asked(cmd)'
  BY <1>2, <1>3, <1>9, <1>12 DEF Told, Asked, T!ValveLevel
<1>15. Own' = Taken /\ done' = <<ok>>
  BY <1>1, <1>2, <1>4, <1>6 DEF Own, Does
<1>16. Exchanges'
  BY <1>1, <1>2, <1>3, <1>14, <1>15 DEF WayInv, Exchanges, Waits
<1>17. Way'
  <2>1. RunsTheWantedWay'
    <3>1. CASE pc \in {"on.OB", "on.Y1", "undo.Y1", "undo.OB"}
      BY <1>2, <3>1 DEF WayInv, Plan, RunsTheWantedWay, U
    <3>2. CASE pc = "off.Y1"
      BY <1>3, <1>9, <3>2 DEF Asked, RunsTheWantedWay, Runs
    <3>3. CASE pc = "off.OB"
      BY <1>3, <1>10, <3>3 DEF WayInv, Way, Asked, RunsTheWantedWay, Runs
    <3>4. CASE pc \in {"start.G", "fan_on.G", "goals.on", "fan_off.G", "goals.off"}
      BY <1>2, <1>3, <1>10, <1>11, <3>4
         DEF WayInv, Way, Asked, RunsTheWantedWay, Runs, ValveFits
    <3> QED
      BY <1>2, <3>1, <3>2, <3>3, <3>4 DEF T!Waiting
  <2>2. pc = "off.OB" => ~Runs'
    BY <1>3, <1>10 DEF WayInv, Way, Asked
  <2>3. pc = "on.Y1" /\ success => ValveFits' \/ Fresh'
    <3>1. Own # Lost
      BY <1>2 DEF Taken, Lost
    <3> QED
      BY <1>3, <1>11, <1>13, <3>1 DEF WayInv, Way, Asked
  <2> QED
    BY <1>2, <2>1, <2>2, <2>3 DEF Way
<1>18. OtherIsModest' /\ Young'
  BY <1>1, <1>2, <1>15 DEF WayInv, OtherIsModest, Young, Taken, Me, Cli
<1>19. Inv'
  BY ServerKeepsInv DEF WayInv, G!Server
<1> QED
  BY <1>2, <1>7, <1>16, <1>17, <1>18, <1>19 DEF WayInv

\* The controller's other steps.
LEMMA ServerKeepsWay ==
    ASSUME WayInv, WayAssumption, G!Server, UNCHANGED tstatOnly
    PROVE  WayInv'
<1>1. /\ UNCHANGED <<pc, mode, success, earliest, fanOn, compOn, fanOff, lag>> /\ Plan'
      /\ Inv'
  BY ThreadStays, ServerKeepsInv DEF WayInv
<1>2. Me \in Clients /\ Cli \in Clients /\ Me # Cli /\ Me # G!None /\ Cli # G!None
  BY DEF Clients, Me, Cli, G!None
<1>3. CASE G!Start
  <2>1. /\ phase = "down" /\ phase' = "starting" /\ line' = G!AllLow
        /\ value' = [w \in Wires |-> "unknown"] /\ age' = [w \in HeatSources |-> 0]
        /\ batch' = G!StartupBatch /\ UNCHANGED <<serving, ctl>>
    BY <1>3 DEF G!Start, G!Wires, Wires, G!HeatSources, HeatSources
  <2>2. /\ line'["Y1"] = "off" /\ line'["OB"] = "off" /\ line' \in [Wires -> Level]
        /\ value'["Y1"] = "unknown" /\ value' \in [Wires -> Tristate]
        /\ age'["Y1"] = 0 /\ age' \in [HeatSources -> Nat]
    BY <2>1 DEF G!AllLow, G!Wires, Wires, Level, Tristate, HeatSources
  <2>3. serving = G!None
    BY <2>1 DEF WayInv, Inv, OneCommand
  <2>4. ~Runs' /\ Fresh'
    BY <1>1, <2>1, <2>2 DEF Runs, Fresh, WayInv, Plan, WayAssumption
  <2>5. Spares
    BY <2>4 DEF Spares
  <2>6. Way' /\ Exchanges'
    BY <1>1, <1>2, <2>1, <2>3, <2>5, SparedWay, ExchangesStay DEF Own
  <2>7. Lines' /\ OtherIsModest' /\ Young'
    BY <1>2, <2>1, <2>2, <2>3 DEF WayInv, Lines, OtherIsModest, Young
  <2> QED
    BY <1>1, <2>6, <2>7 DEF WayInv
<1>4. CASE G!ControlWire
  <2>1. phase = "starting" \/ phase = "serving"
    BY <1>4 DEF G!ControlWire, WayInv, Lines
  <2>2. phase = "serving" => serving # G!None
    BY <1>4 DEF G!ControlWire, WayInv, Lines, Inv, Typed
  <2>3. serving \in {Me, Cli, G!None}
    BY DEF WayInv, Inv, Typed, Clients
  <2> QED
    BY <1>4, <2>1, <2>2, <2>3, OtherCommand, StaleCommand, OwnCommand
<1>5. ASSUME Spares, Lines', OtherIsModest', Young', UNCHANGED ctl,
             Own.st # "taken"
      PROVE  WayInv'
  <2>1. Own' = Own /\ Own' # Taken
    BY <1>5 DEF Own, Taken
  <2>2. Way' /\ Exchanges'
    BY <1>1, <1>5, <2>1, SparedWay, ExchangesStay
  <2> QED
    BY <1>1, <1>5, <2>2 DEF WayInv
<1>6. ASSUME UNCHANGED <<line, value, age>>, phase # "down", phase' # "down"
      PROVE  Spares
  BY <1>1, <1>6 DEF Spares, Runs, ValveFits, Fresh
<1>7. CASE G!Serve
  <2>1. /\ phase = "starting" /\ phase' = "serving" /\ batch' = <<>>
        /\ UNCHANGED <<line, value, age, serving, ctl>>
    BY <1>7 DEF G!Serve, G!EndBatch
  <2>2. serving = G!None
    BY <2>1 DEF WayInv, Inv, OneCommand
  <2>3. Own.st # "taken"
    BY <1>2, <2>2, Serving
  <2>4. Lines' /\ OtherIsModest' /\ Young'
    BY <1>2, <2>1, <2>2 DEF WayInv, Lines, OtherIsModest, Young
  <2> QED
    BY <1>5, <1>6, <2>1, <2>3, <2>4
<1>8. ASSUME NEW c \in Clients, G!HandleReq(c)
      PROVE  WayInv'
  <2>1. /\ ctl' = [ctl EXCEPT ![c] = Taken] /\ ctl[c].st = "sent"
        /\ serving = G!None /\ serving' = c /\ batch' = ctl[c].cmds /\ done' = <<>>
        /\ phase = "serving" /\ UNCHANGED <<line, value, age, phase>>
    BY <1>8 DEF G!HandleReq, G!Polling, G!Taken, Taken
  <2>2. Own.st # "taken"
    BY <1>2, <2>1, Serving
  <2>3. Lines'
    BY <1>2, <2>1 DEF WayInv, Lines, Clients
  <2>4. Own = Lost => Own' = Lost
    BY <1>2, <2>1 DEF Own, Lost, WayInv, Inv, Typed
  <2>5. Way' /\ \A x : (Asked(x)' <=> Asked(x)) /\ (Told(x) => Told(x)')
    BY <1>1, <1>6, <2>1, <2>4, SparedWay
  <2>6. CASE c = Me
    <3>1. Own' = Taken /\ ctl'[Cli] = ctl[Cli]
      BY <1>2, <2>1, <2>6 DEF Own, WayInv, Inv, Typed
    <3>2. pc \in T!Waiting /\ Own # Taken /\ Own # Lost /\ \A x : Own # Replied(x)
      BY <2>1, <2>6 DEF WayInv, Inv, OneExchange, Exchanges, AtRest, Own, Taken, Lost, Replied
    <3>3. PICK cmd : Asked(cmd) /\ Own = Sent(<<cmd>>)
      BY <3>2, Zenon DEF WayInv, Exchanges, Waits
    <3>4. batch' = <<cmd>>
      BY <2>1, <2>6, <3>3 DEF Own, Sent
    <3>5. Exchanges'
      BY <1>1, <2>1, <2>5, <2>6, <3>1, <3>3, <3>4 DEF WayInv, Exchanges, Waits
    <3>6. OtherIsModest' /\ Young'
      BY <1>2, <2>1, <2>6, <3>1 DEF WayInv, OtherIsModest, Young, Taken
    <3> QED
      BY <1>1, <2>3, <2>5, <3>5, <3>6 DEF WayInv
  <2>7. CASE c = Cli
    <3>1. Own' = Own /\ ctl'[Cli] = Taken /\ Own' # Taken
      BY <1>2, <2>1, <2>2, <2>7 DEF Own, WayInv, Inv, Typed, Taken
    <3>2. Exchanges'
      BY <1>1, <2>5, <3>1, ExchangesStay
    <3>3. OtherIsModest' /\ Young'
      BY <1>2, <2>1, <2>7, <3>1 DEF WayInv, OtherIsModest, Young, Taken
    <3> QED
      BY <1>1, <2>3, <2>5, <3>2, <3>3 DEF WayInv
  <2> QED
    BY <2>6, <2>7 DEF Clients
<1>9. CASE G!SendReply
  <2>1. /\ serving # G!None /\ serving' = G!None /\ batch' = <<>> /\ done' = <<>>
        /\ UNCHANGED <<line, value, age, phase>> /\ Len(done) = Len(batch)
        /\ ctl' = [ctl EXCEPT ![serving] = IF @.st = "taken" THEN Replied(done) ELSE @]
    BY <1>9 DEF G!SendReply, G!EndBatch, G!Reply, G!Replied, Replied
  <2>2. serving \in Clients /\ phase = "serving"
    BY <2>1 DEF WayInv, Inv, Typed, OneCommand
  <2>3. Lines' /\ OtherIsModest' /\ Young'
    <3>1. ctl'[Cli].st = "sent" => ctl'[Cli] = ctl[Cli]
      BY <1>2, <2>1 DEF WayInv, Inv, Typed, Replied
    <3> QED
      BY <1>2, <2>1, <2>2, <3>1 DEF WayInv, Lines, OtherIsModest, Young
  <2>4. CASE Own.st = "taken"
    <3>1. PICK cmd : /\ Asked(cmd) /\ batch = <<cmd>>
                     /\ done = <<>> \/ \E ok : done = <<ok>> /\ Told(ok)
      BY <2>4, Serving, Zenon
    <3>2. PICK ok : done = <<ok>> /\ Told(ok)
      BY <2>1, <3>1
    <3>3. Own' = Replied(<<ok>>) /\ Own # Lost
      BY <1>2, <2>1, <2>4, <3>2, Serving DEF Own, WayInv, Inv, Typed, Lost
    <3>4. Way' /\ \A x : (Asked(x)' <=> Asked(x)) /\ (Told(x) => Told(x)')
      BY <1>1, <1>6, <2>1, <2>2, <3>3, SparedWay
    <3>5. Exchanges'
      BY <1>1, <3>1, <3>2, <3>3, <3>4 DEF WayInv, Exchanges, Waits
    <3> QED
      BY <1>1, <2>3, <3>4, <3>5 DEF WayInv
  <2>5. CASE Own.st # "taken"
    <3>1. Own' = Own /\ Own' # Taken
      BY <1>2, <2>1, <2>5 DEF Own, WayInv, Inv, Typed, Taken
    <3>2. Way' /\ Exchanges'
      BY <1>1, <1>6, <2>1, <2>2, <3>1, SparedWay, ExchangesStay
    <3> QED
      BY <1>1, <2>3, <3>2 DEF WayInv
  <2> QED
    BY <2>4, <2>5
<1>10. CASE G!GotNewSubscriber
  <2>1. UNCHANGED <<line, value, age, phase, batch, done, serving, ctl>>
        /\ phase = "serving" /\ serving = G!None
    BY <1>10 DEF G!GotNewSubscriber, G!Polling
  <2>2. Own.st # "taken"
    BY <1>2, <2>1, Serving
  <2>3. Lines' /\ OtherIsModest' /\ Young'
    BY <1>1, <1>2, <2>1 DEF WayInv, Lines, OtherIsModest, Young
  <2> QED
    BY <1>5, <1>6, <2>1, <2>2, <2>3
<1> QED
  BY <1>3, <1>4, <1>7, <1>8, <1>9, <1>10 DEF G!Server

\* Its death: until it is back, and the startup is through, no compressor runs.
LEMMA GpioCrashKeepsWay ==
    ASSUME WayInv, WayAssumption, G!Crash, UNCHANGED tstatOnly
    PROVE  WayInv'
<1>1. /\ UNCHANGED <<pc, mode, success, earliest, fanOn, compOn, fanOff, lag>> /\ Plan'
      /\ Inv'
  BY ThreadStays, GpioCrashKeepsInv DEF WayInv
<1>2. Me \in Clients /\ Cli \in Clients /\ Me # G!None /\ Cli # G!None
  BY DEF Clients, Me, Cli, G!None
<1>3. PICK lost \in SUBSET Clients :
        /\ serving # G!None /\ ctl[serving].st = "taken" => serving \in lost
        /\ ctl' = [c \in Clients |-> IF c \in lost THEN Lost ELSE ctl[c]]
  BY DEF G!Crash, G!Lost, Lost
<1>4. /\ serving' = G!None /\ batch' = <<>> /\ phase' = "down"
      /\ line' \in [Wires -> Level] /\ value' = [w \in Wires |-> "unknown"]
      /\ age' = [w \in HeatSources |-> 0]
  BY DEF G!Crash, G!EndBatch, G!Wires, Wires, G!HeatSources, HeatSources, Level
<1>5. Spares
  BY <1>4 DEF Spares, Runs, Fresh
<1>6. Own' = Own \/ Own' = Lost
  BY <1>2, <1>3 DEF Own
<1>7. Own' # Taken
  <2>1. ASSUME Own' = Taken PROVE FALSE
    <3>1. Own = Taken /\ Me \notin lost
      BY <1>2, <1>3, <2>1 DEF Own, Taken, Lost
    <3>2. serving = Me
      BY <3>1, Serving DEF Taken
    <3> QED
      BY <1>2, <1>3, <3>1, <3>2 DEF Own, Taken
  <2> QED
    BY <2>1
<1>8. Way' /\ Exchanges'
  BY <1>1, <1>5, <1>6, <1>7, SparedWay, ExchangesStay
<1>9. Lines'
  BY <1>4 DEF Lines, Tristate
<1>10. OtherIsModest' /\ Young'
  BY <1>2, <1>3, <1>4 DEF WayInv, OtherIsModest, Young, Lost
<1> QED
  BY <1>1, <1>8, <1>9, <1>10 DEF WayInv

\* A compressor that the thermostat takes to be running does not run the other way,
\* whichever process has died and come back and whatever modest commands another
\* client sends (tstat.c:292, gpio_hvac.c:240).
THEOREM WaySafety ==
    ASSUME WayAssumption
    PROVE  Spec => []RunsTheWantedWay
<1>1. Init => WayInv
  <2> SUFFICES ASSUME Init PROVE WayInv
    OBVIOUS
  <2>1. /\ pc = "down" /\ mode = "off" /\ lag = 0 /\ earliest = U /\ fanOn = U
        /\ compOn = U /\ fanOff = U /\ phase = "down" /\ batch = <<>>
        /\ serving = G!None /\ ctl = [c \in Clients |-> Idle]
        /\ line \in [Wires -> Level] /\ value = [w \in Wires |-> "unknown"]
        /\ age = [w \in HeatSources |-> 0]
    BY DEF Init, T!Init, G!Init, T!Idle, Idle, U, G!AllLow, G!Wires, Wires,
           G!HeatSources, HeatSources, Level
  <2>2. Me \in Clients /\ Cli \in Clients /\ Me # G!None /\ Cli # G!None
    BY DEF Clients, Me, Cli, G!None
  <2>3. "down" \in AtRest /\ "down" \notin T!Waiting /\ U \in Int
    BY DEF AtRest, T!Waiting, U, T!Unset
  <2>4. Inv
    BY InitInv
  <2>5. Exchanges /\ OtherIsModest /\ Young
    BY <2>1, <2>2, <2>3 DEF Exchanges, OtherIsModest, Young, Idle
  <2>6. Plan /\ Lines
    BY <2>1, <2>3 DEF Plan, Lines, WayAssumption, Tristate
  <2>7. Way
    BY <2>1 DEF Way, RunsTheWantedWay
  <2> QED
    BY <2>4, <2>5, <2>6, <2>7 DEF WayInv
<1>2. WayInv /\ [Next]_vars => WayInv'
  <2> SUFFICES ASSUME WayInv, [Next]_vars PROVE WayInv'
    OBVIOUS
  <2>1. CASE Tstat
    <3>1. ctl'[Cli] = ctl[Cli]
      BY <2>1, ThreadExchange
         DEF Tstat, WayInv, Asks, Reads, Stays, Me, Cli, Inv, Typed, Clients
    <3>2. T!Thread /\ UNCHANGED gpioOnly /\ Inv'
      BY <2>1, ThreadKeepsInv DEF Tstat, WayInv
    <3>3. Lines' /\ OtherIsModest'
      BY <3>1, <3>2, EquipmentStays
    <3>4. Exchanges' /\ Plan' /\ Young' /\ Way'
      BY <3>2, ThreadKeepsWay
    <3> QED
      BY <3>2, <3>3, <3>4 DEF WayInv
  <2>2. CASE GpioHvac
    BY <2>2, ServerKeepsWay DEF GpioHvac
  <2>3. CASE Message
    <3>1. UNCHANGED <<gpioOnly, ctl>> /\ Inv'
      BY <2>3, OthersKeepInv DEF Message, T!PollReady, WayInv
    <3>2. Lines' /\ OtherIsModest'
      BY <3>1, EquipmentStays
    <3> QED
      BY <2>3, <3>1, <3>2, MessageKeepsWay DEF WayInv
  <2>4. CASE CliRequest
    BY <2>4, CliKeepsWay, OthersKeepInv DEF WayInv
  <2>5. CASE Tick
    BY <2>5, TickKeepsWay, OthersKeepInv DEF WayInv
  <2>6. CASE T!Crash /\ UNCHANGED gpioOnly
    <3>1. ctl'[Cli] = ctl[Cli] /\ Inv'
      BY <2>6, OthersKeepInv DEF T!Crash, WayInv, Inv, Typed, Clients, Me, Cli
    <3>2. Lines' /\ OtherIsModest'
      BY <2>6, <3>1, EquipmentStays
    <3> QED
      BY <2>6, <3>1, <3>2, CrashKeepsWay DEF WayInv
  <2>7. CASE G!Crash /\ UNCHANGED tstatOnly
    BY <2>7, GpioCrashKeepsWay
  <2>8. CASE UNCHANGED vars
    <3>1. UNCHANGED <<tstatOnly, gpioOnly, ctl>>
      BY <2>8 DEF vars
    <3>2. Spares
      BY <3>1 DEF Spares, Runs, ValveFits, Fresh, tstatOnly, gpioOnly
    <3>3. UNCHANGED <<pc, mode, success, fanOn, compOn>> /\ Plan' /\ Inv'
      BY <3>1 DEF tstatOnly, gpioOnly, WayInv, Plan, Inv, Typed, OneCommand, OneExchange
    <3>4. Way' /\ \A x : (Asked(x)' <=> Asked(x)) /\ (Told(x) => Told(x)')
      BY <3>1, <3>2, <3>3, SparedWay DEF Own
    <3>5. Waits => Waits'
      BY <3>1, <3>4 DEF Waits, Own, gpioOnly
    <3>6. Exchanges' /\ Young'
      BY <3>1, <3>3, <3>5 DEF WayInv, Exchanges, Young, Own, tstatOnly, gpioOnly
    <3> QED
      BY <3>1, <3>3, <3>4, <3>6, EquipmentStays DEF WayInv
  <2> QED
    BY <2>1, <2>2, <2>3, <2>4, <2>5, <2>6, <2>7, <2>8 DEF Next, Crash
<1>3. WayInv => RunsTheWantedWay
  BY DEF WayInv, Way
<1> QED
  BY <1>1, <1>2, <1>3, PTL DEF Spec
=============================================================================
