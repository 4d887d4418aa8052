----------------------------- MODULE HouseProof -----------------------------
(***************************************************************************)
(* The compressor of a house, for every lockout, fan time, retry time, set *)
(* of goals and temperatures, and for both controllers.  What the          *)
(* thermostat has to remember is not in its variables but in its place:    *)
(* while it waits for an answer, the command is on its way, being carried  *)
(* out, or answered, and the equipment is as that says.  So the invariant  *)
(* relates the thread's place to the exchange and to the lines.            *)
(*                                                                         *)
(* In the end, a house is one of two systems (HouseIsOneOfTwo).  With nbp, *)
(* too, either part is what its module says (NestRefines), so that what is *)
(* proved of the thermostat and of either controller holds in a house.     *)
(***************************************************************************)
EXTENDS House, TLAPS

\* Names used throughout: a timer that is not set, a compressor that runs, the
\* places where nothing is under way, the thermostat's exchange.

U == Gpio!T!Unset
Runs == Conducts("Y1")
AtRest == {"down"} \cup Gpio!T!Running
Own == ctl[Gpio!Me]
None == Gpio!G!None

\* The command the thread waits for at its place.
Asked(cmd) ==
    /\ cmd \in [wire : {"Y1", "OB", "G"}, connect : Level]
    /\ pc \in {"start.G", "fan_on.G", "goals.on"} => cmd.wire = "G" /\ cmd.connect = "on"
    /\ pc \in {"fan_off.G", "goals.off"} => cmd.wire = "G" /\ cmd.connect = "off"
    /\ pc = "on.OB" => cmd.wire = "OB" /\ cmd.connect = Gpio!T!ValveLevel
    /\ pc \in {"undo.OB", "off.OB"} => cmd.wire = "OB" /\ cmd.connect = "off"
    /\ pc = "on.Y1" => cmd.wire = "Y1"
    /\ pc \in {"undo.Y1", "off.Y1"} => cmd.wire = "Y1" /\ cmd.connect = "off"

\* What an answer to it says of the equipment.
Told(ok) ==
    /\ ok \in BOOLEAN
    /\ pc \in {"undo.Y1", "off.Y1"} => ~Runs
    /\ pc = "on.OB" => (ok => ValveFits) /\ (hw = "gpio_hvac" => ok)

\* The exchange of a waiting thread: the one command is sent, or taken and perhaps
\* carried out, or answered.
Waits ==
    \E cmd : /\ Asked(cmd)
             /\ \/ Own = Sent(<<cmd>>) /\ serving = None
                \/ /\ Own = Taken /\ serving = Gpio!Me /\ batch = <<cmd>>
                   /\ done = <<>> \/ \E ok : done = <<ok>> /\ Told(ok)
                \/ \E ok : Own = Replied(<<ok>>) /\ serving = None /\ Told(ok)

\* A thread at rest has no exchange under way, a waiting one has exactly one, and
\* nobody else talks to the controller.
Exchanges ==
    /\ hw \in {"gpio_hvac", "nbp"}
    /\ Gpio!Me \in DOMAIN ctl
    /\ hw = "gpio_hvac" => ctl[Gpio!Cli] = Idle
    /\ pc \in AtRest \cup Gpio!T!Waiting
    /\ pc \in AtRest => Own = Idle /\ serving = None
    /\ pc \in Gpio!T!Waiting => Waits

\* The timers: the compressor waits for the fan first, nothing waits while nothing is
\* wanted, and a compressor is started or undone only while it is due.
Plan ==
    /\ earliest \in Int /\ fanOn \in Int /\ compOn \in Int /\ fanOff \in Int
    /\ lag \in Nat
    /\ fanOn # U => compOn = U
    /\ mode = "off" => fanOn = U /\ compOn = U
    /\ mode # "off" => fanOff = U
    /\ pc = "fan_on.G" => fanOn # U
    /\ pc = "fan_off.G" => fanOff # U
    /\ pc = "goals.off" => mode = "off"
    /\ pc \in {"on.OB", "on.Y1", "undo.Y1", "undo.OB"} => compOn # U
    /\ pc \in {"off.Y1", "off.OB"} => mode # "off" /\ fanOn = U /\ compOn = U

\* A controller that has not begun has answered nothing.
Begun == phase \notin {"down", "starting"}

Early ==
    ~Begun =>
        /\ compOn = U /\ fanOff = U
        /\ pc \notin {"on.OB", "on.Y1", "undo.Y1", "undo.OB", "off.OB"}
        /\ Own.st \in {"idle", "sent"}

\* While the thread waits for these, the compressor may run on a due timer.
Turning == {"on.Y1", "undo.Y1"}

\* The property, strengthened: a running compressor is one that the thread has
\* started and is not stopping, nor turning the valve of; by then the valve is set,
\* but for nbp's refusals, which the thread has noted in `success'.
Safe ==
    /\ phase # "down" /\ Runs =>
          /\ mode # "off" /\ fanOn = U
          /\ pc \notin {"on.OB", "undo.OB", "off.OB"}
          /\ compOn = U \/ pc \in Turning
          /\ ValveFits \/ (hw = "nbp" /\ pc \in Turning)
    /\ pc = "on.Y1" => (success => ValveFits) /\ (hw = "gpio_hvac" => success)

\* gpio_hvac knows its compressor line: it is low until the startup commands are
\* through, and afterwards the believed value is the line's.
GpioKnows ==
    hw = "gpio_hvac" =>
        /\ line \in [Wires -> Level]
        /\ phase \in {"down", "starting", "serving"}
        /\ phase # "serving" => line["Y1"] = "off" /\ serving = None
        /\ phase = "serving" => value["Y1"] = line["Y1"]
        /\ phase = "serving" /\ "W2" \in Wired => value["W2"] = "off"
        /\ phase = "serving" /\ serving = None => batch = <<>>
        /\ phase = "starting" =>
              /\ batch = Gpio!G!StartupBatch
              /\ done \in Seq(BOOLEAN) /\ Len(done) <= 4
              /\ Len(done) >= 1 /\ "W2" \in Wired => value["W2"] = "off"
              /\ Len(done) >= 2 => value["Y1"] = "off"

\* nbp holds exactly the FETs that conduct for asserted on, and none can be while a
\* report of the restarted backplate has not been read, for no time has passed since.
NbpKnows ==
    hw = "nbp" =>
        /\ phase \in {"down", "resetting", "up"}
        /\ reports \in Nat
        /\ \A f \in Fets : fet[f] = "on" => f \in Installed
        /\ phase = "down" => \A f \in Fets : asserted[f] # "on"
        /\ phase # "down" =>
              /\ \A f \in Fets : reports > 0 => age[f] = 0 /\ asserted[f] # "on"
              /\ \A f \in Installed : fet[f] = "on" <=> asserted[f] = "on"

Inv == Exchanges /\ Plan /\ Early /\ Safe /\ GpioKnows /\ NbpKnows
----------------------------------------------------------------------------
\* The constants of the two systems are the same.
LEMMA Names ==
    /\ Gpio!Me = "tstat" /\ Nest!Me = "tstat" /\ None = "none" /\ Nest!N!None = "none"
    /\ Gpio!Clients = {"tstat", "cli"} /\ Nest!Clients = {"tstat"}
    /\ Gpio!Cli = "cli"
  BY DEF Gpio!Me, Nest!Me, None, Gpio!G!None, Nest!N!None, Gpio!Clients, Nest!Clients,
         Gpio!Cli

\* A timer that is set stays set as time passes (overdue ones included).
LEMMA LaterStaysSet ==
    \A t \in Int, d \in Nat :
        /\ Gpio!T!Later(t, d) \in Int
        /\ Gpio!T!Later(t, d) = U <=> t = U
  BY DEF Gpio!T!Later, U, Gpio!T!Unset, Gpio!T!Overdue

equipment == <<hw, age, phase, batch, done, serving, sub, told, gpioOwn, nestOwn>>

\* What the thermostat leaves alone.
LEMMA EquipmentStays ==
    ASSUME UNCHANGED equipment
    PROVE  /\ Runs' <=> Runs
           /\ mode' = mode => (ValveFits' <=> ValveFits)
           /\ GpioKnows <=> GpioKnows'
           /\ NbpKnows <=> NbpKnows'
  BY DEF equipment, Runs, ValveFits, Conducts, GpioKnows, NbpKnows, gpioOwn, nestOwn

\* A call from rest, or on a reply, is an exchange begun.
LEMMA Called ==
    ASSUME Inv, UNCHANGED equipment, NEW w \in {"Y1", "OB", "G"}, NEW level \in Level,
           NEW place \in Gpio!T!Waiting, Gpio!T!Call(w, level, place),
           pc \in AtRest \/ Own.st = "replied",
           Asked(Cmd(w, level))'
    PROVE  Exchanges' /\ (Early => (Own.st \in {"idle", "sent"})')
<1>1. ctl' = [ctl EXCEPT !["tstat"] = Sent(<<Cmd(w, level)>>)] /\ pc' = place
  BY Names DEF Gpio!T!Call, Gpio!T!Sent, Sent, Gpio!T!Cmd, Cmd
<1>2. /\ "tstat" \in DOMAIN ctl' /\ ctl'["tstat"] = Sent(<<Cmd(w, level)>>)
      /\ hw = "gpio_hvac" => ctl'["cli"] = Idle
  BY <1>1, Names DEF Inv, Exchanges
<1>3. serving = None
  BY Names DEF Inv, Exchanges, Waits, Taken, Own
<1>4. Waits'
  BY <1>2, <1>3, Names DEF Waits, Own, equipment
<1>5. place \notin AtRest
  BY DEF AtRest, Gpio!T!Running, Gpio!T!Waiting
<1> QED
  BY <1>1, <1>2, <1>4, <1>5, Names DEF Inv, Exchanges, equipment, Own, Sent

\* A reply that is read ends the exchange.
LEMMA Returned ==
    ASSUME Inv, UNCHANGED equipment, pc' \in AtRest, Own.st = "replied",
           ctl' = [ctl EXCEPT ![Gpio!Me] = Gpio!T!Idle]
    PROVE  Exchanges' /\ (Own.st \in {"idle", "sent"})'
<1>1. ctl' = [ctl EXCEPT !["tstat"] = Idle]
  BY Names DEF Gpio!T!Idle, Idle
<1>2. /\ "tstat" \in DOMAIN ctl' /\ ctl'["tstat"] = Idle
      /\ hw = "gpio_hvac" => ctl'["cli"] = Idle
  BY <1>1, Names DEF Inv, Exchanges
<1>3. serving = None
  BY Names DEF Inv, Exchanges, Waits, Taken, Own, Idle
<1>4. pc' \notin Gpio!T!Waiting
  BY DEF AtRest, Gpio!T!Running, Gpio!T!Waiting
<1> QED
  BY <1>2, <1>3, <1>4, Names DEF Inv, Exchanges, equipment, Own, Idle

\* The reply that is in says what `Told' says of it.
LEMMA Reply ==
    ASSUME Inv, Own.st = "replied", pc \in Gpio!T!Waiting
    PROVE  Told(Gpio!T!Ok) /\ Begun
<1>0. Own # Taken /\ \A cmds : Own # Sent(cmds)
  BY DEF Sent, Taken
<1>1. PICK ok : Own = Replied(<<ok>>) /\ Told(ok)
  BY <1>0, Zenon DEF Inv, Exchanges, Waits
<1>2. Gpio!T!Ok = ok
  BY <1>1 DEF Gpio!T!Ok, Own, Replied
<1> QED
  BY <1>1, <1>2 DEF Inv, Early, Replied

\* Where no exchange begins or ends.
LEMMA Undisturbed ==
    ASSUME Inv, UNCHANGED <<equipment, ctl>>, pc \in AtRest, pc' \in AtRest
    PROVE  Exchanges' /\ (Own.st \in {"idle", "sent"})'
<1>1. pc' \notin Gpio!T!Waiting
  BY DEF AtRest, Gpio!T!Running, Gpio!T!Waiting
<1> QED
  BY <1>1 DEF Inv, Exchanges, equipment, Own, Idle, None, Gpio!G!None

\* The thread's steps, one by one.
LEMMA ThreadKeepsInv ==
    ASSUME Inv, Gpio!T!Thread, UNCHANGED equipment
    PROVE  Inv'
<1> USE EquipmentStays, HouseAssumption
        DEF Inv, Begun, Turning, Gpio!T!Replies, Gpio!T!Return, Gpio!T!timers,
            Gpio!T!settings, Own
<1>0. /\ "on" \in Level /\ "off" \in Level /\ Gpio!T!ValveLevel \in Level
      /\ Runs <=> Runs'
      /\ GpioKnows' /\ NbpKnows' /\ UNCHANGED <<hw, phase>>
  BY DEF Level, Gpio!T!ValveLevel, equipment
<1>1. CASE Gpio!T!Start
  <2>1. CASE Gpio!T!Call("G", "on", "start.G")
    <3>1. Exchanges' /\ (Early => (Own.st \in {"idle", "sent"})')
      BY <1>0, <1>1, <2>1, Called
         DEF Gpio!T!Start, Gpio!T!Call, Asked, Cmd, AtRest, Gpio!T!Waiting
    <3> QED
      BY <1>0, <1>1, <2>1, <3>1 DEF Gpio!T!Start, Gpio!T!Call, Plan, Early, Safe
  <2>2. CASE pc' = "loop" /\ UNCHANGED ctl
    BY <1>0, <1>1, <2>2, Undisturbed
       DEF Gpio!T!Start, AtRest, Gpio!T!Running, Plan, Early, Safe
  <2> QED
    BY <1>1, <2>1, <2>2 DEF Gpio!T!Start
<1>2. CASE Gpio!T!Started
  BY <1>0, <1>2, Returned DEF Gpio!T!Started, AtRest, Gpio!T!Running, Plan, Early, Safe
<1>3. CASE Gpio!T!FanOnTimer
  <2>1. /\ fanOn' = U <=> fanOn = U
        /\ compOn' = U <=> compOn = U
        /\ fanOff' = U <=> fanOff = U
        /\ earliest' \in Int /\ fanOn' \in Int /\ compOn' \in Int /\ fanOff' \in Int
        /\ lag' \in Nat
    BY <1>3, LaterStaysSet
       DEF Gpio!T!FanOnTimer, Gpio!T!ReadClock, Gpio!T!TimersLater, Plan
  <2>2. CASE Gpio!T!Passed(fanOn') /\ Gpio!T!Call("G", "on", "fan_on.G")
    <3>1. Exchanges' /\ (Early => (Own.st \in {"idle", "sent"})')
      BY <1>0, <1>3, <2>2, Called
         DEF Gpio!T!FanOnTimer, Gpio!T!Call, Asked, Cmd, AtRest, Gpio!T!Running,
             Gpio!T!Waiting
    <3> QED
      BY <1>0, <1>3, <2>1, <2>2, <3>1
         DEF Gpio!T!FanOnTimer, Gpio!T!Call, Gpio!T!Passed, Gpio!T!IsSet, U, Plan,
             Early, Safe
  <2>3. CASE pc' = "compressor" /\ UNCHANGED ctl
    BY <1>0, <1>3, <2>1, <2>3, Undisturbed
       DEF Gpio!T!FanOnTimer, AtRest, Gpio!T!Running, Plan, Early, Safe
  <2> QED
    BY <1>3, <2>2, <2>3 DEF Gpio!T!FanOnTimer
<1>4. CASE Gpio!T!FanTurnedOn
  BY <1>0, <1>4, Returned, Reply
     DEF Gpio!T!FanTurnedOn, AtRest, Gpio!T!Running, Gpio!T!Waiting, Plan, Early, Safe,
         U
<1>5. CASE Gpio!T!CompressorTimer
  <2>1. CASE Gpio!T!Passed(compOn) /\ Gpio!T!Call("OB", Gpio!T!ValveLevel, "on.OB")
    <3>1. Exchanges' /\ (Early => (Own.st \in {"idle", "sent"})')
      BY <1>0, <1>5, <2>1, Called
         DEF Gpio!T!CompressorTimer, Gpio!T!Call, Asked, Cmd, AtRest, Gpio!T!Running,
             Gpio!T!Waiting, Gpio!T!ValveLevel
    <3> QED
      BY <1>0, <1>5, <2>1, <3>1
         DEF Gpio!T!CompressorTimer, Gpio!T!Call, Gpio!T!Passed, Gpio!T!IsSet, U, Plan,
             Early, Safe
  <2>2. CASE pc' = "fan_off" /\ UNCHANGED ctl
    BY <1>0, <1>5, <2>2, Undisturbed
       DEF Gpio!T!CompressorTimer, AtRest, Gpio!T!Running, Plan, Early, Safe
  <2> QED
    BY <1>5, <2>1, <2>2 DEF Gpio!T!CompressorTimer
<1>6. CASE Gpio!T!ReversingSet
  <2>1. Exchanges'
    BY <1>0, <1>6, Called
       DEF Gpio!T!ReversingSet, Gpio!T!Call, Asked, Cmd, Gpio!T!Waiting
  <2>2. Told(Gpio!T!Ok) /\ Begun
    BY <1>6, Reply DEF Gpio!T!ReversingSet, Gpio!T!Waiting
  <2> QED
    BY <1>0, <1>6, <2>1, <2>2
       DEF Gpio!T!ReversingSet, Gpio!T!Call, Told, Plan, Early, Safe
<1>7. CASE Gpio!T!CompressorTurnedOn
  <2>1. Begun
    BY <1>7, Reply DEF Gpio!T!CompressorTurnedOn, Gpio!T!Waiting
  <2>2. CASE success /\ Gpio!T!Ok
    BY <1>0, <1>7, <2>1, <2>2, Returned
       DEF Gpio!T!CompressorTurnedOn, Gpio!T!CompressorDone, AtRest, Gpio!T!Running,
           Plan, Early, Safe, U
  <2>3. CASE ~(success /\ Gpio!T!Ok)
    <3>1. Exchanges'
      BY <1>0, <1>7, <2>3, Called
         DEF Gpio!T!CompressorTurnedOn, Gpio!T!Call, Asked, Cmd, Gpio!T!Waiting
    <3> QED
      BY <1>0, <1>7, <2>1, <2>3, <3>1
         DEF Gpio!T!CompressorTurnedOn, Gpio!T!CompressorDone, Gpio!T!Call, Plan, Early,
             Safe
  <2> QED
    BY <2>2, <2>3
<1>8. CASE Gpio!T!CompressorUndone
  <2>1. Told(Gpio!T!Ok) /\ Begun
    BY <1>8, Reply DEF Gpio!T!CompressorUndone, Gpio!T!Waiting
  <2>2. Exchanges'
    BY <1>0, <1>8, Called
       DEF Gpio!T!CompressorUndone, Gpio!T!Call, Asked, Cmd, Gpio!T!Waiting
  <2> QED
    BY <1>0, <1>8, <2>1, <2>2
       DEF Gpio!T!CompressorUndone, Gpio!T!Call, Told, Plan, Early, Safe
<1>9. CASE Gpio!T!ReversingUndone
  BY <1>0, <1>9, Returned, Reply
     DEF Gpio!T!ReversingUndone, Gpio!T!RetryLater, AtRest, Gpio!T!Running,
         Gpio!T!Waiting, Plan, Early, Safe
<1>10. CASE Gpio!T!FanOffTimer
  <2>1. CASE Gpio!T!Call("G", "off", "fan_off.G") /\ earliest' = ShutoffDelay /\ UNCHANGED fanOff
    <3>1. Exchanges' /\ (Early => (Own.st \in {"idle", "sent"})')
      BY <1>0, <1>10, <2>1, Called
         DEF Gpio!T!FanOffTimer, Gpio!T!Call, Asked, Cmd, AtRest, Gpio!T!Running,
             Gpio!T!Waiting
    <3> QED
      BY <1>0, <1>10, <2>1, <3>1
         DEF Gpio!T!FanOffTimer, Gpio!T!Call, Gpio!T!Passed, Gpio!T!IsSet, U, Plan,
             Early, Safe
  <2>2. CASE /\ pc' \in {"loop", "poll"} /\ UNCHANGED <<earliest, ctl>>
             /\ fanOff' \in {fanOff, U}
    BY <1>0, <1>10, <2>2, Undisturbed
       DEF Gpio!T!FanOffTimer, AtRest, Gpio!T!Running, Plan, Early, Safe, U,
           Gpio!T!Unset
  <2> QED
    BY <1>10, <2>1, <2>2 DEF Gpio!T!FanOffTimer, Gpio!T!KeepFanOn, U
<1>11. CASE Gpio!T!FanTurnedOff
  BY <1>0, <1>11, Returned, Reply
     DEF Gpio!T!FanTurnedOff, AtRest, Gpio!T!Running, Gpio!T!Waiting, Plan, Early, Safe,
         U, Gpio!T!Unset
<1>12. CASE Gpio!T!PollTimedOut
  BY <1>0, <1>12, Undisturbed
     DEF Gpio!T!PollTimedOut, AtRest, Gpio!T!Running, Plan, Early, Safe
<1>13. CASE Gpio!T!ReadWeather
  <2>1. pc = "weather" /\ pc \in AtRest
    BY <1>13 DEF Gpio!T!ReadWeather, AtRest, Gpio!T!Running
  <2>2. CASE \E m : m # "off" /\ mode = "off" /\ Gpio!T!CompressorOn(m)
    BY <1>0, <1>13, <2>1, <2>2, Undisturbed
       DEF Gpio!T!ReadWeather, Gpio!T!CompressorOn, Gpio!T!Handled, Gpio!T!KeepFanOn,
           Gpio!T!IsSet, AtRest, Gpio!T!Running, Plan, Early, Safe, U, Gpio!T!Unset
  <2>3. CASE mode # "off" /\ Gpio!T!CompressorOff
    <3>1. CASE Gpio!T!Call("Y1", "off", "off.Y1")
      <4>1. Exchanges' /\ (Early => (Own.st \in {"idle", "sent"})')
        BY <1>0, <2>1, <3>1, Called DEF Gpio!T!Call, Asked, Cmd, Gpio!T!Waiting
      <4> QED
        BY <1>0, <1>13, <2>1, <2>3, <3>1, <4>1
           DEF Gpio!T!ReadWeather, Gpio!T!CompressorOff, Gpio!T!Handled, Gpio!T!Call,
               Gpio!T!IsSet, Plan, Early, Safe, U
    <3>2. CASE Gpio!T!Handled /\ fanOn' = U /\ mode' = "off" /\ UNCHANGED <<earliest, ctl>>
               /\ (fanOn # U \/ compOn # U)
               /\ IF fanOn # U THEN UNCHANGED <<compOn, fanOff>> ELSE Gpio!T!CancelCompressor
      BY <1>0, <1>13, <2>1, <2>3, <3>2, Undisturbed
         DEF Gpio!T!ReadWeather, Gpio!T!Handled, Gpio!T!CancelCompressor,
             AtRest, Gpio!T!Running, Plan, Early, Safe, U, Gpio!T!Unset
    <3> QED
      BY <2>3, <3>1, <3>2 DEF Gpio!T!CompressorOff, Gpio!T!IsSet, U
  <2>4. CASE Gpio!T!Handled /\ UNCHANGED <<mode, earliest, fanOn, compOn, fanOff, ctl>>
    BY <1>0, <1>13, <2>1, <2>4, Undisturbed
       DEF Gpio!T!ReadWeather, Gpio!T!Handled, AtRest, Gpio!T!Running, Plan, Early, Safe
  <2> QED
    BY <1>13, <2>2, <2>3, <2>4, Zenon DEF Gpio!T!ReadWeather
<1>14. CASE Gpio!T!CompressorTurnedOff
  <2>1. Told(Gpio!T!Ok) /\ Begun
    BY <1>14, Reply DEF Gpio!T!CompressorTurnedOff, Gpio!T!Waiting
  <2>2. Exchanges'
    BY <1>0, <1>14, Called
       DEF Gpio!T!CompressorTurnedOff, Gpio!T!Call, Asked, Cmd, Gpio!T!Waiting
  <2> QED
    BY <1>0, <1>14, <2>1, <2>2
       DEF Gpio!T!CompressorTurnedOff, Gpio!T!Call, Told, Plan, Early, Safe
<1>15. CASE Gpio!T!ReversingTurnedOff
  <2>1. Exchanges' /\ Begun
    BY <1>0, <1>15, Returned, Reply
       DEF Gpio!T!ReversingTurnedOff, Gpio!T!Handled, AtRest, Gpio!T!Running,
           Gpio!T!Waiting
  <2> QED
    BY <1>0, <1>15, <2>1
       DEF Gpio!T!ReversingTurnedOff, Gpio!T!Handled, Plan, Early, Safe, U, Gpio!T!Unset
<1>16. CASE Gpio!T!HandleReq
  <2>1. CASE \/ Gpio!T!Call("G", "on", "goals.on")
             \/ Gpio!T!FanNotNeeded /\ Gpio!T!Call("G", "off", "goals.off")
    <3>1. Exchanges' /\ (Early => (Own.st \in {"idle", "sent"})')
      BY <1>0, <1>16, <2>1, Called
         DEF Gpio!T!HandleReq, Gpio!T!FanNotNeeded, Gpio!T!Call, Asked, Cmd, AtRest, Gpio!T!Running,
             Gpio!T!Waiting
    <3> QED
      BY <1>0, <1>16, <2>1, <3>1
         DEF Gpio!T!HandleReq, Gpio!T!FanNotNeeded, Gpio!T!Call, Plan, Early, Safe
  <2>2. CASE pc' = "loop" /\ UNCHANGED ctl
    BY <1>0, <1>16, <2>2, Undisturbed
       DEF Gpio!T!HandleReq, AtRest, Gpio!T!Running, Plan, Early, Safe
  <2> QED
    BY <1>0, <1>16, <2>1, <2>2 DEF Gpio!T!HandleReq
<1>17. CASE Gpio!T!FanSetOn
  BY <1>0, <1>17, Returned
     DEF Gpio!T!FanSetOn, AtRest, Gpio!T!Running, Plan, Early, Safe
<1>18. CASE Gpio!T!FanSetOff
  BY <1>0, <1>18, Returned
     DEF Gpio!T!FanSetOff, AtRest, Gpio!T!Running, Plan, Early, Safe
<1> QED
  BY <1>1, <1>2, <1>3, <1>4, <1>5, <1>6, <1>7, <1>8, <1>9, <1>10, <1>11, <1>12, <1>13,
     <1>14, <1>15, <1>16, <1>17, <1>18 DEF Gpio!T!Thread

\* Time moves the timers and changes nothing of the plan.
LEMMA LaterKeepsPlan ==
    ASSUME Inv, NEW d \in Nat, Gpio!T!TimersLater(d), lag' \in Nat, UNCHANGED mode,
           pc' = pc \/ pc' \in AtRest
    PROVE  Plan' /\ (fanOn' = U <=> fanOn = U) /\ (compOn' = U <=> compOn = U)
                 /\ (fanOff' = U <=> fanOff = U)
<1>1. /\ fanOn' = U <=> fanOn = U
      /\ compOn' = U <=> compOn = U
      /\ fanOff' = U <=> fanOff = U
      /\ earliest' \in Int /\ fanOn' \in Int /\ compOn' \in Int /\ fanOff' \in Int
  BY LaterStaysSet DEF Inv, Gpio!T!TimersLater, Plan
<1> QED
  BY <1>1 DEF Inv, Plan, AtRest, Gpio!T!Running

\* A message only brings the thread back from its poll.
LEMMA MessageKeepsInv ==
    ASSUME Inv, Gpio!T!PollReady, UNCHANGED equipment
    PROVE  Inv'
<1>1. /\ pc \in AtRest /\ pc' \in AtRest /\ UNCHANGED <<hw, phase, mode, success, ctl>>
      /\ pc' \notin Turning
      /\ pc' \notin {"on.OB", "on.Y1", "undo.Y1", "undo.OB", "off.OB"}
  BY DEF Gpio!T!PollReady, AtRest, Gpio!T!Running, Gpio!T!settings, equipment, Turning
<1>2. Exchanges' /\ (Own.st \in {"idle", "sent"})'
  BY <1>1, Undisturbed
<1>3. /\ Plan' /\ (fanOn' = U <=> fanOn = U) /\ (compOn' = U <=> compOn = U)
      /\ (fanOff' = U <=> fanOff = U)
  BY <1>1, LaterKeepsPlan DEF Gpio!T!PollReady, Gpio!T!ReadClock, Inv, Plan
<1> QED
  BY <1>1, <1>2, <1>3, EquipmentStays
     DEF Inv, Begun, Early, Safe, AtRest, Gpio!T!Running, Turning

\* What passing time leaves alone.
controllerVars == <<hw, phase, batch, done, serving, ctl, line, value, fet, reports, asserted>>

\* Time passes: the same for both controllers.
LEMMA TickKeepsInv ==
    ASSUME Inv, Gpio!T!TstatTick, UNCHANGED controllerVars,
           hw = "nbp" => reports = 0
    PROVE  Inv'
<1>1. UNCHANGED <<pc, mode, success>>
  BY DEF Gpio!T!TstatTick, Gpio!T!settings
<1>2. /\ Plan' /\ (fanOn' = U <=> fanOn = U) /\ (compOn' = U <=> compOn = U)
      /\ (fanOff' = U <=> fanOff = U)
  <2>1. CASE Gpio!T!TimersLater(1) /\ UNCHANGED lag
    BY <1>1, <2>1, LaterKeepsPlan DEF Inv, Plan
  <2>2. CASE UNCHANGED <<earliest, fanOn, compOn, fanOff>> /\ lag' \in {lag, lag + 1}
    BY <1>1, <2>2 DEF Inv, Plan
  <2> QED
    BY <2>1, <2>2 DEF Gpio!T!TstatTick, Gpio!T!timers
<1>3. (Runs' <=> Runs) /\ (ValveFits' <=> ValveFits)
  BY <1>1 DEF controllerVars, Runs, ValveFits, Conducts
<1>4. Exchanges'
  <2>1. \A cmd : Asked(cmd)' <=> Asked(cmd)
    BY <1>1 DEF Asked, Gpio!T!ValveLevel
  <2>2. \A ok : Told(ok)' <=> Told(ok)
    BY <1>1, <1>3 DEF Told, controllerVars
  <2>3. Waits => Waits'
    BY <2>1, <2>2 DEF Waits, controllerVars, Own
  <2> QED
    BY <1>1, <2>3 DEF Inv, Exchanges, controllerVars, Own
<1>5. Early' /\ Safe'
  BY <1>1, <1>2, <1>3 DEF Inv, Begun, Early, Safe, controllerVars, Own
<1>6. GpioKnows' /\ NbpKnows'
  BY DEF Inv, GpioKnows, NbpKnows, controllerVars
<1> QED
  BY <1>2, <1>4, <1>5, <1>6 DEF Inv

\* What the controllers leave alone.
threadVars == <<pc, mode, earliest, fanOn, compOn, fanOff, lag, success>>

\* While a request is being served, the thread waits for its answer.
LEMMA Serving ==
    ASSUME Inv, serving # None
    PROVE  /\ Begun /\ serving = Gpio!Me /\ Own = Taken
           /\ pc \in Gpio!T!Waiting /\ pc \notin AtRest
           /\ \E cmd : /\ Asked(cmd) /\ batch = <<cmd>>
                       /\ done = <<>> \/ \E ok : done = <<ok>> /\ Told(ok)
<1>1. pc \in Gpio!T!Waiting /\ pc \notin AtRest
  BY DEF Inv, Exchanges, AtRest, Gpio!T!Running, Gpio!T!Waiting
<1>2. Own = Taken /\ serving = Gpio!Me
  BY <1>1, Zenon DEF Inv, Exchanges, Waits
<1>3. Begun
  BY <1>2 DEF Inv, Early, Taken
<1> QED
  BY <1>1, <1>2, <1>3, Zenon DEF Inv, Exchanges, Waits

\* The command under way is the only one of its request, and not yet answered.
LEMMA ServingOne ==
    ASSUME Inv, serving # None, Len(done) < Len(batch)
    PROVE  done = <<>> /\ batch = <<batch[Len(done) + 1]>> /\ Asked(batch[Len(done) + 1])
<1>1. PICK cmd : /\ Asked(cmd) /\ batch = <<cmd>>
                 /\ done = <<>> \/ \E ok : done = <<ok>>
  BY Serving, Zenon
<1>2. Len(batch) = 1
  BY <1>1
<1>3. ASSUME NEW k, done = <<k>> PROVE FALSE
  BY <1>2, <1>3
<1>4. done = <<>>
  BY <1>1, <1>3
<1> QED
  BY <1>1, <1>4

\* Before a controller begins, a request is at most on its way.
LEMMA NotServing ==
    ASSUME Inv, ~Begun, UNCHANGED <<threadVars, hw, serving, ctl>>
    PROVE  Exchanges'
<1>1. pc \in AtRest \/ \E cmd : Asked(cmd) /\ Own = Sent(<<cmd>>) /\ serving = None
  <2>1. Own # Taken /\ \A results : Own # Replied(results)
    BY DEF Inv, Early, Taken, Replied
  <2> QED
    BY <2>1, Zenon DEF Inv, Exchanges, Waits, AtRest, Gpio!T!Running, Gpio!T!Waiting
<1>2. \A cmd : Asked(cmd) <=> Asked(cmd)'
  BY DEF Asked, threadVars, Gpio!T!ValveLevel
<1>3. pc \in Gpio!T!Waiting => Waits'
  BY <1>1, <1>2 DEF Waits, Own, AtRest, Gpio!T!Running, Gpio!T!Waiting
<1> QED
  BY <1>3 DEF Inv, Exchanges, threadVars, Own

\* A step of a controller that moves neither its lines nor its exchanges.
LEMMA Unmoved ==
    ASSUME Inv, UNCHANGED <<threadVars, hw, phase, batch, done, serving, ctl, line, fet>>
    PROVE  Exchanges' /\ Plan' /\ Early' /\ Safe'
<1>1. (Runs' <=> Runs) /\ (ValveFits' <=> ValveFits)
  BY DEF Runs, ValveFits, Conducts, threadVars
<1>2. \A x : (Asked(x)' <=> Asked(x)) /\ (Told(x)' <=> Told(x))
  BY <1>1 DEF Asked, Told, Gpio!T!ValveLevel, threadVars
<1>3. Waits => Waits'
  BY <1>2 DEF Waits, Own
<1> QED
  BY <1>1, <1>3 DEF Inv, Exchanges, Plan, Begun, Early, Safe, Own, threadVars

\* The thermostat's request is taken in.
LEMMA RequestTaken ==
    ASSUME Inv, UNCHANGED <<threadVars, hw, phase, line, fet>>, Begun,
           Own.st = "sent",
           serving' = Gpio!Me, batch' = Own.cmds, done' = <<>>,
           ctl' = [ctl EXCEPT ![Gpio!Me] = Taken]
    PROVE  Exchanges' /\ Plan' /\ Early' /\ Safe'
<1>1. pc \in Gpio!T!Waiting /\ pc \notin AtRest
  BY DEF Inv, Exchanges, Idle, AtRest, Gpio!T!Running, Gpio!T!Waiting
<1>0. Own # Taken /\ \A results : Own # Replied(results)
  BY DEF Taken, Replied
<1>2. PICK cmd : Asked(cmd) /\ Own = Sent(<<cmd>>)
  BY <1>0, <1>1, Zenon DEF Inv, Exchanges, Waits
<1>3. batch' = <<cmd>>
  BY <1>2 DEF Sent
<1>4. /\ Own' = Taken /\ Gpio!Me \in DOMAIN ctl'
      /\ hw = "gpio_hvac" => ctl'[Gpio!Cli] = Idle
  BY Names DEF Inv, Exchanges, Own
<1>5. Asked(cmd)'
  BY <1>2 DEF Asked, threadVars, Gpio!T!ValveLevel
<1>6. Exchanges'
  BY <1>1, <1>3, <1>4, <1>5 DEF Inv, Exchanges, Waits, threadVars
<1> QED
  BY <1>6 DEF Inv, Plan, Begun, Early, Safe, threadVars, Runs, ValveFits, Conducts

\* The result of its one command is the reply.
LEMMA RequestReplied ==
    ASSUME Inv, UNCHANGED <<threadVars, hw, phase, line, fet>>, Begun,
           serving # None, Len(done) = Len(batch),
           serving' = None,
           ctl' = [ctl EXCEPT ![serving] = IF @.st = "taken" THEN Replied(done) ELSE @]
    PROVE  Exchanges' /\ Plan' /\ Early' /\ Safe'
<1>1. PICK cmd : /\ Asked(cmd) /\ batch = <<cmd>>
                 /\ done = <<>> \/ \E ok : done = <<ok>> /\ Told(ok)
  BY Serving, Zenon
<1>2. PICK ok : done = <<ok>> /\ Told(ok)
  BY <1>1
<1>3. /\ Own' = Replied(<<ok>>) /\ Gpio!Me \in DOMAIN ctl'
      /\ hw = "gpio_hvac" => ctl'[Gpio!Cli] = Idle
  BY <1>2, Serving, Names DEF Inv, Exchanges, Own, Taken
<1>4. Asked(cmd)' /\ Told(ok)'
  BY <1>1, <1>2
     DEF Asked, Told, threadVars, Gpio!T!ValveLevel, Runs, ValveFits, Conducts
<1>5. Exchanges'
  BY <1>3, <1>4, Serving DEF Inv, Exchanges, Waits, threadVars
<1> QED
  BY <1>5 DEF Inv, Plan, Begun, Early, Safe, threadVars, Runs, ValveFits, Conducts

Valve == Conducts("OB")

\* The command is carried out, by either controller: what the controller promises of
\* the compressor and the valve is enough.
LEMMA Executed ==
    ASSUME Inv, UNCHANGED <<threadVars, hw, phase, serving, batch, ctl>>, Begun,
           serving # None, Len(done) < Len(batch),
           NEW ok \in BOOLEAN, done' = Append(done, ok),
           LET cmd == batch[Len(done) + 1] IN
           /\ cmd.wire # "OB" => (Valve' <=> Valve)
           /\ cmd.wire = "G" => (Runs' <=> Runs)
           /\ cmd.wire = "Y1" /\ cmd.connect = "off" => ~Runs'
           /\ cmd.wire = "OB" /\ ~Runs =>
                 /\ ~Runs'
                 /\ ok => (Valve' <=> cmd.connect = "on")
                 /\ hw = "gpio_hvac" => ok
    PROVE  Exchanges' /\ Plan' /\ Early' /\ Safe'
<1>1. pc \in Gpio!T!Waiting /\ pc \notin AtRest /\ Own = Taken /\ serving = Gpio!Me
  BY Serving
<1>2. PICK cmd : /\ cmd = batch[Len(done) + 1]
                 /\ done' = <<ok>> /\ batch = <<cmd>> /\ Asked(cmd)
  BY ServingOne
<1>3. /\ cmd.wire # "OB" => (Valve' <=> Valve)
      /\ cmd.wire = "G" => (Runs' <=> Runs)
      /\ cmd.wire = "Y1" /\ cmd.connect = "off" => ~Runs'
      /\ cmd.wire = "OB" /\ ~Runs =>
                 /\ ~Runs'
                 /\ ok => (Valve' <=> cmd.connect = "on")
                 /\ hw = "gpio_hvac" => ok
  BY <1>2
<1>4. pc \in {"on.OB", "undo.OB", "off.OB"} => ~Runs
  BY DEF Inv, Safe, Begun
<1>5. (ValveFits <=> (Valve <=> mode = "cool")) /\ (ValveFits' <=> (Valve' <=> mode = "cool"))
  BY DEF ValveFits, Valve, threadVars
<1>6. Told(ok)' /\ Asked(cmd)'
  BY <1>1, <1>2, <1>3, <1>4, <1>5
     DEF Told, Asked, threadVars, Gpio!T!ValveLevel, Gpio!T!Waiting
<1>7. Exchanges'
  BY <1>1, <1>2, <1>6 DEF Inv, Exchanges, Waits, threadVars, Own
<1>8. Safe'
  <2>1. CASE cmd.wire = "G"
    BY <1>3, <1>5, <2>1 DEF Inv, Safe, threadVars
  <2>2. CASE pc = "on.Y1"
    <3>1. mode # "off" /\ fanOn = U /\ (Valve' <=> Valve)
      BY <1>2, <1>3, <2>2 DEF Inv, Plan, Asked
    <3> QED
      BY <1>5, <2>2, <3>1 DEF Inv, Exchanges, Safe, threadVars, Turning
  <2>3. CASE pc # "on.Y1" /\ cmd.wire # "G"
    <3>1. ~Runs'
      BY <1>1, <1>2, <1>3, <1>4, <2>3 DEF Asked, Gpio!T!Waiting
    <3> QED
      BY <2>3, <3>1 DEF Safe, threadVars
  <2> QED
    BY <2>1, <2>2, <2>3
<1> QED
  BY <1>7, <1>8 DEF Inv, Plan, Begun, Early, threadVars
----------------------------------------------------------------------------
(* gpio_hvac.                                                              *)

\* What a command does to the compressor and the valve.
GpioDoes(cmd, ok) ==
    /\ done' = Append(done, ok)
    /\ line' \in [Wires -> Level]
    /\ cmd.wire # "OB" => line'["OB"] = line["OB"]
    /\ cmd.wire = "G" => line'["Y1"] = line["Y1"]
    /\ cmd.connect = "off" /\ line["Y1"] = "off" => line'["Y1"] = "off"
    /\ cmd.connect = "off" /\ value["Y1"] = "off" => value'["Y1"] = "off"
    /\ cmd.wire = "Y1" /\ cmd.connect = "off" => line'["Y1"] = "off" /\ value'["Y1"] = "off"
    /\ value["Y1"] = line["Y1"] => value'["Y1"] = line'["Y1"]
    /\ cmd.connect = "off" /\ value["W2"] = "off" => value'["W2"] = "off"
    /\ cmd.wire # "W2" => value'["W2"] = value["W2"]
    /\ cmd.wire = "W2" /\ cmd.connect = "off" /\ "W2" \in Wired => value'["W2"] = "off"
    /\ cmd.wire = "Y1" /\ cmd.connect = "off" => ok
    /\ cmd.wire = "G" /\ "G" \in Wired =>
          \/ ok
          \/ /\ cmd.connect = "off"
             /\ value["Y1"] # "off" \/ ("W2" \in Wired /\ value["W2"] # "off")
    /\ cmd.wire = "OB" /\ value["Y1"] = "off" =>
          ok /\ line'["Y1"] = line["Y1"] /\ line'["OB"] = cmd.connect

\* Lines that are driven are driven all, and believed so.
LEMMA SetDoes ==
    ASSUME NEW ws \in SUBSET Wires, NEW level \in Level, NEW ok, Gpio!G!Set(ws, level, ok),
           line \in [Wires -> Level]
    PROVE  /\ done' = Append(done, ok)
           /\ line' \in [Wires -> Level]
           /\ \A w \in Wires : /\ line'[w] = IF w \in ws THEN level ELSE line[w]
                               /\ value'[w] = IF w \in ws THEN level ELSE value[w]
  BY DEF Gpio!G!Set, Gpio!G!Wires, Wires

\* Each of the control functions of gpio_hvac keeps that promise.
LEMMA GpioCommand ==
    ASSUME NEW cmd \in Command, Gpio!G!ControlWireSafe(cmd), line \in [Wires -> Level]
    PROVE  \E ok \in BOOLEAN : GpioDoes(cmd, ok)
<1> USE HouseAssumption
<1>0. /\ "Y1" \in Wires /\ "OB" \in Wires /\ "G" \in Wires /\ "W2" \in Wires
      /\ cmd.connect \in Level
      /\ "off" \in Level /\ "on" \in Level
  BY DEF Wires, Command, Level
<1>1. \E ws \in SUBSET Wires, level \in Level, ok \in BOOLEAN :
         /\ Gpio!G!Set(ws, level, ok)
         /\ cmd.connect = "off" => level = "off"
         /\ "OB" \in ws => cmd.wire = "OB"
         /\ "Y1" \in ws /\ cmd.wire = "G" => FALSE
         /\ cmd.wire = "Y1" /\ cmd.connect = "off" => "Y1" \in ws
         /\ cmd.wire = "OB" /\ value["Y1"] = "off" => ws = {"OB"} /\ level = cmd.connect /\ ok
         /\ "W2" \in ws => cmd.wire = "W2"
         /\ cmd.wire = "W2" /\ cmd.connect = "off" /\ "W2" \in Wired => "W2" \in ws
         /\ cmd.wire = "Y1" /\ cmd.connect = "off" => ok
         /\ cmd.wire = "G" /\ "G" \in Wired =>
               \/ ok
               \/ /\ cmd.connect = "off"
                  /\ value["Y1"] # "off" \/ ("W2" \in Wired /\ value["W2"] # "off")
  <2>1. CASE cmd.wire \in Gpio!G!HeatSources /\ Gpio!G!ControlHeat(cmd.wire, cmd.connect)
    BY <1>0, <2>1
       DEF Gpio!G!ControlHeat, Gpio!G!Drive, Gpio!G!Refuse, Gpio!G!HeatSources, Wires,
           Level
  <2>2. CASE cmd.wire = "OB" /\ Gpio!G!ControlReversing(cmd.connect)
    BY <1>0, <2>2 DEF Gpio!G!ControlReversing, Gpio!G!Drive, Gpio!G!Refuse, Wires, Level
  <2>3. CASE cmd.wire = "G" /\ Gpio!G!ControlFan(cmd.connect)
    BY <1>0, <2>3 DEF Gpio!G!ControlFan, Gpio!G!HeatMayRun, Gpio!G!Drive, Gpio!G!Refuse, Wires, Level
  <2>4. CASE cmd.wire = "other" /\ Gpio!G!Refuse
    BY <1>0, <2>4 DEF Gpio!G!Refuse, Wires, Level
  <2> QED
    BY <2>1, <2>2, <2>3, <2>4 DEF Gpio!G!ControlWireSafe
<1>2. PICK ws \in SUBSET Wires, level \in Level, ok \in BOOLEAN :
         /\ Gpio!G!Set(ws, level, ok)
         /\ cmd.connect = "off" => level = "off"
         /\ "OB" \in ws => cmd.wire = "OB"
         /\ "Y1" \in ws /\ cmd.wire = "G" => FALSE
         /\ cmd.wire = "Y1" /\ cmd.connect = "off" => "Y1" \in ws
         /\ cmd.wire = "OB" /\ value["Y1"] = "off" => ws = {"OB"} /\ level = cmd.connect /\ ok
         /\ "W2" \in ws => cmd.wire = "W2"
         /\ cmd.wire = "W2" /\ cmd.connect = "off" /\ "W2" \in Wired => "W2" \in ws
         /\ cmd.wire = "Y1" /\ cmd.connect = "off" => ok
         /\ cmd.wire = "G" /\ "G" \in Wired =>
               \/ ok
               \/ /\ cmd.connect = "off"
                  /\ value["Y1"] # "off" \/ ("W2" \in Wired /\ value["W2"] # "off")
  BY <1>1
<1>3. /\ done' = Append(done, ok) /\ line' \in [Wires -> Level]
      /\ line'["Y1"] = IF "Y1" \in ws THEN level ELSE line["Y1"]
      /\ line'["OB"] = IF "OB" \in ws THEN level ELSE line["OB"]
      /\ value'["Y1"] = IF "Y1" \in ws THEN level ELSE value["Y1"]
      /\ value'["W2"] = IF "W2" \in ws THEN level ELSE value["W2"]
  <2>1. /\ done' = Append(done, ok) /\ line' \in [Wires -> Level]
        /\ \A w \in Wires : /\ line'[w] = IF w \in ws THEN level ELSE line[w]
                            /\ value'[w] = IF w \in ws THEN level ELSE value[w]
    BY <1>2, SetDoes
  <2> QED
    BY <1>0, <2>1
<1>4. /\ cmd.wire # "OB" => line'["OB"] = line["OB"]
      /\ cmd.wire = "G" => line'["Y1"] = line["Y1"]
      /\ cmd.connect = "off" /\ line["Y1"] = "off" => line'["Y1"] = "off"
      /\ cmd.connect = "off" /\ value["Y1"] = "off" => value'["Y1"] = "off"
      /\ cmd.wire = "Y1" /\ cmd.connect = "off"
            => line'["Y1"] = "off" /\ value'["Y1"] = "off"
      /\ value["Y1"] = line["Y1"] => value'["Y1"] = line'["Y1"]
      /\ cmd.connect = "off" /\ value["W2"] = "off" => value'["W2"] = "off"
      /\ cmd.wire # "W2" => value'["W2"] = value["W2"]
      /\ cmd.wire = "W2" /\ cmd.connect = "off" /\ "W2" \in Wired => value'["W2"] = "off"
  BY <1>2, <1>3
<1>5. cmd.wire = "OB" /\ value["Y1"] = "off" =>
          ok /\ line'["Y1"] = line["Y1"] /\ line'["OB"] = cmd.connect
  BY <1>2, <1>3
<1>6. GpioDoes(cmd, ok)
  BY <1>2, <1>3, <1>4, <1>5, Zenon DEF GpioDoes
<1> QED
  BY <1>6

\* The startup commands turn everything off, the compressor second.
LEMMA StartupCommands ==
    /\ Len(Gpio!G!StartupBatch) = 4
    /\ \A n \in Nat : n < 4 =>
          /\ Gpio!G!StartupBatch[n + 1] \in Command
          /\ Gpio!G!StartupBatch[n + 1].connect = "off"
          /\ n = 0 => Gpio!G!StartupBatch[n + 1].wire = "W2"
          /\ n = 1 => Gpio!G!StartupBatch[n + 1].wire = "Y1"
<1>1. /\ Len(Gpio!G!StartupBatch) = 4
      /\ \A i \in 1..4 : /\ Gpio!G!StartupBatch[i] \in Command
                         /\ Gpio!G!StartupBatch[i].connect = "off"
      /\ Gpio!G!StartupBatch[1].wire = "W2" /\ Gpio!G!StartupBatch[2].wire = "Y1"
  BY DEF Gpio!G!StartupBatch, Command, AnyWire, Wires, Level
<1>2. \A n \in Nat : n < 4 => n + 1 \in 1..4
  OBVIOUS
<1> QED
  BY <1>1, <1>2

\* The steps of gpio_hvac.
LEMMA GpioKeepsInv ==
    ASSUME Inv, hw = "gpio_hvac", Gpio!GpioHvac, UNCHANGED <<hw, nestOwn>>
    PROVE  Inv'
<1> USE DEF Inv
<1>1. UNCHANGED threadVars /\ (Plan <=> Plan')
  BY DEF Gpio!GpioHvac, Gpio!tstatOnly, threadVars, Plan
<1>2. NbpKnows'
  BY DEF NbpKnows
<1>3. /\ Runs <=> line["Y1"] = "on"
      /\ Runs' <=> line'["Y1"] = "on"
      /\ Valve <=> line["OB"] = "on"
      /\ Valve' <=> line'["OB"] = "on"
      /\ ValveFits <=> (Valve <=> mode = "cool")
      /\ ValveFits' <=> (Valve' <=> mode = "cool")
  BY <1>1 DEF Runs, Valve, ValveFits, Conducts, threadVars
<1>4. ASSUME ~Begun, UNCHANGED <<serving, ctl>>, line'["Y1"] = "off"
      PROVE  Exchanges' /\ Safe' /\ ~Runs' /\ (~Begun' => Early')
  BY <1>1, <1>3, <1>4, NotServing DEF Early, Safe, threadVars, Own
<1>5. CASE Gpio!G!Start
  <2>1. /\ line' = Gpio!G!AllLow /\ phase = "down" /\ phase' = "starting" /\ done' = <<>>
        /\ batch' = Gpio!G!StartupBatch /\ UNCHANGED <<serving, ctl>>
    BY <1>5 DEF Gpio!G!Start
  <2>2. line' \in [Wires -> Level] /\ line'["Y1"] = "off"
    BY <2>1 DEF Gpio!G!AllLow, Gpio!G!Wires, Wires, Level
  <2>3. ~Begun /\ ~Begun'
    BY <2>1 DEF Begun
  <2>4. GpioKnows'
    BY <2>1, <2>2, Names DEF GpioKnows, Exchanges, Early, None
  <2> QED
    BY <1>1, <1>2, <1>4, <2>1, <2>2, <2>3, <2>4
<1>6. CASE Gpio!G!ControlWire
  <2>1. /\ phase # "down" /\ Len(done) < Len(batch)
        /\ Gpio!G!ControlWireSafe(batch[Len(done) + 1])
        /\ UNCHANGED <<phase, batch, serving, ctl>>
    BY <1>6 DEF Gpio!G!ControlWire
  <2> DEFINE cmd == batch[Len(done) + 1]
  <2>2. CASE phase = "starting"
    <3>1. /\ Len(done) \in Nat /\ cmd \in Command /\ cmd.connect = "off"
          /\ Len(done) = 0 => cmd.wire = "W2"
          /\ Len(done) = 1 => cmd.wire = "Y1"
      <4>1. batch = Gpio!G!StartupBatch /\ Len(done) \in Nat
        BY <2>2 DEF GpioKnows
      <4> QED
        BY <2>1, <4>1, StartupCommands
    <3>2. PICK ok \in BOOLEAN : GpioDoes(cmd, ok)
      BY <2>1, <3>1, GpioCommand DEF GpioKnows
    <3>3. /\ done' \in Seq(BOOLEAN) /\ Len(done') <= 4
          /\ Len(done') >= 1 /\ "W2" \in Wired => value'["W2"] = "off"
          /\ Len(done') >= 2 => value'["Y1"] = "off"
      <4>1. done \in Seq(BOOLEAN) /\ done' = Append(done, ok) /\ Len(done) < 4
        BY <2>1, <2>2, <3>2, StartupCommands DEF GpioKnows, GpioDoes
      <4>2. done' \in Seq(BOOLEAN) /\ Len(done') = Len(done) + 1
        BY <4>1
      <4>3. Len(done) = 1 \/ Len(done) >= 2 => value'["Y1"] = "off"
        BY <2>2, <3>1, <3>2 DEF GpioKnows, GpioDoes
      <4>4. (Len(done) = 0 \/ Len(done) >= 1) /\ "W2" \in Wired => value'["W2"] = "off"
        BY <2>2, <3>1, <3>2 DEF GpioKnows, GpioDoes
      <4>5. \A n \in Nat : n < 4 => n + 1 <= 4 /\ (n + 1 >= 2 => n = 1 \/ n >= 2)
        OBVIOUS
      <4>6. \A n \in Nat : n = 0 \/ n >= 1
        OBVIOUS
      <4>7. Len(done') <= 4 /\ (Len(done') >= 2 => Len(done) = 1 \/ Len(done) >= 2)
        BY <3>1, <4>1, <4>2, <4>5
      <4>8. Len(done) = 0 \/ Len(done) >= 1
        BY <3>1, <4>6
      <4> QED
        BY <4>2, <4>3, <4>4, <4>7, <4>8
    <3>4. GpioKnows'
      BY <2>1, <2>2, <3>1, <3>2, <3>3 DEF GpioKnows, GpioDoes
    <3>5. ~Begun /\ ~Begun' /\ line'["Y1"] = "off"
      BY <2>1, <2>2, <3>4 DEF Begun, GpioKnows
    <3> QED
      BY <1>1, <1>2, <1>4, <2>1, <3>4, <3>5
  <2>3. CASE phase = "serving"
    <3>1. Begun /\ serving # None /\ Begun'
      BY <2>1, <2>3, Names DEF Begun, GpioKnows
    <3>2. cmd \in Command /\ Asked(cmd)
      BY <2>1, <3>1, ServingOne DEF Asked, Command, AnyWire, Wires
    <3>3. PICK ok \in BOOLEAN : GpioDoes(cmd, ok)
      BY <2>1, <3>2, GpioCommand DEF GpioKnows
    <3>4. line["Y1"] \in Level /\ line["OB"] \in Level /\ value["Y1"] = line["Y1"]
      BY <2>3 DEF GpioKnows, Wires
    <3>5. /\ cmd.wire # "OB" => (Valve' <=> Valve)
          /\ cmd.wire = "G" => (Runs' <=> Runs)
          /\ cmd.wire = "Y1" /\ cmd.connect = "off" => ~Runs'
          /\ cmd.wire = "OB" /\ ~Runs =>
                /\ ~Runs'
                /\ ok => (Valve' <=> cmd.connect = "on")
                /\ hw = "gpio_hvac" => ok
      BY <1>3, <3>3, <3>4 DEF GpioDoes, Level
    <3>6. Exchanges' /\ Plan' /\ Early' /\ Safe'
      BY <1>1, <2>1, <3>1, <3>3, <3>5, Executed DEF GpioDoes
    <3>7. GpioKnows'
      BY <2>1, <2>3, <3>1, <3>2, <3>3 DEF GpioKnows, GpioDoes, Asked
    <3> QED
      BY <1>2, <3>6, <3>7
  <2> QED
    BY <2>1, <2>2, <2>3 DEF GpioKnows
<1>7. CASE Gpio!G!Serve
  <2>1. /\ phase = "starting" /\ phase' = "serving" /\ Len(done) = Len(batch)
        /\ batch' = <<>> /\ UNCHANGED <<line, value, serving, ctl>>
    BY <1>7 DEF Gpio!G!Serve, Gpio!G!EndBatch
  <2>2. Len(done) = 4
    BY <2>1 DEF GpioKnows, Gpio!G!StartupBatch
  <2>3. GpioKnows'
    BY <2>1, <2>2 DEF GpioKnows
  <2>4. ~Begun /\ Begun' /\ line'["Y1"] = "off"
    BY <2>1 DEF Begun, GpioKnows
  <2> QED
    BY <1>1, <1>2, <1>4, <2>1, <2>3, <2>4 DEF Early
<1>8. ASSUME NEW c \in Gpio!Clients, Gpio!G!HandleReq(c)
      PROVE  Inv'
  <2>1. /\ phase = "serving" /\ ctl[c].st = "sent" /\ serving' = c /\ batch' = ctl[c].cmds
        /\ done' = <<>> /\ ctl' = [ctl EXCEPT ![c] = Taken]
        /\ UNCHANGED <<line, value, phase>>
    BY <1>8 DEF Gpio!G!HandleReq, Gpio!G!Polling, Gpio!G!Taken, Taken
  <2>2. c = Gpio!Me
    BY <2>1, Names DEF Exchanges, Idle
  <2>3. Exchanges' /\ Plan' /\ Early' /\ Safe'
    BY <1>1, <2>1, <2>2, RequestTaken DEF Begun, Own, nestOwn
  <2>4. GpioKnows'
    BY <2>1, <2>2, Names DEF GpioKnows
  <2> QED
    BY <1>2, <2>3, <2>4
<1>9. CASE Gpio!G!SendReply
  <2>1. /\ serving # None /\ Len(done) = Len(batch) /\ serving' = None /\ batch' = <<>>
        /\ ctl' = [ctl EXCEPT ![serving] = IF @.st = "taken" THEN Replied(done) ELSE @]
        /\ UNCHANGED <<line, value, phase>>
    BY <1>9
       DEF Gpio!G!SendReply, Gpio!G!EndBatch, Gpio!G!Reply, Gpio!G!Replied, Replied,
           None
  <2>2. phase = "serving"
    BY <2>1 DEF GpioKnows
  <2>3. Exchanges' /\ Plan' /\ Early' /\ Safe'
    BY <1>1, <2>1, <2>2, RequestReplied DEF Begun, nestOwn
  <2>4. GpioKnows'
    BY <2>1, <2>2 DEF GpioKnows
  <2> QED
    BY <1>2, <2>3, <2>4
<1>10. CASE Gpio!G!GotNewSubscriber
  <2>1. UNCHANGED <<line, value, phase, batch, done, serving, ctl>>
    BY <1>10 DEF Gpio!G!GotNewSubscriber
  <2>2. Exchanges' /\ Plan' /\ Early' /\ Safe'
    BY <1>1, <2>1, Unmoved DEF nestOwn
  <2> QED
    BY <1>2, <2>1, <2>2 DEF GpioKnows
<1> QED
  BY <1>5, <1>6, <1>7, <1>8, <1>9, <1>10 DEF Gpio!GpioHvac, Gpio!G!Server
----------------------------------------------------------------------------
(* nbp.                                                                    *)

\* The thermostat is the same program in both systems.
LEMMA SameOperators ==
    /\ \A m, temp, g : Nest!T!Wanted(m, temp, g) = Gpio!T!Wanted(m, temp, g)
    /\ \A t, d : Nest!T!Later(t, d) = Gpio!T!Later(t, d)
    /\ \A t, timer : Nest!T!TakeIn(t, timer) = Gpio!T!TakeIn(t, timer)
    /\ \A t : Nest!T!IsSet(t) = Gpio!T!IsSet(t) /\ Nest!T!Passed(t) = Gpio!T!Passed(t)
    /\ Nest!T!ValveLevel = Gpio!T!ValveLevel
    /\ Nest!T!Unset = Gpio!T!Unset
  BY DEF Gpio!T!Wanted, Nest!T!Wanted, Gpio!T!Later, Nest!T!Later, Gpio!T!TakeIn,
         Nest!T!TakeIn, Gpio!T!IsSet, Nest!T!IsSet, Gpio!T!Passed, Nest!T!Passed,
         Gpio!T!ValveLevel, Nest!T!ValveLevel, Gpio!T!Unset, Nest!T!Unset,
         Gpio!T!Overdue, Nest!T!Overdue

\* So are its calls and returns, ...
LEMMA SameExchange ==
    /\ \A w, level, place : Nest!T!Call(w, level, place) => Gpio!T!Call(w, level, place)
    /\ \A place : Nest!T!Return(place) => Gpio!T!Return(place)
    /\ \A place, w, level : Nest!T!Replies(place, w, level) => Gpio!T!Replies(place, w, level)
    /\ Nest!T!Ok = Gpio!T!Ok /\ Nest!T!Idle = Gpio!T!Idle /\ Nest!Me = Gpio!Me
  BY DEF Nest!T!Call, Gpio!T!Call, Nest!T!Return, Gpio!T!Return, Nest!T!Replies,
         Gpio!T!Replies, Nest!T!Ok, Gpio!T!Ok, Nest!T!Sent, Gpio!T!Sent, Nest!T!Cmd,
         Gpio!T!Cmd, Nest!T!Idle, Gpio!T!Idle, Nest!Me, Gpio!Me

\* ... and each of its steps, ...
LEMMA SameThread ==
    ASSUME Nest!T!Thread
    PROVE  Gpio!T!Thread
<1> USE SameOperators, SameExchange
    DEF Gpio!T!timers, Nest!T!timers, Gpio!T!settings, Nest!T!settings
<1>1. Nest!T!Start => Gpio!T!Start
  BY DEF Nest!T!Start, Gpio!T!Start
<1>2. Nest!T!Started => Gpio!T!Started
  BY DEF Nest!T!Started, Gpio!T!Started
<1>3. Nest!T!FanOnTimer => Gpio!T!FanOnTimer
  BY DEF Nest!T!FanOnTimer, Gpio!T!FanOnTimer, Nest!T!ReadClock, Gpio!T!ReadClock,
         Nest!T!TimersLater, Gpio!T!TimersLater
<1>4. Nest!T!FanTurnedOn => Gpio!T!FanTurnedOn
  BY DEF Nest!T!FanTurnedOn, Gpio!T!FanTurnedOn, Nest!T!RetryUnless,
         Gpio!T!RetryUnless
<1>5. Nest!T!CompressorTimer => Gpio!T!CompressorTimer
  BY DEF Nest!T!CompressorTimer, Gpio!T!CompressorTimer
<1>6. Nest!T!ReversingSet => Gpio!T!ReversingSet
  BY DEF Nest!T!ReversingSet, Gpio!T!ReversingSet
<1>7. Nest!T!CompressorTurnedOn => Gpio!T!CompressorTurnedOn
  BY DEF Nest!T!CompressorTurnedOn, Gpio!T!CompressorTurnedOn, Nest!T!CompressorDone,
         Gpio!T!CompressorDone
<1>8. Nest!T!CompressorUndone => Gpio!T!CompressorUndone
  BY DEF Nest!T!CompressorUndone, Gpio!T!CompressorUndone
<1>9. Nest!T!ReversingUndone => Gpio!T!ReversingUndone
  BY DEF Nest!T!ReversingUndone, Gpio!T!ReversingUndone, Nest!T!RetryLater,
         Gpio!T!RetryLater
<1>10. Nest!T!FanOffTimer => Gpio!T!FanOffTimer
  BY DEF Nest!T!FanOffTimer, Gpio!T!FanOffTimer, Nest!T!KeepFanOn, Gpio!T!KeepFanOn
<1>11. Nest!T!FanTurnedOff => Gpio!T!FanTurnedOff
  BY DEF Nest!T!FanTurnedOff, Gpio!T!FanTurnedOff, Nest!T!RetryUnless,
         Gpio!T!RetryUnless
<1>12. Nest!T!PollTimedOut => Gpio!T!PollTimedOut
  BY DEF Nest!T!PollTimedOut, Gpio!T!PollTimedOut
<1>13. Nest!T!ReadWeather => Gpio!T!ReadWeather
  BY DEF Nest!T!ReadWeather, Gpio!T!ReadWeather, Nest!T!CompressorOn,
         Gpio!T!CompressorOn, Nest!T!CompressorOff, Gpio!T!CompressorOff,
         Nest!T!Handled, Gpio!T!Handled, Nest!T!KeepFanOn, Gpio!T!KeepFanOn,
         Nest!T!CancelCompressor, Gpio!T!CancelCompressor
<1>14. Nest!T!CompressorTurnedOff => Gpio!T!CompressorTurnedOff
  BY DEF Nest!T!CompressorTurnedOff, Gpio!T!CompressorTurnedOff
<1>15. Nest!T!ReversingTurnedOff => Gpio!T!ReversingTurnedOff
  BY DEF Nest!T!ReversingTurnedOff, Gpio!T!ReversingTurnedOff, Nest!T!Handled,
         Gpio!T!Handled
<1>16. Nest!T!HandleReq => Gpio!T!HandleReq
  BY DEF Nest!T!HandleReq, Gpio!T!HandleReq, Nest!T!FanNotNeeded, Gpio!T!FanNotNeeded
<1>17. Nest!T!FanSetOn => Gpio!T!FanSetOn
  BY DEF Nest!T!FanSetOn, Gpio!T!FanSetOn
<1>18. Nest!T!FanSetOff => Gpio!T!FanSetOff
  BY DEF Nest!T!FanSetOff, Gpio!T!FanSetOff
<1> QED
  BY <1>1, <1>2, <1>3, <1>4, <1>5, <1>6, <1>7, <1>8, <1>9, <1>10, <1>11, <1>12, <1>13,
         <1>14, <1>15, <1>16, <1>17, <1>18 DEF Nest!T!Thread, Gpio!T!Thread

\* ... what wakes it, ...
LEMMA SameMessage ==
    ASSUME Nest!T!PollReady
    PROVE  Gpio!T!PollReady
  BY SameOperators
     DEF Nest!T!PollReady, Gpio!T!PollReady, Nest!T!ReadClock, Gpio!T!ReadClock,
         Nest!T!TimersLater, Gpio!T!TimersLater, Nest!T!settings, Gpio!T!settings

\* ... and its clock.
LEMMA SameTick ==
    ASSUME Nest!T!TstatTick
    PROVE  Gpio!T!TstatTick
<1>1. Nest!T!Stuck <=> Gpio!T!Stuck
  BY SameExchange DEF Nest!T!Stuck, Gpio!T!Stuck
<1> QED
  BY <1>1, SameOperators
     DEF Nest!T!TstatTick, Gpio!T!TstatTick, Nest!T!TimersLater, Gpio!T!TimersLater,
         Nest!T!timers, Gpio!T!timers, Nest!T!settings, Gpio!T!settings

\* What controlling the FETs `fs' does to what nbp knows, whatever is on its way.
LEMMA ControlDoes ==
    ASSUME NEW fs \in SUBSET Fets, NEW level \in Level, Nest!N!Control(fs, level)
    PROVE  /\ \A f \in Fets : /\ fet'[f] = IF f \in fs /\ f \in Installed
                                           THEN level ELSE fet[f]
                              /\ asserted'[f] = IF f \in fs THEN level ELSE asserted[f]
                              /\ age[f] = 0 => age'[f] = 0
  BY DEF Nest!N!Control, Nest!N!Switch, Nest!N!RestFromNow

\* What a command does to the FETs.
NbpDoes(cmd, ok) ==
    /\ done' = Append(done, ok)
    /\ \A f \in Installed : f # cmd.wire => fet'[f] = fet[f]
    /\ cmd.wire \in Installed =>
          /\ cmd.connect = "off" => fet'[cmd.wire] = "off"
          /\ ok => fet'[cmd.wire] = cmd.connect
    /\ cmd.wire \in Fets /\ cmd.connect = "off" => ok

\* control_fet keeps that promise, and what nbp knows stays true.
LEMMA NbpCommand ==
    ASSUME NEW cmd \in Command, phase # "down", UNCHANGED <<phase, hw, reports>>,
           Nest!N!ControlFet(cmd), NbpKnows, hw = "nbp"
    PROVE  NbpKnows' /\ \E ok \in BOOLEAN : NbpDoes(cmd, ok)
<1> USE HouseAssumption
<1>1. cmd.connect \in Level
  BY DEF Command
<1>2. CASE ~Nest!N!Refused(cmd) /\ Nest!N!Control({cmd.wire}, cmd.connect)
           /\ done' = Append(done, TRUE)
  <2>1. cmd.wire \in Fets
    BY <1>2 DEF Nest!N!Refused
  <2>2. \A f \in Fets : /\ fet'[f] = IF f = cmd.wire /\ f \in Installed
                                     THEN cmd.connect ELSE fet[f]
                        /\ asserted'[f] = IF f = cmd.wire THEN cmd.connect ELSE asserted[f]
                        /\ age[f] = 0 => age'[f] = 0
    <3>1. {cmd.wire} \in SUBSET Fets
      BY <2>1
    <3>2. \A f \in Fets :
             /\ fet'[f] = IF f \in {cmd.wire} /\ f \in Installed THEN cmd.connect ELSE fet[f]
             /\ asserted'[f] = IF f \in {cmd.wire} THEN cmd.connect ELSE asserted[f]
             /\ age[f] = 0 => age'[f] = 0
      BY <1>1, <1>2, <3>1, ControlDoes
    <3> QED
      BY <3>2
  <2>3. NbpDoes(cmd, TRUE)
    BY <1>2, <2>2 DEF NbpDoes
  <2>4. reports > 0 => cmd.connect # "on"
    BY <1>2, <2>1 DEF NbpKnows, Nest!N!Refused, Nest!N!LockedOut
  <2>5. NbpKnows'
    BY <2>2, <2>4 DEF NbpKnows
  <2> QED
    BY <2>3, <2>5
<1>3. CASE /\ Nest!N!Refused(cmd) /\ done' = Append(done, FALSE)
           /\ UNCHANGED <<fet, asserted, age>>
  <2>1. cmd.wire \in Fets => cmd.connect = "on"
    BY <1>1, <1>3 DEF Nest!N!Refused, Level
  <2>2. NbpDoes(cmd, FALSE)
    BY <1>3, <2>1 DEF NbpDoes
  <2> QED
    BY <1>3, <2>2 DEF NbpKnows
<1> QED
  BY <1>2, <1>3 DEF Nest!N!ControlFet, Nest!N!NotSent

\* The steps of nbp's loop.
LEMMA NbpKeepsInv ==
    ASSUME Inv, hw = "nbp", Nest!Nbp, UNCHANGED <<hw, gpioOwn>>
    PROVE  Inv'
<1> USE DEF Inv
<1>1. UNCHANGED threadVars /\ (Plan <=> Plan')
  BY DEF Nest!Nbp, Nest!tstatOnly, threadVars, Plan
<1>2. GpioKnows'
  BY DEF GpioKnows
<1>3. /\ Runs <=> fet["Y1"] = "on"
      /\ Runs' <=> fet'["Y1"] = "on"
      /\ Valve <=> fet["OB"] = "on"
      /\ Valve' <=> fet'["OB"] = "on"
  BY DEF Runs, Valve, Conducts
<1>4. "Y1" \in Installed /\ "OB" \in Installed /\ Installed \subseteq Fets
  BY HouseAssumption
<1>5. phase # "down" <=> Begun
  BY DEF NbpKnows, Begun
<1>6. CASE Nest!N!Open
  <2>1. /\ phase = "down" /\ phase' = "resetting" /\ reports' \in Nat
        /\ \A f \in Fets : fet'[f] = IF f \in Installed THEN "off" ELSE fet[f]
        /\ \A f \in Fets : asserted'[f] = "unknown" /\ age'[f] = 0
        /\ UNCHANGED <<batch, done, serving, ctl>>
    BY <1>6 DEF Nest!N!Open, Nest!N!Switch, Nest!N!RestFromNow
  <2>2. NbpKnows'
    BY <1>4, <2>1 DEF NbpKnows
  <2>3. ~Runs' /\ Begun' /\ pc # "on.Y1"
    BY <1>3, <1>4, <1>5, <2>1 DEF Begun, Early
  <2>4. Exchanges'
    BY <1>1, <1>5, <2>1, NotServing
  <2> QED
    BY <1>1, <1>2, <2>2, <2>3, <2>4 DEF Early, Safe, threadVars
<1>7. CASE Nest!N!HandleReq(Nest!Me)
  <2>1. /\ phase # "down" /\ Own.st = "sent" /\ serving' = Gpio!Me /\ batch' = Own.cmds
        /\ done' = <<>> /\ ctl' = [ctl EXCEPT ![Gpio!Me] = Taken]
        /\ UNCHANGED <<fet, reports, asserted, age, phase>>
    BY <1>7, Names DEF Nest!N!HandleReq, Nest!N!Polling, Nest!N!Taken, Taken, Own,
       Nest!N!backplateVars
  <2>2. Exchanges' /\ Plan' /\ Early' /\ Safe'
    BY <1>1, <1>5, <2>1, RequestTaken DEF gpioOwn
  <2> QED
    BY <1>2, <2>1, <2>2 DEF NbpKnows
<1>8. CASE Nest!N!ControlWire
  <2>1. /\ serving # None /\ Len(done) < Len(batch)
        /\ Nest!N!ControlFet(batch[Len(done) + 1])
        /\ UNCHANGED <<reports, phase, batch, serving, ctl>>
    BY <1>8, Names DEF Nest!N!ControlWire
  <2> DEFINE cmd == batch[Len(done) + 1]
  <2>2. Begun /\ cmd \in Command /\ cmd.wire \in {"Y1", "OB", "G"}
    BY <2>1, Serving, ServingOne DEF Asked, Command, AnyWire, Wires
  <2>3. NbpKnows' /\ \E ok \in BOOLEAN : NbpDoes(cmd, ok)
    BY <1>5, <2>1, <2>2, NbpCommand
  <2>4. PICK ok \in BOOLEAN : NbpDoes(cmd, ok)
    BY <2>3
  <2>5. /\ cmd.wire # "OB" => (Valve' <=> Valve)
        /\ cmd.wire = "G" => (Runs' <=> Runs)
        /\ cmd.wire = "Y1" /\ cmd.connect = "off" => ~Runs'
        /\ cmd.wire = "OB" /\ ~Runs =>
              /\ ~Runs'
              /\ ok => (Valve' <=> cmd.connect = "on")
              /\ hw = "gpio_hvac" => ok
    BY <1>3, <1>4, <2>2, <2>4 DEF NbpDoes
  <2>6. Exchanges' /\ Plan' /\ Early' /\ Safe'
    BY <1>1, <2>1, <2>2, <2>4, <2>5, Executed DEF NbpDoes
  <2> QED
    BY <1>2, <2>3, <2>6
<1>9. CASE Nest!N!SendReply
  <2>1. /\ serving # None /\ Len(done) = Len(batch) /\ serving' = None
        /\ ctl' = [ctl EXCEPT ![serving] = IF @.st = "taken" THEN Replied(done) ELSE @]
        /\ UNCHANGED <<fet, reports, asserted, age, phase>>
    BY <1>9, Names DEF Nest!N!SendReply, Nest!N!EndBatch, Nest!N!Replied, Replied,
       Nest!N!backplateVars
  <2>2. Exchanges' /\ Plan' /\ Early' /\ Safe'
    BY <1>1, <2>1, Serving, RequestReplied DEF gpioOwn
  <2> QED
    BY <1>2, <2>1, <2>2 DEF NbpKnows
<1> QED
  BY <1>6, <1>7, <1>8, <1>9 DEF Nest!Nbp

\* A report finds every FET off, for it is read before any time has passed.
LEMMA ReportKeepsInv ==
    ASSUME Inv, hw = "nbp", Nest!Report, UNCHANGED <<hw, gpioOwn>>
    PROVE  Inv'
<1> USE DEF Inv
<1>1. UNCHANGED threadVars /\ (Plan <=> Plan')
  BY DEF Nest!Report, Nest!tstatOnly, threadVars, Plan
<1>2. PICK written \in SUBSET Fets : Nest!N!Control(written, "off")
  BY DEF Nest!Report, Nest!N!FetPresence, Nest!N!Suspect
<1>3. /\ phase # "down" /\ phase' = "up" /\ reports > 0 /\ reports' = reports - 1
      /\ UNCHANGED <<batch, done, serving, ctl>>
  BY DEF Nest!Report, Nest!N!FetPresence, Nest!N!Polling
<1>4. \A f \in Fets : /\ fet'[f] = IF f \in written /\ f \in Installed
                                   THEN "off" ELSE fet[f]
                      /\ asserted'[f] = IF f \in written THEN "off" ELSE asserted[f]
                      /\ age[f] = 0 => age'[f] = 0
  BY <1>2, ControlDoes DEF Level
<1>5. \A f \in Installed : fet[f] # "on" /\ fet'[f] # "on"
  BY <1>3, <1>4, HouseAssumption DEF NbpKnows
<1>6. NbpKnows' /\ GpioKnows'
  BY <1>3, <1>4, HouseAssumption DEF NbpKnows, GpioKnows
<1>7. ~Runs /\ ~Runs' /\ ~Valve /\ ~Valve' /\ Begun /\ Begun'
  BY <1>3, <1>5, HouseAssumption DEF Runs, Valve, Conducts, Begun, NbpKnows
<1>8. ValveFits' <=> ValveFits
  BY <1>1, <1>7 DEF ValveFits, Valve, threadVars
<1>9. Exchanges'
  <2>1. \A x : (Asked(x)' <=> Asked(x)) /\ (Told(x)' <=> Told(x))
    BY <1>1, <1>7, <1>8 DEF Asked, Told, Gpio!T!ValveLevel, threadVars
  <2>2. Waits => Waits'
    BY <1>3, <2>1 DEF Waits, Own
  <2> QED
    BY <1>1, <1>3, <2>2 DEF Exchanges, Own, threadVars
<1>10. Early' /\ Safe'
  BY <1>1, <1>7, <1>8 DEF Early, Safe, threadVars
<1> QED
  BY <1>1, <1>6, <1>9, <1>10
----------------------------------------------------------------------------
\* Everything begins down, with nothing under way.
LEMMA InitInv == Init => Inv
<1> SUFFICES ASSUME Init PROVE Inv
  OBVIOUS
<1>1. /\ hw \in {"gpio_hvac", "nbp"} /\ pc = "down" /\ mode = "off" /\ lag = 0
      /\ earliest = U /\ fanOn = U /\ compOn = U /\ fanOff = U
      /\ phase = "down" /\ serving = None
      /\ Gpio!Me \in DOMAIN ctl /\ Own = Idle
      /\ hw = "gpio_hvac" => ctl[Gpio!Cli] = Idle
  <2>1. CASE hw = "gpio_hvac" /\ Gpio!Init
    <3>1. ctl = [c \in {"tstat", "cli"} |-> Idle]
      BY <2>1, Names DEF Gpio!Init, Gpio!G!Init, Gpio!G!Idle, Idle
    <3>2. "tstat" \in DOMAIN ctl /\ ctl["tstat"] = Idle /\ ctl["cli"] = Idle
      BY <3>1
    <3>3. phase = "down" /\ serving = None
      BY <2>1 DEF Gpio!Init, Gpio!G!Init, None
    <3> QED
      BY <2>1, <3>2, <3>3, Names DEF Gpio!Init, Gpio!T!Init, U, Own
  <2>2. CASE hw = "nbp" /\ Nest!Init
    BY <2>2, Names, SameOperators
       DEF Nest!Init, Nest!T!Init, Nest!N!Init, U, Own, Nest!T!Idle, Idle
  <2> QED
    BY <2>1, <2>2 DEF Init
<1>2. GpioKnows
  BY <1>1
     DEF Init, Gpio!Init, Gpio!G!Init, Gpio!G!AllLow, Gpio!G!Wires, GpioKnows, Wires,
         Level
<1>3. NbpKnows
  BY <1>1 DEF Init, Nest!Init, Nest!N!Init, NbpKnows
<1>4. U \in Int
  BY DEF U, Gpio!T!Unset
<1> QED
  BY <1>1, <1>2, <1>3, <1>4
     DEF Inv, Exchanges, Plan, Begun, Early, Safe, AtRest, Gpio!T!Waiting, Idle

\* No step of the house breaks it.
LEMMA StepKeepsInv == Inv /\ [Next]_vars => Inv'
<1> SUFFICES ASSUME Inv, [Next]_vars PROVE Inv'
  OBVIOUS
<1>1. CASE UNCHANGED vars
  <2>1. UNCHANGED <<threadVars, hw, phase, batch, done, serving, ctl, gpioOwn, nestOwn>>
    BY <1>1
       DEF vars, Gpio!vars, Gpio!tstatOnly, Gpio!gpioOnly, nestOwn, gpioOwn, threadVars
  <2>2. Exchanges' /\ Plan' /\ Early' /\ Safe'
    BY <2>1, Unmoved DEF gpioOwn, nestOwn
  <2>3. UNCHANGED equipment
    BY <1>1 DEF vars, Gpio!vars, Gpio!gpioOnly, gpioOwn, nestOwn, equipment
  <2> QED
    BY <2>2, <2>3, EquipmentStays DEF Inv
<1>2. CASE Tstat
  <2>1. UNCHANGED equipment /\ Gpio!T!Thread
    BY <1>2, SameThread
       DEF Tstat, With, Gpio!Tstat, Nest!Tstat, Gpio!gpioOnly, Nest!nbpOnly, gpioOwn,
           nestOwn, equipment
  <2> QED
    BY <2>1, ThreadKeepsInv
<1>3. CASE Message
  <2>1. UNCHANGED equipment /\ Gpio!T!PollReady
    BY <1>3, SameMessage
       DEF Message, With, Gpio!Message, Nest!Message, Gpio!gpioOnly, Nest!nbpOnly,
           gpioOwn, nestOwn, equipment
  <2> QED
    BY <2>1, MessageKeepsInv
<1>4. CASE Report
  BY <1>4, ReportKeepsInv DEF Report, With
<1>5. CASE Controller
  BY <1>5, GpioKeepsInv, NbpKeepsInv DEF Controller, With
<1>6. CASE Tick
  <2>1. CASE hw = "gpio_hvac" /\ Gpio!Tick /\ UNCHANGED <<hw, nestOwn>>
    BY <2>1, TickKeepsInv DEF Gpio!Tick, Gpio!G!Tick, controllerVars, nestOwn
  <2>2. CASE hw = "nbp" /\ Nest!Tick /\ UNCHANGED <<hw, gpioOwn>>
    BY <2>2, SameTick, TickKeepsInv DEF Nest!Tick, Nest!N!Tick, controllerVars, gpioOwn
  <2> QED
    BY <1>6, <2>1, <2>2 DEF Tick, With
<1> QED
  BY <1>1, <1>2, <1>3, <1>4, <1>5, <1>6 DEF Next

\* The compressor runs only while heat or cold is wanted, and with the valve on the
\* wanted side: the thread's calls (tstat.c:134-142, 341-354) with either
\* controller's control functions, in every order of messages, ticks and replies.
THEOREM CompressorSafety == FairSpec => []CompressorFollowsMode
<1>1. Inv => CompressorFollowsMode
  BY DEF Inv, Safe, Runs, Turning, CompressorFollowsMode
<1> QED
  BY <1>1, InitInv, StepKeepsInv, PTL DEF FairSpec

\* What a refusal is about.
RestsStill(cmd) ==
    /\ cmd.connect = "on" /\ (hw = "gpio_hvac" => cmd.wire = "Y1")
    /\ age[cmd.wire] < ShutoffDelay /\ age'[cmd.wire] = age[cmd.wire]

\* When the thermostat turns the valve, or turns the fan off, gpio_hvac takes no
\* heat source to be running, so that neither is refused.
LEMMA GpioRefuses ==
    ASSUME Inv, hw = "gpio_hvac", Gpio!G!ControlWire, UNCHANGED hw, FanHasLine, Refuses
    PROVE  RestsStill(batch[Len(done')])
<1> USE HouseAssumption
<1>1. /\ phase # "down" /\ Len(done) < Len(batch) /\ serving # None
      /\ Gpio!G!ControlWireSafe(batch[Len(done) + 1])
  BY Names DEF Gpio!G!ControlWire, Refuses
<1>2. /\ done = <<>> /\ Asked(batch[Len(done) + 1]) /\ phase = "serving"
      /\ pc \in Gpio!T!Waiting
  BY <1>1, Serving, ServingOne DEF Begun, Inv, GpioKnows
<1>3. PICK cmd : /\ cmd = batch[Len(done')] /\ Asked(cmd) /\ Gpio!G!ControlWireSafe(cmd)
  BY <1>1, <1>2 DEF Refuses
<1>4. /\ cmd.wire \in {"Y1", "OB", "G"} /\ cmd.connect \in {"on", "off"}
      /\ "off" # "on"
  BY <1>3 DEF Asked, Level
<1>5. \A ws, level, ok : Gpio!G!Set(ws, level, ok) => ok = FALSE
  <2>1. \A ok : Append(done, ok) = Append(done, FALSE) => ok = FALSE
    BY <1>2
  <2> QED
    BY <2>1 DEF Refuses, Gpio!G!Set
<1>6. Gpio!G!Refuse => age'["Y1"] = age["Y1"]
  BY <1>2 DEF Gpio!G!Refuse, Gpio!G!Set, Gpio!G!HeatSources
<1>7. value["Y1"] \in Level /\ value["Y1"] = line["Y1"] /\ ("W2" \in Wired => value["W2"] = "off")
  BY <1>2 DEF Inv, GpioKnows, Wires
<1>8. pc \in {"fan_off.G", "goals.off", "undo.OB", "off.OB", "on.OB"}
         => value["Y1"] = "off"
  BY <1>2, <1>7 DEF Inv, Plan, Safe, Begun, Level, Runs, Conducts
<1>9. cmd.wire # "OB"
  <2>1. ASSUME cmd.wire = "OB" PROVE value["Y1"] = "off"
    BY <1>2, <1>3, <1>8, <2>1 DEF Asked, Gpio!T!Waiting
  <2> QED
    BY <1>3, <1>4, <1>5, <2>1
       DEF Gpio!G!ControlWireSafe, Gpio!G!HeatSources, Gpio!G!ControlReversing, Gpio!G!Drive
<1>10. cmd.wire # "G"
  <2>1. ASSUME cmd.wire = "G", cmd.connect = "off" PROVE value["Y1"] = "off"
    BY <1>2, <1>3, <1>8, <2>1 DEF Asked, Gpio!T!Waiting
  <2>2. ASSUME cmd.wire = "G" PROVE ~(cmd.connect = "off" /\ Gpio!G!HeatMayRun)
    BY <1>7, <2>1, <2>2 DEF Gpio!G!HeatMayRun
  <2> QED
    BY <1>3, <1>5, <2>2
       DEF Gpio!G!ControlWireSafe, Gpio!G!HeatSources, Gpio!G!ControlFan, Gpio!G!Drive,
           FanHasLine
<1>11. cmd.wire = "Y1"
  BY <1>4, <1>9, <1>10
<1>12. Gpio!G!ControlHeat("Y1", cmd.connect)
  BY <1>3, <1>11 DEF Gpio!G!ControlWireSafe
<1>13. cmd.connect = "on" /\ Gpio!G!LockedOut("Y1") /\ Gpio!G!Refuse
  BY <1>5, <1>12 DEF Gpio!G!ControlHeat, Gpio!G!Drive
<1> QED
  BY <1>3, <1>6, <1>11, <1>13 DEF RestsStill, Gpio!G!LockedOut

\* nbp refuses what is among its FETs only for the rest.
LEMMA NbpRefuses ==
    ASSUME Inv, hw = "nbp", Nest!N!ControlWire, FanHasLine, Refuses
    PROVE  RestsStill(batch[Len(done')])
<1> USE HouseAssumption
<1>1. /\ Len(done) < Len(batch) /\ serving # None
      /\ Nest!N!ControlFet(batch[Len(done) + 1])
  BY Names DEF Nest!N!ControlWire
<1>2. done = <<>> /\ Asked(batch[Len(done) + 1])
  BY <1>1, ServingOne
<1>3. PICK cmd : /\ cmd = batch[Len(done')] /\ Asked(cmd) /\ Nest!N!ControlFet(cmd)
  BY <1>1, <1>2 DEF Refuses
<1>4. cmd.wire \in Fets
  BY <1>3 DEF Asked, FanHasLine
<1>5. done' # Append(done, TRUE)
  BY <1>2 DEF Refuses
<1>6. Nest!N!Refused(cmd) /\ UNCHANGED age
  BY <1>3, <1>5 DEF Nest!N!ControlFet, Nest!N!NotSent
<1> QED
  BY <1>3, <1>4, <1>6 DEF RestsStill, Nest!N!Refused, Nest!N!LockedOut

\* Nothing else in a house answers a command.
LEMMA OnlyRefusedForRest ==
    ASSUME Inv, [Next]_vars, FanHasLine, Refuses
    PROVE  RestsStill(batch[Len(done')])
<1>1. done = <<>> \/ \E ok \in BOOLEAN : done = <<ok>>
  <2>1. serving # None
    BY Names DEF Refuses
  <2> QED
    BY <2>1, Serving, Zenon DEF Told
<1>2. done' # done /\ done' # <<>>
  <2>1. \A s \in Seq(BOOLEAN) : Append(s, FALSE) # s /\ Append(s, FALSE) # <<>>
    <3>1. \A s \in Seq(BOOLEAN) : Len(Append(s, FALSE)) = Len(s) + 1 /\ Len(s) \in Nat
      OBVIOUS
    <3>2. \A n \in Nat : n + 1 # n /\ n + 1 # 0
      OBVIOUS
    <3> QED
      BY <3>1, <3>2
  <2>2. <<>> \in Seq(BOOLEAN) /\ \A ok \in BOOLEAN : <<ok>> \in Seq(BOOLEAN)
    OBVIOUS
  <2> QED
    BY <1>1, <2>1, <2>2, Zenon DEF Refuses
<1>3. ~UNCHANGED vars /\ ~Tstat /\ ~Message /\ ~Report /\ ~Tick
  BY <1>2
     DEF vars, Gpio!vars, Gpio!gpioOnly, With, Tstat, Gpio!Tstat, Nest!Tstat, Nest!nbpOnly,
         Message, Gpio!Message, Nest!Message, Report, Nest!Report, Nest!N!FetPresence,
         Tick, Gpio!Tick, Gpio!G!Tick, Nest!Tick, Nest!N!Tick
<1>4. CASE hw = "gpio_hvac" /\ Gpio!GpioHvac /\ UNCHANGED hw
  <2>1. Gpio!G!ControlWire
    BY <1>2, <1>4
       DEF Gpio!GpioHvac, Gpio!G!Server, Gpio!G!Start, Gpio!G!Serve, Gpio!G!EndBatch,
           Gpio!G!HandleReq, Gpio!G!SendReply, Gpio!G!GotNewSubscriber
  <2> QED
    BY <1>4, <2>1, GpioRefuses
<1>5. CASE hw = "nbp" /\ Nest!Nbp
  <2>1. Nest!N!ControlWire
    BY <1>2, <1>5
       DEF Nest!Nbp, Nest!N!Open, Nest!N!HandleReq, Nest!N!SendReply, Nest!N!EndBatch
  <2> QED
    BY <1>5, <2>1, NbpRefuses
<1> QED
  BY <1>3, <1>4, <1>5 DEF Next, Controller, With

\* A thermostat whose fan has a wire is refused nothing but the turning on of a
\* wire whose controller still counts the rest it began, a compressor if that is
\* gpio_hvac; being refused does not begin the rest again, and nothing that is to
\* be turned off is refused (tstat.c:104-105, 115-164; gpio_hvac.c:90-146;
\* nest.c:276-285).
THEOREM RefusalSafety ==
    ASSUME FanHasLine
    PROVE  FairSpec => RefusedOnlyForRest
<1>1. Inv /\ [Next]_vars
         => [Refuses =>
                LET cmd == batch[Len(done')]
                IN /\ cmd.connect = "on" /\ (hw = "gpio_hvac" => cmd.wire = "Y1")
                   /\ age[cmd.wire] < ShutoffDelay
                   /\ age'[cmd.wire] = age[cmd.wire]]_vars
  BY OnlyRefusedForRest, Zenon DEF RestsStill
<1> QED
  BY <1>1, InitInv, StepKeepsInv, PTL DEF FairSpec, RefusedOnlyForRest
----------------------------------------------------------------------------
(* The two halves of the system with nbp are what each other's modules     *)
(* allow.  The proofs about them are instances of their own; of NbpProof's,*)
(* which is also about the serial line, there is no line.                  *)

NoCrc(s) == 0
NT == INSTANCE TstatProof WITH Clients <- Nest!Clients, Me <- Nest!Me
NP == INSTANCE NbpProof
          WITH Clients <- Nest!Clients, Crc <- NoCrc, Messages <- {}, Noise <- {},
               MaxFrames <- 0, MaxFaults <- 0, sent <- Aside, faults <- Aside,
               wire <- Aside, rdbuf <- Aside, alloc <- Aside, received <- Aside,
               pos <- Aside, got <- Aside

\* The thermostat has one exchange under way at most, of one command, and waits for
\* its end.
NestInv ==
    /\ ctl \in [Nest!Clients -> Exchange]
    /\ batch \in Seq(Command) /\ done \in Seq(BOOLEAN) /\ Len(done) <= Len(batch)
    /\ serving = Nest!Me => Len(batch) = 1
    /\ serving \in {Nest!Me, Nest!N!None}
    /\ ctl[Nest!Me].st = "sent" => Len(ctl[Nest!Me].cmds) = 1
    /\ ctl[Nest!Me].st = "idle" => ctl[Nest!Me] = Idle
    /\ pc \in {"down"} \cup Nest!T!Running => ctl[Nest!Me].st = "idle"

\* The thermostat of the proofs is this one.
LEMMA SameNestTstat ==
    (Nest!T!Init <=> NT!Init) /\ (Nest!T!Next <=> NT!Next) /\ (Nest!T!Thread <=> NT!Thread)
BY Zenon
   DEF Nest!T!Init, NT!Init, Nest!T!Unset, NT!Unset, Nest!T!Idle, NT!Idle,
         Nest!T!Wires, NT!Wires, Nest!T!Next, NT!Next, Nest!T!Thread, NT!Thread,
         Nest!T!Start, NT!Start, Nest!T!Call, NT!Call, Nest!T!Sent, NT!Sent,
         Nest!T!Cmd, NT!Cmd, Nest!T!Started, NT!Started, Nest!T!Replies,
         NT!Replies, Nest!T!Ok, NT!Ok, Nest!T!Return, NT!Return, Nest!T!timers,
         NT!timers, Nest!T!FanOnTimer, NT!FanOnTimer, Nest!T!ReadClock,
         NT!ReadClock, Nest!T!TimersLater, NT!TimersLater, Nest!T!Later,
         NT!Later, Nest!T!Overdue, NT!Overdue, Nest!T!TakeIn, NT!TakeIn,
         Nest!T!IsSet, NT!IsSet, Nest!T!Passed, NT!Passed, Nest!T!settings,
         NT!settings, Nest!T!FanTurnedOn, NT!FanTurnedOn, Nest!T!RetryUnless,
         NT!RetryUnless, Nest!T!CompressorTimer, NT!CompressorTimer,
         Nest!T!ValveLevel, NT!ValveLevel, Nest!T!ReversingSet, NT!ReversingSet,
         Nest!T!CompressorTurnedOn, NT!CompressorTurnedOn,
         Nest!T!CompressorDone, NT!CompressorDone, Nest!T!CompressorUndone,
         NT!CompressorUndone, Nest!T!ReversingUndone, NT!ReversingUndone,
         Nest!T!RetryLater, NT!RetryLater, Nest!T!FanOffTimer, NT!FanOffTimer,
         Nest!T!KeepFanOn, NT!KeepFanOn, Nest!T!FanTurnedOff, NT!FanTurnedOff,
         Nest!T!PollTimedOut, NT!PollTimedOut, Nest!T!ReadWeather,
         NT!ReadWeather, Nest!T!Wanted, NT!Wanted, Nest!T!CompressorOn,
         NT!CompressorOn, Nest!T!Handled, NT!Handled, Nest!T!CompressorOff,
         NT!CompressorOff, Nest!T!CancelCompressor, NT!CancelCompressor,
         Nest!T!CompressorTurnedOff, NT!CompressorTurnedOff,
         Nest!T!ReversingTurnedOff, NT!ReversingTurnedOff, Nest!T!HandleReq,
         NT!HandleReq, Nest!T!FanNotNeeded, NT!FanNotNeeded, Nest!T!FanSetOn,
         NT!FanSetOn, Nest!T!FanSetOff, NT!FanSetOff, Nest!T!PollReady,
         NT!PollReady, Nest!T!Crash, NT!Crash, Nest!T!Blank, NT!Blank,
         Nest!T!HwStep, NT!HwStep, Nest!T!Taken, NT!Taken, Nest!T!Replied,
         NT!Replied, Nest!T!Lost, NT!Lost, Nest!T!TstatTick, NT!TstatTick,
         Nest!T!Stuck, NT!Stuck

\* What its thread does to the exchange.
LEMMA NestTalks ==
    ASSUME NestInv, Nest!T!Thread, Nest!NbpSystemAssumption
    PROVE  \/ /\ ctl[Nest!Me].st \in {"idle", "replied"}
              /\ pc' \notin {"down"} \cup Nest!T!Running
              /\ \E cmds \in Batches :
                    Len(cmds) = 1 /\ ctl' = [ctl EXCEPT ![Nest!Me] = Sent(cmds)]
           \/ ctl[Nest!Me].st = "replied" /\ ctl' = [ctl EXCEPT ![Nest!Me] = Idle]
           \/ UNCHANGED ctl /\ pc \in {"down"} \cup Nest!T!Running
<1>1. /\ NT!Running = Nest!T!Running /\ NT!Idle = Idle
      /\ \A cmds : NT!Sent(cmds) = Sent(cmds)
      /\ \A w, level : NT!Cmd(w, level) = Cmd(w, level) /\ Nest!Cmd(w, level) = Cmd(w, level)
      /\ NT!Level = Nest!Level
  BY DEF NT!Running, Nest!T!Running, NT!Idle, Idle, NT!Sent, Sent, NT!Cmd, Nest!Cmd, Cmd,
         NT!Level, Nest!Level
<1>2. \A place \in NT!Waiting : place \notin {"down"} \cup Nest!T!Running
  BY DEF NT!Waiting, Nest!T!Running
<1>3. \A w \in {"Y1", "OB", "G"}, level \in NT!Level :
         NT!Sent(<<NT!Cmd(w, level)>>) = Sent(<<Cmd(w, level)>>)
            /\ <<Cmd(w, level)>> \in Batches /\ Len(<<Cmd(w, level)>>) = 1
  BY <1>1 DEF Nest!NbpSystemAssumption
<1>4. NT!Thread /\ (pc \in {"down"} \cup NT!Running => ctl[Nest!Me].st = "idle")
  BY <1>1, SameNestTstat DEF NestInv
<1>5. Nest!T!TstatAssumption => NT!TstatAssumption
  BY DEF Nest!T!TstatAssumption, NT!TstatAssumption
<1> QED
  BY <1>1, <1>2, <1>3, <1>4, <1>5, NT!ThreadTalks DEF Nest!NbpSystemAssumption

\* The exchange, and what nbp is doing with it, after a step of either, as module
\* NbpFet has it of its clients and as module Tstat has it of its controller.
NestStep ==
    NestInv' /\ [Nest!N!Next]_(Nest!N!nbpVars) /\ [Nest!T!Next]_(Nest!T!tstatVars)

\* The exchanges there are.
LEMMA NestExchanges ==
    /\ Nest!Me \in Nest!Clients /\ Nest!Clients = {Nest!Me} /\ Nest!Me # Nest!N!None
    /\ Idle \in Exchange /\ Taken \in Exchange
    /\ \A results \in Seq(BOOLEAN) : Replied(results) \in Exchange
    /\ Nest!NbpSystemAssumption => \A cmds \in Batches : Sent(cmds) \in Exchange
  BY DEF Nest!Me, Nest!Clients, Nest!N!None, Exchange, Idle, Taken, Replied, Sent,
         Nest!NbpSystemAssumption, Nest!N!NbpAssumption, Nest!N!Command, Command,
         Nest!N!AnyWire, AnyWire, Nest!N!Wires, Wires, Nest!N!Level, Level

\* The thermostat's steps are those of a client.
LEMMA NestThreadStep ==
    ASSUME NestInv, Nest!Tstat, Nest!NbpSystemAssumption
    PROVE  NestStep
<1> USE NestExchanges DEF NestInv
<1>1. UNCHANGED <<batch, done, serving>> /\ UNCHANGED Nest!nbpOnly /\ Nest!T!Next
  BY DEF Nest!Tstat, Nest!nbpOnly, Nest!T!Next
<1>2. CASE ctl[Nest!Me].st = "replied" /\ ctl' = [ctl EXCEPT ![Nest!Me] = Idle]
  <2>1. ctl' \in [Nest!Clients -> Exchange] /\ ctl'[Nest!Me] = Idle
    BY <1>2
  <2>2. Nest!N!Client(Nest!Me)
    BY <1>1, <1>2
       DEF Nest!N!Client, Nest!nbpOnly, Nest!N!backplateVars, Nest!N!Idle, Idle
  <2>3. NestInv'
    BY <1>1, <2>1 DEF Idle
  <2> QED
    BY <1>1, <2>2, <2>3 DEF NestStep, Nest!N!Next
<1>3. CASE UNCHANGED ctl /\ pc \in {"down"} \cup Nest!T!Running
  BY <1>1, <1>3 DEF NestStep, Nest!N!nbpVars, Nest!nbpOnly
<1>4. CASE /\ ctl[Nest!Me].st \in {"idle", "replied"}
           /\ pc' \notin {"down"} \cup Nest!T!Running
           /\ \E cmds \in Batches :
                 Len(cmds) = 1 /\ ctl' = [ctl EXCEPT ![Nest!Me] = Sent(cmds)]
  <2>1. PICK cmds \in Batches :
           Len(cmds) = 1 /\ ctl' = [ctl EXCEPT ![Nest!Me] = Sent(cmds)]
    BY <1>4
  <2>2. ctl' \in [Nest!Clients -> Exchange] /\ ctl'[Nest!Me] = Sent(cmds)
    BY <2>1
  <2>3. Nest!N!Client(Nest!Me)
    BY <1>1, <1>4, <2>1
       DEF Nest!N!Client, Nest!nbpOnly, Nest!N!backplateVars, Nest!N!Sent, Sent
  <2>4. NestInv'
    BY <1>1, <1>4, <2>1, <2>2 DEF Sent
  <2> QED
    BY <1>1, <2>3, <2>4 DEF NestStep, Nest!N!Next
<1> QED
  BY ONLY <1>2, <1>3, <1>4, NestTalks, NestInv, Nest!Tstat, Nest!NbpSystemAssumption
  DEF Nest!Tstat

\* nbp's are those of a controller.
LEMMA NestServerStep ==
    ASSUME NestInv, Nest!Nbp
    PROVE  NestStep
<1> USE NestExchanges DEF NestInv
<1>1. /\ UNCHANGED Nest!tstatOnly /\ UNCHANGED pc /\ Nest!N!Next
      /\ UNCHANGED ctl => UNCHANGED Nest!T!tstatVars
  BY DEF Nest!Nbp, Nest!tstatOnly, Nest!T!tstatVars, Nest!N!Next
<1>2. Nest!T!HwStep => Nest!T!Next
  BY DEF Nest!T!Next
<1>3. CASE Nest!N!Open
  BY <1>1, <1>3 DEF Nest!N!Open, NestStep
<1>4. CASE Nest!N!HandleReq(Nest!Me)
  <2>1. /\ ctl[Nest!Me].st = "sent" /\ ctl' = [ctl EXCEPT ![Nest!Me] = Taken]
        /\ serving' = Nest!Me /\ batch' = ctl[Nest!Me].cmds /\ done' = <<>>
    BY <1>4 DEF Nest!N!HandleReq, Nest!N!Taken, Taken
  <2>2. /\ ctl' \in [Nest!Clients -> Exchange] /\ ctl'[Nest!Me] = Taken
        /\ ctl[Nest!Me].cmds \in Seq(Command)
    BY <2>1 DEF Exchange
  <2>3. NestInv'
    BY <1>1, <2>1, <2>2 DEF Taken
  <2>4. Nest!T!HwStep
    BY <1>1, <2>1
       DEF Nest!T!HwStep, Nest!T!Taken, Taken, Nest!tstatOnly, Nest!T!settings, Nest!T!timers
  <2> QED
    BY <1>1, <1>2, <2>3, <2>4 DEF NestStep
<1>5. CASE Nest!N!ControlWire
  <2>1. \E ok \in BOOLEAN : done' = Append(done, ok)
    BY <1>5 DEF Nest!N!ControlWire, Nest!N!ControlFet
  <2>2. /\ UNCHANGED <<batch, serving, ctl>> /\ Len(done) < Len(batch)
    BY <1>5 DEF Nest!N!ControlWire
  <2>3. done' \in Seq(BOOLEAN) /\ Len(done') <= Len(batch)
    BY <2>1, <2>2
  <2> QED
    BY <1>1, <2>2, <2>3 DEF NestStep
<1>6. CASE Nest!N!SendReply
  <2>1. /\ serving = Nest!Me /\ Len(done) = Len(batch)
        /\ ctl' = [ctl EXCEPT ![serving] = IF @.st = "taken" THEN Replied(done) ELSE @]
        /\ serving' = Nest!N!None /\ batch' = <<>> /\ done' = <<>>
    BY <1>6 DEF Nest!N!SendReply, Nest!N!EndBatch, Nest!N!Replied, Replied
  <2>2. PICK ok \in BOOLEAN : done = <<ok>>
    BY <2>1
  <2>3. /\ ctl' \in [Nest!Clients -> Exchange]
        /\ ctl[Nest!Me].st = "taken" => ctl'[Nest!Me] = Replied(<<ok>>)
        /\ ctl[Nest!Me].st # "taken" => UNCHANGED ctl
    BY <2>1, <2>2
  <2>4. NestInv'
    BY <1>1, <2>1, <2>3 DEF Replied
  <2>5. ctl[Nest!Me].st = "taken" => Nest!T!HwStep
    BY <1>1, <2>1, <2>2
       DEF Nest!T!HwStep, Nest!T!Replied, Replied, Nest!tstatOnly, Nest!T!settings,
           Nest!T!timers
  <2> QED
    BY <1>1, <1>2, <2>3, <2>4, <2>5 DEF NestStep
<1> QED
  BY <1>3, <1>4, <1>5, <1>6 DEF Nest!Nbp

\* A message, a report and a tick leave the exchange alone.
LEMMA NestOtherStep ==
    ASSUME NestInv, Nest!Message \/ Nest!Report \/ Nest!Tick \/ UNCHANGED Nest!vars
    PROVE  NestStep
<1> USE DEF NestInv
<1>1. CASE Nest!Message
  BY <1>1
     DEF Nest!Message, Nest!T!PollReady, Nest!nbpOnly, Nest!N!nbpVars, Nest!T!Next, NestStep,
         Nest!T!Running
<1>2. CASE Nest!Report
  BY <1>2
     DEF Nest!Report, Nest!N!FetPresence, Nest!N!Next, Nest!tstatOnly, Nest!T!tstatVars,
         NestStep
<1>3. CASE Nest!Tick
  BY <1>3
     DEF Nest!Tick, Nest!T!TstatTick, Nest!T!Next, Nest!N!Tick, Nest!N!Next, NestStep
<1>4. CASE UNCHANGED Nest!vars
  BY <1>4
     DEF Nest!vars, Nest!tstatOnly, Nest!nbpOnly, Nest!N!nbpVars, Nest!T!tstatVars, NestStep
<1> QED
  BY <1>1, <1>2, <1>3, <1>4

\* The thermostat is a client of nbp as module NbpFet allows it, and nbp a controller
\* as module Tstat allows it (tstat.c:69-89 against nbp/main.c:107-149).
THEOREM NestRefines == Nest!Spec => Nest!N!Spec /\ Nest!T!Spec
<1>1. Nest!Init => NestInv /\ Nest!N!Init /\ Nest!T!Init
  BY NestExchanges
     DEF Nest!Init, NestInv, Nest!N!Init, Nest!N!Idle, Nest!T!Init, Nest!T!Running, Idle
<1>2. NestInv /\ [Nest!Next]_(Nest!vars) => NestStep
  BY NestThreadStep, NestServerStep, NestOtherStep, PartsAssumption DEF Nest!Next
<1> QED
  BY <1>1, <1>2, PTL DEF Nest!Spec, Nest!N!Spec, Nest!T!Spec, NestStep
----------------------------------------------------------------------------
(* What is proved of the parts, taken over to the house.                   *)

HP == INSTANCE HvacSystemProof

\* A house with gpio_hvac is the system of the two, and one with nbp that of those.
LEMMA HouseIsOneOfTwo ==
    /\ FairSpec /\ hw = "gpio_hvac" => Gpio!Spec
    /\ FairSpec /\ hw = "nbp" => Nest!Spec
<1>1. /\ Init /\ hw = "gpio_hvac" => Gpio!Init
      /\ Init /\ hw = "nbp" => Nest!Init
  BY DEF Init
<1>2. [Next]_vars => /\ hw = "gpio_hvac" => (hw = "gpio_hvac")' /\ [Gpio!Next]_(Gpio!vars)
                     /\ hw = "nbp" => (hw = "nbp")' /\ [Nest!Next]_(Nest!vars)
  BY DEF Next, With, Tstat, Message, Report, Controller, Tick, Gpio!Next, Nest!Next, vars,
         Gpio!vars, Gpio!tstatOnly, Gpio!gpioOnly, nestOwn, Nest!vars, Nest!tstatOnly,
         Nest!nbpOnly
<1> QED
  BY <1>1, <1>2, PTL DEF FairSpec, Gpio!Spec, Nest!Spec

\* The system of the proofs is the same.
LEMMA SameGpioSystem == Gpio!Spec => HP!Spec
<1>1. /\ Gpio!T!Init <=> HP!T!Init
      /\ Gpio!T!Thread <=> HP!T!Thread
      /\ Gpio!T!PollReady <=> HP!T!PollReady
      /\ Gpio!T!Crash <=> HP!T!Crash
      /\ Gpio!T!TstatTick <=> HP!T!TstatTick
  BY Zenon
     DEF Gpio!Clients, HP!Clients, Gpio!Me, HP!Me, Gpio!Cli, HP!Cli,
         Gpio!T!Init, HP!T!Init, Gpio!T!Unset, HP!T!Unset, Gpio!T!Idle, HP!T!Idle,
         Gpio!T!Wires, HP!T!Wires, Gpio!T!Thread, HP!T!Thread, Gpio!T!Start, HP!T!Start,
         Gpio!T!Call, HP!T!Call, Gpio!T!Sent, HP!T!Sent, Gpio!T!Cmd, HP!T!Cmd,
         Gpio!T!Started, HP!T!Started, Gpio!T!Replies, HP!T!Replies, Gpio!T!Ok, HP!T!Ok,
         Gpio!T!Return, HP!T!Return, Gpio!T!timers, HP!T!timers, Gpio!T!FanOnTimer,
         HP!T!FanOnTimer, Gpio!T!ReadClock, HP!T!ReadClock, Gpio!T!TimersLater,
         HP!T!TimersLater, Gpio!T!Later, HP!T!Later, Gpio!T!Overdue, HP!T!Overdue,
         Gpio!T!TakeIn, HP!T!TakeIn, Gpio!T!IsSet, HP!T!IsSet, Gpio!T!Passed,
         HP!T!Passed, Gpio!T!settings, HP!T!settings, Gpio!T!FanTurnedOn,
         HP!T!FanTurnedOn, Gpio!T!RetryUnless, HP!T!RetryUnless, Gpio!T!CompressorTimer,
         HP!T!CompressorTimer, Gpio!T!ValveLevel, HP!T!ValveLevel, Gpio!T!ReversingSet,
         HP!T!ReversingSet, Gpio!T!CompressorTurnedOn, HP!T!CompressorTurnedOn,
         Gpio!T!CompressorDone, HP!T!CompressorDone, Gpio!T!CompressorUndone,
         HP!T!CompressorUndone, Gpio!T!ReversingUndone, HP!T!ReversingUndone,
         Gpio!T!RetryLater, HP!T!RetryLater, Gpio!T!FanOffTimer, HP!T!FanOffTimer,
         Gpio!T!KeepFanOn, HP!T!KeepFanOn, Gpio!T!FanTurnedOff, HP!T!FanTurnedOff,
         Gpio!T!PollTimedOut, HP!T!PollTimedOut, Gpio!T!ReadWeather, HP!T!ReadWeather,
         Gpio!T!Wanted, HP!T!Wanted, Gpio!T!CompressorOn, HP!T!CompressorOn,
         Gpio!T!Handled, HP!T!Handled, Gpio!T!CompressorOff, HP!T!CompressorOff,
         Gpio!T!CancelCompressor, HP!T!CancelCompressor, Gpio!T!CompressorTurnedOff,
         HP!T!CompressorTurnedOff, Gpio!T!ReversingTurnedOff, HP!T!ReversingTurnedOff,
         Gpio!T!HandleReq, HP!T!HandleReq, Gpio!T!FanNotNeeded, HP!T!FanNotNeeded,
         Gpio!T!FanSetOn, HP!T!FanSetOn, Gpio!T!FanSetOff, HP!T!FanSetOff,
         Gpio!T!PollReady, HP!T!PollReady, Gpio!T!Crash, HP!T!Crash, Gpio!T!Blank,
         HP!T!Blank, Gpio!T!TstatTick, HP!T!TstatTick, Gpio!T!Stuck, HP!T!Stuck
<1>2. /\ Gpio!G!Init <=> HP!G!Init
      /\ Gpio!G!Server <=> HP!G!Server
      /\ Gpio!G!Crash <=> HP!G!Crash
      /\ Gpio!G!Tick <=> HP!G!Tick
  BY Zenon
     DEF Gpio!Clients, HP!Clients, Gpio!Me, HP!Me, Gpio!Cli, HP!Cli,
         Gpio!G!Init, HP!G!Init, Gpio!G!AllLow, HP!G!AllLow, Gpio!G!Wires, HP!G!Wires,
         Gpio!G!HeatSources, HP!G!HeatSources, Gpio!G!None, HP!G!None, Gpio!G!Idle,
         HP!G!Idle, Gpio!G!Server, HP!G!Server, Gpio!G!Start, HP!G!Start,
         Gpio!G!Switched, HP!G!Switched, Gpio!G!StartupBatch, HP!G!StartupBatch,
         Gpio!G!ControlWire, HP!G!ControlWire, Gpio!G!ControlWireSafe,
         HP!G!ControlWireSafe, Gpio!G!ControlHeat, HP!G!ControlHeat, Gpio!G!LockedOut,
         HP!G!LockedOut, Gpio!G!Refuse, HP!G!Refuse, Gpio!G!Set, HP!G!Set, Gpio!G!Drive,
         HP!G!Drive, Gpio!G!ControlReversing, HP!G!ControlReversing, Gpio!G!ControlFan,
         HP!G!ControlFan, Gpio!G!HeatMayRun, HP!G!HeatMayRun, Gpio!G!Serve, HP!G!Serve,
         Gpio!G!EndBatch, HP!G!EndBatch, Gpio!G!HandleReq, HP!G!HandleReq,
         Gpio!G!Polling, HP!G!Polling, Gpio!G!Taken, HP!G!Taken, Gpio!G!SendReply,
         HP!G!SendReply, Gpio!G!Reply, HP!G!Reply, Gpio!G!Replied, HP!G!Replied,
         Gpio!G!GotNewSubscriber, HP!G!GotNewSubscriber, Gpio!G!Snapshot, HP!G!Snapshot,
         Gpio!G!Crash, HP!G!Crash, Gpio!G!Lost, HP!G!Lost, Gpio!G!Tick, HP!G!Tick,
         Gpio!G!Older, HP!G!Older
<1>3. Gpio!Init <=> HP!Init
  BY <1>1, <1>2 DEF Gpio!Init, HP!Init
<1>4. Gpio!Next <=> HP!Next
  <2>1. (Gpio!Tstat <=> HP!Tstat) /\ (Gpio!Message <=> HP!Message)
    BY <1>1, Zenon
       DEF Gpio!Tstat, HP!Tstat, Gpio!Message, HP!Message, Gpio!gpioOnly, HP!gpioOnly
  <2>2. Gpio!GpioHvac <=> HP!GpioHvac
    BY <1>2, Zenon DEF Gpio!GpioHvac, HP!GpioHvac, Gpio!tstatOnly, HP!tstatOnly
  <2>3. Gpio!CliRequest <=> HP!CliRequest
    BY Zenon
       DEF Gpio!CliRequest, HP!CliRequest, Gpio!tstatOnly, HP!tstatOnly, Gpio!gpioOnly,
           HP!gpioOnly, Gpio!Cli, HP!Cli, Gpio!G!SendRequest, HP!G!SendRequest,
           Gpio!G!ReceiveReply, HP!G!ReceiveReply, Gpio!G!ClientRestart,
           HP!G!ClientRestart, Gpio!G!Sent, HP!G!Sent, Gpio!G!Idle, HP!G!Idle
  <2>4. Gpio!Crash <=> HP!Crash
    BY <1>1, <1>2, Zenon
       DEF Gpio!Crash, HP!Crash, Gpio!tstatOnly, HP!tstatOnly, Gpio!gpioOnly, HP!gpioOnly
  <2>5. Gpio!Tick <=> HP!Tick
    BY <1>1, <1>2, Zenon DEF Gpio!Tick, HP!Tick
  <2> QED
    BY <2>1, <2>2, <2>3, <2>4, <2>5, Zenon DEF Gpio!Next, HP!Next
<1>5. [Gpio!Next]_(Gpio!vars) => [HP!Next]_(HP!vars)
  BY <1>4
     DEF Gpio!vars, HP!vars, Gpio!tstatOnly, HP!tstatOnly, Gpio!gpioOnly, HP!gpioOnly
<1> QED
  BY <1>3, <1>5, PTL DEF Gpio!Spec, HP!Spec

\* The constants are such as the proofs are about.
LEMMA SameConstants ==
    HP!SystemAssumption /\ HP!PartsAssumption /\ NT!TstatAssumption
       /\ NP!NbpAssumption /\ NP!FrameAssumption
<1>1. HP!SystemAssumption
  BY PartsAssumption
     DEF Gpio!SystemAssumption, HP!SystemAssumption, Gpio!TstatBatches, HP!TstatBatches,
         Gpio!Cmd, HP!Cmd, Gpio!Level, HP!Level, Gpio!Command, HP!Command, Gpio!AnyWire,
         HP!AnyWire, Gpio!Wires, HP!Wires
<1>2. HP!G!GpioAssumption
  BY PartsAssumption
     DEF Gpio!PartsAssumption, Gpio!G!GpioAssumption, HP!G!GpioAssumption, Gpio!Clients,
         HP!Clients, Gpio!Me, HP!Me, Gpio!Cli, HP!Cli, Gpio!G!Wires, HP!G!Wires,
         Gpio!G!Command, HP!G!Command, Gpio!G!AnyWire, HP!G!AnyWire, Gpio!G!Level,
         HP!G!Level
<1>3. HP!Thermostat!TstatAssumption
  BY PartsAssumption
     DEF Gpio!PartsAssumption, Gpio!Thermostat!TstatAssumption,
         HP!Thermostat!TstatAssumption, HP!Me
<1>4. NT!TstatAssumption
  BY PartsAssumption
     DEF Nest!NbpSystemAssumption, Nest!T!TstatAssumption, NT!TstatAssumption
<1>5. NP!NbpAssumption
  BY PartsAssumption
     DEF Nest!NbpSystemAssumption, Nest!N!NbpAssumption, NP!NbpAssumption, Nest!N!Wires,
         NP!Wires, Nest!N!Command, NP!Command, Nest!N!AnyWire, NP!AnyWire, Nest!N!Level,
         NP!Level
<1>6. NP!FrameAssumption
  BY DEF NP!FrameAssumption
<1> QED
  BY <1>1, <1>2, <1>3, <1>4, <1>5, <1>6 DEF HP!PartsAssumption

\* A thermostat that controls a house has one plan at a time, sleeps past no timer,
\* and asks for the compressor only when the fan was last confirmed to be on,
\* whichever controller it asks (tstat.c:115-164, 323-381).
THEOREM HouseKeepsPlan ==
    FairSpec => []( /\ Gpio!T!TimersMatchMode
                    /\ Gpio!T!NoLostWakeup
                    /\ Gpio!T!CompressorNeedsFan )
<1> DEFINE Kept == /\ Gpio!T!TimersMatchMode
                   /\ Gpio!T!NoLostWakeup
                   /\ Gpio!T!CompressorNeedsFan
<1>1. Nest!Spec => []Kept
  <2>1. (Nest!T!Init => NT!Init) /\ ([Nest!T!Next]_(Nest!T!tstatVars) => [NT!Next]_(NT!tstatVars))
    BY SameNestTstat DEF Nest!T!tstatVars, NT!tstatVars
  <2>2. NT!Spec => [](NT!TimersMatchMode /\ NT!NoLostWakeup /\ NT!CompressorNeedsFan)
    BY SameConstants, NT!TimersAreOnePlan, NT!NoTimerIsSleptPast, NT!CompressorWaitsForFan, PTL
  <2>3. NT!TimersMatchMode /\ NT!NoLostWakeup /\ NT!CompressorNeedsFan => Kept
    BY DEF NT!TimersMatchMode, Gpio!T!TimersMatchMode, NT!NoLostWakeup, Gpio!T!NoLostWakeup,
           NT!CompressorNeedsFan, Gpio!T!CompressorNeedsFan, NT!IsSet, Gpio!T!IsSet,
           NT!Unset, Gpio!T!Unset
  <2> QED
    BY <2>1, <2>2, <2>3, NestRefines, PTL DEF Nest!T!Spec, NT!Spec
<1>2. HP!Spec => []Kept
  <2>1. HP!Spec => []( /\ HP!Thermostat!TimersMatchMode
                       /\ HP!Thermostat!NoLostWakeup
                       /\ HP!Thermostat!CompressorNeedsFan )
    BY SameConstants, HP!SystemKeepsPlan
  <2>2. /\ HP!Thermostat!TimersMatchMode
        /\ HP!Thermostat!NoLostWakeup
        /\ HP!Thermostat!CompressorNeedsFan
        => Kept
    BY DEF HP!Thermostat!TimersMatchMode, Gpio!T!TimersMatchMode,
           HP!Thermostat!NoLostWakeup, Gpio!T!NoLostWakeup,
           HP!Thermostat!CompressorNeedsFan, Gpio!T!CompressorNeedsFan,
           HP!Thermostat!IsSet, Gpio!T!IsSet, HP!Thermostat!Unset, Gpio!T!Unset
  <2> QED
    BY <2>1, <2>2, PTL
<1>3. Init => hw = "gpio_hvac" \/ hw = "nbp"
  BY DEF Init
<1> HIDE DEF Kept
<1>4. FairSpec => []Kept
  BY <1>1, <1>2, <1>3, HouseIsOneOfTwo, SameGpioSystem, PTL DEF FairSpec
<1> QED
  BY <1>4 DEF Kept

\* In a house with gpio_hvac the heat sources rest before they run, never run without
\* the fan, and the valve of a running compressor is not turned late
\* (gpio_hvac.c:90-146).
THEOREM HouseKeepsRelaysSafe == FairSpec /\ hw = "gpio_hvac" => Gpio!G!KeepsRelaysSafe
<1>1. /\ HP!G!Relays!AbsInit <=> Gpio!G!Relays!AbsInit
      /\ HP!G!Relays!AbsNext <=> Gpio!G!Relays!AbsNext
  BY Zenon
     DEF Gpio!G!Relays!AbsInit, HP!G!Relays!AbsInit, Gpio!G!Relays!Wires,
         HP!G!Relays!Wires, Gpio!G!Relays!HeatSources, HP!G!Relays!HeatSources,
         Gpio!G!Relays!AbsNext, HP!G!Relays!AbsNext, Gpio!G!Relays!Relay,
         HP!G!Relays!Relay, Gpio!G!Relays!Level, HP!G!Relays!Level,
         Gpio!G!Relays!FanCovers, HP!G!Relays!FanCovers, Gpio!G!Relays!Switched,
         HP!G!Relays!Switched, Gpio!G!Relays!Abandon, HP!G!Relays!Abandon,
         Gpio!G!Relays!TakeCharge, HP!G!Relays!TakeCharge,
         Gpio!G!Relays!TimePasses, HP!G!Relays!TimePasses, Gpio!G!Relays!Older,
         HP!G!Relays!Older
<1>2. [HP!G!Relays!AbsNext]_(HP!G!Relays!relayVars)
         => [Gpio!G!Relays!AbsNext]_(Gpio!G!Relays!relayVars)
  BY <1>1 DEF HP!G!Relays!relayVars, Gpio!G!Relays!relayVars
<1>3. HP!Spec => HP!G!KeepsRelaysSafe
  BY SameConstants, HP!SystemKeepsRelaysSafe
<1> QED
  BY <1>1, <1>2, <1>3, HouseIsOneOfTwo, SameGpioSystem, PTL
     DEF HP!G!KeepsRelaysSafe, Gpio!G!KeepsRelaysSafe, HP!G!Relays!AbsSpec,
         Gpio!G!Relays!AbsSpec

\* A FET that turns on has been off for the shutoff delay, without exception.
FetRests == \A f \in Fets : fet[f] = "off" /\ fet'[f] = "on" => rest[f] >= ShutoffDelay

\* In a house with nbp, whose backplate resets only when nbp tells it to and whose
\* writes do not fail, every FET rests before it is turned on, and nbp takes none that
\* conducts to be off (nest.c:90-96, 153-160).
THEOREM HouseRests ==
    FairSpec /\ hw = "nbp" => [][FetRests]_vars /\ []Nest!N!BeliefMatchesBackplate
<1>1. (Nest!N!Init <=> NP!Init) /\ (Nest!N!Next <=> NP!Next)
  BY Zenon
     DEF Nest!N!Init, NP!Init, Nest!N!Level, NP!Level, Nest!N!None, NP!None,
         Nest!N!Idle, NP!Idle, Nest!N!Next, NP!Next, Nest!N!BackplateReset,
         NP!BackplateReset, Nest!N!Switch, NP!Switch, Nest!N!Open, NP!Open,
         Nest!N!RestFromNow, NP!RestFromNow, Nest!N!FetPresence, NP!FetPresence,
         Nest!N!Polling, NP!Polling, Nest!N!Suspect, NP!Suspect, Nest!N!Control,
         NP!Control, Nest!N!Publish, NP!Publish, Nest!N!HandleReq, NP!HandleReq,
         Nest!N!Taken, NP!Taken, Nest!N!backplateVars, NP!backplateVars,
         Nest!N!ControlWire, NP!ControlWire, Nest!N!ControlFet, NP!ControlFet,
         Nest!N!Refused, NP!Refused, Nest!N!LockedOut, NP!LockedOut,
         Nest!N!NotSent, NP!NotSent, Nest!N!SendReply, NP!SendReply,
         Nest!N!Replied, NP!Replied, Nest!N!EndBatch, NP!EndBatch,
         Nest!N!GotNewSubscriber, NP!GotNewSubscriber, Nest!N!Crash, NP!Crash,
         Nest!N!Lost, NP!Lost, Nest!N!Client, NP!Client, Nest!N!Sent, NP!Sent,
         Nest!N!Subscribe, NP!Subscribe, Nest!N!Tick, NP!Tick, Nest!N!Older,
         NP!Older
<1>2. [Nest!N!Next]_(Nest!N!nbpVars) => [NP!Next]_(NP!nbpVars)
  BY <1>1 DEF Nest!N!nbpVars, NP!nbpVars
<1>3. NP!Spec => NP!RestBeforeConnect /\ []NP!BeliefMatchesBackplate
  BY SameConstants, NP!RestSafety, NP!BeliefSafety
<1>4. NP!BeliefMatchesBackplate => Nest!N!BeliefMatchesBackplate
  BY DEF NP!BeliefMatchesBackplate, Nest!N!BeliefMatchesBackplate
<1>5. NP!RestBeforeConnect /\ []Inv /\ [](hw = "nbp") => [][FetRests]_vars
  <2>1. /\ Inv /\ Inv' /\ hw = "nbp" /\ (hw = "nbp")'
        /\ [\A f \in Fets :
              fet[f] = "off" /\ fet'[f] = "on"
                 => rest[f] >= ShutoffDelay \/ NP!OpenUnknown(f)]_(NP!nbpVars)
        => [FetRests]_vars
    <3> SUFFICES ASSUME Inv, Inv', hw = "nbp", hw' = "nbp",
                        NEW f \in Fets, fet[f] = "off", fet'[f] = "on",
                        asserted[f] = "on"
                 PROVE  FALSE
      BY DEF NP!nbpVars, NP!OpenUnknown, FetRests
    <3>1. f \in Installed /\ phase # "down"
      BY DEF Inv, NbpKnows
    <3> QED
      BY <3>1 DEF Inv, NbpKnows
  <2> QED
    BY <2>1, PTL DEF NP!RestBeforeConnect
<1>6. FairSpec => []Inv
  BY InitInv, StepKeepsInv, PTL DEF FairSpec
<1>7. FairSpec /\ hw = "nbp" => [](hw = "nbp")
  <2>1. hw = "nbp" /\ [Next]_vars => (hw = "nbp")'
    BY DEF Next, With, Tstat, Message, Report, Controller, Tick, vars
  <2> QED
    BY <2>1, PTL DEF FairSpec
<1> QED
  BY <1>1, <1>2, <1>3, <1>4, <1>5, <1>6, <1>7, NestRefines, HouseIsOneOfTwo, PTL
     DEF Nest!N!Spec, NP!Spec
=============================================================================
