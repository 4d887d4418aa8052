------------------------------- MODULE Tstat -------------------------------
(***************************************************************************)
(* tstat: the thermostat.  One thread runs a loop: three timers (turn the  *)
(* fan on, turn the compressor on, turn the fan off), then zmq_poll for a  *)
(* weather report or a request for new goals.  Every wire command is a     *)
(* blocking exchange with the hardware controller, in the middle of which  *)
(* the thread keeps its place (pc) and goes on using the time it read      *)
(* before (ts_now).                                                        *)
(*                                                                         *)
(* Time is relative.  Every time of the program is kept as ticks after     *)
(* ts_now, the clock reading it works with; `lag' is how far the real      *)
(* clock has moved on since, and reading the clock again shifts them all.  *)
(***************************************************************************)
EXTENDS HvacWires, Integers

CONSTANTS FanBefore,      \* fan_before_cool_ms, in ticks
          FanAfter,       \* fan_after_cool_ms
          ShutoffDelay,   \* shutoff_delay_ms
          Retry,          \* retry_ms
          MaxLag,         \* bound: ticks the code runs between clock readings
          Temps,          \* the temperatures that are reported
          Goals,          \* the goals that are asked for: [low, high, hyst]
          FanModes,       \* the values fan_always_on is asked to take
          MayCrash,       \* whether the process may die and restart
          Clients,        \* the clients of the hardware controller
          Me              \* this one

ASSUME TstatAssumption ==
    /\ FanBefore \in Nat /\ FanAfter \in Nat
    /\ ShutoffDelay \in Nat /\ Retry \in Nat /\ MaxLag \in Nat
    /\ Temps \subseteq Int
    /\ Goals \subseteq [low : Int, high : Int, hyst : Int]
    /\ FanModes \subseteq BOOLEAN /\ MayCrash \in BOOLEAN
    /\ Me \in Clients

\* A time that has passed by any amount, and a timer that is not set.
Overdue == -1
Unset == -2

VARIABLES pc,        \* where the thread is
          mode,      \* "off", "cool" or "heat"
          fanAlways, \* fan_always_on
          goal,      \* t_goal_low, t_goal_high, t_hysteresis
          earliest,  \* ts_earliest_compressor
          fanOn,     \* ts_turn_fan_on
          compOn,    \* ts_turn_compressor_on
          fanOff,    \* ts_turn_fan_off
          timeout,   \* ts_timeout; in zmq_poll, what is left of it
          lag,       \* ticks since ts_now was read
          success,   \* the local of the two-command exchanges, TRUE outside them
          reqReady,  \* zmq_poll also reported a request
          ctl,       \* [Clients -> exchange] with the hardware controller
          acked      \* history: the level last confirmed for each wire

timers == <<earliest, fanOn, compOn, fanOff>>
settings == <<mode, fanAlways, goal>>
tstatVars == <<pc, mode, fanAlways, goal, earliest, fanOn, compOn, fanOff,
               timeout, lag, success, reqReady, ctl, acked>>

IsSet(t) == t # Unset
Passed(t) == IsSet(t) /\ t < 0

\* `t' as seen d ticks later.
Later(t, d) == IF t = Unset THEN Unset
               ELSE IF t < d THEN Overdue ELSE t - d

\* Mutant of TakeIn: a timer that has passed is taken in too.
TakeInPassed(t, timer) ==
    IF IsSet(timer) /\ (~IsSet(t) \/ timer < t) THEN timer ELSE t

\* The timeout after timespec_passed: a timer that has not passed is taken in.
TakeIn(t, timer) ==
    IF IsSet(timer) /\ ~Passed(timer) /\ (~IsSet(t) \/ timer < t)
    THEN timer ELSE t

\* Where the thread is: at a step of the loop, or waiting for the reply to a
\* command sent at one of these places of the code.
Running == {"loop", "compressor", "fan_off", "poll", "weather", "goals"}
Waiting == {"start.G", "fan_on.G", "on.OB", "on.Y1", "undo.Y1", "undo.OB",
            "fan_off.G", "off.Y1", "off.OB", "goals.on", "goals.off"}
----------------------------------------------------------------------------
(* hvac_control_wire: send, then wait for the reply.                       *)

Call(w, level, place) ==
    /\ ctl' = [ctl EXCEPT ![Me] = Sent(<<Cmd(w, level)>>)]
    /\ pc' = place

\* The reply to the command `w', `level' sent at `place' is in, and says Ok.
Ok == ctl[Me].results[1]
Replies(place, w, level) ==
    /\ pc = place
    /\ ctl[Me].st = "replied"
    /\ acked' = IF Ok THEN [acked EXCEPT ![w] = level] ELSE acked

Return(place) ==
    /\ ctl' = [ctl EXCEPT ![Me] = Idle]
    /\ pc' = place

TimersLater(d) ==
    /\ earliest' = Later(earliest, d)
    /\ fanOn' = Later(fanOn, d)
    /\ compOn' = Later(compOn, d)
    /\ fanOff' = Later(fanOff, d)

\* ts_now is read again.
ReadClock == TimersLater(lag) /\ lag' = 0
----------------------------------------------------------------------------
(* main: startup.                                                          *)

\* The struct and the timers start afresh, whatever the equipment is doing; a
\* fan that the configuration wants on is asked for once.
Start ==
    /\ pc = "down"
    /\ goal' \in Goals
    /\ earliest' = ShutoffDelay
    /\ \/ TRUE \in FanModes /\ Call("G", "on", "start.G")
       \/ FALSE \in FanModes /\ pc' = "loop" /\ UNCHANGED ctl
    /\ UNCHANGED <<mode, fanAlways, fanOn, compOn, fanOff, timeout, lag,
                   success, reqReady, acked>>

Started ==
    /\ Replies("start.G", "G", "on")
    /\ fanAlways' = Ok
    /\ Return("loop")
    /\ UNCHANGED <<mode, goal, timers, timeout, lag, success, reqReady>>
----------------------------------------------------------------------------
(* main: the timers at the top of the loop.                                *)

\* Mutant of RetryUnless: no retry.
NoRetry(ok) == UNCHANGED timeout

\* A wire that was refused is tried again.
RetryUnless(ok) == timeout' = IF ok THEN timeout ELSE Retry

FanOnTimer ==
    /\ pc = "loop"
    /\ ReadClock
    /\ timeout' = TakeIn(Unset, fanOn')
    /\ IF Passed(fanOn') THEN Call("G", "on", "fan_on.G")
                         ELSE pc' = "compressor" /\ UNCHANGED ctl
    /\ UNCHANGED <<settings, success, reqReady, acked>>

FanTurnedOn ==
    /\ Replies("fan_on.G", "G", "on")
    /\ fanOn' = IF Ok THEN Unset ELSE fanOn
    /\ compOn' = IF Ok THEN FanBefore ELSE compOn
    /\ RetryUnless(Ok)
    /\ Return("compressor")
    /\ UNCHANGED <<settings, earliest, fanOff, lag, success, reqReady>>

\* Mutant of ValveLevel: the valve is set for the other mode.
ValveLevelReversed == IF mode = "heat" THEN "on" ELSE "off"

\* What the reversing valve is set to for the wanted mode.
ValveLevel == IF mode = "cool" THEN "on" ELSE "off"

CompressorTimer ==
    /\ pc = "compressor"
    /\ timeout' = TakeIn(timeout, compOn)
    /\ IF Passed(compOn) THEN Call("OB", ValveLevel, "on.OB")
                         ELSE pc' = "fan_off" /\ UNCHANGED ctl
    /\ UNCHANGED <<settings, timers, lag, success, reqReady, acked>>

ReversingSet ==
    /\ Replies("on.OB", "OB", ValveLevel)
    /\ success' = Ok
    /\ Call("Y1", "on", "on.Y1")
    /\ UNCHANGED <<settings, timers, timeout, lag, reqReady>>

\* Mutant of CompressorDone: the timer is cleared whatever the results.
CompressorDoneAnyway(on) == compOn' = Unset

CompressorDone(on) == compOn' = IF on THEN Unset ELSE compOn

CompressorTurnedOn ==
    /\ Replies("on.Y1", "Y1", "on")
    /\ CompressorDone(success /\ Ok)
    /\ IF success /\ Ok THEN Return("fan_off") ELSE Call("Y1", "off", "undo.Y1")
    /\ success' = TRUE
    /\ UNCHANGED <<settings, earliest, fanOn, fanOff, timeout, lag, reqReady>>

\* A compressor that did not turn on is turned off; the results are ignored.
CompressorUndone ==
    /\ Replies("undo.Y1", "Y1", "off")
    /\ Call("OB", "off", "undo.OB")
    /\ UNCHANGED <<settings, timers, timeout, lag, success, reqReady>>

\* Mutant of RetryLater: the timer is left to the next message.
NoRetryLater == UNCHANGED timeout

\* A start that was undone is tried again.
RetryLater == timeout' = Retry

ReversingUndone ==
    /\ Replies("undo.OB", "OB", "off")
    /\ RetryLater
    /\ Return("fan_off")
    /\ UNCHANGED <<settings, timers, lag, success, reqReady>>

\* Mutant of KeepFanOn: the timer stays set.
KeepFanOnForNow == UNCHANGED fanOff

\* A fan that was to turn off is to stay on.
KeepFanOn == fanOff' = Unset

FanOffTimer ==
    /\ pc = "fan_off"
    /\ timeout' = TakeIn(timeout, fanOff)
    /\ \/ /\ Passed(fanOff) /\ fanAlways
          /\ KeepFanOn
          /\ pc' = "loop"
          /\ UNCHANGED <<earliest, ctl>>
       \/ /\ Passed(fanOff) /\ ~fanAlways
          /\ earliest' = ShutoffDelay
          /\ Call("G", "off", "fan_off.G")
          /\ UNCHANGED fanOff
       \/ /\ ~Passed(fanOff)
          /\ pc' = "poll"
          /\ UNCHANGED <<earliest, fanOff, ctl>>
    /\ UNCHANGED <<settings, fanOn, compOn, lag, success, reqReady, acked>>

FanTurnedOff ==
    /\ Replies("fan_off.G", "G", "off")
    /\ fanOff' = IF Ok THEN Unset ELSE fanOff
    /\ RetryUnless(Ok)
    /\ Return("poll")
    /\ UNCHANGED <<settings, earliest, fanOn, compOn, lag, success, reqReady>>
----------------------------------------------------------------------------
(* main: zmq_poll.                                                         *)

PollTimedOut ==
    /\ pc = "poll"
    /\ timeout = 0
    /\ pc' = "loop"
    /\ UNCHANGED <<settings, timers, timeout, lag, success, reqReady, ctl, acked>>

\* The report and the request that are in are handled in this order, after
\* ts_now is read; a new subscriber only ends the sleep.
PollReady ==
    /\ pc = "poll"
    /\ ReadClock
    /\ timeout' = Unset
    /\ \/ pc' = "weather" /\ reqReady' \in BOOLEAN
       \/ pc' \in {"goals", "loop"} /\ reqReady' = FALSE
    /\ UNCHANGED <<settings, success, ctl, acked>>
----------------------------------------------------------------------------
(* read_weather and do_tstat_logic.                                        *)

\* The mode that a temperature calls for; the mode itself when it calls for no
\* change.
Wanted(m, temp, g) ==
    CASE m = "cool" /\ temp < g.high - g.hyst -> "off"
      [] m = "heat" /\ temp > g.low + g.hyst  -> "off"
      [] m = "off"  /\ temp > g.high + g.hyst -> "cool"
      [] m = "off"  /\ temp < g.low - g.hyst /\ ~(temp > g.high + g.hyst)
                                              -> "heat"
      [] OTHER -> m

\* The report is dealt with; the request that came in with it is next.
Handled ==
    /\ pc' = IF reqReady THEN "goals" ELSE "loop"
    /\ reqReady' = FALSE

\* do_compressor_on.
CompressorOn(m) ==
    /\ mode' = m
    /\ IF IsSet(fanOff) THEN compOn' = earliest /\ KeepFanOn /\ UNCHANGED fanOn
                        ELSE fanOn' = earliest /\ UNCHANGED <<compOn, fanOff>>
    /\ Handled
    /\ UNCHANGED <<earliest, ctl>>

\* Mutant of CancelCompressor: the fan is left on.
CancelCompressorOnly == compOn' = Unset /\ UNCHANGED fanOff

\* The compressor has not turned on yet: just stop the fan.
CancelCompressor == compOn' = Unset /\ fanOff' = 0

\* do_compressor_off, up to the first command when there is one.
CompressorOff ==
    \/ /\ IsSet(fanOn) \/ IsSet(compOn)
       /\ fanOn' = Unset
       /\ IF IsSet(fanOn) THEN UNCHANGED <<compOn, fanOff>> ELSE CancelCompressor
       /\ mode' = "off"
       /\ Handled
       /\ UNCHANGED <<earliest, ctl>>
    \/ /\ ~IsSet(fanOn) /\ ~IsSet(compOn)
       /\ Call("Y1", "off", "off.Y1")
       /\ UNCHANGED <<mode, timers, reqReady>>

\* An event may also carry no temperature, which changes as little as one that
\* suits the mode.
ReadWeather ==
    /\ pc = "weather"
    /\ \/ \E temp \in Temps :
             LET m == Wanted(mode, temp, goal)
             IN \/ m # "off" /\ mode = "off" /\ CompressorOn(m)
                \/ m = "off" /\ mode # "off" /\ CompressorOff
       \/ Handled /\ UNCHANGED <<mode, timers, ctl>>
    /\ UNCHANGED <<fanAlways, goal, timeout, lag, success, acked>>

\* Mutant of CompressorTurnedOff: the second command does not wait for the reply
\* to the first.
CompressorTurnedOffEarly ==
    /\ pc = "off.Y1"
    /\ Call("OB", "off", "off.OB")
    /\ UNCHANGED <<settings, timers, timeout, lag, success, reqReady, acked>>

CompressorTurnedOff ==
    /\ Replies("off.Y1", "Y1", "off")
    /\ success' = Ok
    /\ Call("OB", "off", "off.OB")
    /\ UNCHANGED <<settings, timers, timeout, lag, reqReady>>

\* The fan's time runs from a new clock reading, the lockout's from ts_now.
ReversingTurnedOff ==
    /\ Replies("off.OB", "OB", "off")
    /\ mode' = IF success /\ Ok THEN "off" ELSE mode
    /\ fanOff' = IF success /\ Ok THEN FanAfter + lag ELSE fanOff
    /\ earliest' = ShutoffDelay
    /\ ctl' = [ctl EXCEPT ![Me] = Idle]
    /\ Handled
    /\ success' = TRUE
    /\ UNCHANGED <<fanAlways, goal, fanOn, compOn, timeout, lag>>
----------------------------------------------------------------------------
(* handle_req and tstat_set_fan_always_on.                                 *)

\* Mutant of FanNotNeeded: the fan is turned off on request whatever the mode.
FanNeverNeeded == TRUE

\* Nothing but fan_always_on keeps the fan on.
FanNotNeeded == mode = "off" /\ ~IsSet(fanOff)

\* A request may name any of the three numbers of a goal and a fan mode, which
\* is acted on when it differs.
HandleReq ==
    /\ pc = "goals"
    /\ \E g \in Goals : goal' \in [low  : {goal.low, g.low},
                                  high : {goal.high, g.high},
                                  hyst : {goal.hyst, g.hyst}]
    /\ \/ pc' = "loop" /\ UNCHANGED <<fanAlways, ctl>>
       \/ /\ ~fanAlways /\ TRUE \in FanModes
          /\ Call("G", "on", "goals.on")
          /\ UNCHANGED fanAlways
       \/ /\ fanAlways /\ FALSE \in FanModes
          /\ fanAlways' = FALSE
          /\ IF FanNotNeeded THEN Call("G", "off", "goals.off")
                             ELSE pc' = "loop" /\ UNCHANGED ctl
    /\ UNCHANGED <<mode, timers, timeout, lag, success, reqReady, acked>>

FanSetOn ==
    /\ Replies("goals.on", "G", "on")
    /\ fanAlways' = Ok
    /\ Return("loop")
    /\ UNCHANGED <<mode, goal, timers, timeout, lag, success, reqReady>>

FanSetOff ==
    /\ Replies("goals.off", "G", "off")
    /\ Return("loop")
    /\ UNCHANGED <<settings, timers, timeout, lag, success, reqReady>>
----------------------------------------------------------------------------
(* What happens around the thread.                                         *)

\* The memory of a process that is not there: what main initialises it to.
Blank ==
    /\ mode' = "off" /\ fanAlways' = FALSE
    /\ earliest' = Unset
    /\ fanOn' = Unset /\ compOn' = Unset /\ fanOff' = Unset
    /\ timeout' = Unset /\ lag' = 0
    /\ success' = TRUE /\ reqReady' = FALSE

\* The process dies; its socket, and the exchange on it, go with it.
Crash ==
    /\ MayCrash
    /\ pc # "down"
    /\ pc' = "down"
    /\ ctl' = [ctl EXCEPT ![Me] = Idle]
    /\ Blank
    /\ UNCHANGED <<goal, acked>>

Stuck == pc = "down" \/ ctl[Me].st = "lost"

\* A tick.  zmq_poll sleeps until its timeout; past it, and anywhere else, MaxLag
\* ticks at most go by between clock readings, unless a reply is lost.
TstatTick ==
    /\ \/ /\ pc = "poll" /\ timeout # 0
          /\ TimersLater(1)
          /\ timeout' = Later(timeout, 1)
          /\ UNCHANGED lag
       \/ /\ pc # "poll" \/ timeout = 0
          /\ ~Stuck /\ lag < MaxLag
          /\ lag' = lag + 1
          /\ UNCHANGED <<timers, timeout>>
       \/ /\ Stuck
          /\ UNCHANGED <<timers, timeout, lag>>
    /\ UNCHANGED <<pc, settings, success, reqReady, acked>>
----------------------------------------------------------------------------
Init ==
    /\ pc = "down" /\ mode = "off" /\ fanAlways = FALSE
    /\ goal \in Goals
    /\ earliest = Unset /\ fanOn = Unset /\ compOn = Unset /\ fanOff = Unset
    /\ timeout = Unset /\ lag = 0
    /\ success = TRUE /\ reqReady = FALSE
    /\ ctl = [c \in Clients |-> Idle]
    /\ acked = [w \in Wires |-> "unknown"]

\* The thread's own steps.
Thread ==
    \/ Start \/ Started
    \/ FanOnTimer \/ FanTurnedOn
    \/ CompressorTimer \/ ReversingSet \/ CompressorTurnedOn
    \/ CompressorUndone \/ ReversingUndone
    \/ FanOffTimer \/ FanTurnedOff
    \/ PollTimedOut
    \/ ReadWeather \/ CompressorTurnedOff \/ ReversingTurnedOff
    \/ HandleReq \/ FanSetOn \/ FanSetOff

\* The hardware controller, as the thermostat may rely on it: it takes a
\* command and answers it, or at any point it dies and the exchange is lost.
HwStep ==
    /\ \/ /\ ctl[Me].st = "sent"
          /\ ctl' = [ctl EXCEPT ![Me] = Taken]
       \/ /\ ctl[Me].st = "taken"
          /\ \E ok \in BOOLEAN : ctl' = [ctl EXCEPT ![Me] = Replied(<<ok>>)]
       \/ /\ ctl[Me].st \in {"sent", "taken", "replied"}
          /\ ctl' = [ctl EXCEPT ![Me] = Lost]
    /\ UNCHANGED <<pc, settings, timers, timeout, lag, success, reqReady, acked>>

Next ==
    \/ Thread
    \/ PollReady
    \/ Crash
    \/ HwStep
    \/ TstatTick /\ UNCHANGED ctl

Spec == Init /\ [][Next]_tstatVars
----------------------------------------------------------------------------
(* Properties.                                                             *)

\* Every variable has its type, and times stay within the longest delay.
Time == {Unset, Overdue} \cup Nat
TypeOK ==
    /\ pc \in {"down"} \cup Running \cup Waiting
    /\ mode \in {"off", "cool", "heat"}
    /\ fanAlways \in BOOLEAN
    /\ goal \in [low : Int, high : Int, hyst : Int]
    /\ earliest \in Time /\ fanOn \in Time /\ compOn \in Time /\ fanOff \in Time
    /\ timeout \in Time \ {Overdue}
    /\ lag \in 0..MaxLag
    /\ success \in BOOLEAN /\ reqReady \in BOOLEAN
    /\ ctl \in [Clients -> Exchange]
    /\ acked \in [Wires -> Tristate]

\* The three timers are steps of one plan, so the mode and the timers agree in
\* every state, between any two commands of an exchange and after any refusal:
\* one timer at most; the fan is to go off only when no heat is wanted, and it
\* or the compressor is to go on only when some is (tstat.c:115-164, 325-372).
TimersMatchMode ==
    /\ IsSet(fanOn) => ~IsSet(compOn) /\ ~IsSet(fanOff)
    /\ IsSet(compOn) => ~IsSet(fanOff)
    /\ mode = "off" => ~IsSet(fanOn) /\ ~IsSet(compOn)
    /\ mode # "off" => ~IsSet(fanOff)

\* The thread never sleeps past a timer that is set, but for a retry's delay:
\* none of the assignments to ts_timeout loses another's (tstat.c:323-381).
NoLostWakeup ==
    pc = "poll" =>
        \A t \in {fanOn, compOn, fanOff} :
            IsSet(t) => IsSet(timeout) /\ (timeout <= t \/ timeout <= Retry)

\* The compressor is never asked for while the fan's last confirmed level is
\* not on, whatever was cancelled, refused or set by request in between.
CompressorNeedsFan ==
    pc \in {"on.OB", "on.Y1"} => acked["G"] = "on"

\* "Fan hasn't turned on yet, just cancel it" (tstat.c:120): when the turning on
\* of the fan is cancelled and the fan is not meant to be always on, the fan
\* is not on.
CancelledFanIsOff ==
    [][IsSet(fanOn) /\ ~fanAlways /\ mode # "off" /\ mode' = "off" /\ pc' # "down"
          => acked["G"] # "on"]_tstatVars
=============================================================================
